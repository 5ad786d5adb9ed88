-------------------------- MODULE LabClientProofs --------------------------
(***************************************************************************)
(* The invariants of the lab client, for any number of URIs and any memo   *)
(* table.  They rest on the tokens: at most MEMOS_MAX are in the table, one*)
(* is kept of the observation and one is about to be sent, so that a fresh *)
(* one is left, and no two memos ever have the same.                       *)
(***************************************************************************)
EXTENDS LabClient, WellFoundedInduction, FiniteSetTheorems, TLAPS

USE MemosAssumption

Memo == [command : Commands \cup {"notified"}, token : Tokens, to : Remotes,
         uri : Names, begun : Uris, timer : BOOLEAN]

ShellTyped ==
  shell \in {Prompt}
     \cup [at : {"resolving"}, command : Commands, uri : Uris]
     \cup [at : {"resolving"}, command : {"proxy"}]
     \cup [at : {"sending"}, command : Commands, token : Tokens]

FlagsTyped ==
  /\ _last_req_uri \in Names
  /\ _proxy_uri \in BOOLEAN /\ _proxy_remote \in Remotes
  /\ observing \in BOOLEAN /\ obs_req_token \in Tokens

MemosTyped ==
  memos \subseteq Memo /\ IsFiniteSet(memos) /\ Cardinality(memos) <= MEMOS_MAX

(* What is about to be sent has a URI, not a bare host.                    *)
SendsUri == shell.at = "sending" => _last_req_uri \in Uris

TypeInv == ShellTyped /\ FlagsTyped /\ MemosTyped /\ SendsUri

LEMMA TypeInvTyped == TypeInv => TypeOK
BY DEF TypeInv, TypeOK, ShellTyped, FlagsTyped, MemosTyped, Memo

-----------------------------------------------------------------------------
(* Tokens.                                                                 *)
LEMMA LeastNatural ==
  ASSUME NEW S \in SUBSET Nat, S # {}
  PROVE  Min(S) \in S
<1> DEFINE R == {p \in Nat \X Nat : p[1] < p[2]}
<1>1. IsWellFoundedOn(R, Nat)
  BY NatLessThanWellFounded DEF OpToRel
<1>2. \A x, y \in Nat : <<y, x>> \in R <=> y < x
  OBVIOUS
<1> HIDE DEF R
<1>3. PICK x \in S : \A y \in S : ~ (<<y, x>> \in R)
  BY <1>1, WFMin
<1>4. ASSUME NEW y \in S PROVE x <= y
  <2>1. ~ (<<y, x>> \in R) /\ x \in Nat /\ y \in Nat
    BY <1>3
  <2>2. ~ (y < x)
    BY <1>2, <2>1
  <2> QED  BY <2>1, <2>2
<1>5. \E z \in S : \A y \in S : z <= y
  BY <1>4
<1> QED  BY <1>5 DEF Min

LEMMA OneMore ==
  ASSUME NEW S, IsFiniteSet(S), NEW x
  PROVE  /\ IsFiniteSet(S \cup {x}) /\ Cardinality(S \cup {x}) <= Cardinality(S) + 1
         /\ Cardinality(S) \in Nat /\ Cardinality(S \cup {x}) \in Nat
<1>1. /\ IsFiniteSet(S \cup {x}) /\ Cardinality(S) \in Nat
      /\ Cardinality(S \cup {x}) = IF x \in S THEN Cardinality(S) ELSE Cardinality(S) + 1
  BY FS_AddElement, FS_CardinalityType
<1> QED  BY <1>1

TokensOf == {m.token : m \in memos}

LEMMA TokensCounted ==
  ASSUME MemosTyped
  PROVE  /\ IsFiniteSet(TokensOf) /\ Cardinality(TokensOf) \in Nat
         /\ Cardinality(TokensOf) <= MEMOS_MAX
<1> DEFINE f == [m \in memos |-> m.token]
<1>1. f \in Surjection(memos, TokensOf)
  BY DEF Surjection, TokensOf
<1>2. IsFiniteSet(TokensOf) /\ Cardinality(TokensOf) <= Cardinality(memos)
  BY <1>1, FS_Surjection DEF MemosTyped
<1>3. Cardinality(TokensOf) \in Nat /\ Cardinality(memos) \in Nat
  BY <1>2, FS_CardinalityType DEF MemosTyped
<1> QED  BY <1>2, <1>3 DEF MemosTyped

(* However full the table, a token is left.                                *)
LEMMA FreshTokenFresh ==
  ASSUME TypeInv
  PROVE  /\ FreshToken \in Tokens /\ FreshToken # obs_req_token
         /\ \A m \in memos : m.token # FreshToken
         /\ shell.at = "sending" => shell.token # FreshToken
<1> DEFINE sent == IF shell.at = "sending" THEN shell.token ELSE obs_req_token
           used == (TokensOf \cup {obs_req_token}) \cup {sent}
           Free == {t \in Tokens : /\ \A m \in memos : m.token # t
                                   /\ obs_req_token # t
                                   /\ shell.at = "sending" => shell.token # t}
<1>1. /\ IsFiniteSet(TokensOf) /\ Cardinality(TokensOf) \in Nat
      /\ Cardinality(TokensOf) <= MEMOS_MAX
  BY TokensCounted DEF TypeInv
<1>2. /\ IsFiniteSet(TokensOf \cup {obs_req_token})
      /\ Cardinality(TokensOf \cup {obs_req_token}) \in Nat
      /\ Cardinality(TokensOf \cup {obs_req_token}) <= MEMOS_MAX + 1
  BY <1>1, FS_AddElement
<1>3. IsFiniteSet(used) /\ Cardinality(used) <= MEMOS_MAX + 2 /\ Cardinality(used) \in Nat
  BY <1>2, FS_AddElement
<1>4. IsFiniteSet(Tokens) /\ Cardinality(Tokens) = MEMOS_MAX + 3
  BY FS_Interval DEF Tokens
<1>5. ~ (Tokens \subseteq used)
  <2> HIDE DEF used
  <2>1. Tokens \subseteq used => Cardinality(Tokens) <= Cardinality(used)
    BY <1>3, FS_Subset
  <2> QED  BY <1>3, <1>4, <2>1
<1>6. PICK t \in Tokens : t \notin used
  BY <1>5
<1>7. t \in Free
  BY <1>6 DEF TokensOf
<1>8. Tokens \subseteq Nat
  BY DEF Tokens
<1>9. Min(Free) \in Free
  <2>1. Free \subseteq Tokens
    OBVIOUS
  <2> HIDE DEF Free
  <2>2. Free \in SUBSET Nat /\ Free # {}
    BY <1>7, <1>8, <2>1
  <2> QED  BY <2>2, LeastNatural
<1> QED  BY <1>9 DEF FreshToken

-----------------------------------------------------------------------------
(* The memo table.                                                         *)
Answers(m, more, notification) ==
  (memos \ {m}) \cup {k \in {[m EXCEPT !.timer = FALSE]} : notification}
                \cup (IF more THEN NextBlock(m) ELSE {})

LEMMA UntimedTyped ==
  ASSUME NEW m \in Memo
  PROVE  LET k == [m EXCEPT !.timer = FALSE]
         IN  /\ k \in Memo /\ k.command = m.command /\ k.token = m.token
             /\ k.uri = m.uri /\ k.begun = m.begun /\ k.timer = FALSE
BY DEF Memo

LEMMA LessMemos ==
  ASSUME MemosTyped, NEW m \in memos, memos' = memos \ {m}
  PROVE  MemosTyped'
<1>1. /\ IsFiniteSet(memos \ {m}) /\ Cardinality(memos \ {m}) = Cardinality(memos) - 1
      /\ Cardinality(memos) \in Nat
  BY FS_RemoveElement, FS_CardinalityType DEF MemosTyped
<1> QED  BY <1>1 DEF MemosTyped

LEMMA MoreMemos ==
  ASSUME MemosTyped, NEW k \in Memo, Room, memos' = memos \cup {k}
  PROVE  MemosTyped'
<1>1. /\ IsFiniteSet(memos \cup {k}) /\ Cardinality(memos \cup {k}) <= Cardinality(memos) + 1
      /\ Cardinality(memos) \in Nat /\ Cardinality(memos \cup {k}) \in Nat
  BY OneMore DEF MemosTyped
<1> QED  BY <1>1 DEF MemosTyped, Room

(* An answer takes a memo away, may put it back without its timer, and may *)
(* add one for the next block.                                             *)
LEMMA NextBlockTyped ==
  ASSUME TypeInv, NEW m \in memos
  PROVE  \/ NextBlock(m) = {}
         \/ /\ Room
            /\ \E k \in Memo :
                 /\ NextBlock(m) = {k} /\ k.token = FreshToken /\ k.timer = TRUE
                 /\ k.uri = _last_req_uri /\ k.begun = m.begun
                 /\ k.command = IF m.timer /\ m.command # "notified"
                                THEN "request" ELSE "notified"
<1> DEFINE command == IF m.timer /\ m.command # "notified" THEN "request" ELSE "notified"
           k == Request(command, FreshToken, m.to, _last_req_uri, m.begun)
<1>1. m \in Memo /\ _last_req_uri \in Names
  BY DEF TypeInv, MemosTyped, FlagsTyped
<1>2. /\ command \in Commands \cup {"notified"} /\ FreshToken \in Tokens
      /\ m.to \in Remotes /\ m.begun \in Uris
  BY <1>1, FreshTokenFresh DEF Commands, Memo
<1>3. k \in Memo /\ k.command = command /\ k.token = FreshToken
      /\ k.uri = _last_req_uri /\ k.begun = m.begun /\ k.timer = TRUE
  <2> HIDE DEF command
  <2>1. /\ command \in Commands \cup {"notified"} /\ FreshToken \in Tokens
        /\ m.to \in Remotes /\ m.begun \in Uris /\ _last_req_uri \in Names
    BY <1>1, <1>2
  <2> HIDE DEF k
  <2>2. k = Request(command, FreshToken, m.to, _last_req_uri, m.begun)
    BY DEF k
  <2> QED  BY <2>1, <2>2 DEF Request, Memo
<1>4. NextBlock(m) = IF Room THEN {k} ELSE {}
  BY DEF NextBlock
<1> HIDE DEF k
<1> QED  BY <1>3, <1>4

LEMMA AnswersTyped ==
  ASSUME TypeInv, NEW m \in memos, NEW more \in BOOLEAN,
         NEW notification \in BOOLEAN, memos' = Answers(m, more, notification)
  PROVE  MemosTyped'
<1> DEFINE u == [m EXCEPT !.timer = FALSE]
           kept == (memos \ {m}) \cup {k \in {u} : notification}
<1>1. m \in Memo /\ u \in Memo /\ MemosTyped
  BY UntimedTyped DEF TypeInv, MemosTyped
<1>2. /\ IsFiniteSet(memos \ {m}) /\ Cardinality(memos \ {m}) = Cardinality(memos) - 1
      /\ Cardinality(memos) \in Nat /\ Cardinality(memos \ {m}) \in Nat
  BY FS_RemoveElement, FS_CardinalityType DEF TypeInv, MemosTyped
<1>3. /\ IsFiniteSet((memos \ {m}) \cup {u})
      /\ Cardinality((memos \ {m}) \cup {u}) <= Cardinality(memos \ {m}) + 1
      /\ Cardinality((memos \ {m}) \cup {u}) \in Nat
  <2> HIDE DEF u
  <2> QED  BY <1>2, OneMore
<1>4. kept = IF notification THEN (memos \ {m}) \cup {u} ELSE memos \ {m}
  OBVIOUS
<1>5. /\ kept \subseteq Memo /\ IsFiniteSet(kept) /\ Cardinality(kept) \in Nat
      /\ Cardinality(kept) <= Cardinality(memos)
  <2> HIDE DEF u, kept
  <2> QED  BY <1>1, <1>2, <1>3, <1>4 DEF MemosTyped
<1> HIDE DEF kept
<1>6. CASE memos' = kept
  BY <1>1, <1>2, <1>5, <1>6 DEF MemosTyped
<1>7. ASSUME NEW k \in Memo, Room, memos' = kept \cup {k}
      PROVE  MemosTyped'
  <2>1. /\ IsFiniteSet(kept \cup {k}) /\ Cardinality(kept \cup {k}) <= Cardinality(kept) + 1
        /\ Cardinality(kept \cup {k}) \in Nat
    BY <1>5, OneMore
  <2> QED  BY <1>2, <1>5, <1>7, <2>1 DEF MemosTyped, Room
<1>8. memos' = kept \cup (IF more THEN NextBlock(m) ELSE {})
  BY DEF Answers, kept
<1>9. CASE ~more \/ NextBlock(m) = {}
  BY <1>6, <1>8, <1>9
<1>10. CASE more /\ NextBlock(m) # {}
  BY <1>7, <1>8, <1>10, NextBlockTyped
<1> QED  BY <1>9, <1>10

-----------------------------------------------------------------------------
(* The inductive invariant.                                                *)

(* A token names one request.                                              *)
TokensInv ==
  /\ \A m, k \in memos : m.token = k.token => m = k
  /\ shell.at = "sending" => \A m \in memos : m.token # shell.token

(* A registration is only under way without an observation, so that the    *)
(* token kept is that of the registration the table has.                   *)
ObservationInv ==
  /\ shell.at \in {"resolving", "sending"} /\ shell.command = "register" => ~observing
  /\ shell.at = "sending" /\ shell.command \in {"register", "deregister"}
       => shell.token = obs_req_token
  /\ \A m \in memos : m.command = "register" => observing /\ m.token = obs_req_token

ClientInv == TypeInv /\ TokensInv /\ ObservationInv

LEMMA ShellCases ==
  ASSUME ShellTyped
  PROVE  /\ Prompt.at = "prompt"
         /\ shell.at \in {"prompt", "resolving", "sending"}
         /\ shell.at = "resolving" /\ shell.command # "proxy"
              => shell.command \in Commands /\ shell.uri \in Uris
         /\ shell.at = "sending" => shell.command \in Commands /\ shell.token \in Tokens
BY DEF ShellTyped, Prompt

LEMMA ClientInvInit == Init => ClientInv
<1> SUFFICES ASSUME Init PROVE ClientInv
  OBVIOUS
<1>1. shell.at = "prompt" /\ memos = {}
  BY DEF Init, Prompt
<1>2. IsFiniteSet(memos) /\ Cardinality(memos) = 0
  BY <1>1, FS_EmptySet
<1>3. MemosTyped
  BY <1>1, <1>2 DEF MemosTyped
<1>4. ShellTyped /\ SendsUri
  BY <1>1 DEF Init, ShellTyped, SendsUri
<1>5. FlagsTyped
  <2>1. 1 \in Tokens /\ "none" \in Remotes /\ Host \in Names
    BY DEF Tokens, Remotes, Names
  <2> QED  BY <2>1 DEF Init, FlagsTyped
<1> QED
  BY <1>1, <1>3, <1>4, <1>5 DEF ClientInv, TypeInv, TokensInv, ObservationInv

(* A step of the shell that leaves gcoap alone and is not about to send.   *)
LEMMA PromptKept ==
  ASSUME ClientInv, shell' = Prompt, FlagsTyped', UNCHANGED <<memos, observeVars>>
  PROVE  ClientInv'
<1>1. shell'.at = "prompt"
  BY DEF Prompt
<1>2. TypeInv'
  BY <1>1 DEF ClientInv, TypeInv, ShellTyped, MemosTyped, SendsUri
<1>3. TokensInv' /\ ObservationInv'
  BY <1>1 DEF ClientInv, TokensInv, ObservationInv, observeVars
<1> QED  BY <1>2, <1>3 DEF ClientInv

LEMMA RequestStartKept ==
  ASSUME ClientInv, NEW command \in Commands, NEW uri \in Uris,
         RequestStart(command, uri)
  PROVE  ClientInv'
<1>1. /\ shell' = [at |-> "resolving", command |-> command, uri |-> uri]
      /\ shell'.at = "resolving" /\ shell'.command = command /\ shell'.uri = uri
      /\ command = "register" => ~observing
      /\ _last_req_uri' = Host /\ UNCHANGED <<memos, proxyVars, observeVars>>
  BY DEF RequestStart
<1>2. TypeInv'
  BY <1>1 DEF ClientInv, TypeInv, ShellTyped, FlagsTyped, MemosTyped, SendsUri, Names,
     proxyVars, observeVars
<1>3. TokensInv' /\ ObservationInv'
  BY <1>1 DEF ClientInv, TokensInv, ObservationInv, observeVars
<1> QED  BY <1>2, <1>3 DEF ClientInv

LEMMA ProxyKept ==
  ASSUME ClientInv, ProxyStart \/ ProxyUnset \/ Unresolved \/ ProxyResolved
  PROVE  ClientInv'
<1>1. CASE ProxyStart
  <2>1. /\ shell' = [at |-> "resolving", command |-> "proxy"] /\ _proxy_uri' = TRUE
        /\ shell'.at = "resolving" /\ shell'.command = "proxy"
        /\ UNCHANGED <<memos, observeVars, _last_req_uri, _proxy_remote>>
    BY <1>1 DEF ProxyStart
  <2>2. TypeInv'
    BY <2>1 DEF ClientInv, TypeInv, ShellTyped, FlagsTyped, MemosTyped, SendsUri,
       observeVars
  <2>3. TokensInv' /\ ObservationInv'
    BY <2>1 DEF ClientInv, TokensInv, ObservationInv, observeVars
  <2> QED  BY <2>2, <2>3 DEF ClientInv
<1>2. CASE ProxyUnset
  <2>1. /\ shell' = Prompt /\ FlagsTyped' /\ UNCHANGED <<memos, observeVars, _last_req_uri>>
    BY <1>2 DEF ProxyUnset, ClientInv, TypeInv, FlagsTyped, observeVars, Remotes
  <2> QED  BY <2>1, PromptKept
<1>3. CASE Unresolved
  <2>1. /\ shell' = Prompt /\ FlagsTyped' /\ UNCHANGED <<memos, observeVars, _last_req_uri>>
    BY <1>3 DEF Unresolved, ClientInv, TypeInv, FlagsTyped, observeVars, Remotes
  <2> QED  BY <2>1, PromptKept
<1>4. CASE ProxyResolved
  <2>1. /\ shell' = Prompt /\ FlagsTyped' /\ UNCHANGED <<memos, observeVars, _last_req_uri>>
    BY <1>4 DEF ProxyResolved, ClientInv, TypeInv, FlagsTyped, observeVars, Remotes
  <2> QED  BY <2>1, PromptKept
<1> QED  BY <1>1, <1>2, <1>3, <1>4

LEMMA RequestResolvedKept ==
  ASSUME ClientInv, RequestResolved
  PROVE  ClientInv'
<1>1. /\ shell.at = "resolving" /\ shell.command # "proxy"
      /\ shell.command \in Commands /\ shell.uri \in Uris /\ _last_req_uri' = shell.uri
      /\ UNCHANGED <<_proxy_uri, _proxy_remote, observing>>
  BY ShellCases DEF RequestResolved, ClientInv, TypeInv, proxyVars
<1>2. /\ FreshToken \in Tokens /\ \A m \in memos : m.token # FreshToken
  BY FreshTokenFresh DEF ClientInv
<1>3. _last_req_uri' \in Names
  BY <1>1 DEF Names
<1>4. ASSUME NEW token \in Tokens,
             shell' = [at |-> "sending", command |-> shell.command, token |-> token],
             \A m \in memos' : m.token # token,
             obs_req_token' \in Tokens, memos' \subseteq memos, MemosTyped',
             shell.command \in {"register", "deregister"} => token = obs_req_token',
             \A m \in memos' : m.command = "register" => observing /\ m.token = obs_req_token'
      PROVE  ClientInv'
  <2>1. /\ shell'.at = "sending" /\ shell'.command = shell.command
        /\ shell'.token = token
    BY <1>4
  <2>2. TypeInv'
    BY <1>1, <1>3, <1>4, <2>1 DEF ClientInv, TypeInv, ShellTyped, FlagsTyped, SendsUri
  <2>3. TokensInv'
    BY <1>4, <2>1 DEF ClientInv, TokensInv
  <2>4. ObservationInv'
    BY <1>1, <1>4, <2>1 DEF ClientInv, ObservationInv
  <2> QED  BY <2>2, <2>3, <2>4 DEF ClientInv
<1>5. CASE shell.command = "request"
  <2>1. /\ shell' = [at |-> "sending", command |-> shell.command, token |-> FreshToken]
        /\ UNCHANGED <<obs_req_token, memos>>
    BY <1>5 DEF RequestResolved
  <2>2. MemosTyped' /\ obs_req_token' \in Tokens
    BY <2>1 DEF ClientInv, TypeInv, MemosTyped, FlagsTyped
  <2>3. \A m \in memos' : m.command = "register" => observing /\ m.token = obs_req_token'
    BY <2>1 DEF ClientInv, ObservationInv
  <2> QED  BY <1>2, <1>4, <1>5, <2>1, <2>2, <2>3
<1>6. CASE shell.command = "register"
  <2>1. /\ shell' = [at |-> "sending", command |-> shell.command, token |-> FreshToken]
        /\ obs_req_token' = FreshToken /\ UNCHANGED memos
    BY <1>6 DEF RequestResolved
  <2>2. MemosTyped' /\ obs_req_token' \in Tokens
    BY <1>2, <2>1 DEF ClientInv, TypeInv, MemosTyped
  <2>3. \A m \in memos' : m.command # "register"
    BY <1>1, <1>6, <2>1 DEF ClientInv, ObservationInv
  <2> QED  BY <1>2, <1>4, <1>6, <2>1, <2>2, <2>3
<1>7. CASE shell.command = "deregister" /\ Forgotten = {}
  <2>1. shell' = Prompt /\ UNCHANGED <<memos, obs_req_token>>
    BY <1>7 DEF RequestResolved
  <2>2. FlagsTyped' /\ UNCHANGED observeVars
    BY <1>1, <1>3, <2>1 DEF ClientInv, TypeInv, FlagsTyped, observeVars
  <2> QED  BY <2>1, <2>2, PromptKept
<1>8. CASE shell.command = "deregister" /\ Forgotten # {}
  <2>1. PICK m \in Forgotten :
          /\ shell' = [at |-> "sending", command |-> shell.command,
                       token |-> obs_req_token]
          /\ memos' = memos \ {m} /\ obs_req_token' = obs_req_token
    BY <1>8 DEF RequestResolved
  <2>2. m \in memos /\ m.token = obs_req_token
    BY DEF Forgotten
  <2>3. MemosTyped' /\ obs_req_token' \in Tokens
    BY <2>1, <2>2, LessMemos DEF ClientInv, TypeInv, FlagsTyped
  <2>4. \A k \in memos' : k.token # obs_req_token
    BY <2>1, <2>2 DEF ClientInv, TokensInv
  <2>5. \A k \in memos' : k.command = "register" => observing /\ k.token = obs_req_token'
    BY <2>1 DEF ClientInv, ObservationInv
  <2> QED  BY <1>4, <1>8, <2>1, <2>3, <2>4, <2>5
<1> QED  BY <1>1, <1>5, <1>6, <1>7, <1>8 DEF Commands

LEMMA RequestSendKept ==
  ASSUME ClientInv, RequestSend
  PROVE  ClientInv'
<1> DEFINE to == IF _proxy_uri THEN _proxy_remote ELSE "server"
           k == Request(shell.command, shell.token, to, _last_req_uri, _last_req_uri)
<1>1. /\ shell.at = "sending" /\ shell' = Prompt /\ shell'.at = "prompt"
      /\ shell.command \in Commands /\ shell.token \in Tokens /\ _last_req_uri \in Uris
      /\ UNCHANGED <<_last_req_uri, _proxy_uri, _proxy_remote, obs_req_token>>
  BY ShellCases DEF RequestSend, ClientInv, TypeInv, SendsUri, proxyVars
<1>2. CASE UNCHANGED <<observing, memos>>
  <2>1. FlagsTyped' /\ UNCHANGED observeVars
    BY <1>1, <1>2 DEF ClientInv, TypeInv, FlagsTyped, observeVars
  <2> QED  BY <1>1, <1>2, <2>1, PromptKept
<1>3. CASE /\ Room /\ memos' = memos \cup {k}
           /\ observing' = IF shell.command = "request" THEN observing
                           ELSE shell.command = "register"
  <2>1. to \in Remotes /\ _last_req_uri \in Names
    BY <1>1 DEF ClientInv, TypeInv, FlagsTyped, Remotes, Names
  <2>2. /\ k \in Memo /\ k.command = shell.command /\ k.token = shell.token
        /\ k.uri = _last_req_uri /\ k.begun = _last_req_uri
    <3> HIDE DEF to
    <3> QED  BY <1>1, <2>1 DEF Request, Memo
  <2> HIDE DEF k, to
  <2>3. MemosTyped'
    BY <1>3, <2>2, MoreMemos DEF ClientInv, TypeInv
  <2>4. observing' \in BOOLEAN
    BY <1>3 DEF ClientInv, TypeInv, FlagsTyped
  <2>5. TypeInv'
    BY <1>1, <2>3, <2>4 DEF ClientInv, TypeInv, ShellTyped, FlagsTyped, SendsUri
  <2>6. TokensInv'
    BY <1>1, <1>3, <2>2 DEF ClientInv, TokensInv
  <2>7. ASSUME NEW m \in memos, m.command = "register"
        PROVE  observing' /\ m.token = obs_req_token'
    <3>1. observing /\ m.token = obs_req_token /\ m.token # shell.token
      BY <1>1, <2>7 DEF ClientInv, ObservationInv, TokensInv
    <3>2. shell.command = "request"
      BY <1>1, <3>1 DEF ClientInv, ObservationInv, Commands
    <3> QED  BY <1>1, <1>3, <3>1, <3>2
  <2>8. k.command = "register" => observing' /\ k.token = obs_req_token'
    BY <1>1, <1>3, <2>2 DEF ClientInv, ObservationInv
  <2>9. ObservationInv'
    BY <1>1, <1>3, <2>7, <2>8 DEF ObservationInv
  <2> QED  BY <2>5, <2>6, <2>9 DEF ClientInv
<1> QED  BY <1>2, <1>3 DEF RequestSend

LEMMA TimedOutKept ==
  ASSUME ClientInv, NEW m \in memos, TimedOut(m)
  PROVE  ClientInv'
<1>1. /\ memos' = memos \ {m}
      /\ UNCHANGED <<shell, _last_req_uri, _proxy_uri, _proxy_remote, observing,
                     obs_req_token>>
  BY DEF TimedOut, proxyVars, observeVars
<1>2. TypeInv'
  BY <1>1, LessMemos DEF ClientInv, TypeInv, ShellTyped, FlagsTyped, SendsUri
<1>3. TokensInv' /\ ObservationInv'
  BY <1>1 DEF ClientInv, TokensInv, ObservationInv
<1> QED  BY <1>2, <1>3 DEF ClientInv

(* What the table holds after an answer: memos it held, the answered one   *)
(* without its timer, and the next block.                                  *)
LEMMA AnswerMemos ==
  ASSUME ClientInv, NEW m \in memos, NEW more \in BOOLEAN,
         NEW notification \in BOOLEAN, _resp_handler(m, more, notification)
  PROVE  \A k \in memos' :
           \/ k \in memos \ {m}
           \/ /\ k.token = m.token /\ k.command = m.command
              /\ k = [m EXCEPT !.timer = FALSE]
           \/ /\ k.token = FreshToken /\ NextBlock(m) = {k}
              /\ k.command \in {"request", "notified"}
<1>1. memos' = Answers(m, more, notification)
  BY DEF _resp_handler, Answers
<1>2. m \in Memo
  BY DEF ClientInv, TypeInv, MemosTyped
<1>3. ASSUME NEW k \in memos'
      PROVE  \/ k \in memos \ {m} \/ k = [m EXCEPT !.timer = FALSE]
             \/ k \in NextBlock(m)
  BY <1>1, <1>3 DEF Answers
<1>4. ASSUME NEW k, k = [m EXCEPT !.timer = FALSE]
      PROVE  k.token = m.token /\ k.command = m.command
  BY <1>2, <1>4 DEF Memo
<1>5. ASSUME NEW k \in NextBlock(m)
      PROVE  /\ k.token = FreshToken /\ NextBlock(m) = {k}
             /\ k.command \in {"request", "notified"}
  <2>1. PICK j \in Memo :
          /\ NextBlock(m) = {j} /\ j.token = FreshToken
          /\ j.command = IF m.timer /\ m.command # "notified"
                         THEN "request" ELSE "notified"
    BY <1>5, NextBlockTyped DEF ClientInv
  <2>2. k = j
    BY <1>5, <2>1
  <2> QED  BY <2>1, <2>2
<1> QED  BY <1>3, <1>4, <1>5

LEMMA AnswerKept ==
  ASSUME ClientInv, NEW m \in memos, NEW more \in BOOLEAN,
         NEW notification \in BOOLEAN, _resp_handler(m, more, notification)
  PROVE  ClientInv'
<1> DEFINE u == [m EXCEPT !.timer = FALSE]
           Kept(k) == k \in memos \ {m}
           Back(k) == k.token = m.token /\ k.command = m.command /\ k = u
           Further(k) == /\ k.token = FreshToken /\ NextBlock(m) = {k}
                         /\ k.command \in {"request", "notified"}
<1>1. UNCHANGED <<shell, _last_req_uri, _proxy_uri, _proxy_remote, observing,
                  obs_req_token>>
  BY DEF _resp_handler, proxyVars, observeVars
<1>2. \A k \in memos' : Kept(k) \/ Back(k) \/ Further(k)
  BY AnswerMemos
<1>3. /\ \A k \in memos : k.token # FreshToken
      /\ shell.at = "sending" => shell.token # FreshToken
  BY FreshTokenFresh DEF ClientInv
<1>4. TypeInv'
  <2>1. memos' = Answers(m, more, notification)
    BY DEF _resp_handler, Answers
  <2>2. MemosTyped'
    BY <2>1, AnswersTyped DEF ClientInv
  <2> QED  BY <1>1, <2>2 DEF ClientInv, TypeInv, ShellTyped, FlagsTyped, SendsUri
<1> HIDE DEF u
<1>5. TokensInv'
  <2>1. ASSUME NEW j \in memos', NEW k \in memos', j.token = k.token
        PROVE  j = k
    <3>1. /\ \A x, y \in memos : x.token = y.token => x = y
          /\ m.token # FreshToken
      BY <1>3 DEF ClientInv, TokensInv
    <3> QED  BY <1>2, <1>3, <2>1, <3>1
  <2>2. ASSUME NEW k \in memos', shell.at = "sending"
        PROVE  k.token # shell.token
    BY <1>2, <1>3, <2>2 DEF ClientInv, TokensInv
  <2> QED  BY <1>1, <2>1, <2>2 DEF TokensInv
<1>6. ObservationInv'
  <2>1. ASSUME NEW k \in memos', k.command = "register"
        PROVE  observing /\ k.token = obs_req_token
    BY <1>2, <2>1 DEF ClientInv, ObservationInv
  <2> QED  BY <1>1, <2>1 DEF ClientInv, ObservationInv
<1> QED  BY <1>4, <1>5, <1>6 DEF ClientInv

-----------------------------------------------------------------------------
LEMMA ClientInvNext == ClientInv /\ [Next]_vars => ClientInv'
<1> SUFFICES ASSUME ClientInv, [Next]_vars PROVE ClientInv'
  OBVIOUS
<1>1. CASE UNCHANGED vars
  BY <1>1 DEF vars, proxyVars, observeVars, ClientInv, TypeInv, ShellTyped, FlagsTyped,
     MemosTyped, SendsUri, TokensInv, ObservationInv
<1>2. ASSUME NEW command \in Commands, NEW uri \in Uris, RequestStart(command, uri)
      PROVE  ClientInv'
  BY <1>2, RequestStartKept
<1>3. CASE ProxyStart \/ ProxyUnset \/ Unresolved \/ ProxyResolved
  BY <1>3, ProxyKept
<1>4. CASE RequestResolved
  BY <1>4, RequestResolvedKept
<1>5. CASE RequestSend
  BY <1>5, RequestSendKept
<1>6. ASSUME NEW m \in memos, TimedOut(m)
      PROVE  ClientInv'
  BY <1>6, TimedOutKept
<1>7. ASSUME NEW m \in memos, NEW more \in BOOLEAN, NEW notification \in BOOLEAN,
             _resp_handler(m, more, notification)
      PROVE  ClientInv'
  BY <1>7, AnswerKept
<1> QED  BY <1>1, <1>2, <1>3, <1>4, <1>5, <1>6, <1>7 DEF Next

LEMMA ClientInvariant == Spec => []ClientInv
BY ClientInvInit, ClientInvNext, PTL DEF Spec

(* Every variable of the client keeps its type: in particular the memo     *)
(* table never holds more requests than it has entries, although a         *)
(* notification in blocks keeps its memo and asks for one more             *)
(* (coap_client.c:119-150).                                                *)
THEOREM ClientTypeCorrect == Spec => []TypeOK
<1>1. ClientInv => TypeOK
  BY TypeInvTyped DEF ClientInv
<1> QED  BY <1>1, ClientInvariant, PTL

(* There is one observation at most and the token kept is its own, for any *)
(* memo table, whatever requests are lost, refused or answered late        *)
(* (coap_client.c:294-312, 331-345).                                       *)
THEOREM ObservationIsOne == Spec => []OneObservation
<1>1. ClientInv => OneObservation
  <2> SUFFICES ASSUME ClientInv PROVE OneObservation
    OBVIOUS
  <2> DEFINE R == {m \in memos : m.command = "register"}
  <2>1. \A m, k \in R : m = k
    BY DEF ClientInv, ObservationInv, TokensInv
  <2>2. Cardinality(R) <= 1
    <3> HIDE DEF R
    <3>1. CASE R = {}
      BY <3>1, FS_EmptySet
    <3>2. CASE R # {}
      <4>1. PICK m : R = {m}
        BY <2>1, <3>2
      <4>2. Cardinality({m}) = 1
        BY FS_Singleton
      <4> QED  BY <4>1, <4>2
    <3> QED  BY <3>1, <3>2
  <2> QED  BY <2>2 DEF OneObservation, ClientInv, ObservationInv
<1> QED  BY <1>1, ClientInvariant, PTL
=============================================================================
