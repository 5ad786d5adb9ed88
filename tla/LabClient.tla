----------------------------- MODULE LabClient -----------------------------
(***************************************************************************)
(* The CoAP command line of lab 3 (coap_client.c): the shell thread starts *)
(* requests and sets a proxy, gcoap's thread, which preempts it, goes on   *)
(* with blockwise transfers, and both use the URI of the last request.     *)
(* The command is commented out in main.c:65.                              *)
(***************************************************************************)
EXTENDS Naturals, FiniteSets, FiniteSetsExt

CONSTANTS
  Uris,       \* of resources of one server
  Host,       \* what _uristr2remote has in its buffer while it resolves
  Proxy,      \* the URI of a proxy
  MEMOS_MAX   \* entries of gcoap's request memo table

ASSUME ClientAssumption == Host \notin Uris \cup {Proxy} /\ Proxy \notin Uris
ASSUME MemosAssumption == MEMOS_MAX \in Nat

VARIABLES
  shell,           \* where gcoap_cli_cmd is, and for which command
  _last_req_uri,
  _proxy_uri,      \* is it not empty
  _proxy_remote,
  observing,
  obs_req_token,
  memos            \* requests gcoap waits an answer for; begun: the URI
                   \* the transfer began with

proxyVars == <<_proxy_uri, _proxy_remote>>
observeVars == <<observing, obs_req_token>>
vars == <<shell, _last_req_uri, proxyVars, observeVars, memos>>

Remotes == {"server", "proxy", "none"}
Tokens == 1 .. MEMOS_MAX + 3
Commands == {"request", "register", "deregister"}
Names == Uris \cup {Host, Proxy}
Prompt == [at |-> "prompt"]

TypeOK ==
  /\ shell \in {Prompt}
       \cup [at : {"resolving"}, command : Commands, uri : Uris]
       \cup [at : {"resolving"}, command : {"proxy"}]
       \cup [at : {"sending"}, command : Commands, token : Tokens]
  /\ _last_req_uri \in Names
  /\ _proxy_uri \in BOOLEAN /\ _proxy_remote \in Remotes
  /\ observing \in BOOLEAN /\ obs_req_token \in Tokens
  /\ memos \subseteq [command : Commands \cup {"notified"}, token : Tokens,
                      to : Remotes, uri : Names, begun : Uris, timer : BOOLEAN]
  /\ Cardinality(memos) <= MEMOS_MAX

(* The URI is empty until a request is made, and not used before.          *)
Init ==
  /\ shell = Prompt /\ _last_req_uri = Host
  /\ _proxy_uri = FALSE /\ _proxy_remote = "none"
  /\ observing = FALSE /\ obs_req_token = 1
  /\ memos = {}

-----------------------------------------------------------------------------
(* gcoap.                                                                  *)

(* Random, and taken to be unique among those in use.                      *)
FreshToken ==
  Min({t \in Tokens : /\ \A m \in memos : m.token # t
                      /\ obs_req_token # t
                      /\ shell.at = "sending" => shell.token # t})

(* A table that takes one request too many.                                *)
RoomForOneMore == Cardinality(memos) <= MEMOS_MAX

Room == Cardinality(memos) < MEMOS_MAX

Request(command, token, to, uri, begun) ==
  [command |-> command, token |-> token, to |-> to, uri |-> uri,
   begun |-> begun, timer |-> TRUE]

-----------------------------------------------------------------------------
(* The shell: gcoap_cli_cmd.                                               *)

(* An observation may be registered while there is one.                    *)
RequestStartAnyObserve(command, uri) ==
  /\ shell = Prompt
  /\ command = "deregister" => observing
  /\ _last_req_uri' = Host
  /\ shell' = [at |-> "resolving", command |-> command, uri |-> uri]
  /\ UNCHANGED <<proxyVars, observeVars, memos>>

(* Options, then _uristr2remote up to the resolution of the name.          *)
RequestStart(command, uri) ==
  /\ shell = Prompt
  /\ command = "register" => ~observing
  /\ command = "deregister" => observing
  /\ _last_req_uri' = Host
  /\ shell' = [at |-> "resolving", command |-> command, uri |-> uri]
  /\ UNCHANGED <<proxyVars, observeVars, memos>>

ProxyStart ==
  /\ shell = Prompt
  /\ _proxy_uri' = TRUE
  /\ shell' = [at |-> "resolving", command |-> "proxy"]
  /\ UNCHANGED <<_last_req_uri, _proxy_remote, observeVars, memos>>

ProxyUnset ==
  /\ shell = Prompt
  /\ _proxy_uri' = FALSE /\ _proxy_remote' = "none"
  /\ UNCHANGED <<shell, _last_req_uri, observeVars, memos>>

(* The buffer keeps the host.                                              *)
Unresolved ==
  /\ shell.at = "resolving" /\ shell' = Prompt
  /\ _proxy_remote' = IF shell.command = "proxy" THEN "none" ELSE _proxy_remote
  /\ UNCHANGED <<_last_req_uri, _proxy_uri, observeVars, memos>>

ProxyResolved ==
  /\ shell.at = "resolving" /\ shell.command = "proxy" /\ shell' = Prompt
  /\ _proxy_remote' = "proxy"
  /\ UNCHANGED <<_last_req_uri, _proxy_uri, observeVars, memos>>

(* gcoap_obs_req_forget looks for the token at the server of the URI.      *)
Forgotten == {m \in memos : m.token = obs_req_token /\ m.to = "server"}

RequestResolved ==
  /\ shell.at = "resolving" /\ shell.command # "proxy"
  /\ _last_req_uri' = shell.uri
  /\ LET sending(token) == [at |-> "sending", command |-> shell.command,
                            token |-> token]
     IN \/ /\ shell.command = "request" /\ shell' = sending(FreshToken)
           /\ UNCHANGED <<obs_req_token, memos>>
        \/ /\ shell.command = "register" /\ shell' = sending(FreshToken)
           /\ obs_req_token' = FreshToken
           /\ UNCHANGED memos
        \/ /\ shell.command = "deregister"
           /\ IF Forgotten = {} THEN shell' = Prompt /\ UNCHANGED memos
              ELSE \E m \in Forgotten : /\ shell' = sending(obs_req_token)
                                        /\ memos' = memos \ {m}
           /\ UNCHANGED obs_req_token
  /\ UNCHANGED <<proxyVars, observing>>

(* _send fails without room for a memo and without a remote.               *)
RequestSend ==
  /\ shell.at = "sending" /\ shell' = Prompt
  /\ LET to == IF _proxy_uri THEN _proxy_remote ELSE "server"
     IN IF ~Room \/ to = "none" THEN UNCHANGED <<observing, memos>>
        ELSE /\ memos' = memos \cup {Request(shell.command, shell.token, to,
                                             _last_req_uri, _last_req_uri)}
             /\ observing' = IF shell.command = "request" THEN observing
                             ELSE shell.command = "register"
  /\ UNCHANGED <<_last_req_uri, proxyVars, obs_req_token>>

-----------------------------------------------------------------------------
(* gcoap's thread, which calls _resp_handler.                              *)

TimedOut(m) ==
  /\ m.timer
  /\ memos' = memos \ {m}
  /\ UNCHANGED <<shell, _last_req_uri, proxyVars, observeVars>>

(* The request for the next block goes to who answered, as a request of    *)
(* its own; with a proxy the URI is an option of it.                       *)
NextBlock(m) ==
  {k \in {Request(IF m.timer /\ m.command # "notified" THEN "request" ELSE "notified",
                  FreshToken, m.to, _last_req_uri, m.begun)} : Room}

(* The memo outlives an answer with the Observe option, without its timer; *)
(* such an answer may also be a notification that the deregistration       *)
(* overtook, which has the same token.                                     *)
_resp_handler(m, more, notification) ==
  /\ notification => m.command \in {"register", "deregister"}
  /\ memos' = (memos \ {m}) \cup {k \in {[m EXCEPT !.timer = FALSE]} : notification}
                            \cup (IF more THEN NextBlock(m) ELSE {})
  /\ UNCHANGED <<shell, _last_req_uri, proxyVars, observeVars>>

-----------------------------------------------------------------------------
Next ==
  \/ \E command \in Commands, uri \in Uris : RequestStart(command, uri)
  \/ ProxyStart \/ ProxyUnset
  \/ Unresolved \/ ProxyResolved \/ RequestResolved \/ RequestSend
  \/ \E m \in memos : \/ TimedOut(m)
                      \/ \E more, notification \in BOOLEAN :
                           _resp_handler(m, more, notification)

Spec == Init /\ [][Next]_vars

(* A user who keeps to the rule of lines 50-51, and takes it to cover a    *)
(* request still unanswered too: no request with another path until then.  *)
UserWaits ==
  shell = Prompt /\ shell'.at = "resolving" /\ shell'.command # "proxy" =>
    \A m \in memos : m.timer => m.begun = shell'.uri

CarefulSpec == Init /\ [][Next /\ UserWaits]_vars

-----------------------------------------------------------------------------
(* "Retain request URI to re-request if response includes block"           *)
(* (coap_client.c:49): whoever keeps to the rule gets the next block of    *)
(* what the transfer began with (lines 119-150, 203-220).                  *)
RetainedUri == \A m \in memos : m.uri = m.begun

(* There is at most one observation, and the token kept of it is its own,  *)
(* whatever fails between the backup of the token, the request and its     *)
(* answer (coap_client.c:56-63, 294-312, 331-345, 394-401).  That          *)
(* observing ends with the observation does not hold: a registration that  *)
(* times out leaves it set for good.                                       *)
OneObservation ==
  /\ Cardinality({m \in memos : m.command = "register"}) <= 1
  /\ \A m \in memos : m.command = "register" => observing /\ m.token = obs_req_token
=============================================================================
