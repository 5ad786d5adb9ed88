-------------------------- MODULE GameRoundProofs --------------------------
(***************************************************************************)
(* What holds of the rounds for any number of buzzers, resets and presses, *)
(* over a network that delays, reorders and loses messages: in a clean     *)
(* round a buzzer and the registry agree, whatever the other buzzers do.   *)
(***************************************************************************)
EXTENDS GameRound, SequenceTheorems, FiniteSetTheorems, TLAPS

-----------------------------------------------------------------------------
(* The inductive invariants.                                               *)

(* What the code relies on in a buzzer: it is paired, its reset handler    *)
(* only waits while messages are queued, and a press under way has a time. *)
Sending == {"delay", "asleep", "woken"}
BuzzerInv ==
  \A b \in Buzzers :
    /\ buzzers[b].paired = TRUE
    /\ buzzers[b].posting = TRUE => buzzers[b].inbox # <<>>
    /\ buzzers[b].at \in Sending => stamp[b] \in Times

(* The bounds hold: a queued press finds a time left, and the receiver     *)
(* handles a reset that was published.                                     *)
EdgesInv == IsFiniteSet(QueuedPresses) /\ clock + Cardinality(QueuedPresses) <= MaxEdges
Handling == IF receiver = "idle" THEN 0 ELSE 1
ResetsInv ==
  /\ commands + Handling <= round
  /\ \A m \in net : m.type = "changed" => receiver = "wait"

TypeInv == TypeOK /\ BuzzerInv /\ EdgesInv /\ ResetsInv

(* A press of b that the backend knows of or will.                         *)
ReportComing(b) ==
  \/ \E m \in net : m.type = "pressed" /\ m.buzzer = b
  \/ \E i \in DOMAIN tasks : tasks[i].buzzer = b
Reported(b) == presses[b] # None \/ ReportComing(b)

(* A clean buzzer is at rest until the reset reaches it...                 *)
BeforeReset(b) ==
  /\ buzzers[b].at = "idle" /\ buzzers[b].inbox = <<>> /\ ~ReportComing(b)
  /\ commands = 0 => presses[b] = None

(* ...is then opened, if it is locked...                                   *)
Opening(b) ==
  /\ buzzers[b].at = "idle" /\ buzzers[b].locked = TRUE
  /\ buzzers[b].inbox = <<"ENABLE_NORMAL">> /\ ~Reported(b)

(* ...and from there on it is locked, or about to lock, if and only if a   *)
(* press of it is reported.                                                *)
Playing(b) ==
  /\ buzzers[b].at # "locking"
  /\ \A i \in DOMAIN buzzers[b].inbox : buzzers[b].inbox[i] = "BUZZER_PRESSED"
  /\ Reported(b) <=> buzzers[b].locked = TRUE \/ buzzers[b].at \in {"asleep", "woken"}

BuzzerRound(b) ==
  /\ buzzers[b].posting = FALSE
  /\ IF ResetComing(b) THEN BeforeReset(b) ELSE Opening(b) \/ Playing(b)

(* Only the reset of the round is on its way to b, if any.                 *)
OneReset(b) ==
  /\ commands <= 1 /\ (commands > 0 => receiver # "multicast")
  /\ commands > 0 \/ receiver = "multicast" =>
       \A m \in net : m.type = "reset" => m.buzzer # b
  /\ \A m, k \in net :
       /\ m.type = "reset" /\ m.buzzer = b
       /\ k.type = "reset" /\ k.buzzer = b
       => m = k

RoundInv == \A b \in clean : OneReset(b) /\ BuzzerRound(b)

-----------------------------------------------------------------------------
(* The steps of a buzzer, field by field.                                  *)

LEMMA BuzzerTyped ==
  ASSUME NEW s \in B!States
  PROVE  /\ s.paired \in BOOLEAN /\ s.locked \in BOOLEAN /\ s.posting \in BOOLEAN
         /\ s.at \in {"idle", "locking", "delay", "asleep", "woken"}
         /\ s.inbox \in Seq(B!Inbox)
BY DEF B!States

LEMMA TakesFields ==
  ASSUME NEW s \in B!States, NEW ev, NEW t \in B!Takes(s, ev)
  PROVE  /\ t \in B!States /\ t.paired = s.paired /\ t.locked = s.locked
         /\ s.at = "idle" /\ t.at = "idle" /\ t.posting = FALSE
         /\ s.inbox # <<>> /\ Head(s.inbox) = ev
         /\ t.inbox = IF s.posting = TRUE THEN Append(Tail(s.inbox), "ENABLE_NORMAL")
                      ELSE Tail(s.inbox)
<1> DEFINE left == [s EXCEPT !.inbox = Tail(@)]
           free == [left EXCEPT !.posting = FALSE]
<1>1. /\ s.at = "idle" /\ s.inbox # <<>> /\ Head(s.inbox) = ev
      /\ t = IF s.posting THEN B!Put(free, "ENABLE_NORMAL") ELSE left
  BY DEF B!Takes
<1>2. s.inbox \in Seq(B!Inbox) /\ Tail(s.inbox) \in Seq(B!Inbox) /\ s.posting \in BOOLEAN
  BY <1>1, BuzzerTyped, HeadTailProperties
<1>3. /\ left \in B!States /\ left.paired = s.paired /\ left.locked = s.locked
      /\ left.at = s.at /\ left.inbox = Tail(s.inbox) /\ left.posting = s.posting
  BY <1>2 DEF B!States
<1> HIDE DEF left
<1>4. /\ free \in B!States /\ free.paired = s.paired /\ free.locked = s.locked
      /\ free.at = s.at /\ free.inbox = Tail(s.inbox) /\ free.posting = FALSE
  BY <1>3 DEF B!States
<1> HIDE DEF free
<1>5. Append(Tail(s.inbox), "ENABLE_NORMAL") \in Seq(B!Inbox)
  BY <1>2, AppendProperties DEF B!Inbox
<1> DEFINE put == B!Put(free, "ENABLE_NORMAL")
<1>6. /\ put \in B!States /\ put.paired = s.paired /\ put.locked = s.locked
      /\ put.at = s.at /\ put.posting = FALSE
      /\ put.inbox = Append(Tail(s.inbox), "ENABLE_NORMAL")
  BY <1>4, <1>5 DEF B!States, B!Put
<1> HIDE DEF put
<1>7. CASE s.posting = TRUE
  <2>1. t = put
    BY <1>1, <1>7 DEF put
  <2> QED  BY <2>1, <1>1, <1>6, <1>7
<1>8. CASE s.posting = FALSE
  <2>1. t = left
    BY <1>1, <1>8
  <2> QED  BY <2>1, <1>1, <1>3, <1>8
<1> QED  BY <1>2, <1>7, <1>8

LEMMA LocksFields ==
  ASSUME NEW s \in B!States, NEW t \in B!Locks(s)
  PROVE  /\ t \in B!States /\ t.paired = s.paired /\ t.locked = TRUE
         /\ s.at = "locking" /\ t.at = "idle"
         /\ t.inbox = s.inbox /\ t.posting = s.posting
<1>1. s.at = "locking" /\ t = [s EXCEPT !.at = "idle", !.locked = TRUE]
  BY DEF B!Locks
<1> QED  BY <1>1 DEF B!States

LEMMA LocksPressedFields ==
  ASSUME NEW s \in B!States, NEW t \in B!LocksPressed(s)
  PROVE  /\ t \in B!States /\ t.paired = s.paired /\ t.locked = TRUE
         /\ s.at = "woken" /\ t.at = "idle"
         /\ t.inbox = s.inbox /\ t.posting = s.posting
<1>1. s.at = "woken" /\ t = [s EXCEPT !.at = "idle", !.locked = TRUE]
  BY DEF B!LocksPressed
<1> QED  BY <1>1 DEF B!States

LEMMA OpensFields ==
  ASSUME NEW s \in B!States, NEW t \in B!Opens(s)
  PROVE  /\ t \in B!States /\ t.paired = s.paired /\ t.locked = FALSE
         /\ s.at = "idle" /\ t.at = "idle" /\ t.posting = FALSE
         /\ s.inbox # <<>> /\ Head(s.inbox) = "ENABLE_NORMAL"
         /\ t.inbox = IF s.posting = TRUE THEN Append(Tail(s.inbox), "ENABLE_NORMAL")
                      ELSE Tail(s.inbox)
<1>1. PICK u \in B!Takes(s, "ENABLE_NORMAL") : t = [u EXCEPT !.locked = FALSE]
  BY DEF B!Opens
<1>2. /\ u \in B!States /\ u.paired = s.paired /\ u.locked = s.locked
      /\ s.at = "idle" /\ u.at = "idle" /\ u.posting = FALSE
      /\ s.inbox # <<>> /\ Head(s.inbox) = "ENABLE_NORMAL"
      /\ u.inbox = IF s.posting = TRUE THEN Append(Tail(s.inbox), "ENABLE_NORMAL")
                   ELSE Tail(s.inbox)
  BY TakesFields
<1>3. /\ t \in B!States /\ t.paired = u.paired /\ t.locked = FALSE
      /\ t.at = u.at /\ t.inbox = u.inbox /\ t.posting = u.posting
  BY <1>1, <1>2 DEF B!States
<1> QED  BY <1>2, <1>3, Zenon

LEMMA TakesPressFields ==
  ASSUME NEW s \in B!States, NEW t \in B!TakesPress(s)
  PROVE  /\ t \in B!States /\ t.paired = s.paired /\ t.locked = s.locked
         /\ s.at = "idle" /\ t.at = "delay" /\ t.posting = FALSE
         /\ s.inbox # <<>> /\ Head(s.inbox) = "BUZZER_PRESSED"
         /\ t.inbox = IF s.posting = TRUE THEN Append(Tail(s.inbox), "ENABLE_NORMAL")
                      ELSE Tail(s.inbox)
<1>1. PICK u \in B!Takes(s, "BUZZER_PRESSED") : t = [u EXCEPT !.at = "delay"]
  BY DEF B!TakesPress
<1>2. /\ u \in B!States /\ u.paired = s.paired /\ u.locked = s.locked
      /\ s.at = "idle" /\ u.at = "idle" /\ u.posting = FALSE
      /\ s.inbox # <<>> /\ Head(s.inbox) = "BUZZER_PRESSED"
      /\ u.inbox = IF s.posting = TRUE THEN Append(Tail(s.inbox), "ENABLE_NORMAL")
                   ELSE Tail(s.inbox)
  BY TakesFields
<1>3. /\ t \in B!States /\ t.paired = u.paired /\ t.locked = u.locked
      /\ t.at = "delay" /\ t.inbox = u.inbox /\ t.posting = u.posting
  BY <1>1, <1>2 DEF B!States
<1> QED  BY <1>2, <1>3, Zenon

LEMMA SendsFields ==
  ASSUME NEW s \in B!States, NEW t \in B!Sends(s)
  PROVE  /\ t \in B!States /\ t.paired = s.paired /\ t.locked = s.locked
         /\ s.at = "delay" /\ t.at = "asleep"
         /\ t.inbox = s.inbox /\ t.posting = s.posting
BY DEF B!Sends, B!States

LEMMA WakesFields ==
  ASSUME NEW s \in B!States, NEW t \in B!Wakes(s)
  PROVE  /\ t \in B!States /\ t.paired = s.paired /\ t.locked = s.locked
         /\ s.at = "asleep" /\ t.at = "woken"
         /\ t.inbox = s.inbox /\ t.posting = s.posting
BY DEF B!Wakes, B!States

LEMMA PutFields ==
  ASSUME NEW s \in B!States, NEW ev \in B!Inbox
  PROVE  LET t == B!Put(s, ev)
         IN  /\ t \in B!States /\ t.paired = s.paired /\ t.locked = s.locked
             /\ t.at = s.at /\ t.posting = s.posting
             /\ t.inbox = Append(s.inbox, ev)
<1>1. Append(s.inbox, ev) \in Seq(B!Inbox)
  BY BuzzerTyped, AppendProperties
<1> QED  BY <1>1 DEF B!Put, B!States

LEMMA EdgeFields ==
  ASSUME NEW s \in B!States, NEW t \in B!Edge(s)
  PROVE  /\ t \in B!States /\ t.paired = s.paired /\ t.locked = s.locked
         /\ t.at = s.at /\ t.posting = s.posting
         /\ t.inbox \in {s.inbox, Append(s.inbox, "BUZZER_PRESSED")}
<1>1. t = s \/ t = B!Put(s, "BUZZER_PRESSED")
  BY DEF B!Edge
<1>2. "BUZZER_PRESSED" \in B!Inbox
  BY DEF B!Inbox
<1> QED  BY <1>1, <1>2, PutFields

(* A locked buzzer gets the message to open, or its handler waits.         *)
LEMMA ResetsFields ==
  ASSUME NEW s \in B!States, s.paired = TRUE, NEW t \in B!Resets(s)
  PROVE  /\ t \in B!States /\ t.paired = TRUE /\ t.locked = s.locked
         /\ t.at = s.at /\ s.at # "locking" /\ s.posting = FALSE
         /\ \/ s.locked = FALSE /\ t = s
            \/ /\ s.locked = TRUE /\ B!Full(s)
               /\ t.posting = TRUE /\ t.inbox = s.inbox
            \/ /\ s.locked = TRUE /\ ~B!Full(s)
               /\ t.posting = FALSE /\ t.inbox = Append(s.inbox, "ENABLE_NORMAL")
<1>1. s.at # "locking" /\ s.posting = FALSE
  BY BuzzerTyped DEF B!Resets
<1>2. t = IF ~s.locked THEN s
          ELSE IF B!Full(s) THEN [s EXCEPT !.posting = TRUE]
          ELSE B!Put(s, "ENABLE_NORMAL")
  BY Zenon DEF B!Resets
<1>3. s.locked \in BOOLEAN
  BY BuzzerTyped
<1>4. CASE s.locked = FALSE
  BY <1>1, <1>2, <1>4
<1>5. CASE s.locked = TRUE /\ B!Full(s)
  <2>1. t = [s EXCEPT !.posting = TRUE]
    BY <1>2, <1>5
  <2>2. /\ t \in B!States /\ t.paired = s.paired /\ t.locked = s.locked
        /\ t.at = s.at /\ t.posting = TRUE /\ t.inbox = s.inbox
    BY <2>1 DEF B!States
  <2> QED  BY <2>2, <1>1, <1>5
<1>6. CASE s.locked = TRUE /\ ~B!Full(s)
  <2>1. t = B!Put(s, "ENABLE_NORMAL")
    BY <1>2, <1>6
  <2>2. "ENABLE_NORMAL" \in B!Inbox
    BY DEF B!Inbox
  <2>3. /\ t \in B!States /\ t.paired = s.paired /\ t.locked = s.locked
        /\ t.at = s.at /\ t.posting = s.posting
        /\ t.inbox = Append(s.inbox, "ENABLE_NORMAL")
    BY <2>1, <2>2, PutFields
  <2> QED  BY <2>3, <1>1, <1>6
<1> QED  BY <1>3, <1>4, <1>5, <1>6

(* Only the buzzer that moves changes.                                     *)
LEMMA OnlyMoves ==
  ASSUME TypeOK, NEW b \in Buzzers, NEW successors, Moves(b, successors)
  PROVE  /\ buzzers'[b] \in successors
         /\ \A k \in Buzzers \ {b} : buzzers'[k] = buzzers[k]
         /\ DOMAIN buzzers' = Buzzers
         /\ buzzers' = [k \in Buzzers |-> buzzers'[k]]
         /\ buzzers'[b] \in B!States => buzzers' \in [Buzzers -> B!States]
BY DEF Moves, TypeOK

-----------------------------------------------------------------------------
(* The presses in the inboxes.                                             *)

LEMMA PressedAppend ==
  ASSUME NEW s \in Seq(B!Inbox), NEW ev \in B!Inbox
  PROVE  PressedAt(Append(s, ev)) =
           PressedAt(s) \cup IF ev = "BUZZER_PRESSED" THEN {Len(s) + 1} ELSE {}
<1>1. /\ Append(s, ev) \in Seq(B!Inbox) /\ Len(s) \in Nat
      /\ Len(Append(s, ev)) = Len(s) + 1 /\ Append(s, ev)[Len(s) + 1] = ev
      /\ \A i \in 1 .. Len(s) : Append(s, ev)[i] = s[i]
  BY AppendProperties, LenProperties
<1>2. DOMAIN s = 1 .. Len(s) /\ DOMAIN Append(s, ev) = 1 .. Len(s) + 1
  BY <1>1, LenProperties
<1>3. DOMAIN Append(s, ev) = DOMAIN s \cup {Len(s) + 1} /\ Len(s) + 1 \notin DOMAIN s
  BY <1>1, <1>2
<1> QED  BY <1>1, <1>2, <1>3 DEF PressedAt

LEMMA PressedTail ==
  ASSUME NEW s \in Seq(B!Inbox), s # <<>>, NEW i \in PressedAt(Tail(s))
  PROVE  i \in Nat \ {0} /\ i + 1 \in PressedAt(s)
<1>1. /\ Tail(s) \in Seq(B!Inbox) /\ Len(Tail(s)) = Len(s) - 1 /\ Len(s) \in Nat
      /\ \A j \in 1 .. Len(Tail(s)) : Tail(s)[j] = s[j + 1]
  BY HeadTailProperties, LenProperties
<1>2. DOMAIN s = 1 .. Len(s) /\ DOMAIN Tail(s) = 1 .. Len(s) - 1
  BY <1>1, LenProperties
<1> QED  BY <1>1, <1>2 DEF PressedAt

Queued(f) == UNION {{b} \X PressedAt(f[b].inbox) : b \in Buzzers}

LEMMA QueuedAre ==
  ASSUME NEW f, NEW q
  PROVE  q \in Queued(f) <=>
           \E b \in Buzzers : \E i \in PressedAt(f[b].inbox) : q = <<b, i>>
<1>1. q \in Queued(f) <=> \E b \in Buzzers : q \in {b} \X PressedAt(f[b].inbox)
  BY DEF Queued
<1>2. ASSUME NEW b \in Buzzers, NEW P
      PROVE  q \in {b} \X P <=> \E i \in P : q = <<b, i>>
  OBVIOUS
<1> QED  BY <1>1, <1>2

LEMMA QueuedSame ==
  ASSUME NEW f, NEW g,
         \A k \in Buzzers : PressedAt(g[k].inbox) = PressedAt(f[k].inbox)
  PROVE  Queued(g) = Queued(f)
BY DEF Queued

LEMMA QueuedNew ==
  ASSUME NEW f, NEW g, NEW b \in Buzzers, NEW n,
         \A k \in Buzzers \ {b} : PressedAt(g[k].inbox) = PressedAt(f[k].inbox),
         PressedAt(g[b].inbox) \subseteq PressedAt(f[b].inbox) \cup {n}
  PROVE  Queued(g) \subseteq Queued(f) \cup {<<b, n>>}
<1> SUFFICES ASSUME NEW q \in Queued(g), q # <<b, n>> PROVE q \in Queued(f)
  OBVIOUS
<1>1. PICK k \in Buzzers : \E i \in PressedAt(g[k].inbox) : q = <<k, i>>
  BY QueuedAre
<1>2. PICK i \in PressedAt(g[k].inbox) : q = <<k, i>>
  BY <1>1
<1>3. i \in PressedAt(f[k].inbox)
  BY <1>2
<1> QED  BY <1>2, <1>3, QueuedAre

(* A message is taken: the places of the others in its inbox move.         *)
LEMMA QueuedTaken ==
  ASSUME NEW f \in [Buzzers -> B!States], NEW g, NEW b \in Buzzers,
         IsFiniteSet(Queued(f)), f[b].inbox # <<>>,
         \A k \in Buzzers \ {b} : PressedAt(g[k].inbox) = PressedAt(f[k].inbox),
         PressedAt(g[b].inbox) = PressedAt(Tail(f[b].inbox))
  PROVE  /\ IsFiniteSet(Queued(g))
         /\ Cardinality(Queued(g)) <= Cardinality(Queued(f) \ {<<b, 1>>})
<1> DEFINE F == Queued(f)
           G == Queued(g)
           R == F \ {<<b, 1>>}
           move == [q \in G |-> IF q[1] = b THEN <<b, q[2] + 1>> ELSE q]
<1>1. IsFiniteSet(R)
  BY FS_Subset
<1>2. f[b].inbox \in Seq(B!Inbox)
  BY BuzzerTyped
<1>3. ASSUME NEW i \in PressedAt(g[b].inbox)
      PROVE  i \in Nat \ {0} /\ i + 1 \in PressedAt(f[b].inbox)
  BY <1>2, <1>3, PressedTail
<1>4. ASSUME NEW q \in G
      PROVE  \/ /\ q[1] = b /\ q = <<b, q[2]>> /\ q[2] \in Nat \ {0}
                /\ <<b, q[2] + 1>> \in R
             \/ q[1] # b /\ q \in R
  <2>1. PICK k \in Buzzers : \E i \in PressedAt(g[k].inbox) : q = <<k, i>>
    BY QueuedAre
  <2>2. PICK i \in PressedAt(g[k].inbox) : q = <<k, i>>
    BY <2>1
  <2>3. CASE k = b
    <3>1. i \in Nat \ {0} /\ i + 1 \in PressedAt(f[b].inbox)
      BY <1>3, <2>3
    <3>2. <<b, i + 1>> \in F
      BY <3>1, QueuedAre
    <3>3. <<b, i + 1>> # <<b, 1>>
      BY <3>1
    <3> QED  BY <2>2, <2>3, <3>1, <3>2, <3>3
  <2>4. CASE k # b
    <3>1. i \in PressedAt(f[k].inbox)
      BY <2>4
    <3>2. q \in F
      BY <3>1, <2>2, QueuedAre
    <3> QED  BY <2>2, <2>4, <3>2
  <2> QED  BY <2>3, <2>4
<1> HIDE DEF F, G, R
<1>5. \A q \in G : move[q] = IF q[1] = b THEN <<b, q[2] + 1>> ELSE q
  OBVIOUS
<1>6. DOMAIN move = G /\ move = [q \in G |-> move[q]]
  OBVIOUS
<1> HIDE DEF move
<1>7. \A q \in G : move[q] \in R
  BY <1>4, <1>5
<1>8. ASSUME NEW p \in G, NEW q \in G, move[p] = move[q] PROVE p = q
  <2>1. /\ p[1] = b => p = <<b, p[2]>> /\ p[2] \in Nat
        /\ q[1] = b => q = <<b, q[2]>> /\ q[2] \in Nat
    BY <1>4
  <2>2. /\ move[p] = IF p[1] = b THEN <<b, p[2] + 1>> ELSE p
        /\ move[q] = IF q[1] = b THEN <<b, q[2] + 1>> ELSE q
    BY <1>5
  <2>3. (move[p][1] = b <=> p[1] = b) /\ (move[q][1] = b <=> q[1] = b)
    BY <2>2
  <2>4. p[1] = b <=> q[1] = b
    BY <1>8, <2>3
  <2>5. CASE p[1] # b
    BY <1>8, <2>2, <2>4, <2>5
  <2>6. CASE p[1] = b
    <3>1. <<b, p[2] + 1>> = <<b, q[2] + 1>>
      BY <1>8, <2>2, <2>4, <2>6
    <3>2. p[2] + 1 = q[2] + 1
      BY <3>1
    <3>3. p[2] = q[2]
      BY <3>2, <2>1, <2>4, <2>6
    <3> QED  BY <3>3, <2>1, <2>4, <2>6
  <2> QED  BY <2>5, <2>6
<1>9. move \in Injection(G, R)
  BY <1>6, <1>7, <1>8 DEF Injection, IsInjective
<1>10. IsFiniteSet(G) /\ Cardinality(G) <= Cardinality(R)
  BY <1>1, <1>9, FS_Injection
<1> QED  BY <1>10 DEF F, G, R

(* What the moves of a buzzer do to the bound on its presses.              *)
LEMMA EdgesKept ==
  ASSUME EdgesInv, clock' = clock,
         \A k \in Buzzers : PressedAt(buzzers'[k].inbox) = PressedAt(buzzers[k].inbox)
  PROVE  EdgesInv'
<1>1. Queued(buzzers') = Queued(buzzers)
  BY QueuedSame
<1> QED  BY <1>1 DEF EdgesInv, QueuedPresses, Queued

LEMMA QueuedBound ==
  ASSUME TypeOK, EdgesInv
  PROVE  /\ IsFiniteSet(Queued(buzzers)) /\ clock \in Nat /\ MaxEdges \in Nat
         /\ Cardinality(Queued(buzzers)) \in Nat
         /\ clock + Cardinality(Queued(buzzers)) <= MaxEdges
<1>1. IsFiniteSet(Queued(buzzers)) /\ clock + Cardinality(Queued(buzzers)) <= MaxEdges
  BY DEF EdgesInv, QueuedPresses, Queued
<1>2. Cardinality(Queued(buzzers)) \in Nat
  BY <1>1, FS_CardinalityType
<1> QED  BY <1>1, <1>2, GameBounds DEF TypeOK

LEMMA EdgesByCount ==
  ASSUME TypeOK', IsFiniteSet(Queued(buzzers')),
         clock' + Cardinality(Queued(buzzers')) <= MaxEdges
  PROVE  EdgesInv'
BY DEF EdgesInv, QueuedPresses, Queued

LEMMA TakenCounts ==
  ASSUME TypeOK, EdgesInv, NEW b \in Buzzers, buzzers[b].inbox # <<>>,
         \A k \in Buzzers \ {b} : buzzers'[k] = buzzers[k],
         PressedAt(buzzers'[b].inbox) = PressedAt(Tail(buzzers[b].inbox))
  PROVE  LET n == Cardinality(Queued(buzzers))
             m == Cardinality(Queued(buzzers'))
         IN  /\ IsFiniteSet(Queued(buzzers'))
             /\ n \in Nat /\ m \in Nat /\ m <= n
             /\ Head(buzzers[b].inbox) = "BUZZER_PRESSED" => m <= n - 1
<1> DEFINE F == Queued(buzzers)
           G == Queued(buzzers')
<1>1. buzzers \in [Buzzers -> B!States]
  BY DEF TypeOK
<1>2. \A k \in Buzzers \ {b} : PressedAt(buzzers'[k].inbox) = PressedAt(buzzers[k].inbox)
  OBVIOUS
<1>3. IsFiniteSet(F)
  BY QueuedBound
<1>4. IsFiniteSet(G) /\ Cardinality(G) <= Cardinality(F \ {<<b, 1>>})
  BY <1>1, <1>2, <1>3, QueuedTaken
<1>5. Head(buzzers[b].inbox) = "BUZZER_PRESSED" => <<b, 1>> \in F
  <2>1. 1 \in DOMAIN buzzers[b].inbox /\ Head(buzzers[b].inbox) = buzzers[b].inbox[1]
    BY <1>1, BuzzerTyped, EmptySeq, LenProperties
  <2>2. Head(buzzers[b].inbox) = "BUZZER_PRESSED" => 1 \in PressedAt(buzzers[b].inbox)
    BY <2>1 DEF PressedAt
  <2> QED  BY <2>2, QueuedAre
<1> HIDE DEF F, G
<1>6. Cardinality(F) \in Nat /\ Cardinality(G) \in Nat
  BY <1>3, <1>4, FS_CardinalityType
<1>7. Cardinality(F \ {<<b, 1>>}) =
        IF <<b, 1>> \in F THEN Cardinality(F) - 1 ELSE Cardinality(F)
  BY <1>3, FS_RemoveElement
<1>8. Cardinality(G) <= Cardinality(F)
  BY <1>4, <1>6, <1>7
<1>9. Head(buzzers[b].inbox) = "BUZZER_PRESSED" => Cardinality(G) <= Cardinality(F) - 1
  BY <1>4, <1>5, <1>7
<1> QED  BY <1>4, <1>6, <1>8, <1>9 DEF F, G

-----------------------------------------------------------------------------
(* What each action does to the buzzer that moves.                         *)

LEMMA OnlyOneMoves ==
  ASSUME TypeOK, NEW b \in Buzzers, NEW successors, Moves(b, successors),
         successors \subseteq B!States
  PROVE  /\ buzzers'[b] \in successors /\ buzzers'[b] \in B!States
         /\ buzzers' \in [Buzzers -> B!States]
         /\ \A k \in Buzzers \ {b} : buzzers'[k] = buzzers[k]
         /\ buzzers[b] \in B!States
<1>1. buzzers'[b] \in successors
  BY OnlyMoves
<1>2. buzzers' \in [Buzzers -> B!States] /\ \A k \in Buzzers \ {b} : buzzers'[k] = buzzers[k]
  BY <1>1, OnlyMoves
<1> QED  BY <1>1, <1>2 DEF TypeOK

LEMMA EdgeMoves ==
  ASSUME TypeOK, NEW b \in Buzzers, Edge(b)
  PROVE  /\ buzzers' \in [Buzzers -> B!States]
         /\ \A k \in Buzzers \ {b} : buzzers'[k] = buzzers[k]
         /\ buzzers'[b].paired = buzzers[b].paired /\ buzzers[b].locked = FALSE
         /\ buzzers'[b].locked = FALSE /\ buzzers'[b].at = buzzers[b].at
         /\ buzzers'[b].posting = buzzers[b].posting
         /\ buzzers'[b].inbox \in
              {buzzers[b].inbox, Append(buzzers[b].inbox, "BUZZER_PRESSED")}
<1>1. buzzers[b] \in B!States
  BY DEF TypeOK
<1>2. B!Edge(buzzers[b]) \subseteq B!States
  BY <1>1, EdgeFields
<1>3. /\ buzzers'[b] \in B!Edge(buzzers[b])
      /\ buzzers' \in [Buzzers -> B!States]
      /\ \A k \in Buzzers \ {b} : buzzers'[k] = buzzers[k]
  BY <1>2, OnlyOneMoves DEF Edge
<1>4. buzzers[b].locked = FALSE
  BY <1>1, BuzzerTyped DEF Edge
<1> QED  BY <1>1, <1>3, <1>4, EdgeFields

(* The inbox of b without the message taken from it.                       *)
Taken(b) == IF buzzers[b].posting = TRUE
              THEN Append(Tail(buzzers[b].inbox), "ENABLE_NORMAL")
            ELSE Tail(buzzers[b].inbox)

LEMMA ChangesModeMoves ==
  ASSUME TypeOK, NEW b \in Buzzers, ChangesMode(b)
  PROVE  /\ buzzers' \in [Buzzers -> B!States]
         /\ \A k \in Buzzers \ {b} : buzzers'[k] = buzzers[k]
         /\ buzzers'[b].paired = buzzers[b].paired /\ buzzers'[b].at = "idle"
         /\ \/ /\ buzzers[b].at = "locking" /\ buzzers'[b].locked = TRUE
               /\ buzzers'[b].inbox = buzzers[b].inbox
               /\ buzzers'[b].posting = buzzers[b].posting
            \/ /\ buzzers[b].at = "idle" /\ buzzers'[b].locked = FALSE
               /\ buzzers[b].inbox # <<>> /\ Head(buzzers[b].inbox) = "ENABLE_NORMAL"
               /\ buzzers'[b].inbox = Taken(b) /\ buzzers'[b].posting = FALSE
<1>1. buzzers[b] \in B!States
  BY DEF TypeOK
<1>2. B!Locks(buzzers[b]) \cup B!Opens(buzzers[b]) \subseteq B!States
  BY <1>1, LocksFields, OpensFields
<1>3. /\ buzzers'[b] \in B!Locks(buzzers[b]) \cup B!Opens(buzzers[b])
      /\ buzzers' \in [Buzzers -> B!States]
      /\ \A k \in Buzzers \ {b} : buzzers'[k] = buzzers[k]
  BY <1>2, OnlyOneMoves DEF ChangesMode
<1>4. CASE buzzers'[b] \in B!Locks(buzzers[b])
  <2> DEFINE s == buzzers[b]
             t == buzzers'[b]
  <2> HIDE DEF s, t
  <2>1. s \in B!States /\ t \in B!Locks(s)
    BY <1>1, <1>4 DEF s, t
  <2>2. /\ t.paired = s.paired /\ t.locked = TRUE
        /\ s.at = "locking" /\ t.at = "idle"
        /\ t.inbox = s.inbox /\ t.posting = s.posting
    BY <2>1, LocksFields
  <2> QED  BY <1>3, <2>2, Zenon DEF s, t
<1>5. CASE buzzers'[b] \in B!Opens(buzzers[b])
  BY <1>1, <1>3, <1>5, OpensFields DEF Taken
<1> QED  BY <1>3, <1>4, <1>5

LEMMA TakesPressMoves ==
  ASSUME TypeOK, NEW b \in Buzzers, TakesPress(b)
  PROVE  /\ buzzers' \in [Buzzers -> B!States]
         /\ \A k \in Buzzers \ {b} : buzzers'[k] = buzzers[k]
         /\ buzzers'[b].paired = buzzers[b].paired
         /\ buzzers'[b].locked = buzzers[b].locked
         /\ buzzers[b].at = "idle" /\ buzzers'[b].at = "delay"
         /\ buzzers[b].inbox # <<>> /\ Head(buzzers[b].inbox) = "BUZZER_PRESSED"
         /\ buzzers'[b].inbox = Taken(b) /\ buzzers'[b].posting = FALSE
<1>1. buzzers[b] \in B!States
  BY DEF TypeOK
<1>2. B!TakesPress(buzzers[b]) \subseteq B!States
  BY <1>1, TakesPressFields
<1>3. /\ buzzers'[b] \in B!TakesPress(buzzers[b])
      /\ buzzers' \in [Buzzers -> B!States]
      /\ \A k \in Buzzers \ {b} : buzzers'[k] = buzzers[k]
  BY <1>2, OnlyOneMoves DEF TakesPress
<1> QED  BY <1>1, <1>3, TakesPressFields DEF Taken

LEMMA SendsPressMoves ==
  ASSUME TypeOK, NEW b \in Buzzers, SendsPress(b)
  PROVE  /\ buzzers' \in [Buzzers -> B!States]
         /\ \A k \in Buzzers \ {b} : buzzers'[k] = buzzers[k]
         /\ buzzers'[b].paired = buzzers[b].paired
         /\ buzzers'[b].locked = buzzers[b].locked
         /\ buzzers[b].at = "delay" /\ buzzers'[b].at = "asleep"
         /\ buzzers'[b].inbox = buzzers[b].inbox
         /\ buzzers'[b].posting = buzzers[b].posting
<1>1. buzzers[b] \in B!States
  BY DEF TypeOK
<1>2. B!Sends(buzzers[b]) \subseteq B!States
  BY <1>1, SendsFields
<1>3. /\ buzzers'[b] \in B!Sends(buzzers[b])
      /\ buzzers' \in [Buzzers -> B!States]
      /\ \A k \in Buzzers \ {b} : buzzers'[k] = buzzers[k]
  BY <1>2, OnlyOneMoves DEF SendsPress
<1> QED  BY <1>1, <1>3, SendsFields

LEMMA ResendsAndLocksMoves ==
  ASSUME TypeOK, NEW b \in Buzzers, ResendsAndLocks(b)
  PROVE  /\ buzzers' \in [Buzzers -> B!States]
         /\ \A k \in Buzzers \ {b} : buzzers'[k] = buzzers[k]
         /\ buzzers'[b].paired = buzzers[b].paired /\ buzzers'[b].locked = TRUE
         /\ buzzers[b].at = "woken" /\ buzzers'[b].at = "idle"
         /\ buzzers'[b].inbox = buzzers[b].inbox
         /\ buzzers'[b].posting = buzzers[b].posting
<1>1. buzzers[b] \in B!States
  BY DEF TypeOK
<1>2. B!LocksPressed(buzzers[b]) \subseteq B!States
  BY <1>1, LocksPressedFields
<1>3. /\ buzzers'[b] \in B!LocksPressed(buzzers[b])
      /\ buzzers' \in [Buzzers -> B!States]
      /\ \A k \in Buzzers \ {b} : buzzers'[k] = buzzers[k]
  BY <1>2, OnlyOneMoves DEF ResendsAndLocks
<1> DEFINE s == buzzers[b]
           t == buzzers'[b]
<1> HIDE DEF s, t
<1>4. s \in B!States /\ t \in B!LocksPressed(s)
  BY <1>1, <1>3 DEF s, t
<1>5. /\ t.paired = s.paired /\ t.locked = TRUE
      /\ s.at = "woken" /\ t.at = "idle"
      /\ t.inbox = s.inbox /\ t.posting = s.posting
  BY <1>4, LocksPressedFields
<1> QED  BY <1>3, <1>5, Zenon DEF s, t

LEMMA ResolvedMoves ==
  ASSUME TypeOK, NEW request \in memos, NEW answered \in BOOLEAN,
         PressedResolved(request, answered)
  PROVE  /\ request.buzzer \in Buzzers
         /\ buzzers' \in [Buzzers -> B!States]
         /\ \A k \in Buzzers \ {request.buzzer} : buzzers'[k] = buzzers[k]
         /\ LET b == request.buzzer
            IN  \/ buzzers'[b] = buzzers[b]
                \/ /\ buzzers'[b].paired = buzzers[b].paired
                   /\ buzzers'[b].locked = buzzers[b].locked
                   /\ buzzers[b].at = "asleep" /\ buzzers'[b].at = "woken"
                   /\ buzzers'[b].inbox = buzzers[b].inbox
                   /\ buzzers'[b].posting = buzzers[b].posting
<1> DEFINE b == request.buzzer
<1>1. b \in Buzzers
  BY DEF TypeOK, Requests
<1> HIDE DEF b
<1>2. buzzers[b] \in B!States /\ buzzers \in [Buzzers -> B!States]
  BY <1>1 DEF TypeOK
<1>3. (buzzers[b].at = "asleep" /\ Moves(b, B!Wakes(buzzers[b]))) \/ buzzers' = buzzers
  BY DEF PressedResolved, b
<1>4. CASE buzzers[b].at = "asleep" /\ Moves(b, B!Wakes(buzzers[b]))
  <2>1. B!Wakes(buzzers[b]) \subseteq B!States
    BY <1>2, WakesFields
  <2>2. /\ buzzers'[b] \in B!Wakes(buzzers[b])
        /\ buzzers' \in [Buzzers -> B!States]
        /\ \A k \in Buzzers \ {b} : buzzers'[k] = buzzers[k]
    BY <1>1, <1>4, <2>1, OnlyOneMoves
  <2>3. /\ buzzers'[b].paired = buzzers[b].paired
        /\ buzzers'[b].locked = buzzers[b].locked
        /\ buzzers[b].at = "asleep" /\ buzzers'[b].at = "woken"
        /\ buzzers'[b].inbox = buzzers[b].inbox
        /\ buzzers'[b].posting = buzzers[b].posting
    BY <1>2, <2>2, WakesFields
  <2> QED  BY <1>1, <2>2, <2>3 DEF b
<1>5. CASE buzzers' = buzzers
  BY <1>1, <1>2, <1>5 DEF b
<1> QED  BY <1>3, <1>4, <1>5

LEMMA ResetArrivesMoves ==
  ASSUME TypeOK, BuzzerInv, NEW m \in net, ResetArrives(m)
  PROVE  /\ m.buzzer \in Buzzers /\ m.type = "reset" /\ m.round \in 1 .. MaxResets
         /\ buzzers' \in [Buzzers -> B!States]
         /\ \A k \in Buzzers \ {m.buzzer} : buzzers'[k] = buzzers[k]
         /\ LET s == buzzers[m.buzzer]
                t == buzzers'[m.buzzer]
            IN  /\ t.paired = TRUE /\ t.locked = s.locked
                /\ t.at = s.at /\ s.at # "locking" /\ s.posting = FALSE
                /\ \/ s.locked = FALSE /\ t = s
                   \/ /\ s.locked = TRUE /\ B!Full(s)
                      /\ t.posting = TRUE /\ t.inbox = s.inbox
                   \/ /\ s.locked = TRUE /\ ~B!Full(s)
                      /\ t.posting = FALSE
                      /\ t.inbox = Append(s.inbox, "ENABLE_NORMAL")
<1> DEFINE b == m.buzzer
<1>1. m.type = "reset" /\ b \in Buzzers /\ m.round \in 1 .. MaxResets
  BY DEF TypeOK, Messages, Requests, Resets, ResetArrives
<1> HIDE DEF b
<1>2. buzzers[b] \in B!States /\ buzzers[b].paired = TRUE
  BY <1>1 DEF TypeOK, BuzzerInv
<1>3. B!Resets(buzzers[b]) \subseteq B!States
  BY <1>2, ResetsFields
<1>4. /\ buzzers'[b] \in B!Resets(buzzers[b])
      /\ buzzers' \in [Buzzers -> B!States]
      /\ \A k \in Buzzers \ {b} : buzzers'[k] = buzzers[k]
  BY <1>1, <1>3, OnlyOneMoves DEF ResetArrives, b
<1> DEFINE s == buzzers[b]
           t == buzzers'[b]
<1> HIDE DEF s, t
<1>5. s \in B!States /\ s.paired = TRUE /\ t \in B!Resets(s)
  BY <1>2, <1>4 DEF s, t
<1>6. /\ t.paired = TRUE /\ t.locked = s.locked
      /\ t.at = s.at /\ s.at # "locking" /\ s.posting = FALSE
      /\ \/ s.locked = FALSE /\ t = s
         \/ /\ s.locked = TRUE /\ B!Full(s)
            /\ t.posting = TRUE /\ t.inbox = s.inbox
         \/ /\ s.locked = TRUE /\ ~B!Full(s)
            /\ t.posting = FALSE
            /\ t.inbox = Append(s.inbox, "ENABLE_NORMAL")
  BY <1>5, ResetsFields
<1> QED  BY <1>1, <1>4, <1>6, Zenon DEF b, s, t

-----------------------------------------------------------------------------
(* Types and bounds.                                                       *)

LEMMA ResetsKept ==
  ASSUME ResetsInv, commands' = commands, receiver' = receiver, round' = round,
         \A m \in net' : m.type = "changed" => m \in net
  PROVE  ResetsInv'
BY DEF ResetsInv, Handling

LEMMA InboxTyped ==
  ASSUME TypeOK, NEW b \in Buzzers
  PROVE  buzzers[b] \in B!States /\ buzzers[b].inbox \in Seq(B!Inbox)
BY BuzzerTyped DEF TypeOK

LEMMA AppendNotEmpty ==
  ASSUME NEW s \in Seq(B!Inbox), NEW ev \in B!Inbox
  PROVE  Append(s, ev) # <<>>
BY AppendProperties

LEMMA EdgeTyped ==
  ASSUME TypeInv, NEW b \in Buzzers, Edge(b)
  PROVE  TypeInv'
<1> USE DEF TypeInv
<1>1. /\ buzzers' \in [Buzzers -> B!States]
      /\ \A k \in Buzzers \ {b} : buzzers'[k] = buzzers[k]
      /\ buzzers'[b].paired = buzzers[b].paired
      /\ buzzers'[b].at = buzzers[b].at
      /\ buzzers'[b].posting = buzzers[b].posting
      /\ buzzers'[b].inbox \in
           {buzzers[b].inbox, Append(buzzers[b].inbox, "BUZZER_PRESSED")}
  BY EdgeMoves
<1>2. /\ clock + Cardinality(QueuedPresses) < MaxEdges
      /\ UNCHANGED <<clock, stamp, pressed_not_timeouted, memos, held, net, presses,
                     tasks, receiver, commands, round>>
      /\ clean' \subseteq clean
  BY DEF Edge, serverVars
<1>3. TypeOK'
  BY <1>1, <1>2 DEF TypeOK
<1>4. buzzers[b].inbox \in Seq(B!Inbox) /\ "BUZZER_PRESSED" \in B!Inbox
  BY InboxTyped DEF B!Inbox
<1>5. BuzzerInv'
  <2>1. Append(buzzers[b].inbox, "BUZZER_PRESSED") # <<>>
    BY <1>4, AppendNotEmpty
  <2> QED  BY <1>1, <1>2, <2>1 DEF BuzzerInv
<1>6. EdgesInv'
  <2> DEFINE n == Len(buzzers[b].inbox) + 1
             F == Queued(buzzers)
             G == Queued(buzzers')
  <2>1. PressedAt(Append(buzzers[b].inbox, "BUZZER_PRESSED"))
          = PressedAt(buzzers[b].inbox) \cup {n}
    BY <1>4, PressedAppend
  <2>2. PressedAt(buzzers'[b].inbox) \subseteq PressedAt(buzzers[b].inbox) \cup {n}
    BY <1>1, <2>1
  <2>3. \A k \in Buzzers \ {b} : PressedAt(buzzers'[k].inbox) = PressedAt(buzzers[k].inbox)
    BY <1>1
  <2> HIDE DEF n
  <2>4. G \subseteq F \cup {<<b, n>>}
    BY <2>2, <2>3, QueuedNew
  <2>5. /\ IsFiniteSet(F) /\ clock \in Nat /\ MaxEdges \in Nat
        /\ Cardinality(F) \in Nat /\ clock + Cardinality(F) < MaxEdges
    BY <1>2, QueuedBound DEF QueuedPresses, Queued
  <2> HIDE DEF F, G
  <2>6. /\ IsFiniteSet(F \cup {<<b, n>>})
        /\ Cardinality(F \cup {<<b, n>>}) \in {Cardinality(F), Cardinality(F) + 1}
    BY <2>5, FS_AddElement
  <2>7. /\ IsFiniteSet(G) /\ Cardinality(G) <= Cardinality(F \cup {<<b, n>>})
    BY <2>4, <2>6, FS_Subset
  <2>8. Cardinality(G) \in Nat
    BY <2>7, FS_CardinalityType
  <2>9. clock + Cardinality(G) <= MaxEdges
    BY <2>5, <2>6, <2>7, <2>8
  <2> QED  BY <1>2, <1>3, <2>7, <2>9, EdgesByCount DEF G
<1>7. ResetsInv'
  BY <1>2, ResetsKept
<1> QED  BY <1>3, <1>5, <1>6, <1>7

(* The inbox after a message was taken from it.                            *)
LEMMA TakenInbox ==
  ASSUME TypeOK, NEW b \in Buzzers, buzzers[b].inbox # <<>>
  PROVE  PressedAt(Taken(b)) = PressedAt(Tail(buzzers[b].inbox))
<1>1. Tail(buzzers[b].inbox) \in Seq(B!Inbox) /\ "ENABLE_NORMAL" \in B!Inbox
  BY InboxTyped, HeadTailProperties DEF B!Inbox
<1>2. PressedAt(Append(Tail(buzzers[b].inbox), "ENABLE_NORMAL"))
        = PressedAt(Tail(buzzers[b].inbox))
  BY <1>1, PressedAppend
<1> QED  BY <1>2 DEF Taken

(* The handlers that go on answer, if the receiver still waits.            *)
LEMMA GoOnTyped ==
  ASSUME TypeOK, NEW b \in Buzzers, HandlersGoOn(b)
  PROVE  /\ held' \subseteq Resets /\ net' \subseteq Messages
         /\ \A m \in net' : m \in net \/ (m.type = "changed" /\ receiver = "wait")
         /\ \A m : m.type # "changed" => (m \in net' <=> m \in net)
<1>1. held' = held \ LetGo(b) /\ net' = net \cup Answered(LetGo(b))
  BY DEF HandlersGoOn
<1>2. LetGo(b) \subseteq Resets
  BY DEF LetGo, TypeOK
<1>3. ASSUME NEW m \in Answered(LetGo(b))
      PROVE  m \in Messages /\ m.type = "changed" /\ receiver = "wait"
  <2>1. PICK k \in LetGo(b) :
          m = [type |-> "changed", round |-> k.round] /\ receiver = "wait"
    BY DEF Answered
  <2>2. k.round \in 1 .. MaxResets
    BY <1>2 DEF Resets
  <2> QED  BY <2>1, <2>2 DEF Messages
<1> QED  BY <1>1, <1>2, <1>3 DEF TypeOK

LEMMA ChangesModeTyped ==
  ASSUME TypeInv, NEW b \in Buzzers, ChangesMode(b)
  PROVE  TypeInv'
<1> USE DEF TypeInv
<1>1. /\ buzzers' \in [Buzzers -> B!States]
      /\ \A k \in Buzzers \ {b} : buzzers'[k] = buzzers[k]
      /\ buzzers'[b].paired = buzzers[b].paired /\ buzzers'[b].at = "idle"
      /\ \/ /\ buzzers'[b].inbox = buzzers[b].inbox
            /\ buzzers'[b].posting = buzzers[b].posting
         \/ /\ buzzers[b].inbox # <<>> /\ buzzers'[b].inbox = Taken(b)
            /\ buzzers'[b].posting = FALSE
  BY ChangesModeMoves
<1>2. /\ HandlersGoOn(b)
      /\ UNCHANGED <<clock, stamp, pressed_not_timeouted, memos, presses, tasks,
                     receiver, commands, round, clean>>
  BY DEF ChangesMode, serverVars, history
<1>3. TypeOK'
  BY <1>1, <1>2, GoOnTyped DEF TypeOK
<1>4. BuzzerInv'
  BY <1>1, <1>2 DEF BuzzerInv, Sending
<1>5. EdgesInv'
  <2>1. CASE buzzers'[b].inbox = buzzers[b].inbox
    BY <1>1, <1>2, <2>1, EdgesKept
  <2>2. CASE buzzers[b].inbox # <<>> /\ buzzers'[b].inbox = Taken(b)
    <3> DEFINE n == Cardinality(Queued(buzzers))
               m == Cardinality(Queued(buzzers'))
    <3>1. IsFiniteSet(Queued(buzzers')) /\ n \in Nat /\ m \in Nat /\ m <= n
      BY <1>1, <2>2, TakenInbox, TakenCounts
    <3>2. clock \in Nat /\ MaxEdges \in Nat /\ clock + n <= MaxEdges
      BY QueuedBound
    <3> HIDE DEF n
    <3> QED  BY <1>2, <1>3, <3>1, <3>2, EdgesByCount
  <2> QED  BY <1>1, <2>1, <2>2
<1>6. ResetsInv'
  BY <1>2, GoOnTyped DEF ResetsInv, Handling
<1> QED  BY <1>3, <1>4, <1>5, <1>6

LEMMA TakesPressTyped ==
  ASSUME TypeInv, NEW b \in Buzzers, TakesPress(b)
  PROVE  TypeInv' /\ clock' = clock + 1 /\ clock' \in Times
<1> USE DEF TypeInv
<1>1. /\ buzzers' \in [Buzzers -> B!States]
      /\ \A k \in Buzzers \ {b} : buzzers'[k] = buzzers[k]
      /\ buzzers'[b].paired = buzzers[b].paired
      /\ buzzers[b].inbox # <<>> /\ Head(buzzers[b].inbox) = "BUZZER_PRESSED"
      /\ buzzers'[b].inbox = Taken(b) /\ buzzers'[b].posting = FALSE
  BY TakesPressMoves
<1>2. /\ clock' = clock + 1 /\ stamp' = [stamp EXCEPT ![b] = clock']
      /\ HandlersGoOn(b)
      /\ UNCHANGED <<pressed_not_timeouted, memos, presses, tasks, receiver,
                     commands, round, clean>>
  BY DEF TakesPress, serverVars, history
<1> DEFINE n == Cardinality(Queued(buzzers))
           m == Cardinality(Queued(buzzers'))
<1>3. IsFiniteSet(Queued(buzzers')) /\ n \in Nat /\ m \in Nat /\ m <= n - 1
  BY <1>1, TakenInbox, TakenCounts
<1>4. clock \in Nat /\ MaxEdges \in Nat /\ clock + n <= MaxEdges
  BY QueuedBound
<1> HIDE DEF n, m
<1>5. clock' + m <= MaxEdges /\ clock' \in Times
  BY <1>2, <1>3, <1>4 DEF Times
<1>6. stamp' \in [Buzzers -> Times \cup {None}]
  BY <1>2, <1>5 DEF TypeOK
<1>7. TypeOK'
  BY <1>1, <1>2, <1>5, <1>6, GoOnTyped DEF TypeOK, Times
<1>8. BuzzerInv'
  <2>1. stamp'[b] = clock' /\ \A k \in Buzzers \ {b} : stamp'[k] = stamp[k]
    BY <1>2 DEF TypeOK
  <2> QED  BY <1>1, <1>5, <2>1 DEF BuzzerInv
<1>9. EdgesInv'
  BY <1>3, <1>5, <1>7, EdgesByCount DEF m
<1>10. ResetsInv'
  BY <1>2, GoOnTyped DEF ResetsInv, Handling
<1> QED  BY <1>2, <1>5, <1>7, <1>8, <1>9, <1>10

LEMMA SentTyped ==
  ASSUME TypeOK, NEW b \in Buzzers, NEW try \in 1 .. 2, stamp[b] \in Times,
         Sent(b, try)
  PROVE  /\ memos' \subseteq Requests /\ net' \subseteq Messages
         /\ LET request == [type |-> "pressed", buzzer |-> b, time |-> stamp[b],
                            try |-> try]
            IN net' = net \cup {request} /\ request.type = "pressed"
<1> DEFINE request == [type |-> "pressed", buzzer |-> b, time |-> stamp[b],
                       try |-> try]
<1>1. request \in Requests
  BY DEF Requests
<1>2. memos' = memos \cup {request} /\ net' = net \cup {request}
  BY DEF Sent
<1> QED  BY <1>1, <1>2 DEF TypeOK, Messages

LEMMA SendsPressTyped ==
  ASSUME TypeInv, NEW b \in Buzzers, SendsPress(b)
  PROVE  TypeInv'
<1> USE DEF TypeInv
<1>1. /\ buzzers' \in [Buzzers -> B!States]
      /\ \A k \in Buzzers \ {b} : buzzers'[k] = buzzers[k]
      /\ buzzers'[b].paired = buzzers[b].paired /\ buzzers[b].at = "delay"
      /\ buzzers'[b].inbox = buzzers[b].inbox
      /\ buzzers'[b].posting = buzzers[b].posting
  BY SendsPressMoves
<1>2. /\ pressed_not_timeouted' = pressed_not_timeouted \ {b} /\ Sent(b, 1)
      /\ UNCHANGED <<clock, stamp, held, presses, tasks, receiver, commands,
                     round, clean>>
  BY DEF SendsPress, serverVars, history
<1>3. stamp[b] \in Times
  BY <1>1 DEF BuzzerInv, Sending
<1>4. /\ memos' \subseteq Requests /\ net' \subseteq Messages
      /\ \A m \in net' : m \in net \/ m.type = "pressed"
  BY <1>2, <1>3, SentTyped
<1>5. TypeOK'
  BY <1>1, <1>2, <1>4 DEF TypeOK
<1>6. BuzzerInv'
  BY <1>1, <1>2, <1>3 DEF BuzzerInv
<1>7. EdgesInv'
  BY <1>1, <1>2, EdgesKept
<1>8. ResetsInv'
  BY <1>2, <1>4, ResetsKept
<1> QED  BY <1>5, <1>6, <1>7, <1>8

LEMMA ResendsAndLocksTyped ==
  ASSUME TypeInv, NEW b \in Buzzers, ResendsAndLocks(b)
  PROVE  TypeInv'
<1> USE DEF TypeInv
<1>1. /\ buzzers' \in [Buzzers -> B!States]
      /\ \A k \in Buzzers \ {b} : buzzers'[k] = buzzers[k]
      /\ buzzers'[b].paired = buzzers[b].paired
      /\ buzzers[b].at = "woken" /\ buzzers'[b].at = "idle"
      /\ buzzers'[b].inbox = buzzers[b].inbox
      /\ buzzers'[b].posting = buzzers[b].posting
  BY ResendsAndLocksMoves
<1>2. /\ (memos' = memos /\ net' = net) \/ Sent(b, 2)
      /\ stamp' = [stamp EXCEPT ![b] = None]
      /\ pressed_not_timeouted' = pressed_not_timeouted \ {b}
      /\ UNCHANGED <<clock, held, presses, tasks, receiver, commands, round,
                     clean>>
  BY DEF ResendsAndLocks, serverVars, history
<1>3. stamp[b] \in Times
  BY <1>1 DEF BuzzerInv, Sending
<1>4. /\ memos' \subseteq Requests /\ net' \subseteq Messages
      /\ \A m \in net' : m \in net \/ m.type = "pressed"
  BY <1>2, <1>3, SentTyped DEF TypeOK
<1>5. /\ stamp' \in [Buzzers -> Times \cup {None}]
      /\ \A k \in Buzzers \ {b} : stamp'[k] = stamp[k]
  BY <1>2 DEF TypeOK
<1>6. TypeOK'
  BY <1>1, <1>2, <1>4, <1>5 DEF TypeOK
<1>7. BuzzerInv'
  BY <1>1, <1>5 DEF BuzzerInv, Sending
<1>8. EdgesInv'
  BY <1>1, <1>2, EdgesKept
<1>9. ResetsInv'
  BY <1>2, <1>4, ResetsKept
<1> QED  BY <1>6, <1>7, <1>8, <1>9

LEMMA ResolvedTyped ==
  ASSUME TypeInv, NEW request \in memos, NEW answered \in BOOLEAN,
         PressedResolved(request, answered)
  PROVE  TypeInv'
<1> USE DEF TypeInv
<1> DEFINE b == request.buzzer
<1>1. /\ b \in Buzzers /\ buzzers' \in [Buzzers -> B!States]
      /\ \A k \in Buzzers \ {b} : buzzers'[k] = buzzers[k]
      /\ \/ buzzers'[b] = buzzers[b]
         \/ /\ buzzers'[b].paired = buzzers[b].paired
            /\ buzzers[b].at = "asleep" /\ buzzers'[b].at = "woken"
            /\ buzzers'[b].inbox = buzzers[b].inbox
            /\ buzzers'[b].posting = buzzers[b].posting
  BY ResolvedMoves
<1>2. /\ memos' \subseteq memos /\ net' \subseteq net
      /\ pressed_not_timeouted' \subseteq pressed_not_timeouted \cup {b}
      /\ UNCHANGED <<clock, stamp, held, presses, tasks, receiver, commands,
                     round, clean>>
  BY DEF PressedResolved, serverVars, history
<1> HIDE DEF b
<1>3. TypeOK'
  BY <1>1, <1>2 DEF TypeOK
<1>4. BuzzerInv'
  BY <1>1, <1>2 DEF BuzzerInv, Sending
<1>5. EdgesInv'
  BY <1>1, <1>2, EdgesKept
<1>6. ResetsInv'
  BY <1>2, ResetsKept
<1> QED  BY <1>3, <1>4, <1>5, <1>6

LEMMA ResetArrivesTyped ==
  ASSUME TypeInv, NEW m \in net, ResetArrives(m)
  PROVE  TypeInv'
<1> USE DEF TypeInv
<1> DEFINE b == m.buzzer
<1>1. /\ b \in Buzzers /\ m.round \in 1 .. MaxResets
      /\ buzzers' \in [Buzzers -> B!States]
      /\ \A k \in Buzzers \ {b} : buzzers'[k] = buzzers[k]
      /\ buzzers'[b].paired = TRUE /\ buzzers'[b].at = buzzers[b].at
      /\ \/ buzzers'[b] = buzzers[b]
         \/ /\ B!Full(buzzers[b]) /\ buzzers'[b].inbox = buzzers[b].inbox
         \/ /\ buzzers'[b].posting = FALSE
            /\ buzzers'[b].inbox = Append(buzzers[b].inbox, "ENABLE_NORMAL")
  BY ResetArrivesMoves
<1>2. UNCHANGED <<clock, stamp, pressed_not_timeouted, memos, presses, tasks,
                  receiver, commands, round, clean>>
  BY DEF ResetArrives, serverVars, history
<1>3. /\ held' \subseteq held \cup {m}
      /\ \A k \in net' :
           \/ k \in net
           \/ k = [type |-> "changed", round |-> m.round] /\ receiver = "wait"
  BY DEF ResetArrives, Answered
<1> HIDE DEF b
<1>4. net' \subseteq Messages
  <2>1. [type |-> "changed", round |-> m.round] \in Messages
    BY <1>1 DEF Messages
  <2> QED  BY <1>3, <2>1 DEF TypeOK
<1>5. TypeOK'
  <2>1. m \in Resets
    BY DEF ResetArrives, TypeOK, Messages, Requests
  <2> QED  BY <1>1, <1>2, <1>3, <1>4, <2>1 DEF TypeOK
<1>6. buzzers[b].inbox \in Seq(B!Inbox) /\ "ENABLE_NORMAL" \in B!Inbox
  BY <1>1, InboxTyped DEF B!Inbox
<1>7. BuzzerInv'
  <2>1. B!Full(buzzers[b]) => buzzers[b].inbox # <<>>
    BY QueueAssumption, EmptySeq DEF B!Full
  <2>2. Append(buzzers[b].inbox, "ENABLE_NORMAL") # <<>>
    BY <1>6, AppendNotEmpty
  <2>3. buzzers'[b].posting = TRUE => buzzers'[b].inbox # <<>>
    BY <1>1, <2>1, <2>2 DEF BuzzerInv
  <2> QED  BY <1>1, <1>2, <2>3 DEF BuzzerInv
<1>8. EdgesInv'
  <2>1. PressedAt(Append(buzzers[b].inbox, "ENABLE_NORMAL"))
          = PressedAt(buzzers[b].inbox)
    BY <1>6, PressedAppend
  <2> QED  BY <1>1, <1>2, <2>1, EdgesKept
<1>9. ResetsInv'
  BY <1>2, <1>3 DEF ResetsInv, Handling
<1> QED  BY <1>5, <1>7, <1>8, <1>9

(* What leaves the buzzers alone keeps what is said of them.               *)
LEMMA BuzzersKept ==
  ASSUME TypeInv, UNCHANGED <<buzzers, clock, stamp>>
  PROVE  BuzzerInv' /\ EdgesInv'
BY DEF TypeInv, BuzzerInv, EdgesInv, QueuedPresses

LEMMA LostTyped ==
  ASSUME TypeInv, NEW m \in net, Lost(m)
  PROVE  TypeInv'
<1> USE DEF TypeInv
<1>1. /\ net' \subseteq net /\ clean' \subseteq clean
      /\ UNCHANGED <<buzzers, clock, stamp, pressed_not_timeouted, memos, held,
                     presses, tasks, receiver, commands, round>>
  BY DEF Lost, buzzerVars, serverVars
<1>2. TypeOK'
  BY <1>1 DEF TypeOK
<1> QED  BY <1>1, <1>2, BuzzersKept, ResetsKept

LEMMA PressedArrivesTyped ==
  ASSUME TypeInv, NEW m \in net, PressedArrives(m)
  PROVE  TypeInv' /\ [buzzer |-> m.buzzer, time |-> m.time] \in Presses
<1> USE DEF TypeInv
<1>1. UNCHANGED <<buzzers, clock, stamp, pressed_not_timeouted, memos, held, presses,
                  receiver, commands, round, clean>>
  BY DEF PressedArrives, buzzerVars, history
<1>2. \A k \in net' : k \in net \/ \E r \in memos : k = Answer(r)
  BY DEF PressedArrives
<1>3. ASSUME NEW r \in Requests
      PROVE  Answer(r) \in Messages /\ Answer(r).type = "created"
  BY DEF Requests, Answer, Messages
<1>4. net' \subseteq Messages /\ \A k \in net' : k.type = "changed" => k \in net
  BY <1>2, <1>3 DEF TypeOK
<1>5. m.type = "pressed" /\ m.buzzer \in Buzzers /\ m.time \in Times
  BY DEF PressedArrives, TypeOK, Messages, Requests, Resets
<1>6. [buzzer |-> m.buzzer, time |-> m.time] \in Presses
  BY <1>5 DEF Presses
<1>7. tasks' \in Seq(Presses)
  BY <1>6, AppendProperties DEF PressedArrives, TypeOK
<1>8. TypeOK'
  BY <1>1, <1>4, <1>7 DEF TypeOK
<1> QED  BY <1>1, <1>4, <1>6, <1>8, BuzzersKept, ResetsKept

(* What the main thread of the backend makes of an acknowledged press.     *)
LEMMA RecordSteps ==
  ASSUME TypeOK, PressedRecord
  PROVE  /\ tasks # <<>> /\ Head(tasks) \in Presses /\ tasks' = Tail(tasks)
         /\ Tail(tasks) \in Seq(Presses)
         /\ LET press == Head(tasks)
            IN presses' = IF presses[press.buzzer] = None
                          THEN [presses EXCEPT ![press.buzzer] = press.time]
                          ELSE presses
<1>1. tasks \in Seq(Presses) /\ tasks # <<>> /\ tasks' = Tail(tasks)
  BY DEF TypeOK, PressedRecord
<1>2. Head(tasks) \in Presses /\ Tail(tasks) \in Seq(Presses)
  BY <1>1, HeadTailProperties
<1> QED  BY <1>1, <1>2 DEF PressedRecord, S!Press

LEMMA PressedRecordTyped ==
  ASSUME TypeInv, PressedRecord
  PROVE  TypeInv'
<1> USE DEF TypeInv
<1>1. UNCHANGED <<buzzers, clock, stamp, pressed_not_timeouted, memos, held, net,
                  receiver, commands, round, clean>>
  BY DEF PressedRecord, buzzerVars, history
<1>2. Head(tasks) \in Presses /\ tasks' \in Seq(Presses)
  BY RecordSteps
<1>3. presses' \in [Buzzers -> Times \cup {None}]
  BY <1>2, RecordSteps DEF Presses, TypeOK
<1>4. TypeOK'
  BY <1>1, <1>2, <1>3 DEF TypeOK
<1> QED  BY <1>1, <1>4, BuzzersKept, ResetsKept

LEMMA ResetClickTyped ==
  ASSUME TypeInv, ResetClick
  PROVE  TypeInv'
<1> USE DEF TypeInv
<1>1. /\ round < MaxResets /\ round' = round + 1 /\ commands' = commands + 1
      /\ clean' \subseteq Buzzers
      /\ UNCHANGED <<buzzers, clock, stamp, pressed_not_timeouted, memos, held, net,
                     presses, tasks, receiver>>
  BY DEF ResetClick, buzzerVars, serverVars
<1>2. commands + Handling <= round /\ Handling \in {0, 1} /\ Handling' = Handling
  BY <1>1 DEF ResetsInv, Handling
<1>3. commands \in Nat /\ round \in Nat /\ MaxResets \in Nat
  BY GameBounds DEF TypeOK
<1>4. commands' + Handling' <= round' /\ commands' \in 0 .. MaxResets /\ round' \in 0 .. MaxResets
  BY <1>1, <1>2, <1>3
<1>5. TypeOK'
  BY <1>1, <1>4 DEF TypeOK
<1>6. ResetsInv'
  BY <1>1, <1>4 DEF ResetsInv
<1> QED  BY <1>1, <1>5, <1>6, BuzzersKept

LEMMA ResetCommandTyped ==
  ASSUME TypeInv, ResetCommand
  PROVE  TypeInv'
<1> USE DEF TypeInv
<1>1. /\ receiver = "idle" /\ commands > 0
      /\ receiver' = "multicast" /\ commands' = commands - 1
      /\ presses' = [b \in Buzzers |-> None]
      /\ UNCHANGED <<buzzers, clock, stamp, pressed_not_timeouted, memos, held, net,
                     tasks, round, clean>>
  BY DEF ResetCommand, S!Reset, TypeOK, buzzerVars, history
<1>2. commands \in 0 .. MaxResets /\ round \in Nat /\ MaxResets \in Nat
  BY GameBounds DEF TypeOK
<1>3. commands' \in 0 .. MaxResets
  BY <1>1, <1>2
<1>4. commands' + Handling' <= round'
  BY <1>1, <1>2 DEF ResetsInv, Handling
<1>5. TypeOK'
  BY <1>1, <1>3 DEF TypeOK
<1>6. ResetsInv'
  BY <1>1, <1>4 DEF ResetsInv
<1> QED  BY <1>1, <1>5, <1>6, BuzzersKept

LEMMA MulticastTyped ==
  ASSUME TypeInv, Multicast
  PROVE  TypeInv'
<1> USE DEF TypeInv
<1>1. /\ receiver = "multicast" /\ receiver' = "wait"
      /\ UNCHANGED <<buzzers, clock, stamp, pressed_not_timeouted, memos, held,
                     presses, tasks, commands, round, clean>>
  BY DEF Multicast, buzzerVars, history
<1>2. \A m \in net' : m \in net \/ \E b \in Buzzers :
        m = [type |-> "reset", buzzer |-> b, round |-> round - commands]
  BY DEF Multicast
<1>3. commands \in Nat /\ round \in 0 .. MaxResets /\ MaxResets \in Nat
  BY GameBounds DEF TypeOK
<1>4. round - commands \in 1 .. MaxResets
  BY <1>1, <1>3 DEF ResetsInv, Handling
<1>5. ASSUME NEW b \in Buzzers
      PROVE  [type |-> "reset", buzzer |-> b, round |-> round - commands] \in Messages
  BY <1>4 DEF Messages, Resets
<1>6. net' \subseteq Messages /\ \A m \in net' : m.type = "changed" => m \in net
  BY <1>2, <1>5 DEF TypeOK
<1>7. TypeOK'
  BY <1>1, <1>6 DEF TypeOK
<1>8. ResetsInv'
  BY <1>1, <1>6 DEF ResetsInv, Handling
<1> QED  BY <1>1, <1>7, <1>8, BuzzersKept

LEMMA ResetAnsweredTyped ==
  ASSUME TypeInv, NEW m \in net, ResetAnswered(m)
  PROVE  TypeInv'
<1> USE DEF TypeInv
<1>1. /\ m.type = "changed" /\ net' = {k \in net : k.type # "changed"}
      /\ receiver' = "idle"
      /\ UNCHANGED <<buzzers, clock, stamp, pressed_not_timeouted, memos, held,
                     presses, tasks, commands, round, clean>>
  BY DEF ResetAnswered, buzzerVars, history
<1>2. TypeOK'
  BY <1>1 DEF TypeOK
<1>3. receiver = "wait"
  BY <1>1 DEF ResetsInv
<1>4. commands \in Nat /\ round \in Nat
  BY GameBounds DEF TypeOK
<1>5. ResetsInv'
  BY <1>1, <1>3, <1>4 DEF ResetsInv, Handling
<1> QED  BY <1>1, <1>2, <1>5, BuzzersKept

LEMMA StutterTyped ==
  ASSUME TypeInv, UNCHANGED vars
  PROVE  TypeInv'
<1>1. UNCHANGED <<buzzers, clock, stamp, pressed_not_timeouted, memos, held, net,
                  presses, tasks, receiver, commands, round, clean>>
  BY DEF vars, buzzerVars, serverVars, history
<1>2. TypeOK'
  BY <1>1 DEF TypeInv, TypeOK
<1> QED  BY <1>1, <1>2, BuzzersKept, ResetsKept DEF TypeInv

LEMMA TypeInvInit == Init => TypeInv
<1> SUFFICES ASSUME Init PROVE TypeInv
  OBVIOUS
<1>1. ASSUME NEW b \in Buzzers
      PROVE  /\ buzzers[b] \in B!States /\ buzzers[b].paired = TRUE
             /\ buzzers[b].locked = FALSE /\ buzzers[b].at = "locking"
             /\ buzzers[b].inbox = <<>> /\ buzzers[b].posting = FALSE
  <2>1. buzzers[b] = [B!Unpaired EXCEPT !.paired = TRUE, !.at = "locking"]
    BY DEF Init
  <2>2. <<>> \in Seq(B!Inbox)
    BY EmptySeq
  <2> QED  BY <2>1, <2>2 DEF B!Unpaired, B!States
<1>2. buzzers \in [Buzzers -> B!States]
  BY <1>1 DEF Init
<1>3. tasks \in Seq(Presses)
  BY EmptySeq DEF Init
<1>4. TypeOK
  BY <1>2, <1>3, GameBounds DEF Init, TypeOK
<1>5. BuzzerInv
  BY <1>1 DEF BuzzerInv, Sending
<1>6. EdgesInv
  <2>1. \A b \in Buzzers : PressedAt(buzzers[b].inbox) = {}
    <3>1. PressedAt(<<>>) = {}
      BY DEF PressedAt
    <3> QED  BY <1>1, <3>1
  <2>2. QueuedPresses = {}
    BY <2>1 DEF QueuedPresses
  <2> QED  BY <2>2, FS_EmptySet, GameBounds DEF EdgesInv, Init
<1>7. ResetsInv
  BY DEF Init, ResetsInv, Handling
<1> QED  BY <1>4, <1>5, <1>6, <1>7 DEF TypeInv

LEMMA TypeInvNext == TypeInv /\ [Next]_vars => TypeInv'
<1> SUFFICES ASSUME TypeInv, [Next]_vars PROVE TypeInv'
  OBVIOUS
<1>1. ASSUME NEW b \in Buzzers, Edge(b) \/ main_routine(b) PROVE TypeInv'
  BY <1>1, EdgeTyped, ChangesModeTyped, TakesPressTyped, SendsPressTyped,
     ResendsAndLocksTyped DEF main_routine
<1>2. CASE Timeout
  BY <1>2, ResolvedTyped DEF Timeout, PressedTimesOut
<1>3. CASE Delivery
  <2>1. ASSUME NEW m \in net, PressedArrives(m) \/ ResetArrives(m) \/ ResetAnswered(m)
        PROVE  TypeInv'
    BY <2>1, PressedArrivesTyped, ResetArrivesTyped, ResetAnsweredTyped
  <2>2. ASSUME NEW request \in memos, PressedAnswered(request)
        PROVE  TypeInv'
    BY <2>2, ResolvedTyped DEF PressedAnswered
  <2> QED  BY <1>3, <2>1, <2>2 DEF Delivery
<1>4. CASE Loss
  BY <1>4, LostTyped DEF Loss
<1>5. CASE PressedRecord
  BY <1>5, PressedRecordTyped
<1>6. CASE ResetCommand
  BY <1>6, ResetCommandTyped
<1>7. CASE Multicast
  BY <1>7, MulticastTyped
<1>8. CASE ResetClick
  BY <1>8, ResetClickTyped
<1>9. CASE UNCHANGED vars
  BY <1>9, StutterTyped
<1> QED  BY <1>1, <1>2, <1>3, <1>4, <1>5, <1>6, <1>7, <1>8, <1>9 DEF Next

(* Inboxes, requests, messages, registry and counters are always of their  *)
(* types: a queued press finds a time, and the receiver numbers the reset  *)
(* it handles by one that was published (gameshow_server.py:319-330).      *)
THEOREM RoundTypeCorrect == Spec => []TypeOK
<1>1. TypeInv => TypeOK
  BY DEF TypeInv
<1> QED  BY <1>1, TypeInvInit, TypeInvNext, PTL DEF Spec

-----------------------------------------------------------------------------
(* Clean rounds.                                                           *)

LEMMA OneResetKept ==
  ASSUME NEW k \in Buzzers, OneReset(k), commands' = commands, receiver' = receiver,
         \A m \in net' : m.type = "reset" => m \in net
  PROVE  OneReset(k)'
BY DEF OneReset

LEMMA ComingKept ==
  ASSUME NEW k \in Buzzers, commands' = commands, receiver' = receiver,
         \A m : m.type = "reset" /\ m.buzzer = k => (m \in net' <=> m \in net)
  PROVE  ResetComing(k)' <=> ResetComing(k)
BY DEF ResetComing

LEMMA ReportsKept ==
  ASSUME NEW k \in Buzzers, tasks' = tasks,
         \A m : m.type = "pressed" /\ m.buzzer = k => (m \in net' <=> m \in net)
  PROVE  ReportComing(k)' <=> ReportComing(k)
BY DEF ReportComing

(* A buzzer nothing happens to.                                            *)
LEMMA BuzzerKept ==
  ASSUME NEW k \in Buzzers, BuzzerRound(k),
         buzzers'[k] = buzzers[k], presses'[k] = presses[k], commands' = commands,
         ReportComing(k)' <=> ReportComing(k), ResetComing(k)' <=> ResetComing(k)
  PROVE  BuzzerRound(k)'
BY DEF BuzzerRound, BeforeReset, Opening, Playing, Reported

LEMMA CleanRound ==
  ASSUME TypeInv, RoundInv, NEW k \in clean
  PROVE  k \in Buzzers /\ OneReset(k) /\ BuzzerRound(k)
BY DEF RoundInv, TypeInv, TypeOK

LEMMA HeadOfPresses ==
  ASSUME TypeOK, NEW b \in Buzzers, Playing(b), buzzers[b].inbox # <<>>
  PROVE  /\ Head(buzzers[b].inbox) = "BUZZER_PRESSED"
         /\ \A i \in DOMAIN Tail(buzzers[b].inbox) :
              Tail(buzzers[b].inbox)[i] = "BUZZER_PRESSED"
<1> DEFINE q == buzzers[b].inbox
<1>1. q \in Seq(B!Inbox) /\ q # <<>> /\ \A i \in DOMAIN q : q[i] = "BUZZER_PRESSED"
  BY InboxTyped DEF Playing
<1> HIDE DEF q
<1>2. /\ Len(q) \in Nat \ {0} /\ DOMAIN q = 1 .. Len(q) /\ Head(q) = q[1]
      /\ Tail(q) \in Seq(B!Inbox) /\ Len(Tail(q)) = Len(q) - 1
      /\ \A i \in 1 .. Len(Tail(q)) : Tail(q)[i] = q[i + 1]
  BY <1>1, HeadTailProperties, LenProperties, EmptySeq
<1>3. DOMAIN Tail(q) = 1 .. Len(q) - 1
  BY <1>2, LenProperties
<1> QED  BY <1>1, <1>2, <1>3 DEF q

LEMMA EdgeRound ==
  ASSUME TypeInv, RoundInv, NEW b \in Buzzers, Edge(b)
  PROVE  RoundInv'
<1> SUFFICES ASSUME NEW k \in clean' PROVE OneReset(k)' /\ BuzzerRound(k)'
  BY DEF RoundInv
<1>1. /\ k \in clean /\ (k = b => ~ResetComing(b))
      /\ UNCHANGED <<net, presses, tasks, receiver, commands>>
  BY DEF Edge, serverVars
<1>2. k \in Buzzers /\ OneReset(k) /\ BuzzerRound(k)
  BY <1>1, CleanRound
<1>3. /\ \A j \in Buzzers \ {b} : buzzers'[j] = buzzers[j]
      /\ buzzers[b].locked = FALSE /\ buzzers'[b].locked = FALSE
      /\ buzzers'[b].at = buzzers[b].at /\ buzzers'[b].posting = buzzers[b].posting
      /\ buzzers'[b].inbox \in
           {buzzers[b].inbox, Append(buzzers[b].inbox, "BUZZER_PRESSED")}
  BY EdgeMoves DEF TypeInv
<1>4. OneReset(k)'
  BY <1>1, <1>2, OneResetKept
<1>5. /\ ReportComing(k)' <=> ReportComing(k)
      /\ ResetComing(k)' <=> ResetComing(k)
  BY <1>1, <1>2, ReportsKept, ComingKept
<1>6. CASE k = b
  <2>1. buzzers[b].posting = FALSE /\ Playing(b)
    BY <1>1, <1>2, <1>3, <1>6 DEF BuzzerRound, Opening
  <2>2. \A i \in DOMAIN buzzers'[b].inbox : buzzers'[b].inbox[i] = "BUZZER_PRESSED"
    <3> DEFINE q == buzzers[b].inbox
    <3>1. q \in Seq(B!Inbox) /\ "BUZZER_PRESSED" \in B!Inbox
      BY InboxTyped DEF B!Inbox, TypeInv
    <3>2. \A i \in DOMAIN q : q[i] = "BUZZER_PRESSED"
      BY <2>1 DEF Playing
    <3> HIDE DEF q
    <3>3. /\ Len(q) \in Nat /\ DOMAIN q = 1 .. Len(q)
          /\ DOMAIN Append(q, "BUZZER_PRESSED") = 1 .. Len(q) + 1
          /\ \A i \in 1 .. Len(q) : Append(q, "BUZZER_PRESSED")[i] = q[i]
          /\ Append(q, "BUZZER_PRESSED")[Len(q) + 1] = "BUZZER_PRESSED"
      BY <3>1, AppendProperties, LenProperties
    <3>4. \A i \in DOMAIN Append(q, "BUZZER_PRESSED") :
            Append(q, "BUZZER_PRESSED")[i] = "BUZZER_PRESSED"
      BY <3>2, <3>3
    <3>5. buzzers'[b].inbox \in {q, Append(q, "BUZZER_PRESSED")}
      BY <1>3 DEF q
    <3> QED  BY <3>2, <3>4, <3>5
  <2>3. BuzzerRound(b)'
    BY <1>1, <1>3, <1>5, <1>6, <2>1, <2>2 DEF BuzzerRound, Playing, Reported
  <2> QED  BY <1>4, <1>6, <2>3
<1>7. CASE k # b
  BY <1>1, <1>2, <1>3, <1>4, <1>5, <1>7, BuzzerKept
<1> QED  BY <1>6, <1>7

LEMMA ChangesModeRound ==
  ASSUME TypeInv, RoundInv, NEW b \in Buzzers, ChangesMode(b)
  PROVE  RoundInv'
<1> SUFFICES ASSUME NEW k \in clean' PROVE OneReset(k)' /\ BuzzerRound(k)'
  BY DEF RoundInv
<1>1. /\ UNCHANGED <<clean, presses, tasks, receiver, commands>>
      /\ \A m : m.type # "changed" => (m \in net' <=> m \in net)
  BY GoOnTyped DEF ChangesMode, serverVars, history, TypeInv
<1>2. k \in Buzzers /\ OneReset(k) /\ BuzzerRound(k)
  BY <1>1, CleanRound
<1>3. /\ \A j \in Buzzers \ {b} : buzzers'[j] = buzzers[j]
      /\ buzzers'[b].at = "idle"
      /\ \/ buzzers[b].at = "locking"
         \/ /\ buzzers'[b].locked = FALSE
            /\ buzzers[b].inbox # <<>> /\ Head(buzzers[b].inbox) = "ENABLE_NORMAL"
            /\ buzzers'[b].inbox = Taken(b) /\ buzzers'[b].posting = FALSE
  BY ChangesModeMoves DEF TypeInv
<1>4. OneReset(k)'
  BY <1>1, <1>2, OneResetKept
<1>5. /\ ReportComing(k)' <=> ReportComing(k)
      /\ ResetComing(k)' <=> ResetComing(k)
  BY <1>1, <1>2, ReportsKept, ComingKept
<1>6. CASE k = b
  <2>1. buzzers[b].at # "locking"
    BY <1>2, <1>6 DEF BuzzerRound, BeforeReset, Opening, Playing
  <2>2. ~Playing(b)
    BY <1>3, <2>1, HeadOfPresses DEF TypeInv
  <2>3. buzzers[b].posting = FALSE /\ ~ResetComing(b) /\ Opening(b)
    BY <1>2, <1>3, <1>6, <2>1, <2>2 DEF BuzzerRound, BeforeReset
  <2>4. buzzers'[b].inbox = <<>>
    BY <1>3, <2>1, <2>3 DEF Taken, Opening
  <2>5. Playing(b)'
    BY <1>1, <1>3, <1>5, <1>6, <2>1, <2>3, <2>4 DEF Playing, Opening, Reported
  <2> QED  BY <1>3, <1>4, <1>5, <1>6, <2>1, <2>3, <2>5 DEF BuzzerRound
<1>7. CASE k # b
  BY <1>1, <1>2, <1>3, <1>4, <1>5, <1>7, BuzzerKept
<1> QED  BY <1>6, <1>7

LEMMA TakesPressRound ==
  ASSUME TypeInv, RoundInv, NEW b \in Buzzers, TakesPress(b)
  PROVE  RoundInv'
<1> SUFFICES ASSUME NEW k \in clean' PROVE OneReset(k)' /\ BuzzerRound(k)'
  BY DEF RoundInv
<1>1. /\ UNCHANGED <<clean, presses, tasks, receiver, commands>>
      /\ \A m : m.type # "changed" => (m \in net' <=> m \in net)
  BY GoOnTyped DEF TakesPress, serverVars, history, TypeInv
<1>2. k \in Buzzers /\ OneReset(k) /\ BuzzerRound(k)
  BY <1>1, CleanRound
<1>3. /\ \A j \in Buzzers \ {b} : buzzers'[j] = buzzers[j]
      /\ buzzers'[b].locked = buzzers[b].locked
      /\ buzzers[b].at = "idle" /\ buzzers'[b].at = "delay"
      /\ buzzers[b].inbox # <<>> /\ Head(buzzers[b].inbox) = "BUZZER_PRESSED"
      /\ buzzers'[b].inbox = Taken(b) /\ buzzers'[b].posting = FALSE
  BY TakesPressMoves DEF TypeInv
<1>4. OneReset(k)'
  BY <1>1, <1>2, OneResetKept
<1>5. /\ ReportComing(k)' <=> ReportComing(k)
      /\ ResetComing(k)' <=> ResetComing(k)
  BY <1>1, <1>2, ReportsKept, ComingKept
<1>6. CASE k = b
  <2>1. ~Opening(b)
    BY <1>3 DEF Opening
  <2>2. buzzers[b].posting = FALSE /\ ~ResetComing(b) /\ Playing(b)
    BY <1>2, <1>3, <1>6, <2>1 DEF BuzzerRound, BeforeReset
  <2>3. \A i \in DOMAIN buzzers'[b].inbox : buzzers'[b].inbox[i] = "BUZZER_PRESSED"
    BY <1>3, <2>2, HeadOfPresses DEF Taken, TypeInv
  <2>4. BuzzerRound(b)'
    BY <1>1, <1>3, <1>5, <1>6, <2>2, <2>3 DEF BuzzerRound, Playing, Reported
  <2> QED  BY <1>4, <1>6, <2>4
<1>7. CASE k # b
  BY <1>1, <1>2, <1>3, <1>4, <1>5, <1>7, BuzzerKept
<1> QED  BY <1>6, <1>7

(* A request on its way.                                                   *)
LEMMA SentRound ==
  ASSUME TypeInv, NEW b \in Buzzers, NEW try \in 1 .. 2, Sent(b, try),
         UNCHANGED <<tasks, receiver, commands>>
  PROVE  /\ ReportComing(b)'
         /\ \A k \in Buzzers : OneReset(k) => OneReset(k)'
         /\ \A k \in Buzzers \ {b} : ReportComing(k)' <=> ReportComing(k)
         /\ \A k \in Buzzers : ResetComing(k)' <=> ResetComing(k)
<1> DEFINE request == [type |-> "pressed", buzzer |-> b, time |-> stamp[b],
                       try |-> try]
<1>1. net' = net \cup {request}
  BY DEF Sent
<1>2. request.type = "pressed" /\ request.buzzer = b
  OBVIOUS
<1> HIDE DEF request
<1>3. \A k \in Buzzers : OneReset(k) => OneReset(k)'
  BY <1>1, <1>2, OneResetKept
<1>4. \A k \in Buzzers \ {b} : ReportComing(k)' <=> ReportComing(k)
  BY <1>1, <1>2, ReportsKept
<1>5. \A k \in Buzzers : ResetComing(k)' <=> ResetComing(k)
  BY <1>1, <1>2, ComingKept
<1>6. ReportComing(b)'
  BY <1>1, <1>2 DEF ReportComing
<1> QED  BY <1>3, <1>4, <1>5, <1>6

LEMMA SendsPressRound ==
  ASSUME TypeInv, RoundInv, NEW b \in Buzzers, SendsPress(b)
  PROVE  RoundInv'
<1> SUFFICES ASSUME NEW k \in clean' PROVE OneReset(k)' /\ BuzzerRound(k)'
  BY DEF RoundInv
<1>1. UNCHANGED <<clean, presses, tasks, receiver, commands>> /\ Sent(b, 1)
  BY DEF SendsPress, serverVars, history
<1>2. k \in Buzzers /\ OneReset(k) /\ BuzzerRound(k)
  BY <1>1, CleanRound
<1>3. /\ \A j \in Buzzers \ {b} : buzzers'[j] = buzzers[j]
      /\ buzzers'[b].locked = buzzers[b].locked
      /\ buzzers[b].at = "delay" /\ buzzers'[b].at = "asleep"
      /\ buzzers'[b].inbox = buzzers[b].inbox
      /\ buzzers'[b].posting = buzzers[b].posting
  BY SendsPressMoves DEF TypeInv
<1>4. /\ OneReset(k)' /\ ReportComing(b)'
      /\ k # b => (ReportComing(k)' <=> ReportComing(k))
      /\ ResetComing(k)' <=> ResetComing(k)
  BY <1>1, <1>2, SentRound
<1>5. CASE k = b
  <2>1. buzzers[b].posting = FALSE /\ ~ResetComing(b) /\ Playing(b)
    BY <1>2, <1>3, <1>5 DEF BuzzerRound, BeforeReset, Opening
  <2>2. BuzzerRound(b)'
    BY <1>3, <1>4, <1>5, <2>1 DEF BuzzerRound, Playing, Reported
  <2> QED  BY <1>4, <1>5, <2>2
<1>6. CASE k # b
  BY <1>1, <1>2, <1>3, <1>4, <1>6, BuzzerKept
<1> QED  BY <1>5, <1>6

LEMMA ResendsAndLocksRound ==
  ASSUME TypeInv, RoundInv, NEW b \in Buzzers, ResendsAndLocks(b)
  PROVE  RoundInv'
<1> SUFFICES ASSUME NEW k \in clean' PROVE OneReset(k)' /\ BuzzerRound(k)'
  BY DEF RoundInv
<1>1. /\ UNCHANGED <<clean, presses, tasks, receiver, commands>>
      /\ net' = net \/ Sent(b, 2)
  BY DEF ResendsAndLocks, serverVars, history
<1>2. k \in Buzzers /\ OneReset(k) /\ BuzzerRound(k)
  BY <1>1, CleanRound
<1>3. /\ \A j \in Buzzers \ {b} : buzzers'[j] = buzzers[j]
      /\ buzzers'[b].locked = TRUE
      /\ buzzers[b].at = "woken" /\ buzzers'[b].at = "idle"
      /\ buzzers'[b].inbox = buzzers[b].inbox
      /\ buzzers'[b].posting = buzzers[b].posting
  BY ResendsAndLocksMoves DEF TypeInv
<1>4. /\ OneReset(k)' /\ (ReportComing(b) => ReportComing(b)')
      /\ k # b => (ReportComing(k)' <=> ReportComing(k))
      /\ ResetComing(k)' <=> ResetComing(k)
  <2>1. CASE net' = net
    BY <1>1, <1>2, <2>1, OneResetKept, ReportsKept, ComingKept
  <2>2. CASE Sent(b, 2)
    BY <1>1, <1>2, <2>2, SentRound
  <2> QED  BY <1>1, <2>1, <2>2
<1>5. CASE k = b
  <2>1. buzzers[b].posting = FALSE /\ ~ResetComing(b) /\ Playing(b)
    BY <1>2, <1>3, <1>5 DEF BuzzerRound, BeforeReset, Opening
  <2>2. Reported(b)'
    BY <1>1, <1>3, <1>4, <2>1 DEF Playing, Reported
  <2>3. BuzzerRound(b)'
    BY <1>3, <1>4, <1>5, <2>1, <2>2 DEF BuzzerRound, Playing
  <2> QED  BY <1>4, <1>5, <2>3
<1>6. CASE k # b
  BY <1>1, <1>2, <1>3, <1>4, <1>6, BuzzerKept
<1> QED  BY <1>5, <1>6

LEMMA ResolvedRound ==
  ASSUME TypeInv, RoundInv, NEW request \in memos, NEW answered \in BOOLEAN,
         PressedResolved(request, answered)
  PROVE  RoundInv'
<1> SUFFICES ASSUME NEW k \in clean' PROVE OneReset(k)' /\ BuzzerRound(k)'
  BY DEF RoundInv
<1> DEFINE b == request.buzzer
<1>1. /\ UNCHANGED <<clean, presses, tasks, receiver, commands>>
      /\ net' = net \ {Answer(request)}
  BY DEF PressedResolved, serverVars, history
<1>2. k \in Buzzers /\ OneReset(k) /\ BuzzerRound(k)
  BY <1>1, CleanRound
<1>3. /\ b \in Buzzers /\ \A j \in Buzzers \ {b} : buzzers'[j] = buzzers[j]
      /\ \/ buzzers'[b] = buzzers[b]
         \/ /\ buzzers'[b].locked = buzzers[b].locked
            /\ buzzers[b].at = "asleep" /\ buzzers'[b].at = "woken"
            /\ buzzers'[b].inbox = buzzers[b].inbox
            /\ buzzers'[b].posting = buzzers[b].posting
  BY ResolvedMoves DEF TypeInv
<1> HIDE DEF b
<1>4. Answer(request).type = "created"
  BY DEF TypeInv, TypeOK, Requests, Answer
<1>5. \A m : m.type # "created" => (m \in net' <=> m \in net)
  BY <1>1, <1>4
<1>6. OneReset(k)'
  BY <1>1, <1>2, <1>5, OneResetKept
<1>7. /\ ReportComing(k)' <=> ReportComing(k)
      /\ ResetComing(k)' <=> ResetComing(k)
  BY <1>1, <1>2, <1>5, ReportsKept, ComingKept
<1>8. CASE buzzers'[k] = buzzers[k]
  BY <1>1, <1>2, <1>6, <1>7, <1>8, BuzzerKept
<1>9. CASE /\ k = b
           /\ buzzers'[b].locked = buzzers[b].locked
           /\ buzzers[b].at = "asleep" /\ buzzers'[b].at = "woken"
           /\ buzzers'[b].inbox = buzzers[b].inbox
           /\ buzzers'[b].posting = buzzers[b].posting
  <2>1. buzzers[b].posting = FALSE /\ ~ResetComing(b) /\ Playing(b)
    BY <1>2, <1>9 DEF BuzzerRound, BeforeReset, Opening
  <2>2. BuzzerRound(b)'
    BY <1>1, <1>7, <1>9, <2>1 DEF BuzzerRound, Playing, Reported
  <2> QED  BY <1>6, <1>9, <2>2
<1> QED  BY <1>2, <1>3, <1>8, <1>9

(* The reset of the round reaches its buzzer.                              *)
LEMMA ResetArrivesRound ==
  ASSUME TypeInv, RoundInv, NEW m \in net, ResetArrives(m)
  PROVE  RoundInv'
<1> SUFFICES ASSUME NEW k \in clean' PROVE OneReset(k)' /\ BuzzerRound(k)'
  BY DEF RoundInv
<1> DEFINE b == m.buzzer
<1>1. /\ UNCHANGED <<clean, presses, tasks, receiver, commands>>
      /\ m.type = "reset"
      /\ \A j : j.type # "changed" => (j \in net' <=> j \in net /\ j # m)
  <2>1. \A j \in Answered({m}) : j.type = "changed"
    BY DEF Answered
  <2> QED  BY <2>1 DEF ResetArrives, serverVars, history
<1>2. k \in Buzzers /\ OneReset(k) /\ BuzzerRound(k)
  BY <1>1, CleanRound
<1>3. /\ b \in Buzzers /\ \A j \in Buzzers \ {b} : buzzers'[j] = buzzers[j]
      /\ buzzers'[b].at = buzzers[b].at
      /\ \/ buzzers[b].locked = FALSE /\ buzzers'[b] = buzzers[b]
         \/ B!Full(buzzers[b]) /\ buzzers'[b].inbox = buzzers[b].inbox
         \/ /\ buzzers[b].locked = TRUE /\ buzzers'[b].locked = TRUE
            /\ buzzers'[b].posting = FALSE
            /\ buzzers'[b].inbox = Append(buzzers[b].inbox, "ENABLE_NORMAL")
  BY ResetArrivesMoves DEF TypeInv
<1>4. OneReset(k)'
  BY <1>1, <1>2, OneResetKept
<1>5. ReportComing(k)' <=> ReportComing(k)
  BY <1>1, <1>2, ReportsKept
<1>6. CASE k = b
  <2>1. ResetComing(b) /\ ~ResetComing(b)' /\ commands = 0
    <3>1. commands = 0 /\ receiver # "multicast"
      BY <1>1, <1>2, <1>6 DEF OneReset, TypeInv, TypeOK
    <3>2. \A j \in net : j.type = "reset" /\ j.buzzer = b => j = m
      BY <1>1, <1>2, <1>6 DEF OneReset
    <3> QED  BY <1>1, <3>1, <3>2 DEF ResetComing
  <2> HIDE DEF b
  <2>2. /\ buzzers[b].at = "idle" /\ buzzers[b].inbox = <<>> /\ ~Reported(b)
        /\ buzzers[b].posting = FALSE
    BY <1>2, <1>3, <1>6, <2>1 DEF BuzzerRound, BeforeReset, Reported
  <2>3. ~Reported(b)'
    BY <1>1, <1>3, <1>5, <1>6, <2>2 DEF Reported
  <2>4. CASE buzzers[b].locked = FALSE /\ buzzers'[b] = buzzers[b]
    BY <1>4, <1>6, <2>1, <2>2, <2>3, <2>4 DEF BuzzerRound, Playing
  <2>5. ~B!Full(buzzers[b])
    BY <2>2, QueueAssumption DEF B!Full
  <2>6. CASE /\ buzzers[b].locked = TRUE /\ buzzers'[b].locked = TRUE
             /\ buzzers'[b].posting = FALSE
             /\ buzzers'[b].inbox = Append(buzzers[b].inbox, "ENABLE_NORMAL")
    <3>1. Append(<<>>, "ENABLE_NORMAL") = <<"ENABLE_NORMAL">>
      OBVIOUS
    <3> QED  BY <1>3, <1>4, <1>6, <2>1, <2>2, <2>3, <2>6, <3>1
             DEF BuzzerRound, Opening
  <2> QED  BY <1>3, <2>4, <2>5, <2>6
<1>7. CASE k # b
  <2>1. ResetComing(k)' <=> ResetComing(k)
    BY <1>1, <1>7 DEF ResetComing
  <2>2. buzzers'[k] = buzzers[k] /\ presses'[k] = presses[k] /\ commands' = commands
    BY <1>1, <1>2, <1>3, <1>7
  <2> QED  BY <1>2, <1>4, <1>5, <2>1, <2>2, BuzzerKept
<1> QED  BY <1>6, <1>7

(* What is lost was not to or from a buzzer that stays clean.              *)
LEMMA LostRound ==
  ASSUME TypeInv, RoundInv, NEW m \in net, Lost(m)
  PROVE  RoundInv'
<1> SUFFICES ASSUME NEW k \in clean' PROVE OneReset(k)' /\ BuzzerRound(k)'
  BY DEF RoundInv
<1>1. /\ k \in clean
      /\ UNCHANGED <<buzzers, presses, tasks, receiver, commands>>
      /\ net' = net \ {m} /\ clean' = clean \ {b \in Buzzers : m.type # "changed" /\ m.buzzer = b}
  BY DEF Lost, buzzerVars, serverVars
<1>2. k \in Buzzers /\ OneReset(k) /\ BuzzerRound(k)
  BY <1>1, CleanRound
<1>3. \A j : j.type \in {"pressed", "reset"} /\ j.buzzer = k => (j \in net' <=> j \in net)
  BY <1>1, <1>2
<1>4. OneReset(k)'
  BY <1>1, <1>2, OneResetKept
<1>5. /\ ReportComing(k)' <=> ReportComing(k)
      /\ ResetComing(k)' <=> ResetComing(k)
  BY <1>1, <1>2, <1>3, ReportsKept, ComingKept
<1> QED  BY <1>1, <1>2, <1>4, <1>5, BuzzerKept

(* A press that arrives stays reported: as a task.                         *)
LEMMA PressedArrivesRound ==
  ASSUME TypeInv, RoundInv, NEW m \in net, PressedArrives(m)
  PROVE  RoundInv'
<1> SUFFICES ASSUME NEW k \in clean' PROVE OneReset(k)' /\ BuzzerRound(k)'
  BY DEF RoundInv
<1> DEFINE task == [buzzer |-> m.buzzer, time |-> m.time]
<1>1. /\ UNCHANGED <<clean, buzzers, presses, receiver, commands>>
      /\ m.type = "pressed" /\ tasks' = Append(tasks, task)
      /\ net' = (net \ {m}) \cup {Answer(r) : r \in memos \cap {m}}
  BY DEF PressedArrives, buzzerVars, history
<1>2. k \in Buzzers /\ OneReset(k) /\ BuzzerRound(k)
  BY <1>1, CleanRound
<1>3. task.buzzer = m.buzzer
  OBVIOUS
<1> HIDE DEF task
<1>4. \A r \in memos : Answer(r).type = "created"
  BY DEF TypeInv, TypeOK, Requests, Answer
<1>5. \A j : j.type # "created" => (j \in net' <=> j \in net /\ j # m)
  BY <1>1, <1>4
<1>6. task \in Presses /\ tasks \in Seq(Presses)
  BY PressedArrivesTyped DEF TypeInv, TypeOK, task
<1>7. /\ Len(tasks) \in Nat /\ DOMAIN tasks = 1 .. Len(tasks)
      /\ DOMAIN tasks' = 1 .. Len(tasks) + 1
      /\ \A i \in 1 .. Len(tasks) : tasks'[i] = tasks[i]
      /\ tasks'[Len(tasks) + 1] = task
  BY <1>1, <1>6, AppendProperties, LenProperties
<1>8. OneReset(k)'
  <2>1. \A j \in net' : j.type = "reset" => j \in net
    BY <1>5
  <2> QED  BY <1>1, <1>2, <2>1, OneResetKept
<1>9. ResetComing(k)' <=> ResetComing(k)
  BY <1>1, <1>2, <1>5, ComingKept
<1>10. ReportComing(k)' <=> ReportComing(k)
  <2>1. ASSUME ReportComing(k) PROVE ReportComing(k)'
    <3>1. CASE \E i \in DOMAIN tasks : tasks[i].buzzer = k
      BY <1>7, <3>1 DEF ReportComing
    <3>2. CASE \E p \in net : p.type = "pressed" /\ p.buzzer = k
      <4>1. PICK p \in net : p.type = "pressed" /\ p.buzzer = k
        BY <3>2
      <4>2. CASE p # m
        BY <1>5, <4>1, <4>2 DEF ReportComing
      <4>3. CASE p = m
        <5>1. Len(tasks) + 1 \in DOMAIN tasks' /\ tasks'[Len(tasks) + 1].buzzer = k
          BY <1>3, <1>7, <4>1, <4>3
        <5> QED  BY <5>1 DEF ReportComing
      <4> QED  BY <4>2, <4>3
    <3> QED  BY <2>1, <3>1, <3>2 DEF ReportComing
  <2>2. ASSUME ReportComing(k)' PROVE ReportComing(k)
    <3>1. CASE \E p \in net' : p.type = "pressed" /\ p.buzzer = k
      BY <1>5, <3>1 DEF ReportComing
    <3>2. CASE \E i \in DOMAIN tasks' : tasks'[i].buzzer = k
      <4>1. PICK i \in DOMAIN tasks' : tasks'[i].buzzer = k
        BY <3>2
      <4>2. CASE i \in 1 .. Len(tasks)
        BY <1>7, <4>1, <4>2 DEF ReportComing
      <4>3. CASE i = Len(tasks) + 1
        BY <1>1, <1>3, <1>7, <4>1, <4>3 DEF ReportComing
      <4> QED  BY <1>7, <4>1, <4>2, <4>3
    <3> QED  BY <2>2, <3>1, <3>2 DEF ReportComing
  <2> QED  BY <2>1, <2>2
<1> QED  BY <1>1, <1>2, <1>8, <1>9, <1>10, BuzzerKept

(* A press that is recorded stays reported: in the registry.               *)
LEMMA PressedRecordRound ==
  ASSUME TypeInv, RoundInv, PressedRecord
  PROVE  RoundInv'
<1> SUFFICES ASSUME NEW k \in clean' PROVE OneReset(k)' /\ BuzzerRound(k)'
  BY DEF RoundInv
<1> DEFINE press == Head(tasks)
<1>1. UNCHANGED <<clean, buzzers, net, receiver, commands>>
  BY DEF PressedRecord, buzzerVars, history
<1>2. k \in Buzzers /\ OneReset(k) /\ BuzzerRound(k)
  BY <1>1, CleanRound
<1>3. /\ tasks # <<>> /\ tasks' = Tail(tasks) /\ tasks \in Seq(Presses)
      /\ press.buzzer \in Buzzers /\ press.time \in Times
      /\ presses' = IF presses[press.buzzer] = None
                    THEN [presses EXCEPT ![press.buzzer] = press.time]
                    ELSE presses
  BY RecordSteps DEF TypeInv, TypeOK, Presses
<1>4. /\ Len(tasks) \in Nat \ {0} /\ DOMAIN tasks = 1 .. Len(tasks) /\ press = tasks[1]
      /\ DOMAIN tasks' = 1 .. Len(tasks) - 1
      /\ \A i \in 1 .. Len(tasks) - 1 : tasks'[i] = tasks[i + 1]
  <2>1. /\ Tail(tasks) \in Seq(Presses) /\ Len(Tail(tasks)) = Len(tasks) - 1
        /\ \A i \in 1 .. Len(Tail(tasks)) : Tail(tasks)[i] = tasks[i + 1]
    BY <1>3, HeadTailProperties
  <2>2. /\ Len(tasks) \in Nat \ {0} /\ DOMAIN tasks = 1 .. Len(tasks)
        /\ DOMAIN Tail(tasks) = 1 .. Len(Tail(tasks)) /\ Head(tasks) = tasks[1]
    BY <1>3, <2>1, LenProperties, EmptySeq
  <2> QED  BY <1>3, <2>1, <2>2
<1> HIDE DEF press
<1>5. /\ presses'[press.buzzer] # None
      /\ \A j \in Buzzers : presses'[j] = presses[j] \/ j = press.buzzer
  <2>1. presses \in [Buzzers -> Times \cup {None}] /\ None \notin Times
    BY NoneNoTime DEF TypeInv, TypeOK, Times
  <2> QED  BY <1>3, <2>1
<1>6. OneReset(k)'
  BY <1>1, <1>2, OneResetKept
<1>7. ReportComing(press.buzzer)
  BY <1>4 DEF ReportComing
<1>8. /\ Reported(k)' <=> Reported(k)
      /\ ReportComing(k)' => ReportComing(k)
      /\ ResetComing(k)' <=> ResetComing(k)
  <2>1. ReportComing(k)' => ReportComing(k)
    BY <1>1, <1>4 DEF ReportComing
  <2>2. ReportComing(k) => ReportComing(k)' \/ k = press.buzzer
    <3>1. ASSUME NEW i \in DOMAIN tasks, tasks[i].buzzer = k, k # press.buzzer
          PROVE  i - 1 \in DOMAIN tasks' /\ tasks'[i - 1].buzzer = k
      BY <1>4, <3>1
    <3> QED  BY <1>1, <3>1 DEF ReportComing
  <2>3. Reported(k)' <=> Reported(k)
    <3>1. CASE k = press.buzzer
      BY <1>5, <1>7, <3>1 DEF Reported
    <3>2. CASE k # press.buzzer
      BY <1>2, <1>5, <2>1, <2>2, <3>2 DEF Reported
    <3> QED  BY <3>1, <3>2
  <2> QED  BY <1>1, <1>2, <2>1, <2>3, ComingKept
<1>9. CASE ResetComing(k)
  <2>1. ~ReportComing(k) /\ k # press.buzzer
    BY <1>2, <1>7, <1>9 DEF BuzzerRound, BeforeReset
  <2> QED  BY <1>1, <1>2, <1>5, <1>6, <1>8, <1>9, <2>1 DEF BuzzerRound, BeforeReset
<1>10. CASE ~ResetComing(k)
  BY <1>1, <1>2, <1>6, <1>8, <1>10 DEF BuzzerRound, Opening, Playing
<1> QED  BY <1>9, <1>10

(* A round begins clean for the buzzers at rest, whatever went before it.  *)
LEMMA ResetClickRound ==
  ASSUME TypeInv, ResetClick
  PROVE  RoundInv'
<1> SUFFICES ASSUME NEW k \in clean' PROVE OneReset(k)' /\ BuzzerRound(k)'
  BY DEF RoundInv
<1>1. /\ commands' = commands + 1 /\ k \in Buzzers /\ AtRest(k)
      /\ UNCHANGED <<buzzers, net, presses, tasks, receiver>>
  BY DEF ResetClick, buzzerVars, serverVars
<1>2. commands' = 1 /\ receiver # "multicast"
  BY <1>1 DEF AtRest, ResetComing, TypeInv, TypeOK
<1>3. \A m \in net : m.type = "reset" => m.buzzer # k
  BY <1>1 DEF AtRest, ResetComing
<1>4. OneReset(k)'
  BY <1>1, <1>2, <1>3 DEF OneReset
<1>5. ~ReportComing(k)'
  BY <1>1 DEF AtRest, ReportComing
<1>6. ResetComing(k)'
  BY <1>2 DEF ResetComing
<1>7. buzzers[k].posting \in BOOLEAN
  BY <1>1, BuzzerTyped DEF TypeInv, TypeOK
<1>8. buzzers[k].at = "idle" /\ buzzers[k].inbox = <<>> /\ buzzers[k].posting = FALSE
  BY <1>1, <1>7 DEF AtRest, TypeInv, BuzzerInv
<1> QED  BY <1>1, <1>2, <1>4, <1>5, <1>6, <1>8 DEF BuzzerRound, BeforeReset

LEMMA ResetCommandRound ==
  ASSUME TypeInv, RoundInv, ResetCommand
  PROVE  RoundInv'
<1> SUFFICES ASSUME NEW k \in clean' PROVE OneReset(k)' /\ BuzzerRound(k)'
  BY DEF RoundInv
<1>1. /\ receiver = "idle" /\ commands > 0
      /\ receiver' = "multicast" /\ commands' = commands - 1
      /\ presses' = [b \in Buzzers |-> None]
      /\ UNCHANGED <<clean, buzzers, net, tasks>>
  BY DEF ResetCommand, S!Reset, TypeInv, TypeOK, buzzerVars, history
<1>2. k \in Buzzers /\ OneReset(k) /\ BuzzerRound(k)
  BY <1>1, CleanRound
<1>3. commands' = 0
  BY <1>1, <1>2 DEF OneReset, TypeInv, TypeOK
<1>4. OneReset(k)'
  BY <1>1, <1>2, <1>3 DEF OneReset
<1>5. ResetComing(k) /\ ResetComing(k)'
  BY <1>1 DEF ResetComing
<1>6. ReportComing(k)' <=> ReportComing(k)
  BY <1>1, <1>2, ReportsKept
<1> QED  BY <1>1, <1>2, <1>4, <1>5, <1>6 DEF BuzzerRound, BeforeReset

LEMMA MulticastRound ==
  ASSUME TypeInv, RoundInv, Multicast
  PROVE  RoundInv'
<1> SUFFICES ASSUME NEW k \in clean' PROVE OneReset(k)' /\ BuzzerRound(k)'
  BY DEF RoundInv
<1> DEFINE Reset(b) == [type |-> "reset", buzzer |-> b, round |-> round - commands]
<1>1. /\ receiver = "multicast" /\ receiver' = "wait"
      /\ net' = net \cup {Reset(b) : b \in Buzzers}
      /\ UNCHANGED <<clean, buzzers, presses, tasks, commands>>
  BY DEF Multicast, buzzerVars, history
<1>2. k \in Buzzers /\ OneReset(k) /\ BuzzerRound(k)
  BY <1>1, CleanRound
<1>3. \A b : Reset(b).type = "reset" /\ Reset(b).buzzer = b
  OBVIOUS
<1> HIDE DEF Reset
<1>4. commands = 0 /\ \A m \in net : m.type = "reset" => m.buzzer # k
  BY <1>1, <1>2 DEF OneReset, TypeInv, TypeOK
<1>5. \A m \in net' : m.type = "reset" /\ m.buzzer = k => m = Reset(k)
  BY <1>1, <1>3, <1>4
<1>6. OneReset(k)'
  BY <1>1, <1>4, <1>5 DEF OneReset
<1>7. ResetComing(k) /\ ResetComing(k)'
  BY <1>1, <1>2, <1>3 DEF ResetComing
<1>8. \A m : m.type = "pressed" => (m \in net' <=> m \in net)
  BY <1>1, <1>3
<1>9. ReportComing(k)' <=> ReportComing(k)
  BY <1>1, <1>2, <1>8, ReportsKept
<1> QED  BY <1>1, <1>2, <1>6, <1>7, <1>9, BuzzerKept

LEMMA ResetAnsweredRound ==
  ASSUME TypeInv, RoundInv, NEW m \in net, ResetAnswered(m)
  PROVE  RoundInv'
<1> SUFFICES ASSUME NEW k \in clean' PROVE OneReset(k)' /\ BuzzerRound(k)'
  BY DEF RoundInv
<1>1. /\ m.type = "changed" /\ net' = {j \in net : j.type # "changed"}
      /\ receiver' = "idle"
      /\ UNCHANGED <<clean, buzzers, presses, tasks, commands>>
  BY DEF ResetAnswered, buzzerVars, history
<1>2. k \in Buzzers /\ OneReset(k) /\ BuzzerRound(k)
  BY <1>1, CleanRound
<1>3. receiver = "wait"
  BY <1>1 DEF ResetsInv, TypeInv
<1>4. \A j : j.type # "changed" => (j \in net' <=> j \in net)
  BY <1>1
<1>5. OneReset(k)'
  BY <1>1, <1>2, <1>3 DEF OneReset
<1>6. ResetComing(k)' <=> ResetComing(k)
  BY <1>1, <1>3, <1>4 DEF ResetComing
<1>7. ReportComing(k)' <=> ReportComing(k)
  BY <1>1, <1>2, <1>4, ReportsKept
<1> QED  BY <1>1, <1>2, <1>5, <1>6, <1>7, BuzzerKept

LEMMA StutterRound ==
  ASSUME TypeInv, RoundInv, UNCHANGED vars
  PROVE  RoundInv'
<1> SUFFICES ASSUME NEW k \in clean' PROVE OneReset(k)' /\ BuzzerRound(k)'
  BY DEF RoundInv
<1>1. UNCHANGED <<buzzers, net, presses, tasks, receiver, commands, clean>>
  BY DEF vars, buzzerVars, serverVars, history
<1>2. k \in Buzzers /\ OneReset(k) /\ BuzzerRound(k)
  BY <1>1, CleanRound
<1>3. /\ OneReset(k)'
      /\ ReportComing(k)' <=> ReportComing(k)
      /\ ResetComing(k)' <=> ResetComing(k)
  BY <1>1, <1>2, OneResetKept, ReportsKept, ComingKept
<1> QED  BY <1>1, <1>2, <1>3, BuzzerKept

LEMMA RoundInvNext == TypeInv /\ RoundInv /\ [Next]_vars => RoundInv'
<1> SUFFICES ASSUME TypeInv, RoundInv, [Next]_vars PROVE RoundInv'
  OBVIOUS
<1>1. ASSUME NEW b \in Buzzers, Edge(b) \/ main_routine(b) PROVE RoundInv'
  BY <1>1, EdgeRound, ChangesModeRound, TakesPressRound, SendsPressRound,
     ResendsAndLocksRound DEF main_routine
<1>2. CASE Timeout
  BY <1>2, ResolvedRound DEF Timeout, PressedTimesOut
<1>3. CASE Delivery
  <2>1. ASSUME NEW m \in net, PressedArrives(m) \/ ResetArrives(m) \/ ResetAnswered(m)
        PROVE  RoundInv'
    BY <2>1, PressedArrivesRound, ResetArrivesRound, ResetAnsweredRound
  <2>2. ASSUME NEW request \in memos, PressedAnswered(request)
        PROVE  RoundInv'
    BY <2>2, ResolvedRound DEF PressedAnswered
  <2> QED  BY <1>3, <2>1, <2>2 DEF Delivery
<1>4. CASE Loss
  BY <1>4, LostRound DEF Loss
<1>5. CASE PressedRecord
  BY <1>5, PressedRecordRound
<1>6. CASE ResetCommand
  BY <1>6, ResetCommandRound
<1>7. CASE Multicast
  BY <1>7, MulticastRound
<1>8. CASE ResetClick
  BY <1>8, ResetClickRound
<1>9. CASE UNCHANGED vars
  BY <1>9, StutterRound
<1> QED  BY <1>1, <1>2, <1>3, <1>4, <1>5, <1>6, <1>7, <1>8, <1>9 DEF Next

LEMMA RoundsKept == Spec => [](TypeInv /\ RoundInv)
<1>1. Init => RoundInv
  BY DEF Init, RoundInv
<1> QED  BY <1>1, TypeInvInit, TypeInvNext, RoundInvNext, PTL DEF Spec

(* For any number of buzzers, resets and presses: in a clean round a       *)
(* buzzer at rest is locked exactly if the backend recorded a press of it, *)
(* although requests are late or sent twice, answers are lost or wake the  *)
(* wrong press, the receiver may still wait for the reset before, and      *)
(* other buzzers lose their resets or never answer                         *)
(* (gameshow_buzzer.c:187-203, 500-507; gameshow_server.py:228-234).       *)
THEOREM RoundAgrees == Spec => []CleanRoundAgrees
<1>1. TypeInv /\ RoundInv => CleanRoundAgrees
  <2> SUFFICES ASSUME TypeInv, RoundInv, NEW b \in clean, AtRest(b)
               PROVE  buzzers[b].locked <=> presses[b] # None
    BY DEF CleanRoundAgrees
  <2>1. b \in Buzzers /\ BuzzerRound(b)
    BY CleanRound
  <2>2. buzzers[b].locked \in BOOLEAN
    BY <2>1, BuzzerTyped DEF TypeInv, TypeOK
  <2>3. ~ResetComing(b) /\ buzzers[b].at = "idle" /\ buzzers[b].inbox = <<>>
    BY DEF AtRest
  <2>4. Playing(b)
    BY <2>1, <2>3 DEF BuzzerRound, Opening
  <2>5. ~ReportComing(b)
    BY DEF AtRest, ReportComing
  <2>6. presses[b] # None <=> buzzers[b].locked = TRUE
    BY <2>3, <2>4, <2>5 DEF Playing, Reported
  <2> QED  BY <2>2, <2>6
<1> QED  BY <1>1, RoundsKept, PTL
=============================================================================
