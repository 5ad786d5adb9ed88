------------------------------ MODULE Registry ------------------------------
(***************************************************************************)
(* What the buzzer backend promises to the buzzers and to the UI: one      *)
(* press at most for each registered buzzer, cleared for all at once by a  *)
(* reset, and lists for the UI that are each the registry as it was at one *)
(* moment.  Threads, tasks and locks are GameshowServer's, which           *)
(* implements this module; GameRound is built on it.                       *)
(***************************************************************************)
CONSTANTS Names, Times, None

VARIABLES
  presses,   \* registered buzzer -> time of its press, or None
  copies,    \* lists copied from the registry and not sent yet
  shown      \* the list the UI backend got last

Init == presses = <<>> /\ copies = {} /\ shown = <<>>

Register(n) ==
  /\ n \notin DOMAIN presses
  /\ presses' = [k \in DOMAIN presses \cup {n} |->
                   IF k = n THEN None ELSE presses[k]]
  /\ UNCHANGED <<copies, shown>>

Remove(n) ==
  /\ n \in DOMAIN presses
  /\ presses' = [k \in DOMAIN presses \ {n} |-> presses[k]]
  /\ UNCHANGED <<copies, shown>>

Press(n, t) ==
  /\ n \in DOMAIN presses /\ presses[n] = None
  /\ presses' = [presses EXCEPT ![n] = t]
  /\ UNCHANGED <<copies, shown>>

Reset ==
  /\ presses' = [n \in DOMAIN presses |-> None]
  /\ UNCHANGED <<copies, shown>>

Copy ==
  /\ copies' = copies \cup {presses}
  /\ UNCHANGED <<presses, shown>>

(* The other thread may still hold an equal copy.                          *)
Send(list) ==
  /\ list \in copies
  /\ shown' = list
  /\ copies' \in {copies, copies \ {list}}
  /\ UNCHANGED presses

Next == \/ \E n \in Names : Register(n) \/ Remove(n)
        \/ \E n \in Names, t \in Times : Press(n, t)
        \/ Reset \/ Copy
        \/ \E list \in copies : Send(list)

Spec == Init /\ [][Next]_<<presses, copies, shown>>
=============================================================================
