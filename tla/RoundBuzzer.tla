---------------------------- MODULE RoundBuzzer ----------------------------
(***************************************************************************)
(* What one buzzer promises to the game: when it is open for a press, when *)
(* it locks, and when a reset of the round opens it again.  Pairing,       *)
(* heartbeats, LED and boot are left out; the modes they cause arrive as   *)
(* messages in the inbox.  Buzzer implements this module, GameRound        *)
(* composes buzzers that keep it.                                          *)
(*                                                                         *)
(* A step of a buzzer in state s is a member of the set of its successors, *)
(* so that a module with many buzzers can move one of them.                *)
(***************************************************************************)
EXTENDS Naturals, Sequences

CONSTANTS
  RCV_QUEUE_SIZE,   \* messages the inbox holds
  Others            \* messages that do not come from a press or a reset

VARIABLE buzzer

Inbox == {"ENABLE_NORMAL", "BUZZER_PRESSED"} \cup Others

States ==
  [paired : BOOLEAN, locked : BOOLEAN,
   at : {"idle", "locking", "delay", "asleep", "woken"},
   inbox : Seq(Inbox),
   posting : BOOLEAN]   \* the reset handler waits for room in the inbox

(* Switched on: unpaired, unlocked, nothing to do.                         *)
Unpaired == [paired |-> FALSE, locked |-> FALSE, at |-> "idle",
             inbox |-> <<>>, posting |-> FALSE]

Full(s) == Len(s.inbox) >= RCV_QUEUE_SIZE
Put(s, ev) == [s EXCEPT !.inbox = Append(@, ev)]

(* The main thread takes ev; a sender that waited for room gets it.        *)
Takes(s, ev) ==
  LET left == [s EXCEPT !.inbox = Tail(@)]
  IN IF s.at = "idle" /\ s.inbox # <<>> /\ Head(s.inbox) = ev
       THEN {Put(left, other) : other \in Others}
            \cup {IF s.posting THEN Put([left EXCEPT !.posting = FALSE],
                                        "ENABLE_NORMAL")
                  ELSE left}
       ELSE {}

Connects(s) == {[t EXCEPT !.paired = TRUE, !.at = "locking"] :
                  t \in Takes(s, "CONNECTED")}
Locks(s) == {[t EXCEPT !.at = "idle", !.locked = TRUE] :
               t \in {u \in {s} : u.at = "locking"}}
Disconnects(s) == {[t EXCEPT !.paired = FALSE, !.locked = FALSE] :
                     t \in Takes(s, "NOT_CONNECTED")}
PairsAnew(s) == Takes(s, "START_PAIRING")
Opens(s) == {[t EXCEPT !.locked = FALSE] : t \in Takes(s, "ENABLE_NORMAL")}

(* A press: taken, sent after a delay, waited for, and the buzzer locks.   *)
TakesPress(s) == {[t EXCEPT !.at = "delay"] : t \in Takes(s, "BUZZER_PRESSED")}
Sends(s) == {[t EXCEPT !.at = "asleep"] : t \in {u \in {s} : u.at = "delay"}}
Wakes(s) == {[t EXCEPT !.at = "woken"] : t \in {u \in {s} : u.at = "asleep"}}
LocksPressed(s) == {[t EXCEPT !.at = "idle", !.locked = TRUE] :
                      t \in {u \in {s} : u.at = "woken"}}

(* An edge of the button.  The inbox drops it when it is full.             *)
Edge(s) == {IF s.paired /\ ~s.locked /\ ~Full(s) THEN Put(s, "BUZZER_PRESSED")
            ELSE s}

(* The reset resource: answered, or waiting for room.                      *)
Resets(s) ==
  {IF ~(t.paired /\ t.locked) THEN t
   ELSE IF Full(t) THEN [t EXCEPT !.posting = TRUE]
   ELSE Put(t, "ENABLE_NORMAL") :
     t \in {u \in {s} : u.at # "locking" /\ ~u.posting}}

Told(s) == {Put(s, other) : other \in {o \in Others : ~Full(s)}}

Steps(s) ==
  Connects(s) \cup Locks(s) \cup Disconnects(s) \cup PairsAnew(s) \cup Opens(s)
  \cup TakesPress(s) \cup Sends(s) \cup Wakes(s) \cup LocksPressed(s)
  \cup Edge(s) \cup Resets(s) \cup Told(s)

Init == buzzer = Unpaired
Next == \E s \in {buzzer}, t \in {buzzer'} : t = s \/ t \in Steps(s)
Spec == Init /\ [][Next]_buzzer
=============================================================================
