----------------------------- MODULE GameRound -----------------------------
(***************************************************************************)
(* Rounds of the game: buzzers (RoundBuzzer) and the buzzer backend        *)
(* (Registry) joined by CoAP over UDP, and the resets the UI publishes.    *)
(*                                                                         *)
(* The network delays, reorders and loses messages; a request that is not  *)
(* answered in time is sent once more, whether it was lost or only late.   *)
(* The buzzers are registered and have just been told so.  Pairing and     *)
(* heartbeats are Buzzer's matter, listings and contended locks            *)
(* GameshowServer's, the page GamePage's.                                  *)
(***************************************************************************)
EXTENDS Naturals, Sequences, FiniteSets

CONSTANTS
  Buzzers,
  RCV_QUEUE_SIZE,
  None,         \* Python's None
  MaxResets,    \* bound: resets clicked
  MaxEdges      \* bound: edges that post a press

ASSUME GameBounds == MaxResets \in Nat /\ MaxEdges \in Nat
ASSUME QueueAssumption == RCV_QUEUE_SIZE \in Nat \ {0}
ASSUME NoneNoTime == None \notin Nat

VARIABLES
  buzzers,    \* RoundBuzzer's state of each
  clock,      \* the last time a buzzer stamped a press with
  stamp,      \* the time of the press main is sending
  pressed_not_timeouted,   \* buzzers whose press was answered
  memos,      \* press requests gcoap waits an answer for
  held,       \* resets whose handler waits for room in the inbox
  net,        \* messages on their way
  presses,    \* the backend's registry
  tasks,      \* presses its event loop has acknowledged, not recorded
  receiver,   \* its receiver thread
  commands,   \* resets published by the UI, not received
  round,      \* resets published
  clean       \* buzzers that were at rest when the round began, and lost
              \* nothing in it and were not pressed before its reset came

buzzerVars == <<buzzers, clock, stamp, pressed_not_timeouted, memos, held>>
serverVars == <<presses, tasks, receiver>>
history == <<round, clean>>
vars == <<buzzerVars, net, serverVars, commands, history>>

Times == 1 .. MaxEdges

(* Each buzzer, over a value of its own state.                             *)
B == INSTANCE RoundBuzzer WITH Others <- {}, buzzer <- buzzers
S == INSTANCE Registry WITH Names <- Buzzers, copies <- {}, shown <- <<>>

Requests == [type : {"pressed"}, buzzer : Buzzers, time : Times, try : 1 .. 2]
Resets == [type : {"reset"}, buzzer : Buzzers, round : 1 .. MaxResets]
Messages ==
  Requests \cup [type : {"created"}, buzzer : Buzzers, time : Times, try : 1 .. 2]
  \cup Resets \cup [type : {"changed"}, round : 1 .. MaxResets]
Presses == [buzzer : Buzzers, time : Times]

TypeOK ==
  /\ buzzers \in [Buzzers -> B!States] /\ clock \in 0 .. MaxEdges
  /\ stamp \in [Buzzers -> Times \cup {None}]
  /\ pressed_not_timeouted \subseteq Buzzers
  /\ memos \subseteq Requests /\ held \subseteq Resets
  /\ net \subseteq Messages
  /\ presses \in [Buzzers -> Times \cup {None}] /\ tasks \in Seq(Presses)
  /\ receiver \in {"idle", "multicast", "wait"}
  /\ commands \in 0 .. MaxResets /\ round \in 0 .. MaxResets
  /\ clean \subseteq Buzzers

Init ==
  /\ buzzers = [b \in Buzzers |-> [B!Unpaired EXCEPT !.paired = TRUE,
                                                     !.at = "locking"]]
  /\ clock = 0 /\ stamp = [b \in Buzzers |-> None]
  /\ pressed_not_timeouted = {}
  /\ memos = {} /\ held = {} /\ net = {}
  /\ presses = [b \in Buzzers |-> None] /\ tasks = <<>> /\ receiver = "idle"
  /\ commands = 0 /\ round = 0 /\ clean = {}

-----------------------------------------------------------------------------
(* History.                                                                *)

(* The reset published last has not reached b.                             *)
ResetComing(b) ==
  \/ commands > 0 \/ receiver = "multicast"
  \/ \E m \in net : m.type = "reset" /\ m.buzzer = b

(* Nothing but answers is on its way through the game to or from b.        *)
AtRest(b) ==
  /\ buzzers[b].at = "idle" /\ buzzers[b].inbox = <<>>
  /\ \A m \in net : m.type = "pressed" => m.buzzer # b
  /\ \A i \in DOMAIN tasks : tasks[i].buzzer # b
  /\ ~ResetComing(b)

-----------------------------------------------------------------------------
(* Buzzers.                                                                *)

Moves(b, successors) ==
  \E s \in successors : buzzers' = [buzzers EXCEPT ![b] = s]

(* The presses in the inboxes, each by its buzzer and its place.           *)
PressedAt(inbox) == {i \in DOMAIN inbox : inbox[i] = "BUZZER_PRESSED"}
QueuedPresses == UNION {{b} \X PressedAt(buzzers[b].inbox) : b \in Buzzers}

(* The button of an open buzzer.                                           *)
Edge(b) ==
  /\ clock + Cardinality(QueuedPresses) < MaxEdges
  /\ buzzers[b].paired /\ ~buzzers[b].locked
  /\ Moves(b, B!Edge(buzzers[b]))
  /\ clean' = clean \ {k \in {b} : ResetComing(k)}
  /\ UNCHANGED <<clock, stamp, pressed_not_timeouted, memos, held, net,
                 serverVars, commands, round>>

(* A reset handler answers after its msg_send.  Only the first answer to   *)
(* the current reset is waited for.                                        *)
Answered(resets) ==
  {[type |-> "changed", round |-> m.round] :
     m \in {k \in resets : receiver = "wait" /\ k.round = round - commands}}

(* The handlers of b that main's msg_receive lets go on.                   *)
LetGo(b) == {m \in held : m.buzzer = b /\ ~buzzers'[b].posting}

HandlersGoOn(b) ==
  /\ held' = held \ LetGo(b)
  /\ net' = net \cup Answered(LetGo(b))

ChangesMode(b) ==
  /\ Moves(b, B!Locks(buzzers[b]) \cup B!Opens(buzzers[b]))
  /\ HandlersGoOn(b)
  /\ UNCHANGED <<clock, stamp, pressed_not_timeouted, memos, serverVars, commands,
                 history>>

(* send_buzzer_pressed: the time, a delay, the request.  The stamp and what *)
(* is known of an answer are of use until it returns.                      *)
TakesPress(b) ==
  /\ Moves(b, B!TakesPress(buzzers[b]))
  /\ clock' = clock + 1
  /\ stamp' = [stamp EXCEPT ![b] = clock']
  /\ HandlersGoOn(b)
  /\ UNCHANGED <<pressed_not_timeouted, memos, serverVars, commands, history>>

Sent(b, try) ==
  LET request == [type |-> "pressed", buzzer |-> b, time |-> stamp[b], try |-> try]
  IN memos' = memos \cup {request} /\ net' = net \cup {request}

SendsPress(b) ==
  /\ Moves(b, B!Sends(buzzers[b]))
  /\ pressed_not_timeouted' = pressed_not_timeouted \ {b}
  /\ Sent(b, 1)
  /\ UNCHANGED <<clock, stamp, held, serverVars, commands, history>>

ResendsAndLocks(b) ==
  /\ Moves(b, B!LocksPressed(buzzers[b]))
  /\ IF b \in pressed_not_timeouted THEN UNCHANGED <<memos, net>> ELSE Sent(b, 2)
  /\ stamp' = [stamp EXCEPT ![b] = None]
  /\ pressed_not_timeouted' = pressed_not_timeouted \ {b}
  /\ UNCHANGED <<clock, held, serverVars, commands, history>>

(* The response handler wakes main, also for an earlier press's request.   *)
(* An answer without a memo is ignored.                                    *)
Answer(request) == [request EXCEPT !.type = "created"]

PressedResolved(request, answered) ==
  LET b == request.buzzer
  IN /\ buzzers[b].at # "locking" /\ ~buzzers[b].posting
     /\ memos' = memos \ {request}
     /\ net' = net \ {Answer(request)}
     /\ IF buzzers[b].at = "asleep" THEN Moves(b, B!Wakes(buzzers[b]))
        ELSE UNCHANGED buzzers
     /\ pressed_not_timeouted' = pressed_not_timeouted \cup
          {k \in {b} : answered /\ buzzers[k].at \in {"asleep", "woken"}}
     /\ UNCHANGED <<clock, stamp, held, serverVars, commands, history>>

(* No answer in time: the request may still arrive, or have arrived.       *)
PressedTimesOut(request) == PressedResolved(request, FALSE)
PressedAnswered(request) == Answer(request) \in net /\ PressedResolved(request, TRUE)

ResetArrives(m) ==
  /\ m.type = "reset"
  /\ Moves(m.buzzer, B!Resets(buzzers[m.buzzer]))
  /\ IF buzzers'[m.buzzer].posting
       THEN held' = held \cup {m} /\ net' = net \ {m}
       ELSE UNCHANGED held /\ net' = (net \ {m}) \cup Answered({m})
  /\ UNCHANGED <<clock, stamp, pressed_not_timeouted, memos, serverVars, commands,
                 history>>

(* A lost answer to a press is one that does not come in time.             *)
Lost(m) ==
  /\ m.type # "created"
  /\ net' = net \ {m}
  /\ clean' = clean \ {b \in Buzzers : m.type # "changed" /\ m.buzzer = b}
  /\ UNCHANGED <<buzzerVars, serverVars, commands, round>>

-----------------------------------------------------------------------------
(* The buzzer backend and the resets from the UI.                          *)

(* Acknowledged when it arrives, recorded by a task of its own.            *)
PressedArrives(m) ==
  /\ m.type = "pressed"
  /\ net' = (net \ {m}) \cup {Answer(r) : r \in memos \cap {m}}
  /\ tasks' = Append(tasks, [buzzer |-> m.buzzer, time |-> m.time])
  /\ UNCHANGED <<buzzerVars, presses, receiver, commands, history>>

PressedRecord ==
  /\ tasks # <<>>
  /\ tasks' = Tail(tasks)
  /\ LET press == Head(tasks)
     IN IF presses[press.buzzer] = None THEN S!Press(press.buzzer, press.time)
        ELSE UNCHANGED presses
  /\ UNCHANGED <<buzzerVars, net, receiver, commands, history>>

(* A handler that publishes the reset twice.                               *)
ResetClickTwice ==
  /\ round < MaxResets
  /\ round' = round + 1 /\ commands' = commands + 2
  /\ clean' = {b \in Buzzers : AtRest(b)}
  /\ UNCHANGED <<buzzerVars, net, serverVars>>

ResetClick ==
  /\ round < MaxResets
  /\ round' = round + 1 /\ commands' = commands + 1
  /\ clean' = {b \in Buzzers : AtRest(b)}
  /\ UNCHANGED <<buzzerVars, net, serverVars>>

(* reset_buzzers.                                                          *)
ResetCommand ==
  /\ receiver = "idle" /\ commands > 0
  /\ receiver' = "multicast" /\ commands' = commands - 1
  /\ S!Reset
  /\ UNCHANGED <<buzzerVars, net, tasks, history>>

Multicast ==
  /\ receiver = "multicast" /\ receiver' = "wait"
  /\ net' = net \cup {[type |-> "reset", buzzer |-> b, round |-> round - commands] :
                       b \in Buzzers}
  /\ UNCHANGED <<buzzerVars, presses, tasks, commands, history>>

(* A reset that clears the registry once a buzzer has answered.            *)
ResetAnsweredClears(m) ==
  /\ m.type = "changed"
  /\ net' = {k \in net : k.type # "changed"}
  /\ receiver' = "idle"
  /\ S!Reset
  /\ UNCHANGED <<buzzerVars, tasks, commands, history>>

ResetAnswered(m) ==
  /\ m.type = "changed"
  /\ net' = {k \in net : k.type # "changed"}
  /\ receiver' = "idle"
  /\ UNCHANGED <<buzzerVars, presses, tasks, commands, history>>

-----------------------------------------------------------------------------
main_routine(b) == \/ ChangesMode(b) \/ TakesPress(b)
                   \/ SendsPress(b) \/ ResendsAndLocks(b)
Timeout == \E request \in memos : PressedTimesOut(request)
Delivery == \/ \E m \in net : PressedArrives(m) \/ ResetArrives(m) \/ ResetAnswered(m)
            \/ \E request \in memos : PressedAnswered(request)
Loss == \E m \in net : Lost(m)

Next == \/ \E b \in Buzzers : Edge(b) \/ main_routine(b)
        \/ Timeout \/ Delivery \/ Loss
        \/ PressedRecord \/ ResetCommand \/ Multicast
        \/ ResetClick

Spec == Init /\ [][Next]_vars

-----------------------------------------------------------------------------
(* In a clean round a buzzer and the registry agree whether it is in: at   *)
(* rest it is locked exactly if it counts as pressed, whatever the order   *)
(* of presses, second requests that are late and sent again, a reset that  *)
(* waits for the answer to the one before, resets and requests of other    *)
(* buzzers that are lost, and whatever went wrong in the rounds before     *)
(* (gameshow_buzzer.c:187-203, 500-507; gameshow_server.py:228-234,        *)
(* 319-331).                                                               *)
CleanRoundAgrees ==
  \A b \in clean : AtRest(b) => (buzzers[b].locked <=> presses[b] # None)
=============================================================================
