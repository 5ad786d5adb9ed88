------------------------------ MODULE GamePage ------------------------------
(***************************************************************************)
(* What the showmaster sees: the UI backend (game-websocket.py), whose     *)
(* websocket handler and subscriber thread share the times of the round,   *)
(* and the page, over a buzzer backend that keeps the contract Registry.   *)
(*                                                                         *)
(* zeromq and the websocket keep the order.  The clocks of buzzers and UI  *)
(* backend are taken to be synchronised: one clock, advanced whenever a    *)
(* time is read, and an hour of the day that changes meanwhile.  How a     *)
(* press gets to the backend is GameRound's matter.                        *)
(***************************************************************************)
EXTENDS Integers, Sequences, FiniteSetsExt

CONSTANTS
  Buzzers,
  None,                   \* Python's None
  Hours,                  \* UTC hours at which a game is played
  TIME_ZONE_OFFSET_HOUR,
  MaxResets,              \* bound: resets clicked
  MaxPresses              \* bound: presses stamped with a time

ASSUME HoursAssumption == Hours \subseteq 0 .. 23 /\ TIME_ZONE_OFFSET_HOUR \in Nat
ASSUME NoneNoTime == None \notin Int
ASSUME PageBounds == MaxResets \in Nat /\ MaxPresses \in Nat

VARIABLES
  hour,
  clock,      \* the last time that was read
  late,       \* times whose text does not parse
  sent,       \* presses on their way to the registry
  presses,    \* the registry
  owed,       \* listings each thread of the buzzer backend has to make
  copied,     \* the list its current listing has copied
  shown,      \* the list sent last
  lists,      \* lists published, not received
  commands,   \* resets published, not received
  ui_reset,   \* where the websocket handler reset() is
  current_timestamp, smallest_timestamp,
  mapping,    \* where the subscriber thread is, and the list it maps
  page,       \* what the page shows of each buzzer
  round,      \* resets clicked
  clicked     \* the time of the last one

serverVars == <<sent, presses, owed, copied, shown>>
roundVars == <<current_timestamp, smallest_timestamp>>
history == <<round, clicked>>
vars == <<hour, clock, late, serverVars, lists, commands, ui_reset, roundVars,
          mapping, page, history>>

Threads == {"main", "receiver"}
Times == 1 .. MaxResets + MaxPresses
S == INSTANCE Registry WITH
       Names <- Buzzers, copies <- {copied[thr] : thr \in Threads} \ {None}

Lists == [Buzzers -> Times \cup {None}]
Blank == [b \in Buzzers |-> None]
Spans == (-MaxResets - MaxPresses) .. MaxResets + MaxPresses
Unpressed == [isPressed |-> FALSE, delay |-> None, delayLocal |-> None]
Idle == [at |-> "idle", list |-> Blank, delay |-> Blank]

TypeOK ==
  /\ hour \in Hours /\ clock \in Times \cup {0} /\ late \subseteq Times
  /\ sent \subseteq [buzzer : Buzzers, time : Times]
  /\ presses \in Lists /\ shown \in Lists /\ lists \in Seq(Lists)
  /\ owed \in [Threads -> 0 .. MaxResets + MaxPresses]
  /\ copied \in [Threads -> Lists \cup {None}]
  /\ commands \in 0 .. MaxResets /\ round \in 0 .. MaxResets
  /\ ui_reset \in {"idle", "publish"}
  /\ {current_timestamp, smallest_timestamp, clicked} \subseteq Times \cup {None}
  /\ mapping \in [at : {"idle", "delays", "local"}, list : Lists,
                  delay : [Buzzers -> Spans \cup {None}]]
  /\ page \in [Buzzers -> [isPressed : BOOLEAN, delay : Spans \cup {None},
                           delayLocal : Spans \cup {None}]]

Init ==
  /\ hour \in Hours /\ clock = 0 /\ late = {} /\ sent = {}
  /\ presses = Blank /\ shown = Blank /\ lists = <<>>
  /\ owed = [thr \in Threads |-> 0] /\ copied = [thr \in Threads |-> None]
  /\ commands = 0 /\ ui_reset = "idle"
  /\ current_timestamp = None /\ smallest_timestamp = None
  /\ mapping = Idle /\ page = [b \in Buzzers |-> Unpressed]
  /\ round = 0 /\ clicked = None

-----------------------------------------------------------------------------
(* The last reset has not reached the lists.                               *)
ResetComing == ui_reset = "publish" \/ commands > 0 \/ owed["receiver"] > 0

(* Every list that was sent is mapped, and no reset is on its way.         *)
Settled == lists = <<>> /\ mapping.at = "idle" /\ ~ResetComing

-----------------------------------------------------------------------------
(* The buzzer backend.                                                     *)

(* get_iso8601_time adds the offset to the hour without a carry; "%H" of   *)
(* strptime takes the hours of a day only.                                 *)
HourParses == hour + TIME_ZONE_OFFSET_HOUR <= 23

HourPasses ==
  /\ hour' \in Hours \ {hour}
  /\ UNCHANGED <<clock, late, serverVars, lists, commands, ui_reset, roundVars,
                 mapping, page, history>>

(* A buzzer reads the time of a press.                                     *)
PressStamped(b) ==
  /\ clock - round < MaxPresses
  /\ clock' = clock + 1
  /\ late' = IF HourParses THEN late ELSE late \cup {clock'}
  /\ sent' = sent \cup {[buzzer |-> b, time |-> clock']}
  /\ UNCHANGED <<hour, presses, owed, copied, shown, lists, commands, ui_reset,
                 roundVars, mapping, page, history>>

PressRecorded(press) ==
  /\ sent' = sent \ {press}
  /\ owed' = [owed EXCEPT !["main"] = @ + 1]
  /\ UNCHANGED <<hour, clock, late, copied, lists, commands, ui_reset, roundVars,
                 mapping, page, history>>
  /\ S!Press(press.buzzer, press.time)

(* Lost, or a press of a buzzer that has one.                              *)
PressDropped(press) ==
  /\ sent' = sent \ {press}
  /\ UNCHANGED <<hour, clock, late, presses, owed, copied, shown, lists, commands,
                 ui_reset, roundVars, mapping, page, history>>

ListCopied(thr) ==
  /\ owed[thr] > 0 /\ copied[thr] = None
  /\ copied' = [copied EXCEPT ![thr] = presses]
  /\ UNCHANGED <<hour, clock, late, sent, owed, lists, commands, ui_reset, roundVars,
                 mapping, page, history>>
  /\ S!Copy

ListSent(thr) ==
  /\ copied[thr] # None
  /\ copied' = [copied EXCEPT ![thr] = None]
  /\ owed' = [owed EXCEPT ![thr] = @ - 1]
  /\ lists' = Append(lists, copied[thr])
  /\ UNCHANGED <<hour, clock, late, sent, commands, ui_reset, roundVars, mapping, page,
                 history>>
  /\ S!Send(copied[thr])

ResetReceived ==
  /\ commands > 0 /\ owed["receiver"] = 0
  /\ commands' = commands - 1
  /\ owed' = [owed EXCEPT !["receiver"] = 1]
  /\ UNCHANGED <<hour, clock, late, sent, copied, lists, ui_reset, roundVars, mapping,
                 page, history>>
  /\ S!Reset

-----------------------------------------------------------------------------
(* The websocket handler reset(), up to the time of the round and from     *)
(* there on.                                                               *)

(* A handler that keeps the time of the first round.                       *)
ResetClickOnce ==
  /\ ui_reset = "idle" /\ round < MaxResets
  /\ clock' = clock + 1
  /\ current_timestamp' = IF current_timestamp = None THEN clock'
                          ELSE current_timestamp
  /\ ui_reset' = "publish" /\ round' = round + 1
  /\ clicked' = clock'
  /\ UNCHANGED <<hour, late, serverVars, lists, commands, smallest_timestamp,
                 mapping, page>>

ResetClick ==
  /\ ui_reset = "idle" /\ round < MaxResets
  /\ clock' = clock + 1
  /\ current_timestamp' = clock'
  /\ ui_reset' = "publish" /\ round' = round + 1
  /\ clicked' = clock'
  /\ UNCHANGED <<hour, late, serverVars, lists, commands, smallest_timestamp,
                 mapping, page>>

(* A handler that publishes the reset twice.                               *)
ResetPublishTwice ==
  /\ ui_reset = "publish" /\ ui_reset' = "idle"
  /\ smallest_timestamp' = None
  /\ commands' = commands + 2
  /\ UNCHANGED <<hour, clock, late, serverVars, lists, current_timestamp, mapping, page,
                 history>>

ResetPublish ==
  /\ ui_reset = "publish" /\ ui_reset' = "idle"
  /\ smallest_timestamp' = None
  /\ commands' = commands + 1
  /\ UNCHANGED <<hour, clock, late, serverVars, lists, current_timestamp, mapping, page,
                 history>>

-----------------------------------------------------------------------------
(* The subscriber thread maps the objects of a list together.              *)

PressedIn(list) == {b \in Buzzers : list[b] # None}
Parses(list) == \A b \in PressedIn(list) : list[b] \notin late

Since(time, from) == IF time = None \/ from = None THEN None ELSE time - from

(* The page replaces its buzzers by those it is sent.                      *)
Emit(list, delay, smallest) ==
  /\ page' = [b \in Buzzers |->
       [isPressed |-> list[b] # None, delay |-> delay[b],
        delayLocal |-> IF delay[b] = None THEN None ELSE Since(list[b], smallest)]]
  /\ mapping' = Idle

calc_smallest_timestamp(list) ==
  IF PressedIn(list) = {} THEN None ELSE Min({list[b] : b \in PressedIn(list)})

(* A smallest time that is taken of an empty list raises.                  *)
MapSmallestEmpty ==
  /\ mapping.at = "idle" /\ lists # <<>>
  /\ lists' = Tail(lists)
  /\ LET list == Head(lists)
     IN IF PressedIn(list) = {} \/ ~Parses(list)
          THEN UNCHANGED <<smallest_timestamp, mapping>>
          ELSE /\ smallest_timestamp' = calc_smallest_timestamp(list)
               /\ mapping' = [Idle EXCEPT !.at = "delays", !.list = list]
  /\ UNCHANGED <<hour, clock, late, serverVars, commands, ui_reset,
                 current_timestamp, page, history>>

(* A time that does not parse raises: the list is lost, and the page keeps *)
(* what it shows.                                                          *)
MapSmallest ==
  /\ mapping.at = "idle" /\ lists # <<>>
  /\ lists' = Tail(lists)
  /\ LET list == Head(lists)
     IN IF ~Parses(list)
          THEN UNCHANGED <<smallest_timestamp, mapping>>
          ELSE /\ smallest_timestamp' = calc_smallest_timestamp(list)
               /\ mapping' = [Idle EXCEPT !.at = "delays", !.list = list]
  /\ UNCHANGED <<hour, clock, late, serverVars, commands, ui_reset,
                 current_timestamp, page, history>>

(* Delays since the reset, and the look at smallest_timestamp.  One step   *)
(* stands for all objects: a list a reset crosses is not the last one.     *)
MapDelays ==
  /\ mapping.at = "delays"
  /\ LET delay == [b \in Buzzers |-> Since(mapping.list[b], current_timestamp)]
     IN IF delay = Blank \/ smallest_timestamp = None
          THEN Emit(mapping.list, delay, None)
          ELSE /\ mapping' = [mapping EXCEPT !.at = "local", !.delay = delay]
               /\ UNCHANGED page
  /\ UNCHANGED <<hour, clock, late, serverVars, lists, commands, ui_reset, roundVars,
                 history>>

(* Its use: if it is None by now, the subtraction raises and the list is   *)
(* lost.                                                                   *)
MapLocal ==
  /\ mapping.at = "local"
  /\ IF smallest_timestamp = None THEN mapping' = Idle /\ UNCHANGED page
     ELSE Emit(mapping.list, mapping.delay, smallest_timestamp)
  /\ UNCHANGED <<hour, clock, late, serverVars, lists, commands, ui_reset, roundVars,
                 history>>

-----------------------------------------------------------------------------
Listing == \E thr \in Threads : ListCopied(thr) \/ ListSent(thr)
Subscriber == MapSmallest \/ MapDelays \/ MapLocal

Next == \/ HourPasses
        \/ \E b \in Buzzers : PressStamped(b)
        \/ \E press \in sent : PressRecorded(press) \/ PressDropped(press)
        \/ Listing \/ ResetReceived
        \/ ResetClick \/ ResetPublish \/ Subscriber

Spec == Init /\ [][Next]_vars

(* The subscriber thread runs for ever (while True, every exception        *)
(* caught).  Nothing is assumed of the backend's threads, which may wait   *)
(* for a lock or an answer for good.                                       *)
FairSpec == Spec /\ WF_vars(Subscriber)

-----------------------------------------------------------------------------
compareBuzzerDelay(x, y) ==
  CASE x.delay # None /\ (y.delay = None \/ x.delay < y.delay) -> -1
    [] y.delay # None /\ (x.delay = None \/ y.delay < x.delay) -> 1
    [] OTHER -> 0

(* Once the subscriber has caught up, the page tells the truth about the   *)
(* list sent last: who has pressed, how long after the last reset, how far *)
(* behind the first of that list, and so in which order, although one      *)
(* thread sets the times of the round while another maps lists with them,  *)
(* lists of earlier rounds are mapped after the reset, and some are lost   *)
(* (game-websocket.py:44-49, 98-127).                                      *)
PageShowsRound ==
  Settled /\ Parses(shown) =>
    \A b \in Buzzers :
      IF shown[b] = None THEN page[b] = Unpressed
      ELSE /\ page[b].isPressed
           /\ page[b].delay = Since(shown[b], clicked)
           /\ clicked # None =>
                /\ page[b].delayLocal =
                     shown[b] - Min({shown[k] : k \in PressedIn(shown)})
                /\ \A k \in Buzzers \ {b} :
                     shown[k] = None \/ shown[b] < shown[k]
                       => compareBuzzerDelay(page[b], page[k]) = -1

(* Once the backend has sent the list of a cleared registry, the page      *)
(* shows no press, or a newer list is sent: whatever lists are queued or   *)
(* mapped before it, and whether their times parse, no reset that crosses  *)
(* their mapping and no exception keeps it from the page                   *)
(* (game-websocket.py:90-97, 109, 126-128, 183-193).                       *)
RoundOpens ==
  shown = Blank ~> shown # Blank \/ \A b \in Buzzers : ~page[b].isPressed
=============================================================================
