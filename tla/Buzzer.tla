------------------------------- MODULE Buzzer -------------------------------
(***************************************************************************)
(* The firmware of one buzzer (src/buzzer_system): the main thread and its *)
(* message queue, the gcoap thread that runs the CoAP handlers, the        *)
(* pairing and heartbeat threads, the two blink threads, and the interrupt *)
(* handlers of the button and of the long-press timer.                     *)
(*                                                                         *)
(* RIOT schedules strictly by priority: heartbeat > pairing blink >        *)
(* pairing, not-connected blink > main, gcoap > shell.  A step is what one *)
(* thread does between two points at which another thread or an interrupt  *)
(* can observe it.  Main and gcoap have one priority, so neither preempts  *)
(* the other; interrupts preempt both.  The server and the network are the *)
(* outcomes a request may have.                                            *)
(***************************************************************************)
EXTENDS Naturals, Sequences, FiniteSets

CONSTANTS
  RCV_QUEUE_SIZE,                \* messages the main thread's queue holds
  CONFIG_GCOAP_REQ_WAITING_MAX,  \* outstanding CoAP requests gcoap remembers
  MAX_SNTP_ATTEMPTS,             \* clock synchronisations tried at boot
  StalePidMayBePairing           \* a dead stack slot may name the pairing thread

ASSUME QueueAssumption == RCV_QUEUE_SIZE \in Nat \ {0}
ASSUME MemoAssumption == CONFIG_GCOAP_REQ_WAITING_MAX \in Nat \ {0}
ASSUME SntpAssumption == MAX_SNTP_ATTEMPTS \in Nat \ {0}
ASSUME StaleAssumption == StalePidMayBePairing \in BOOLEAN

VARIABLES
  main,          \* where the main thread is
  gcoap,         \* "idle", or "posting": blocked in the reset handler's msg_send
  pairing,       \* the pairing thread; "failed" and "succeeded" block in msg_send
  heartbeat,     \* the heartbeat thread; "failed" blocks in msg_send
  blinking,      \* the blink threads alive
  rcv_queue,     \* messages for the main thread
  memos,         \* outstanding requests by kind
  refused,       \* threads asleep for a request gcoap_req_send did not take
  init_done, clock_synced, sntp_attempts,
  buzzer_paired, buzzer_locked, buzzer_not_connected_mode, led1,
  buzzer_pairing_mode, buzzer_pairing_mode_timeout, buzzer_id_received,
  hb_timeout, pressed_not_timeouted,
  btn, switch_activated, long_press_timer

threadVars == <<main, gcoap, pairing, heartbeat>>
initVars   == <<init_done, clock_synced, sntp_attempts>>
modeVars   == <<buzzer_paired, buzzer_locked, buzzer_not_connected_mode,
                led1, blinking>>
pairVars   == <<buzzer_pairing_mode, buzzer_pairing_mode_timeout,
                buzzer_id_received>>
sendVars   == <<memos, refused>>
btnVars    == <<btn, switch_activated, long_press_timer>>
vars == <<threadVars, rcv_queue, sendVars, initVars, modeVars, pairVars,
          hb_timeout, pressed_not_timeouted, btnVars>>

Events == {"NOT_CONNECTED", "START_PAIRING", "CONNECTED", "ENABLE_NORMAL",
           "BUZZER_PRESSED"}
MemoKinds == {"heartbeat", "pressed", "pair"}

QueueTyped == rcv_queue \in Seq(Events) /\ Len(rcv_queue) <= RCV_QUEUE_SIZE
MemosTyped == memos \in [MemoKinds -> Nat]

ThreadsTyped ==
  /\ main \in {"init", "receive", "locking", "delay", "asleep", "woken"}
  /\ gcoap \in {"idle", "posting"}
  /\ pairing \in {"dead", "asleep", "failed", "succeeded"}
  /\ heartbeat \in {"dead", "asleep", "failed"}
  /\ blinking \subseteq {"not_connected", "pairing"}
  /\ refused \subseteq {"main", "pairing"}
  /\ sntp_attempts \in 0 .. MAX_SNTP_ATTEMPTS
  /\ btn \in {"active", "passive"}
FlagsTyped ==
  /\ init_done \in BOOLEAN /\ clock_synced \in BOOLEAN
  /\ buzzer_paired \in BOOLEAN /\ buzzer_locked \in BOOLEAN
  /\ buzzer_not_connected_mode \in BOOLEAN /\ led1 \in BOOLEAN
  /\ buzzer_pairing_mode \in BOOLEAN /\ buzzer_pairing_mode_timeout \in BOOLEAN
  /\ buzzer_id_received \in BOOLEAN
  /\ hb_timeout \in BOOLEAN /\ pressed_not_timeouted \in BOOLEAN
  /\ switch_activated \in BOOLEAN /\ long_press_timer \in BOOLEAN

TypeOK == QueueTyped /\ MemosTyped /\ ThreadsTyped /\ FlagsTyped

Init ==
  /\ main = "init" /\ gcoap = "idle" /\ pairing = "dead" /\ heartbeat = "dead"
  /\ blinking = {} /\ rcv_queue = <<>>
  /\ memos = [k \in MemoKinds |-> 0] /\ refused = {}
  /\ sntp_attempts = 0 /\ btn = "passive"
  /\ buzzer_not_connected_mode = TRUE
  /\ init_done = FALSE /\ clock_synced = FALSE
  /\ buzzer_paired = FALSE /\ buzzer_locked = FALSE /\ led1 = FALSE
  /\ buzzer_pairing_mode = FALSE /\ buzzer_pairing_mode_timeout = FALSE
  /\ buzzer_id_received = FALSE
  /\ hb_timeout = FALSE /\ pressed_not_timeouted = FALSE
  /\ switch_activated = FALSE /\ long_press_timer = FALSE

-----------------------------------------------------------------------------
(***************************************************************************)
(* The main thread's queue.  msg_send drops in an interrupt when the queue *)
(* is full; a thread blocks, and msg_receive admits the blocked sender of  *)
(* the highest priority as soon as it has taken a message.  A message      *)
(* handed to a waiting receiver counts as queued.                          *)
(***************************************************************************)
Full == Len(rcv_queue) >= RCV_QUEUE_SIZE

(* A queue without the bound: used to show TypeOK can fail.                *)
IsrPostUnbounded(ev) == rcv_queue' = Append(rcv_queue, ev)

IsrPost(ev) == rcv_queue' = IF Full THEN rcv_queue ELSE Append(rcv_queue, ev)

Waiter ==
  IF heartbeat = "failed" THEN "heartbeat"
  ELSE IF pairing \in {"failed", "succeeded"} THEN "pairing"
  ELSE IF gcoap = "posting" THEN "gcoap"
  ELSE "none"

WaiterEvent ==
  CASE Waiter = "heartbeat" -> "NOT_CONNECTED"
    [] Waiter = "pairing" ->
         IF pairing = "failed" THEN "NOT_CONNECTED" ELSE "CONNECTED"
    [] OTHER -> "ENABLE_NORMAL"

heartbeatAdmitted == IF Waiter = "heartbeat" THEN "dead" ELSE heartbeat
pairingAdmitted   == IF Waiter = "pairing" THEN "dead" ELSE pairing

Receive(ev) ==
  /\ main = "receive" /\ rcv_queue # <<>> /\ Head(rcv_queue) = ev
  /\ rcv_queue' = IF Waiter = "none" THEN Tail(rcv_queue)
                  ELSE Append(Tail(rcv_queue), WaiterEvent)
  /\ gcoap' = IF Waiter = "gcoap" THEN "idle" ELSE gcoap

(* send_data drops the result of gcoap_req_send, which takes no request    *)
(* when the memo table is full.                                            *)
MemoFree == memos["heartbeat"] + memos["pressed"] + memos["pair"]
              < CONFIG_GCOAP_REQ_WAITING_MAX

send_data(kind) ==
  memos' = IF MemoFree THEN [memos EXCEPT ![kind] = @ + 1] ELSE memos

(* send_data, then thread_sleep until the response handler calls           *)
(* thread_wakeup.                                                          *)
SendAndSleep(kind, thread) ==
  /\ send_data(kind)
  /\ refused' = IF MemoFree THEN refused \ {thread} ELSE refused \cup {thread}

-----------------------------------------------------------------------------
(* Boot and the modes main_routine switches between.                       *)

not_connected_mode ==
  /\ buzzer_paired' = FALSE
  /\ buzzer_locked' = FALSE
  /\ buzzer_not_connected_mode' = TRUE
  /\ blinking' = blinking \cup {"not_connected"}
  /\ led1' = FALSE            \* unlock_buzzer lights it, the blink toggles it

(* The retry loop of init_buzzer.  After it main_routine enters mode 0,    *)
(* also when init_buzzer failed and set up neither interrupt nor resource. *)
SntpSync(ok) ==
  /\ main = "init" /\ sntp_attempts < MAX_SNTP_ATTEMPTS
  /\ sntp_attempts' = sntp_attempts + 1
  /\ clock_synced' = ok
  /\ IF ok \/ sntp_attempts' = MAX_SNTP_ATTEMPTS
       THEN /\ init_done' = (sntp_attempts' # MAX_SNTP_ATTEMPTS)
            /\ main' = "receive"
            /\ not_connected_mode
       ELSE UNCHANGED <<init_done, main, modeVars>>
  /\ UNCHANGED <<gcoap, pairing, heartbeat, rcv_queue, sendVars, pairVars,
                 hb_timeout, pressed_not_timeouted, btnVars>>

NotConnected ==
  /\ Receive("NOT_CONNECTED")
  /\ not_connected_mode
  /\ heartbeat' = heartbeatAdmitted /\ pairing' = pairingAdmitted
  /\ UNCHANGED <<main, sendVars, initVars, pairVars, hb_timeout,
                 pressed_not_timeouted, btnVars>>

(* start_pairing_routine: the new thread preempts main and runs until it   *)
(* sleeps for the register response.                                       *)
StartPairing ==
  /\ Receive("START_PAIRING")
  /\ buzzer_not_connected_mode' = FALSE
  /\ pairing' = "asleep"
  /\ buzzer_pairing_mode' = TRUE
  /\ buzzer_pairing_mode_timeout' = FALSE
  /\ blinking' = blinking \cup {"pairing"}
  /\ led1' = ~led1
  /\ SendAndSleep("pair", "pairing")
  /\ heartbeat' = heartbeatAdmitted
  /\ UNCHANGED <<main, initVars, buzzer_paired, buzzer_locked,
                 buzzer_id_received, hb_timeout, pressed_not_timeouted, btnVars>>

(* enable_connected: the heartbeat thread preempts main, sends and sleeps. *)
(* Created on a stack in use it takes the place of the thread there.       *)
EnableConnected ==
  /\ Receive("CONNECTED")
  /\ buzzer_paired' = TRUE
  /\ heartbeat' = "asleep"
  /\ hb_timeout' = TRUE
  /\ send_data("heartbeat")
  /\ main' = "locking"
  /\ pairing' = pairingAdmitted
  /\ UNCHANGED <<refused, initVars, buzzer_locked, buzzer_not_connected_mode,
                 led1, blinking, pairVars, pressed_not_timeouted, btnVars>>

lock_buzzer == buzzer_locked' = TRUE /\ led1' = FALSE
unlock_buzzer == buzzer_locked' = FALSE /\ led1' = TRUE

(* locked_mode, second half of the CONNECTED case.                         *)
LockConnected ==
  /\ main = "locking"
  /\ main' = "receive"
  /\ lock_buzzer
  /\ UNCHANGED <<gcoap, pairing, heartbeat, rcv_queue, sendVars, initVars,
                 buzzer_paired, buzzer_not_connected_mode, blinking, pairVars,
                 hb_timeout, pressed_not_timeouted, btnVars>>

EnableNormal ==
  /\ Receive("ENABLE_NORMAL")
  /\ unlock_buzzer
  /\ heartbeat' = heartbeatAdmitted /\ pairing' = pairingAdmitted
  /\ UNCHANGED <<main, sendVars, initVars, buzzer_paired,
                 buzzer_not_connected_mode, blinking, pairVars, hb_timeout,
                 pressed_not_timeouted, btnVars>>

-----------------------------------------------------------------------------
(* send_buzzer_pressed: wait, send, sleep, send once more without waiting; *)
(* main_routine then locks.                                                *)
BuzzerPressed ==
  /\ Receive("BUZZER_PRESSED")
  /\ main' = "delay"
  /\ heartbeat' = heartbeatAdmitted /\ pairing' = pairingAdmitted
  /\ UNCHANGED <<sendVars, initVars, modeVars, pairVars, hb_timeout,
                 pressed_not_timeouted, btnVars>>

SendPressed ==
  /\ main = "delay"
  /\ main' = "asleep"
  /\ pressed_not_timeouted' = FALSE
  /\ SendAndSleep("pressed", "main")
  /\ UNCHANGED <<gcoap, pairing, heartbeat, rcv_queue, initVars, modeVars,
                 pairVars, hb_timeout, btnVars>>

ResendAndLock ==
  /\ main = "woken"
  /\ main' = "receive"
  /\ IF pressed_not_timeouted THEN UNCHANGED memos ELSE send_data("pressed")
  /\ lock_buzzer
  /\ UNCHANGED <<gcoap, pairing, heartbeat, rcv_queue, refused, initVars,
                 buzzer_paired, buzzer_not_connected_mode, blinking, pairVars,
                 hb_timeout, pressed_not_timeouted, btnVars>>

-----------------------------------------------------------------------------
(* The gcoap thread: response handlers and the reset resource.             *)

GcoapRuns == gcoap = "idle" /\ main \notin {"init", "locking"}

Resolve(kind) ==
  /\ GcoapRuns /\ memos[kind] > 0
  /\ memos' = [memos EXCEPT ![kind] = @ - 1]

(* A pairing thread that gives up without leaving pairing mode.            *)
FinishPairingKeepsMode(timeout, mode) ==
  /\ buzzer_pairing_mode' = mode
  /\ refused' = refused \ {"pairing"}
  /\ IF Full
       THEN /\ pairing' = IF timeout THEN "failed" ELSE "succeeded"
            /\ UNCHANGED rcv_queue
       ELSE /\ pairing' = "dead"
            /\ rcv_queue' = Append(rcv_queue, IF timeout THEN "NOT_CONNECTED"
                                              ELSE "CONNECTED")

(* pairing_mode_routine after thread_sleep: it preempts gcoap and tells    *)
(* the main thread how it went.                                            *)
FinishPairing(timeout, mode) ==
  /\ buzzer_pairing_mode' = (mode /\ ~timeout)
  /\ refused' = refused \ {"pairing"}
  /\ IF Full
       THEN /\ pairing' = IF timeout THEN "failed" ELSE "succeeded"
            /\ UNCHANGED rcv_queue
       ELSE /\ pairing' = "dead"
            /\ rcv_queue' = Append(rcv_queue, IF timeout THEN "NOT_CONNECTED"
                                              ELSE "CONNECTED")

(* A register request ends in a timeout, in 4.03, in a name (2.01), in "0" *)
(* for a name sent along (2.04), or in another code such as 5.00.          *)
PairOutcomes == {"timeout", "FORBIDDEN", "CREATED", "CHANGED", "error"}

(* A handler that forgets the sleeper on one of its return paths.          *)
WakesPairingUnlessForbidden(outcome) ==
  pairing = "asleep" /\ outcome # "FORBIDDEN"

(* Every return path of the handler calls thread_wakeup.                   *)
WakesPairing(outcome) == pairing = "asleep" /\ outcome \in PairOutcomes

pair_resp_handler(outcome) ==
  LET accepted == outcome \notin {"timeout", "FORBIDDEN"}
  IN /\ Resolve("pair")
     /\ outcome = "CHANGED" => buzzer_id_received
     /\ buzzer_pairing_mode_timeout' = (buzzer_pairing_mode_timeout \/ ~accepted)
     /\ buzzer_id_received' = (buzzer_id_received \/ outcome = "CREATED")
     /\ IF WakesPairing(outcome)
          THEN FinishPairing(buzzer_pairing_mode_timeout',
                             buzzer_pairing_mode /\ ~accepted)
          ELSE /\ buzzer_pairing_mode' = (buzzer_pairing_mode /\ ~accepted)
               /\ UNCHANGED <<pairing, rcv_queue, refused>>
     /\ UNCHANGED <<main, gcoap, heartbeat, initVars, modeVars, hb_timeout,
                    pressed_not_timeouted, btnVars>>

(* The handler wakes the thread its context points to: main while main     *)
(* sleeps in a send.  The context of the second send is a stack slot that  *)
(* is dead by the time of the response: it may name main (awake: nothing   *)
(* happens), no thread, or the pairing thread.  A stray wakeup of the      *)
(* heartbeat thread is an early HeartbeatWakes.                            *)
_pressed_send_resp_handler(answered) ==
  /\ Resolve("pressed")
  /\ pressed_not_timeouted' = (pressed_not_timeouted \/ answered)
  /\ \/ /\ main = "asleep"
        /\ main' = "woken" /\ refused' = refused \ {"main"}
        /\ UNCHANGED <<pairing, rcv_queue, buzzer_pairing_mode>>
     \/ /\ main # "asleep"
        /\ UNCHANGED <<main, refused, pairing, rcv_queue, buzzer_pairing_mode>>
     \/ /\ main # "asleep" /\ StalePidMayBePairing /\ pairing = "asleep"
        /\ FinishPairing(buzzer_pairing_mode_timeout, buzzer_pairing_mode)
        /\ UNCHANGED main
  /\ UNCHANGED <<gcoap, heartbeat, initVars, modeVars, hb_timeout, btnVars,
                 buzzer_pairing_mode_timeout, buzzer_id_received>>

_heartbeat_resp_handler(alive) ==
  /\ Resolve("heartbeat")
  /\ hb_timeout' = ~alive
  /\ UNCHANGED <<threadVars, rcv_queue, refused, initVars, modeVars, pairVars,
                 pressed_not_timeouted, btnVars>>

(* A reset handler without its condition.                                  *)
_buzzer_reset_handler_unlocked ==
  /\ GcoapRuns /\ init_done
  /\ IF Full THEN gcoap' = "posting" /\ UNCHANGED rcv_queue
     ELSE rcv_queue' = Append(rcv_queue, "ENABLE_NORMAL") /\ UNCHANGED gcoap
  /\ UNCHANGED <<main, pairing, heartbeat, sendVars, initVars, modeVars,
                 pairVars, hb_timeout, pressed_not_timeouted, btnVars>>

_buzzer_reset_handler ==
  /\ GcoapRuns /\ init_done
  /\ IF ~(buzzer_paired /\ buzzer_locked) THEN UNCHANGED <<gcoap, rcv_queue>>
     ELSE IF Full THEN gcoap' = "posting" /\ UNCHANGED rcv_queue
     ELSE rcv_queue' = Append(rcv_queue, "ENABLE_NORMAL") /\ UNCHANGED gcoap
  /\ UNCHANGED <<main, pairing, heartbeat, sendVars, initVars, modeVars,
                 pairVars, hb_timeout, pressed_not_timeouted, btnVars>>

-----------------------------------------------------------------------------
(* The heartbeat and blink threads, woken by their timers.                 *)

(* A heartbeat thread that dies although its message finds no room.        *)
HeartbeatFailsDropping ==
  /\ heartbeat' = "dead"
  /\ rcv_queue' = IF Full THEN rcv_queue ELSE Append(rcv_queue, "NOT_CONNECTED")

(* The end of heartbeat_routine.                                           *)
HeartbeatFails ==
  IF Full THEN heartbeat' = "failed" /\ UNCHANGED rcv_queue
  ELSE heartbeat' = "dead" /\ rcv_queue' = Append(rcv_queue, "NOT_CONNECTED")

HeartbeatWakes ==
  /\ heartbeat = "asleep" /\ main # "locking"
  /\ IF hb_timeout
       THEN HeartbeatFails /\ UNCHANGED <<hb_timeout, memos>>
       ELSE /\ hb_timeout' = TRUE
            /\ send_data("heartbeat")
            /\ UNCHANGED <<heartbeat, rcv_queue>>
  /\ UNCHANGED <<main, gcoap, pairing, refused, initVars, modeVars, pairVars,
                 pressed_not_timeouted, btnVars>>

BlinkFlag(b) ==
  IF b = "pairing" THEN buzzer_pairing_mode ELSE buzzer_not_connected_mode

(* A blink loop that toggles before it looks at its flag.                  *)
BlinkWakesTogglesFirst(b) ==
  /\ b \in blinking
  /\ led1' = ~led1
  /\ blinking' = IF BlinkFlag(b) THEN blinking ELSE blinking \ {b}
  /\ UNCHANGED <<threadVars, rcv_queue, sendVars, initVars, buzzer_paired,
                 buzzer_locked, buzzer_not_connected_mode, pairVars, hb_timeout,
                 pressed_not_timeouted, btnVars>>

BlinkWakes(b) ==
  /\ b \in blinking
  /\ IF BlinkFlag(b) THEN led1' = ~led1 /\ UNCHANGED blinking
     ELSE blinking' = blinking \ {b} /\ UNCHANGED led1
  /\ UNCHANGED <<threadVars, rcv_queue, sendVars, initVars, buzzer_paired,
                 buzzer_locked, buzzer_not_connected_mode, pairVars, hb_timeout,
                 pressed_not_timeouted, btnVars>>

-----------------------------------------------------------------------------
(* Interrupts: both edges of the button and the long-press timer.          *)

(* longOk and pressOk: the debounce windows of 10 ms and 300 ms are over.  *)
(* Within 10 ms of the edge that set them, the timer and switch_activated  *)
(* still agree.                                                            *)
btn_callback(state, longOk, pressOk) ==
  LET start == ~switch_activated /\ state = "active"
      end   == switch_activated /\ state = "passive"
      acts  == ~buzzer_pairing_mode /\ longOk
  IN /\ init_done
     /\ longOk \/ long_press_timer = switch_activated
     /\ btn' = state
     /\ switch_activated' = IF acts /\ (start \/ end) THEN start
                            ELSE switch_activated
     /\ long_press_timer' = IF acts /\ (start \/ end) THEN start
                            ELSE long_press_timer
     /\ IF buzzer_paired /\ ~buzzer_locked /\ pressOk
          THEN IsrPost("BUZZER_PRESSED") ELSE UNCHANGED rcv_queue
     /\ UNCHANGED <<threadVars, sendVars, initVars, modeVars, pairVars,
                    hb_timeout, pressed_not_timeouted>>

long_press_callback ==
  /\ long_press_timer
  /\ long_press_timer' = FALSE
  /\ IsrPost("START_PAIRING")
  /\ UNCHANGED <<threadVars, sendVars, initVars, modeVars, pairVars, hb_timeout,
                 pressed_not_timeouted, btn, switch_activated>>

-----------------------------------------------------------------------------
Boot == \E ok \in BOOLEAN : SntpSync(ok)

main_routine == \/ Boot \/ NotConnected \/ StartPairing \/ EnableConnected
                \/ LockConnected \/ EnableNormal \/ BuzzerPressed
                \/ SendPressed \/ ResendAndLock

PairAnswer == \E outcome \in PairOutcomes : pair_resp_handler(outcome)
PressedAnswer == \E answered \in BOOLEAN : _pressed_send_resp_handler(answered)
HeartbeatAnswer == \E alive \in BOOLEAN : _heartbeat_resp_handler(alive)

Button == \E state \in {"active", "passive"}, longOk, pressOk \in BOOLEAN :
            btn_callback(state, longOk, pressOk)

Next == \/ main_routine
        \/ PairAnswer \/ PressedAnswer \/ HeartbeatAnswer
        \/ _buzzer_reset_handler
        \/ HeartbeatWakes
        \/ \E b \in {"not_connected", "pairing"} : BlinkWakes(b)
        \/ Button \/ long_press_callback

Spec == Init /\ [][Next]_vars

(* Main is scheduled whenever it can run.  gcoap runs whenever main        *)
(* blocks, and every memo gets a response or times out, hence the strong   *)
(* fairness.  A heartbeat or long-press timer that is set again and again  *)
(* need not fire, hence the weak one.                                      *)
FairSpec ==
  /\ Spec
  /\ WF_vars(main_routine)
  /\ SF_vars(PairAnswer) /\ SF_vars(PressedAnswer) /\ SF_vars(HeartbeatAnswer)
  /\ WF_vars(HeartbeatWakes)
  /\ WF_vars(long_press_callback)

-----------------------------------------------------------------------------
(* A thread asleep for a response has a request outstanding whose handler  *)
(* will wake it, unless gcoap_req_send refused that very request           *)
(* (buzzer_communication.c:89-92).  No wakeup comes before its sleep and   *)
(* none is consumed by a handler that belongs to an earlier send.          *)
NoLostWakeup ==
  /\ main = "asleep" => "main" \in refused \/ memos["pressed"] > 0
  /\ pairing = "asleep" => "pairing" \in refused \/ memos["pair"] > 0

(* A paired buzzer is watched: its heartbeat thread lives, or its last act *)
(* (buzzer_communication.c:221-226) is still in the queue.  Whatever the   *)
(* order of re-pairings, resets and lost answers, a buzzer never stays in  *)
(* the connected modes with nobody left to notice a dead server.           *)
NotConnectedPending ==
  \E i \in 1 .. Len(rcv_queue) : rcv_queue[i] = "NOT_CONNECTED"
MonitoredWhilePaired ==
  buzzer_paired => heartbeat # "dead" \/ NotConnectedPending

(* buzzer_pairing_mode, which switches the long press off and keeps the    *)
(* pairing blink going, is set exactly while a pairing thread waits for    *)
(* its answer: also with two register requests outstanding, after a        *)
(* second START_PAIRING.  A stray wakeup through a dead stack slot         *)
(* (gameshow_buzzer.c:188) would break it.                                 *)
PairingModeOwned ==
  ~StalePidMayBePairing => (buzzer_pairing_mode <=> pairing = "asleep")

(* The LED tells the contestant the truth: when no mode change is pending  *)
(* and no blink thread is left, a paired buzzer is lit exactly while it    *)
(* accepts a press (lock_buzzer and unlock_buzzer against the blinkers     *)
(* that toggle the same pin).                                              *)
LedShowsLock ==
  /\ ~StalePidMayBePairing
  /\ buzzer_paired /\ main = "receive" /\ rcv_queue = <<>> /\ blinking = {}
  => (led1 <=> ~buzzer_locked)

(* The contract the game relies on: whatever pairing, heartbeats, stray    *)
(* answers and re-pairings do, the buzzer takes a press only while paired  *)
(* and unlocked, locks after each press it takes, and opens only for a     *)
(* reset that found it locked or by losing its connection.                 *)
Round ==
  INSTANCE RoundBuzzer WITH
    Others <- {"NOT_CONNECTED", "START_PAIRING", "CONNECTED"},
    buzzer <- [paired |-> buzzer_paired, locked |-> buzzer_locked,
               at |-> IF main \in {"init", "receive"} THEN "idle" ELSE main,
               inbox |-> rcv_queue, posting |-> gcoap = "posting"]
ImplementsRoundBuzzer == Round!Spec

(* main.c:103-114 promises that the main thread answers the reset message  *)
(* in mode LOCKED: the gcoap thread never waits for room in main's queue   *)
(* while main waits for gcoap's response handler.                          *)
ResetNeverDeadlocks == ~(main = "asleep" /\ gcoap = "posting")

(* "please press and hold it down until the light begins to flash"         *)
(* (connect-buzzer-button.tsx:51): pressing an unpaired buzzer that is     *)
(* idle starts the long-press timer.                                       *)
LongPressStarts ==
  [][ /\ btn = "passive" /\ btn' = "active"
      /\ btn_callback("active", TRUE, TRUE)
      /\ ~buzzer_paired /\ main = "receive" /\ rcv_queue = <<>>
      /\ pairing = "dead"
      => long_press_timer' ]_vars

(* send_buzzer_pressed and pairing_mode_routine end: main and the pairing  *)
(* thread sleep for a response only for a while (a buzzer is not left deaf *)
(* or flashing with the long press switched off), unless the request was   *)
(* refused or the reset handler blocks the thread that would wake them.    *)
SleepersWake ==
  /\ main = "asleep" ~>
       main # "asleep" \/ "main" \in refused \/ gcoap = "posting"
  /\ pairing = "asleep" ~>
       pairing # "asleep" \/ "pairing" \in refused \/ gcoap = "posting"

(* Once the server answers no heartbeat any more, the buzzer leaves the    *)
(* connected modes, unless it is being paired anew or main is stuck.       *)
SilentServerUnpairs ==
  <>[][~_heartbeat_resp_handler(TRUE)]_vars =>
    []<>(\/ ~buzzer_paired \/ pairing = "asleep"
         \/ refused # {} \/ gcoap = "posting")
=============================================================================
