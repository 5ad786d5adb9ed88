---------------------------- MODULE BuzzerProofs ----------------------------
(***************************************************************************)
(* What holds of the firmware for every queue size, memo table size and    *)
(* number of synchronisation attempts, and that it implements RoundBuzzer. *)
(***************************************************************************)
EXTENDS Buzzer, SequenceTheorems, TLAPS

USE QueueAssumption, MemoAssumption, SntpAssumption, StaleAssumption

-----------------------------------------------------------------------------
(* The operators the actions are built from.                               *)

LEMMA TailTyped ==
  ASSUME QueueTyped, rcv_queue # <<>>
  PROVE  /\ Tail(rcv_queue) \in Seq(Events)
         /\ Len(Tail(rcv_queue)) = Len(rcv_queue) - 1
         /\ Len(rcv_queue) \in Nat
BY HeadTailProperties, LenProperties DEF QueueTyped

(* Receive takes the head of the queue, and may admit one blocked sender.  *)
LEMMA ReceiveTyped ==
  ASSUME QueueTyped, gcoap \in {"idle", "posting"}, NEW ev, Receive(ev)
  PROVE  QueueTyped' /\ gcoap' \in {"idle", "posting"}
<1>1. WaiterEvent \in Events
  BY Zenon DEF WaiterEvent, Events
<1>2. /\ Tail(rcv_queue) \in Seq(Events)
      /\ Len(Tail(rcv_queue)) = Len(rcv_queue) - 1
      /\ Len(rcv_queue) \in Nat
  BY TailTyped DEF Receive
<1>3. /\ Append(Tail(rcv_queue), WaiterEvent) \in Seq(Events)
      /\ Len(Append(Tail(rcv_queue), WaiterEvent)) = Len(rcv_queue)
  BY <1>1, <1>2, AppendProperties
<1> QED  BY <1>2, <1>3 DEF QueueTyped, Receive

(* Posting to a queue that is not full keeps it typed and bounded.         *)
LEMMA PostTyped ==
  ASSUME QueueTyped, ~Full, NEW ev \in Events, rcv_queue' = Append(rcv_queue, ev)
  PROVE  QueueTyped'
<1>1. /\ Append(rcv_queue, ev) \in Seq(Events)
      /\ Len(Append(rcv_queue, ev)) = Len(rcv_queue) + 1
      /\ Len(rcv_queue) \in Nat
  BY AppendProperties, LenProperties DEF QueueTyped
<1> QED  BY <1>1 DEF QueueTyped, Full

LEMMA KeptTyped ==
  ASSUME QueueTyped, UNCHANGED rcv_queue
  PROVE  QueueTyped'
BY DEF QueueTyped

LEMMA IsrPostTyped ==
  ASSUME QueueTyped, NEW ev \in Events, IsrPost(ev)
  PROVE  QueueTyped'
BY PostTyped, KeptTyped DEF IsrPost

LEMMA SendTyped ==
  ASSUME MemosTyped, NEW kind \in MemoKinds, send_data(kind)
  PROVE  MemosTyped'
BY DEF MemosTyped, send_data

LEMMA ResolveTyped ==
  ASSUME MemosTyped, NEW kind \in MemoKinds, Resolve(kind)
  PROVE  MemosTyped'
<1>1. memos[kind] \in Nat /\ memos[kind] - 1 \in Nat
  BY DEF MemosTyped, Resolve
<1> QED  BY <1>1 DEF MemosTyped, Resolve

LEMMA FinishPairingTyped ==
  ASSUME TypeOK, NEW timeout \in BOOLEAN, NEW mode \in BOOLEAN,
         FinishPairing(timeout, mode)
  PROVE  /\ buzzer_pairing_mode' \in BOOLEAN
         /\ refused' \subseteq {"main", "pairing"}
         /\ pairing' \in {"dead", "failed", "succeeded"}
         /\ QueueTyped'
<1>1. CASE Full
  <2>1. QueueTyped'
    BY <1>1, KeptTyped DEF FinishPairing, TypeOK
  <2> QED  BY <1>1, <2>1 DEF FinishPairing, TypeOK, ThreadsTyped
<1>2. CASE ~Full
  <2>1. QueueTyped'
    <3>1. CASE timeout
      BY <1>2, <3>1, PostTyped DEF FinishPairing, TypeOK, Events
    <3>2. CASE ~timeout
      BY <1>2, <3>2, PostTyped DEF FinishPairing, TypeOK, Events
    <3> QED  BY <3>1, <3>2
  <2> QED  BY <1>2, <2>1 DEF FinishPairing, TypeOK, ThreadsTyped
<1> QED  BY <1>1, <1>2

-----------------------------------------------------------------------------
(* Every variable keeps its type, and main's queue and the attempts their  *)
(* bounds, whatever the order of handlers, threads and interrupts.         *)
LEMMA TypeInit == Init => TypeOK
<1> SUFFICES ASSUME Init PROVE TypeOK
  OBVIOUS
<1>1. QueueTyped
  BY EmptySeq DEF Init, QueueTyped
<1>2. MemosTyped
  BY DEF Init, MemosTyped
<1>3. ThreadsTyped
  BY DEF Init, ThreadsTyped
<1>4. FlagsTyped
  BY Zenon DEF Init, FlagsTyped
<1> QED  BY <1>1, <1>2, <1>3, <1>4 DEF TypeOK

LEMMA TypeNext == TypeOK /\ [Next]_vars => TypeOK'
<1> SUFFICES ASSUME TypeOK, [Next]_vars PROVE TypeOK'
  OBVIOUS
<1> USE DEF threadVars, initVars, modeVars, pairVars, sendVars, btnVars
<1>a. QueueTyped /\ MemosTyped /\ ThreadsTyped /\ FlagsTyped
  BY DEF TypeOK
<1>b. /\ heartbeatAdmitted \in {"dead", heartbeat}
      /\ pairingAdmitted \in {"dead", pairing}
  BY DEF heartbeatAdmitted, pairingAdmitted
<1>c. /\ UNCHANGED rcv_queue => QueueTyped'
      /\ UNCHANGED memos => MemosTyped'
      /\ \A ev : Receive(ev) => QueueTyped' /\ gcoap' \in {"idle", "posting"}
  BY <1>a, KeptTyped, ReceiveTyped DEF MemosTyped, ThreadsTyped
<1>d. /\ \A kind \in MemoKinds : send_data(kind) \/ Resolve(kind) => MemosTyped'
      /\ {"heartbeat", "pressed", "pair"} \subseteq MemoKinds
  BY <1>a, SendTyped, ResolveTyped DEF MemoKinds
<1>1. ASSUME NEW ok \in BOOLEAN, SntpSync(ok)
       PROVE  TypeOK'
  <2>1. QueueTyped' /\ MemosTyped'
    BY <1>a, <1>c, <1>d, <1>1 DEF SntpSync, not_connected_mode
  <2>2. sntp_attempts' \in 0 .. MAX_SNTP_ATTEMPTS
    BY <1>a, <1>1 DEF SntpSync, ThreadsTyped
  <2>3. CASE UNCHANGED <<init_done, main, modeVars>>
    BY <1>a, <1>1, <2>1, <2>2, <2>3
    DEF SntpSync, ThreadsTyped, FlagsTyped, TypeOK
  <2>4. CASE /\ init_done' = (sntp_attempts' # MAX_SNTP_ATTEMPTS)
             /\ main' = "receive"
             /\ not_connected_mode
    <3>1. ThreadsTyped'
      BY <1>a, <1>1, <2>2, <2>4 DEF SntpSync, not_connected_mode, ThreadsTyped
    <3>2. FlagsTyped'
      BY <1>a, <1>1, <2>4, ZenonT(40) DEF SntpSync, not_connected_mode, FlagsTyped
    <3> QED  BY <2>1, <3>1, <3>2 DEF TypeOK
  <2> QED  BY <1>1, <2>3, <2>4 DEF SntpSync
<1>2. CASE NotConnected
  <2>1. QueueTyped' /\ MemosTyped'
    BY <1>a, <1>c, <1>d, <1>2 DEF NotConnected, not_connected_mode
  <2>2. ThreadsTyped'
    BY <1>a, <1>b, <1>c, <1>2 DEF NotConnected, not_connected_mode, ThreadsTyped
  <2>3. FlagsTyped'
    BY <1>a, <1>2, ZenonT(40) DEF NotConnected, not_connected_mode, FlagsTyped
  <2> QED  BY <2>1, <2>2, <2>3 DEF TypeOK
<1>3. CASE StartPairing
  <2>1. QueueTyped' /\ MemosTyped'
    BY <1>a, <1>c, <1>d, <1>3 DEF StartPairing, SendAndSleep
  <2>2. ThreadsTyped'
    BY <1>a, <1>b, <1>c, <1>3 DEF StartPairing, SendAndSleep, ThreadsTyped
  <2>3. FlagsTyped'
    BY <1>a, <1>3, ZenonT(40) DEF StartPairing, SendAndSleep, FlagsTyped
  <2> QED  BY <2>1, <2>2, <2>3 DEF TypeOK
<1>4. CASE EnableConnected
  <2>1. QueueTyped' /\ MemosTyped'
    BY <1>a, <1>c, <1>d, <1>4 DEF EnableConnected
  <2>2. ThreadsTyped'
    BY <1>a, <1>b, <1>c, <1>4 DEF EnableConnected, ThreadsTyped
  <2>3. FlagsTyped'
    BY <1>a, <1>4, ZenonT(40) DEF EnableConnected, FlagsTyped
  <2> QED  BY <2>1, <2>2, <2>3 DEF TypeOK
<1>5. CASE LockConnected
  <2>1. QueueTyped' /\ MemosTyped'
    BY <1>a, <1>c, <1>d, <1>5 DEF LockConnected, lock_buzzer
  <2>2. ThreadsTyped'
    BY <1>a, <1>b, <1>c, <1>5 DEF LockConnected, lock_buzzer, ThreadsTyped
  <2>3. FlagsTyped'
    BY <1>a, <1>5, ZenonT(40) DEF LockConnected, lock_buzzer, FlagsTyped
  <2> QED  BY <2>1, <2>2, <2>3 DEF TypeOK
<1>6. CASE EnableNormal
  <2>1. QueueTyped' /\ MemosTyped'
    BY <1>a, <1>c, <1>d, <1>6 DEF EnableNormal, unlock_buzzer
  <2>2. ThreadsTyped'
    BY <1>a, <1>b, <1>c, <1>6 DEF EnableNormal, unlock_buzzer, ThreadsTyped
  <2>3. FlagsTyped'
    BY <1>a, <1>6, ZenonT(40) DEF EnableNormal, unlock_buzzer, FlagsTyped
  <2> QED  BY <2>1, <2>2, <2>3 DEF TypeOK
<1>7. CASE BuzzerPressed
  <2>1. QueueTyped' /\ MemosTyped'
    BY <1>a, <1>c, <1>d, <1>7 DEF BuzzerPressed
  <2>2. ThreadsTyped'
    BY <1>a, <1>b, <1>c, <1>7 DEF BuzzerPressed, ThreadsTyped
  <2>3. FlagsTyped'
    BY <1>a, <1>7 DEF BuzzerPressed, FlagsTyped
  <2> QED  BY <2>1, <2>2, <2>3 DEF TypeOK
<1>8. CASE SendPressed
  <2>1. QueueTyped' /\ MemosTyped'
    BY <1>a, <1>c, <1>d, <1>8 DEF SendPressed, SendAndSleep
  <2>2. ThreadsTyped'
    BY <1>a, <1>b, <1>c, <1>8 DEF SendPressed, SendAndSleep, ThreadsTyped
  <2>3. FlagsTyped'
    BY <1>a, <1>8, ZenonT(40) DEF SendPressed, SendAndSleep, FlagsTyped
  <2> QED  BY <2>1, <2>2, <2>3 DEF TypeOK
<1>9. CASE ResendAndLock
  <2>1. QueueTyped' /\ MemosTyped'
    BY <1>a, <1>c, <1>d, <1>9 DEF ResendAndLock, lock_buzzer
  <2>2. ThreadsTyped'
    BY <1>a, <1>b, <1>c, <1>9 DEF ResendAndLock, lock_buzzer, ThreadsTyped
  <2>3. FlagsTyped'
    BY <1>a, <1>9, ZenonT(40) DEF ResendAndLock, lock_buzzer, FlagsTyped
  <2> QED  BY <2>1, <2>2, <2>3 DEF TypeOK
<1>10. ASSUME NEW outcome \in PairOutcomes, pair_resp_handler(outcome)
       PROVE  TypeOK'
  <2> DEFINE mode == buzzer_pairing_mode /\ outcome \notin {"timeout", "FORBIDDEN"}
             kept == buzzer_pairing_mode /\ ~(outcome \notin {"timeout", "FORBIDDEN"})
  <2>1. MemosTyped' /\ UNCHANGED <<main, gcoap, heartbeat, initVars, modeVars, btnVars>>
    BY <1>d, <1>10 DEF pair_resp_handler
  <2>2. /\ buzzer_pairing_mode_timeout' \in BOOLEAN
        /\ buzzer_id_received' \in BOOLEAN
        /\ kept \in BOOLEAN
    BY <1>10, Zenon DEF pair_resp_handler
  <2>3. /\ buzzer_pairing_mode' \in BOOLEAN
        /\ refused' \subseteq {"main", "pairing"}
        /\ pairing' \in {"dead", "asleep", "failed", "succeeded"}
        /\ QueueTyped'
    <3>1. CASE pairing = "asleep"
      <4>1. FinishPairing(buzzer_pairing_mode_timeout', kept)
        BY <1>10, <3>1 DEF pair_resp_handler, WakesPairing
      <4> HIDE DEF kept
      <4> QED  BY <2>2, <4>1, FinishPairingTyped
    <3>2. CASE pairing # "asleep"
      <4>1. /\ buzzer_pairing_mode' = kept
            /\ UNCHANGED <<pairing, rcv_queue, refused>>
        BY <1>10, <3>2, Zenon DEF pair_resp_handler, WakesPairing
      <4> HIDE DEF kept
      <4> QED  BY <1>a, <1>c, <2>2, <4>1 DEF ThreadsTyped
    <3> QED  BY <3>1, <3>2
  <2>4. ThreadsTyped'
    BY <1>a, <2>1, <2>3 DEF ThreadsTyped
  <2>5. FlagsTyped'
    BY <1>a, <1>10, <2>2, <2>3, ZenonT(40) DEF pair_resp_handler, FlagsTyped
  <2> QED  BY <2>1, <2>3, <2>4, <2>5 DEF TypeOK
<1>11. ASSUME NEW answered \in BOOLEAN, _pressed_send_resp_handler(answered)
       PROVE  TypeOK'
  <2>1. /\ MemosTyped' /\ main' \in {main, "woken"}
        /\ UNCHANGED <<gcoap, heartbeat, initVars, modeVars, btnVars>>
    BY <1>d, <1>11 DEF _pressed_send_resp_handler
  <2>2. pressed_not_timeouted' \in BOOLEAN
    BY <1>11, Zenon DEF _pressed_send_resp_handler
  <2>3. /\ buzzer_pairing_mode' \in BOOLEAN
        /\ refused' \subseteq {"main", "pairing"}
        /\ pairing' \in {"dead", "asleep", "failed", "succeeded"}
        /\ QueueTyped'
    <3>1. CASE FinishPairing(buzzer_pairing_mode_timeout, buzzer_pairing_mode)
      BY <1>a, <3>1, FinishPairingTyped DEF FlagsTyped
    <3>2. CASE /\ UNCHANGED <<pairing, rcv_queue, buzzer_pairing_mode>>
               /\ refused' \subseteq refused
      BY <1>a, <1>c, <3>2 DEF ThreadsTyped, FlagsTyped
    <3> QED  BY <1>11, <3>1, <3>2 DEF _pressed_send_resp_handler
  <2>4. ThreadsTyped'
    BY <1>a, <2>1, <2>3 DEF ThreadsTyped
  <2>5. FlagsTyped'
    BY <1>a, <1>11, <2>2, <2>3, ZenonT(40) DEF _pressed_send_resp_handler, FlagsTyped
  <2> QED  BY <2>1, <2>3, <2>4, <2>5 DEF TypeOK
<1>12. ASSUME NEW alive \in BOOLEAN,
              _heartbeat_resp_handler(alive)
       PROVE  TypeOK'
  <2>1. QueueTyped' /\ MemosTyped'
    BY <1>a, <1>c, <1>d, <1>12 DEF _heartbeat_resp_handler
  <2>2. ThreadsTyped'
    BY <1>a, <1>12 DEF _heartbeat_resp_handler, ThreadsTyped
  <2>3. FlagsTyped'
    <3>1. hb_timeout' \in BOOLEAN
      BY <1>12, Zenon DEF _heartbeat_resp_handler
    <3>2. UNCHANGED <<initVars, modeVars, pairVars, pressed_not_timeouted, btnVars>>
      BY <1>12, Zenon DEF _heartbeat_resp_handler
    <3> QED  BY <1>a, <3>1, <3>2, ZenonT(40) DEF FlagsTyped
  <2> QED  BY <2>1, <2>2, <2>3 DEF TypeOK
<1>13. CASE _buzzer_reset_handler
  <2>1. QueueTyped' /\ MemosTyped'
    BY <1>a, <1>c, <1>d, <1>13, PostTyped DEF _buzzer_reset_handler, Events
  <2>2. ThreadsTyped'
    BY <1>a, <1>13 DEF _buzzer_reset_handler, ThreadsTyped
  <2>3. FlagsTyped'
    BY <1>a, <1>13, ZenonT(40) DEF _buzzer_reset_handler, FlagsTyped
  <2> QED  BY <2>1, <2>2, <2>3 DEF TypeOK
<1>14. CASE HeartbeatWakes
  <2>1. QueueTyped' /\ MemosTyped'
    BY <1>a, <1>c, <1>d, <1>14, PostTyped DEF HeartbeatWakes, HeartbeatFails, Events
  <2>2. ThreadsTyped'
    BY <1>a, <1>14 DEF HeartbeatWakes, HeartbeatFails, ThreadsTyped
  <2>3. FlagsTyped'
    <3>1. hb_timeout' \in BOOLEAN
      BY <1>a, <1>14 DEF HeartbeatWakes, FlagsTyped
    <3>2. UNCHANGED <<initVars, modeVars, pairVars, pressed_not_timeouted, btnVars>>
      BY <1>14 DEF HeartbeatWakes
    <3> QED  BY <1>a, <3>1, <3>2 DEF FlagsTyped
  <2> QED  BY <2>1, <2>2, <2>3 DEF TypeOK
<1>15. ASSUME NEW b \in {"not_connected", "pairing"},
              BlinkWakes(b)
       PROVE  TypeOK'
  <2>1. QueueTyped' /\ MemosTyped'
    BY <1>a, <1>c, <1>d, <1>15 DEF BlinkWakes
  <2>2. ThreadsTyped'
    BY <1>a, <1>15 DEF BlinkWakes, ThreadsTyped
  <2>3. FlagsTyped'
    <3>1. led1' \in BOOLEAN
      BY <1>a, <1>15, ZenonT(40) DEF BlinkWakes, FlagsTyped
    <3>2. UNCHANGED <<initVars, buzzer_paired, buzzer_locked,
                      buzzer_not_connected_mode, pairVars, hb_timeout,
                      pressed_not_timeouted, btnVars>>
      BY <1>15 DEF BlinkWakes
    <3> QED  BY <1>a, <3>1, <3>2 DEF FlagsTyped
  <2> QED  BY <2>1, <2>2, <2>3 DEF TypeOK
<1>16. ASSUME NEW state \in {"active", "passive"}, NEW longOk \in BOOLEAN, NEW pressOk \in BOOLEAN,
              btn_callback(state, longOk, pressOk)
       PROVE  TypeOK'
  <2>1. QueueTyped' /\ MemosTyped'
    BY <1>a, <1>c, <1>d, <1>16, IsrPostTyped DEF btn_callback, Events
  <2>2. ThreadsTyped'
    BY <1>a, <1>16 DEF btn_callback, ThreadsTyped
  <2>3. FlagsTyped'
    BY <1>a, <1>16, ZenonT(40) DEF btn_callback, FlagsTyped
  <2> QED  BY <2>1, <2>2, <2>3 DEF TypeOK
<1>17. CASE long_press_callback
  <2>1. QueueTyped' /\ MemosTyped'
    BY <1>a, <1>c, <1>d, <1>17, IsrPostTyped DEF long_press_callback, Events
  <2>2. ThreadsTyped'
    BY <1>a, <1>17 DEF long_press_callback, ThreadsTyped
  <2>3. FlagsTyped'
    BY <1>a, <1>17, ZenonT(40) DEF long_press_callback, FlagsTyped
  <2> QED  BY <2>1, <2>2, <2>3 DEF TypeOK
<1>18. CASE UNCHANGED vars
  BY <1>a, <1>c, <1>18 DEF vars, TypeOK, ThreadsTyped, FlagsTyped
<1> QED
  BY <1>1, <1>2, <1>3, <1>4, <1>5, <1>6, <1>7, <1>8, <1>9, <1>10, <1>11, <1>12,
     <1>13, <1>14, <1>15, <1>16, <1>17, <1>18
  DEF Next, main_routine, Boot, PairAnswer, PressedAnswer, HeartbeatAnswer, Button

(* TypeOK is an invariant of the firmware.                                 *)
THEOREM TypeCorrect == Spec => []TypeOK
<1> QED  BY TypeInit, TypeNext, PTL DEF Spec

-----------------------------------------------------------------------------
(* NoLostWakeup is inductive once the types are known.  Only a send puts a *)
(* thread to sleep, and it either adds a memo or marks the thread refused; *)
(* only a handler takes a memo away, and it wakes the sleeper it finds.    *)
LEMMA SendAndSleepWakeable ==
  ASSUME MemosTyped, NEW kind \in MemoKinds, NEW thread,
         SendAndSleep(kind, thread)
  PROVE  /\ thread \in refused' \/ memos'[kind] > 0
         /\ \A k \in MemoKinds : memos'[k] >= memos[k]
         /\ \A t : t # thread => (t \in refused' <=> t \in refused)
BY DEF MemosTyped, SendAndSleep, send_data

LEMMA SendKeepsMemos ==
  ASSUME MemosTyped, NEW kind \in MemoKinds, send_data(kind)
  PROVE  \A k \in MemoKinds : memos'[k] >= memos[k]
BY DEF MemosTyped, send_data

LEMMA ResolveKeepsOthers ==
  ASSUME MemosTyped, NEW kind \in MemoKinds, Resolve(kind)
  PROVE  \A k \in MemoKinds : k # kind => memos'[k] = memos[k]
BY DEF MemosTyped, Resolve

LEMMA WakeupNext ==
  TypeOK /\ NoLostWakeup /\ [Next]_vars => NoLostWakeup'
<1> SUFFICES ASSUME TypeOK, NoLostWakeup, [Next]_vars PROVE NoLostWakeup'
  OBVIOUS
<1> USE DEF threadVars, initVars, modeVars, pairVars, sendVars, btnVars
<1>a. MemosTyped
  BY DEF TypeOK
<1>b. pairingAdmitted = pairing \/ pairingAdmitted = "dead"
  BY DEF pairingAdmitted
<1>c. /\ "heartbeat" \in MemoKinds /\ "pressed" \in MemoKinds
      /\ "pair" \in MemoKinds
      /\ \A k \in MemoKinds : memos[k] \in Nat
  BY <1>a DEF MemoKinds, MemosTyped
<1>d. ASSUME \A k \in MemoKinds : memos'[k] >= memos[k], UNCHANGED refused,
             main' = "asleep" => main = "asleep",
             pairing' = "asleep" => pairing = "asleep",
             MemosTyped'
      PROVE  NoLostWakeup'
  BY <1>c, <1>d DEF NoLostWakeup, MemosTyped
<1>e. TypeOK'
  BY TypeNext
<1>f. MemosTyped'
  BY <1>e DEF TypeOK
<1>g. ASSUME UNCHANGED sendVars, main' = "asleep" => main = "asleep",
             pairing' = "asleep" => pairing = "asleep"
      PROVE  NoLostWakeup'
  BY <1>g DEF NoLostWakeup
<1>1. ASSUME NEW ok \in BOOLEAN, SntpSync(ok) PROVE NoLostWakeup'
  BY <1>1, <1>g DEF SntpSync
<1>2. CASE NotConnected
  BY <1>2, <1>b, <1>g DEF NotConnected, not_connected_mode
<1>3. CASE StartPairing
  BY <1>3, <1>a, <1>c, <1>f, SendAndSleepWakeable
  DEF StartPairing, NoLostWakeup, MemosTyped
<1>4. CASE EnableConnected
  <2>1. \A k \in MemoKinds : memos'[k] >= memos[k]
    BY <1>4, <1>a, <1>c, SendKeepsMemos DEF EnableConnected
  <2> QED  BY <1>4, <1>b, <1>d, <1>f, <2>1 DEF EnableConnected
<1>5. CASE LockConnected
  BY <1>5, <1>g DEF LockConnected
<1>6. CASE EnableNormal
  BY <1>6, <1>b, <1>g DEF EnableNormal
<1>7. CASE BuzzerPressed
  BY <1>7, <1>b, <1>g DEF BuzzerPressed
<1>8. CASE SendPressed
  BY <1>8, <1>a, <1>c, <1>f, SendAndSleepWakeable
  DEF SendPressed, NoLostWakeup, MemosTyped
<1>9. CASE ResendAndLock
  <2>1. \A k \in MemoKinds : memos'[k] >= memos[k]
    BY <1>9, <1>a, <1>c, SendKeepsMemos DEF ResendAndLock
  <2> QED  BY <1>9, <1>d, <1>f, <2>1 DEF ResendAndLock
<1>10. ASSUME NEW outcome \in PairOutcomes, pair_resp_handler(outcome)
       PROVE  NoLostWakeup'
  <2>1. memos'["pressed"] = memos["pressed"] /\ main' = main
    BY <1>10, <1>a, <1>c, ResolveKeepsOthers DEF pair_resp_handler
  <2>2. pairing' # "asleep" /\ refused' \in {refused, refused \ {"pairing"}}
    BY <1>10 DEF pair_resp_handler, WakesPairing, FinishPairing
  <2> QED  BY <2>1, <2>2 DEF NoLostWakeup
<1>11. ASSUME NEW answered \in BOOLEAN, _pressed_send_resp_handler(answered)
       PROVE  NoLostWakeup'
  <2>1. memos'["pair"] = memos["pair"] /\ main' # "asleep"
    BY <1>11, <1>a, <1>c, ResolveKeepsOthers DEF _pressed_send_resp_handler
  <2>2. \/ pairing' = pairing /\ refused' \in {refused, refused \ {"main"}}
        \/ pairing' # "asleep"
    BY <1>11 DEF _pressed_send_resp_handler, FinishPairing
  <2> QED  BY <2>1, <2>2 DEF NoLostWakeup
<1>12. ASSUME NEW alive \in BOOLEAN, _heartbeat_resp_handler(alive)
       PROVE  NoLostWakeup'
  <2>1. memos'["pair"] = memos["pair"] /\ memos'["pressed"] = memos["pressed"]
    BY <1>12, <1>a, <1>c, ResolveKeepsOthers DEF _heartbeat_resp_handler
  <2> QED  BY <1>12, <2>1 DEF _heartbeat_resp_handler, NoLostWakeup
<1>13. CASE _buzzer_reset_handler
  BY <1>13, <1>g DEF _buzzer_reset_handler
<1>14. CASE HeartbeatWakes
  <2>1. \A k \in MemoKinds : memos'[k] >= memos[k]
    BY <1>14, <1>a, <1>c, SendKeepsMemos DEF HeartbeatWakes
  <2> QED  BY <1>14, <1>d, <1>f, <2>1 DEF HeartbeatWakes
<1>15. ASSUME NEW b \in {"not_connected", "pairing"}, BlinkWakes(b)
       PROVE  NoLostWakeup'
  BY <1>15, <1>g DEF BlinkWakes
<1>16. ASSUME NEW state \in {"active", "passive"}, NEW longOk \in BOOLEAN,
              NEW pressOk \in BOOLEAN, btn_callback(state, longOk, pressOk)
       PROVE  NoLostWakeup'
  BY <1>16, <1>g DEF btn_callback
<1>17. CASE long_press_callback
  BY <1>17, <1>g DEF long_press_callback
<1>18. CASE UNCHANGED vars
  BY <1>18, <1>g DEF vars
<1> QED
  BY <1>1, <1>2, <1>3, <1>4, <1>5, <1>6, <1>7, <1>8, <1>9, <1>10, <1>11, <1>12,
     <1>13, <1>14, <1>15, <1>16, <1>17, <1>18
  DEF Next, main_routine, Boot, PairAnswer, PressedAnswer, HeartbeatAnswer, Button

(* No wakeup of the main or the pairing thread is ever lost, for any size  *)
(* of the memo table.                                                      *)
THEOREM WakeupsCorrect == Spec => []NoLostWakeup
<1>1. Init => NoLostWakeup
  BY DEF Init, NoLostWakeup
<1> QED  BY <1>1, TypeInit, TypeNext, WakeupNext, PTL DEF Spec

-----------------------------------------------------------------------------
(* MonitoredWhilePaired is inductive: the heartbeat thread dies only with  *)
(* its message in the queue, messages leave the queue only at its head,    *)
(* and the main thread that takes NOT_CONNECTED is no longer paired.       *)
LEMMA PendingKept ==
  ASSUME QueueTyped, NEW ev, rcv_queue' \in {rcv_queue, Append(rcv_queue, ev)},
         NotConnectedPending
  PROVE  NotConnectedPending'
<1>1. PICK i \in 1 .. Len(rcv_queue) : rcv_queue[i] = "NOT_CONNECTED"
  BY DEF NotConnectedPending
<1>2. CASE rcv_queue' = rcv_queue
  BY <1>2, <1>1 DEF NotConnectedPending
<1>3. CASE rcv_queue' = Append(rcv_queue, ev)
  <2>1. i \in 1 .. Len(rcv_queue') /\ rcv_queue'[i] = "NOT_CONNECTED"
    BY <1>1, <1>3, LenProperties DEF QueueTyped
  <2> QED  BY <2>1 DEF NotConnectedPending
<1> QED  BY <1>2, <1>3

LEMMA PendingPosted ==
  ASSUME QueueTyped, rcv_queue' = Append(rcv_queue, "NOT_CONNECTED")
  PROVE  NotConnectedPending'
<1>1. /\ Len(rcv_queue) \in Nat
      /\ Len(rcv_queue') = Len(rcv_queue) + 1
      /\ rcv_queue'[Len(rcv_queue) + 1] = "NOT_CONNECTED"
  BY LenProperties DEF QueueTyped
<1> QED  BY <1>1 DEF NotConnectedPending

LEMMA PendingReceived ==
  ASSUME QueueTyped, NEW ev, Receive(ev), ev # "NOT_CONNECTED",
         NotConnectedPending \/ Waiter = "heartbeat"
  PROVE  NotConnectedPending'
<1> DEFINE t == Tail(rcv_queue)
<1>1. /\ t \in Seq(Events) /\ Len(t) = Len(rcv_queue) - 1
      /\ Len(rcv_queue) \in Nat
      /\ \A i \in 1 .. Len(t) : t[i] = rcv_queue[i + 1]
      /\ rcv_queue # <<>> /\ rcv_queue[1] # "NOT_CONNECTED"
  BY TailTyped, HeadTailProperties DEF Receive, QueueTyped
<1>2. rcv_queue' \in {t, Append(t, WaiterEvent)}
  BY DEF Receive
<1> HIDE DEF t
<1>3. CASE NotConnectedPending
  <2>1. PICK i \in 1 .. Len(rcv_queue) : rcv_queue[i] = "NOT_CONNECTED"
    BY <1>3 DEF NotConnectedPending
  <2>2. i - 1 \in 1 .. Len(t) /\ t[i - 1] = "NOT_CONNECTED"
    BY <1>1, <2>1
  <2>3. i - 1 \in 1 .. Len(rcv_queue') /\ rcv_queue'[i - 1] = "NOT_CONNECTED"
    BY <1>1, <1>2, <2>2
  <2> QED  BY <2>3 DEF NotConnectedPending
<1>4. CASE Waiter = "heartbeat"
  <2>1. rcv_queue' = Append(t, "NOT_CONNECTED")
    BY <1>4 DEF Receive, WaiterEvent, t
  <2>2. /\ Len(t) \in Nat /\ Len(rcv_queue') = Len(t) + 1
        /\ rcv_queue'[Len(t) + 1] = "NOT_CONNECTED"
    BY <1>1, <2>1, LenProperties
  <2> QED  BY <2>2 DEF NotConnectedPending
<1> QED  BY <1>3, <1>4

LEMMA MonitoredNext ==
  TypeOK /\ MonitoredWhilePaired /\ [Next]_vars => MonitoredWhilePaired'
<1> SUFFICES ASSUME TypeOK, MonitoredWhilePaired, [Next]_vars
             PROVE  MonitoredWhilePaired'
  OBVIOUS
<1> USE DEF threadVars, initVars, modeVars, pairVars, sendVars, btnVars
<1>a. QueueTyped
  BY DEF TypeOK
(* Steps that leave the link and the heartbeat alone and at most post.     *)
<1>b. ASSUME UNCHANGED <<buzzer_paired, heartbeat>>,
             \/ UNCHANGED rcv_queue
             \/ \E ev \in Events : rcv_queue' = Append(rcv_queue, ev)
      PROVE  MonitoredWhilePaired'
  BY <1>a, <1>b, PendingKept DEF MonitoredWhilePaired
(* Main takes a message that does not change the link.                     *)
<1>c. ASSUME NEW ev, Receive(ev), ev # "NOT_CONNECTED",
             UNCHANGED buzzer_paired, heartbeat' = heartbeatAdmitted
      PROVE  MonitoredWhilePaired'
  BY <1>a, <1>c, PendingReceived DEF MonitoredWhilePaired, heartbeatAdmitted
<1>d. ASSUME NEW timeout, NEW mode, FinishPairing(timeout, mode)
      PROVE  \/ UNCHANGED rcv_queue
             \/ \E ev \in Events : rcv_queue' = Append(rcv_queue, ev)
  BY <1>d DEF FinishPairing, Events
<1>e. ASSUME NEW ev \in Events, IsrPost(ev)
      PROVE  \/ UNCHANGED rcv_queue
             \/ \E e \in Events : rcv_queue' = Append(rcv_queue, e)
  BY <1>e DEF IsrPost
<1>1. ASSUME NEW ok \in BOOLEAN, SntpSync(ok) PROVE MonitoredWhilePaired'
  <2>1. UNCHANGED <<heartbeat, rcv_queue>>
        /\ (buzzer_paired' = FALSE \/ UNCHANGED buzzer_paired)
    BY <1>1 DEF SntpSync, not_connected_mode
  <2> QED  BY <2>1, <1>b DEF MonitoredWhilePaired
<1>2. CASE NotConnected
  BY <1>2 DEF NotConnected, not_connected_mode, MonitoredWhilePaired
<1>3. CASE StartPairing
  BY <1>3, <1>c DEF StartPairing
<1>4. CASE EnableConnected
  BY <1>4 DEF EnableConnected, MonitoredWhilePaired
<1>5. CASE LockConnected
  BY <1>5, <1>b DEF LockConnected
<1>6. CASE EnableNormal
  BY <1>6, <1>c DEF EnableNormal
<1>7. CASE BuzzerPressed
  BY <1>7, <1>c DEF BuzzerPressed
<1>8. CASE SendPressed
  BY <1>8, <1>b DEF SendPressed
<1>9. CASE ResendAndLock
  BY <1>9, <1>b DEF ResendAndLock
<1>10. ASSUME NEW outcome \in PairOutcomes, pair_resp_handler(outcome)
       PROVE  MonitoredWhilePaired'
  BY <1>10, <1>b, <1>d DEF pair_resp_handler
<1>11. ASSUME NEW answered \in BOOLEAN, _pressed_send_resp_handler(answered)
       PROVE  MonitoredWhilePaired'
  BY <1>11, <1>b, <1>d DEF _pressed_send_resp_handler
<1>12. ASSUME NEW alive \in BOOLEAN, _heartbeat_resp_handler(alive)
       PROVE  MonitoredWhilePaired'
  BY <1>12, <1>b DEF _heartbeat_resp_handler
<1>13. CASE _buzzer_reset_handler
  BY <1>13, <1>b DEF _buzzer_reset_handler, Events
<1>14. CASE HeartbeatWakes
  <2>1. CASE heartbeat' = "dead"
    <3>1. rcv_queue' = Append(rcv_queue, "NOT_CONNECTED")
      BY <1>14, <2>1 DEF HeartbeatWakes, HeartbeatFails
    <3> QED  BY <1>a, <3>1, PendingPosted DEF MonitoredWhilePaired
  <2>2. CASE heartbeat' # "dead"
    BY <2>2 DEF MonitoredWhilePaired
  <2> QED  BY <2>1, <2>2
<1>15. ASSUME NEW b \in {"not_connected", "pairing"}, BlinkWakes(b)
       PROVE  MonitoredWhilePaired'
  BY <1>15, <1>b DEF BlinkWakes
<1>16. ASSUME NEW state \in {"active", "passive"}, NEW longOk \in BOOLEAN,
              NEW pressOk \in BOOLEAN, btn_callback(state, longOk, pressOk)
       PROVE  MonitoredWhilePaired'
  BY <1>16, <1>b, <1>e DEF btn_callback, Events
<1>17. CASE long_press_callback
  BY <1>17, <1>b, <1>e DEF long_press_callback, Events
<1>18. CASE UNCHANGED vars
  BY <1>18, <1>b DEF vars
<1> QED
  BY <1>1, <1>2, <1>3, <1>4, <1>5, <1>6, <1>7, <1>8, <1>9, <1>10, <1>11, <1>12,
     <1>13, <1>14, <1>15, <1>16, <1>17, <1>18
  DEF Next, main_routine, Boot, PairAnswer, PressedAnswer, HeartbeatAnswer, Button

(* A paired buzzer is always watched, for any queue size, and also when    *)
(* threads are created over live ones and stray wakeups happen.            *)
THEOREM MonitoredCorrect == Spec => []MonitoredWhilePaired
<1>1. Init => MonitoredWhilePaired
  BY DEF Init, MonitoredWhilePaired
<1> QED  BY <1>1, TypeInit, TypeNext, MonitoredNext, PTL DEF Spec

-----------------------------------------------------------------------------
(* PairingModeOwned: the flag is raised with the thread put to sleep, and  *)
(* whatever wakes the thread lowers it, unless a stray wakeup does.        *)
LEMMA OwnedNext ==
  TypeOK /\ PairingModeOwned /\ [Next]_vars => PairingModeOwned'
<1> SUFFICES ASSUME TypeOK, PairingModeOwned, [Next]_vars, ~StalePidMayBePairing
             PROVE  (buzzer_pairing_mode <=> pairing = "asleep")'
  BY DEF PairingModeOwned
<1> USE DEF threadVars, initVars, modeVars, pairVars, sendVars, btnVars
<1>a. buzzer_pairing_mode <=> pairing = "asleep"
  BY DEF PairingModeOwned
<1>b. ASSUME UNCHANGED buzzer_pairing_mode,
             pairing' \in {pairing, pairingAdmitted}
      PROVE  (buzzer_pairing_mode <=> pairing = "asleep")'
  <2>1. pairing' = "asleep" <=> pairing = "asleep"
    BY <1>b DEF pairingAdmitted, Waiter
  <2> QED  BY <1>a, <1>b, <2>1
<1>1. ASSUME NEW ok \in BOOLEAN, SntpSync(ok)
      PROVE  (buzzer_pairing_mode <=> pairing = "asleep")'
  BY <1>1, <1>b DEF SntpSync
<1>2. CASE NotConnected
  BY <1>2, <1>b DEF NotConnected
<1>3. CASE StartPairing
  BY <1>3 DEF StartPairing
<1>4. CASE EnableConnected
  BY <1>4, <1>b DEF EnableConnected
<1>5. CASE LockConnected
  BY <1>5, <1>b DEF LockConnected
<1>6. CASE EnableNormal
  BY <1>6, <1>b DEF EnableNormal
<1>7. CASE BuzzerPressed
  BY <1>7, <1>b DEF BuzzerPressed
<1>8. CASE SendPressed
  BY <1>8, <1>b DEF SendPressed
<1>9. CASE ResendAndLock
  BY <1>9, <1>b DEF ResendAndLock
<1>10. ASSUME NEW outcome \in PairOutcomes, pair_resp_handler(outcome)
       PROVE  (buzzer_pairing_mode <=> pairing = "asleep")'
  <2>1. CASE pairing = "asleep"
    <3>1. ~buzzer_pairing_mode'
      BY <1>10, <2>1, Zenon DEF pair_resp_handler, WakesPairing, FinishPairing
    <3>2. pairing' # "asleep"
      BY <1>10, <2>1 DEF pair_resp_handler, WakesPairing, FinishPairing
    <3> QED  BY <3>1, <3>2
  <2>2. CASE pairing # "asleep"
    <3>1. ~buzzer_pairing_mode'
      BY <1>a, <1>10, <2>2, Zenon DEF pair_resp_handler, WakesPairing
    <3>2. pairing' = pairing
      BY <1>10, <2>2 DEF pair_resp_handler, WakesPairing
    <3> QED  BY <2>2, <3>1, <3>2
  <2> QED  BY <2>1, <2>2
<1>11. ASSUME NEW answered \in BOOLEAN, _pressed_send_resp_handler(answered)
       PROVE  (buzzer_pairing_mode <=> pairing = "asleep")'
  BY <1>11, <1>b DEF _pressed_send_resp_handler
<1>12. ASSUME NEW alive \in BOOLEAN, _heartbeat_resp_handler(alive)
       PROVE  (buzzer_pairing_mode <=> pairing = "asleep")'
  BY <1>12, <1>b DEF _heartbeat_resp_handler
<1>13. CASE _buzzer_reset_handler
  BY <1>13, <1>b DEF _buzzer_reset_handler
<1>14. CASE HeartbeatWakes
  BY <1>14, <1>b DEF HeartbeatWakes
<1>15. ASSUME NEW b \in {"not_connected", "pairing"}, BlinkWakes(b)
       PROVE  (buzzer_pairing_mode <=> pairing = "asleep")'
  BY <1>15, <1>b DEF BlinkWakes
<1>16. ASSUME NEW state \in {"active", "passive"}, NEW longOk \in BOOLEAN,
              NEW pressOk \in BOOLEAN, btn_callback(state, longOk, pressOk)
       PROVE  (buzzer_pairing_mode <=> pairing = "asleep")'
  BY <1>16, <1>b DEF btn_callback
<1>17. CASE long_press_callback
  BY <1>17, <1>b DEF long_press_callback
<1>18. CASE UNCHANGED vars
  BY <1>18, <1>b DEF vars
<1> QED
  BY <1>1, <1>2, <1>3, <1>4, <1>5, <1>6, <1>7, <1>8, <1>9, <1>10, <1>11, <1>12,
     <1>13, <1>14, <1>15, <1>16, <1>17, <1>18
  DEF Next, main_routine, Boot, PairAnswer, PressedAnswer, HeartbeatAnswer, Button

(* Without stray wakeups the buzzer is in pairing mode exactly while a     *)
(* pairing thread waits for an answer, with any number of threads created  *)
(* one over the other and of register requests outstanding.                *)
THEOREM PairingModeCorrect == Spec => []PairingModeOwned
<1>1. Init => PairingModeOwned
  BY DEF Init, PairingModeOwned
<1> QED  BY <1>1, TypeInit, TypeNext, OwnedNext, PTL DEF Spec

-----------------------------------------------------------------------------
(***************************************************************************)
(* LedShowsLock is not inductive.  The blinkers may leave the LED in any   *)
(* state; what saves it is that each of them ends with a message under way *)
(* whose handler writes the LED again.  The strengthening says so: while   *)
(* no such verdict is queued, no pairing is under way and no not-connected *)
(* blinker runs, the LED of a paired buzzer is right; a pairing under way  *)
(* has its blinker alive or its verdict held back by a full queue.         *)
(***************************************************************************)
Verdicts == {"CONNECTED", "NOT_CONNECTED"}
VerdictPending == \E i \in 1 .. Len(rcv_queue) : rcv_queue[i] \in Verdicts

BlockedOnlyWhenFull ==
  heartbeat = "failed" \/ pairing \in {"failed", "succeeded"} \/ gcoap = "posting"
    => Full

NoBlinker == ~(buzzer_not_connected_mode /\ "not_connected" \in blinking)

LedSettled ==
  buzzer_paired /\ main # "locking" /\ pairing = "dead" /\ ~VerdictPending
    /\ NoBlinker => (led1 <=> ~buzzer_locked)

PairingBlinks == pairing = "asleep" => "pairing" \in blinking

LedInv == LedSettled /\ PairingBlinks /\ BlockedOnlyWhenFull

LEMMA VerdictKept ==
  ASSUME QueueTyped, NEW ev, rcv_queue' \in {rcv_queue, Append(rcv_queue, ev)},
         VerdictPending
  PROVE  VerdictPending'
<1>1. PICK i \in 1 .. Len(rcv_queue) : rcv_queue[i] \in Verdicts
  BY DEF VerdictPending
<1>2. CASE rcv_queue' = rcv_queue
  BY <1>2, <1>1 DEF VerdictPending
<1>3. CASE rcv_queue' = Append(rcv_queue, ev)
  <2>1. i \in 1 .. Len(rcv_queue') /\ rcv_queue'[i] \in Verdicts
    BY <1>1, <1>3, LenProperties DEF QueueTyped
  <2> QED  BY <2>1 DEF VerdictPending
<1> QED  BY <1>2, <1>3

LEMMA VerdictPosted ==
  ASSUME QueueTyped, NEW ev \in Verdicts, rcv_queue' = Append(rcv_queue, ev)
  PROVE  VerdictPending'
<1>1. /\ Len(rcv_queue) \in Nat
      /\ Len(rcv_queue') = Len(rcv_queue) + 1
      /\ rcv_queue'[Len(rcv_queue) + 1] = ev
  BY LenProperties DEF QueueTyped
<1> QED  BY <1>1 DEF VerdictPending

LEMMA VerdictReceived ==
  ASSUME QueueTyped, NEW ev, Receive(ev), ev \notin Verdicts,
         VerdictPending \/ Waiter \in {"heartbeat", "pairing"}
  PROVE  VerdictPending'
<1> DEFINE t == Tail(rcv_queue)
<1>1. /\ t \in Seq(Events) /\ Len(t) = Len(rcv_queue) - 1
      /\ Len(rcv_queue) \in Nat
      /\ \A i \in 1 .. Len(t) : t[i] = rcv_queue[i + 1]
      /\ rcv_queue # <<>> /\ rcv_queue[1] \notin Verdicts
  BY TailTyped, HeadTailProperties DEF Receive, QueueTyped
<1>2. rcv_queue' \in {t, Append(t, WaiterEvent)}
  BY DEF Receive
<1>3. CASE Waiter \in {"heartbeat", "pairing"}
  <2>1. rcv_queue' = Append(t, WaiterEvent) /\ WaiterEvent \in Verdicts
    BY <1>3 DEF Receive, WaiterEvent, Verdicts
  <2> HIDE DEF t
  <2>2. /\ Len(t) \in Nat /\ Len(rcv_queue') = Len(t) + 1
        /\ rcv_queue'[Len(t) + 1] = WaiterEvent
    BY <1>1, <2>1, LenProperties
  <2> QED  BY <2>1, <2>2 DEF VerdictPending
<1> HIDE DEF t
<1>4. CASE VerdictPending
  <2>1. PICK i \in 1 .. Len(rcv_queue) : rcv_queue[i] \in Verdicts
    BY <1>4 DEF VerdictPending
  <2>2. i - 1 \in 1 .. Len(t) /\ t[i - 1] \in Verdicts
    BY <1>1, <2>1
  <2>3. i - 1 \in 1 .. Len(rcv_queue') /\ rcv_queue'[i - 1] \in Verdicts
    BY <1>1, <1>2, <2>2
  <2> QED  BY <2>3 DEF VerdictPending
<1> QED  BY <1>3, <1>4

LEMMA PostFull ==
  ASSUME QueueTyped, NEW ev, rcv_queue' = Append(rcv_queue, ev), Full
  PROVE  Full'
BY LenProperties DEF QueueTyped, Full

LEMMA ReceiveFull ==
  ASSUME QueueTyped, BlockedOnlyWhenFull, NEW ev, Receive(ev),
         heartbeat' \in {heartbeatAdmitted, "asleep"},
         pairing' \in {pairingAdmitted, "asleep"}
  PROVE  BlockedOnlyWhenFull'
<1>1. CASE Waiter = "none"
  BY <1>1 DEF Waiter, heartbeatAdmitted, pairingAdmitted, BlockedOnlyWhenFull,
     Receive
<1>2. CASE Waiter # "none"
  <2>1. Full
    BY <1>2 DEF Waiter, BlockedOnlyWhenFull
  <2>2. /\ Tail(rcv_queue) \in Seq(Events)
        /\ Len(Tail(rcv_queue)) = Len(rcv_queue) - 1
        /\ Len(rcv_queue) \in Nat
    BY TailTyped DEF Receive
  <2>3. rcv_queue' = Append(Tail(rcv_queue), WaiterEvent)
    BY <1>2 DEF Receive
  <2>4. Len(rcv_queue') = Len(rcv_queue)
    BY <2>2, <2>3, LenProperties
  <2>5. Full'
    BY <2>1, <2>4 DEF Full
  <2> QED  BY <2>5 DEF BlockedOnlyWhenFull
<1> QED  BY <1>1, <1>2

LEMMA LedNext ==
  ~StalePidMayBePairing /\ TypeOK /\ PairingModeOwned /\ LedInv /\ [Next]_vars
    => LedInv'
<1> SUFFICES ASSUME ~StalePidMayBePairing, TypeOK, PairingModeOwned, LedInv,
                    [Next]_vars
             PROVE  LedInv'
  OBVIOUS
<1> USE DEF threadVars, initVars, modeVars, pairVars, sendVars, btnVars
<1>a. QueueTyped
  BY DEF TypeOK
<1>b. buzzer_pairing_mode <=> pairing = "asleep"
  BY DEF PairingModeOwned
<1>c. LedSettled /\ PairingBlinks /\ BlockedOnlyWhenFull
  BY DEF LedInv
(* Steps that leave the LED, the threads and the flags alone, and at most  *)
(* post.                                                                   *)
<1>d. ASSUME UNCHANGED <<modeVars, heartbeat, pairing, gcoap>>,
             \/ UNCHANGED rcv_queue
             \/ \E ev \in Events : rcv_queue' = Append(rcv_queue, ev),
             main' = "locking" <=> main = "locking"
      PROVE  LedInv'
  <2>1. VerdictPending => VerdictPending'
    BY <1>a, <1>d, VerdictKept
  <2>2. Full => Full'
    BY <1>a, <1>d, PostFull DEF Full
  <2>3. LedSettled'
    BY <1>c, <1>d, <2>1 DEF LedSettled, NoBlinker
  <2>4. PairingBlinks' /\ BlockedOnlyWhenFull'
    BY <1>c, <1>d, <2>2 DEF PairingBlinks, BlockedOnlyWhenFull
  <2> QED  BY <2>3, <2>4 DEF LedInv
<1>e. ASSUME NEW ev \in Events, IsrPost(ev)
      PROVE  \/ UNCHANGED rcv_queue
             \/ \E e \in Events : rcv_queue' = Append(rcv_queue, e)
  BY <1>e DEF IsrPost
(* Main takes a message that is no verdict: one pending stays pending, and *)
(* a pairing thread admitted leaves its own.                               *)
<1>f. ASSUME NEW ev, Receive(ev), ev \notin Verdicts,
             heartbeat' = heartbeatAdmitted, pairing' = pairingAdmitted
      PROVE  /\ BlockedOnlyWhenFull'
             /\ pairing' = "dead" /\ ~VerdictPending' =>
                  pairing = "dead" /\ ~VerdictPending
             /\ pairing' = "asleep" => pairing = "asleep"
  <2>1. BlockedOnlyWhenFull'
    BY <1>a, <1>c, <1>f, ReceiveFull
  <2>2. VerdictPending \/ Waiter = "pairing" => VerdictPending'
    BY <1>a, <1>f, VerdictReceived
  <2> QED  BY <1>f, <2>1, <2>2 DEF pairingAdmitted
(* The pairing thread ends in a verdict, or is held back by a full queue.  *)
<1>g. ASSUME NEW timeout, NEW mode, FinishPairing(timeout, mode),
             UNCHANGED <<main, modeVars, heartbeat, gcoap>>
      PROVE  LedInv'
  <2>1. CASE Full
    BY <1>c, <1>g, <2>1
    DEF FinishPairing, LedInv, LedSettled, PairingBlinks, BlockedOnlyWhenFull, Full
  <2>2. CASE ~Full
    <3>1. \E ev \in Verdicts : rcv_queue' = Append(rcv_queue, ev)
      BY <1>g, <2>2 DEF FinishPairing, Verdicts
    <3>2. VerdictPending' /\ pairing' = "dead"
      BY <1>a, <1>g, <2>2, <3>1, VerdictPosted DEF FinishPairing
    <3> QED
      BY <1>c, <1>g, <2>2, <3>2
      DEF LedInv, LedSettled, PairingBlinks, BlockedOnlyWhenFull
  <2> QED  BY <2>1, <2>2
<1>1. ASSUME NEW ok \in BOOLEAN, SntpSync(ok) PROVE LedInv'
  <2>1. CASE UNCHANGED <<init_done, main, modeVars>>
    BY <1>1, <1>d, <2>1 DEF SntpSync
  <2>2. CASE not_connected_mode
    BY <1>c, <1>1, <2>2
    DEF SntpSync, not_connected_mode, LedInv, LedSettled, PairingBlinks,
        BlockedOnlyWhenFull, Full
  <2> QED  BY <1>1, <2>1, <2>2 DEF SntpSync
<1>2. CASE NotConnected
  <2>1. BlockedOnlyWhenFull'
    BY <1>a, <1>c, <1>2, ReceiveFull DEF NotConnected
  <2> QED
    BY <1>c, <1>2, <2>1
    DEF NotConnected, not_connected_mode, pairingAdmitted, LedInv, LedSettled,
        PairingBlinks
<1>3. CASE StartPairing
  <2>1. BlockedOnlyWhenFull'
    BY <1>a, <1>c, <1>3, ReceiveFull DEF StartPairing
  <2> QED  BY <1>3, <2>1 DEF StartPairing, LedInv, LedSettled, PairingBlinks
<1>4. CASE EnableConnected
  <2>1. BlockedOnlyWhenFull'
    BY <1>a, <1>c, <1>4, ReceiveFull DEF EnableConnected
  <2> QED
    BY <1>c, <1>4, <2>1
    DEF EnableConnected, pairingAdmitted, LedInv, LedSettled, PairingBlinks
<1>5. CASE LockConnected
  BY <1>c, <1>5
  DEF LockConnected, lock_buzzer, LedInv, LedSettled, PairingBlinks,
      BlockedOnlyWhenFull, Full
<1>6. CASE EnableNormal
  <2>1. BlockedOnlyWhenFull' /\ (pairing' = "asleep" => pairing = "asleep")
    BY <1>6, <1>f DEF EnableNormal, Verdicts
  <2> QED
    BY <1>c, <1>6, <2>1
    DEF EnableNormal, unlock_buzzer, LedInv, LedSettled, PairingBlinks
<1>7. CASE BuzzerPressed
  <2>1. /\ BlockedOnlyWhenFull'
        /\ pairing' = "dead" /\ ~VerdictPending' =>
             pairing = "dead" /\ ~VerdictPending
        /\ pairing' = "asleep" => pairing = "asleep"
    BY <1>7, <1>f DEF BuzzerPressed, Verdicts
  <2>2. main # "locking"
    BY <1>7 DEF BuzzerPressed, Receive
  <2> QED
    BY <1>c, <1>7, <2>1, <2>2
    DEF BuzzerPressed, LedInv, LedSettled, PairingBlinks, NoBlinker
<1>8. CASE SendPressed
  BY <1>8, <1>d DEF SendPressed
<1>9. CASE ResendAndLock
  BY <1>c, <1>9
  DEF ResendAndLock, lock_buzzer, LedInv, LedSettled, PairingBlinks,
      BlockedOnlyWhenFull, Full
<1>10. ASSUME NEW outcome \in PairOutcomes, pair_resp_handler(outcome)
       PROVE  LedInv'
  BY <1>10, <1>d, <1>g DEF pair_resp_handler
<1>11. ASSUME NEW answered \in BOOLEAN, _pressed_send_resp_handler(answered)
       PROVE  LedInv'
  BY <1>11, <1>d DEF _pressed_send_resp_handler
<1>12. ASSUME NEW alive \in BOOLEAN, _heartbeat_resp_handler(alive)
       PROVE  LedInv'
  BY <1>12, <1>d DEF _heartbeat_resp_handler
<1>13. CASE _buzzer_reset_handler
  <2>1. CASE UNCHANGED gcoap
    BY <1>13, <1>d, <2>1 DEF _buzzer_reset_handler, Events
  <2>2. CASE Full /\ UNCHANGED rcv_queue
    BY <1>c, <1>13, <2>2
    DEF _buzzer_reset_handler, LedInv, LedSettled, PairingBlinks, NoBlinker,
        VerdictPending, BlockedOnlyWhenFull, Full
  <2> QED  BY <1>13, <2>1, <2>2 DEF _buzzer_reset_handler
<1>14. CASE HeartbeatWakes
  <2>1. CASE ~hb_timeout
    BY <1>14, <1>d, <2>1 DEF HeartbeatWakes
  <2>2. CASE hb_timeout /\ Full
    BY <1>c, <1>14, <2>2
    DEF HeartbeatWakes, HeartbeatFails, LedInv, LedSettled, PairingBlinks,
        NoBlinker, VerdictPending, BlockedOnlyWhenFull, Full
  <2>3. CASE hb_timeout /\ ~Full
    <3>1. rcv_queue' = Append(rcv_queue, "NOT_CONNECTED") /\ heartbeat' = "dead"
      BY <1>14, <2>3 DEF HeartbeatWakes, HeartbeatFails
    <3>2. VerdictPending'
      BY <1>a, <3>1, VerdictPosted DEF Verdicts
    <3> QED
      BY <1>c, <1>14, <2>3, <3>1, <3>2
      DEF HeartbeatWakes, LedInv, LedSettled, PairingBlinks, BlockedOnlyWhenFull
  <2> QED  BY <2>1, <2>2, <2>3
<1>15. ASSUME NEW b \in {"not_connected", "pairing"}, BlinkWakes(b)
       PROVE  LedInv'
  <2>1. BlockedOnlyWhenFull'
    BY <1>c, <1>15 DEF BlinkWakes, BlockedOnlyWhenFull, Full
  <2>2. PairingBlinks'
    BY <1>b, <1>c, <1>15 DEF BlinkWakes, BlinkFlag, PairingBlinks
  <2>3. LedSettled'
    <3>1. CASE b = "pairing"
      BY <1>b, <1>c, <1>15, <3>1
      DEF BlinkWakes, BlinkFlag, LedSettled, NoBlinker, VerdictPending
    <3>2. CASE b = "not_connected"
      BY <1>c, <1>15, <3>2
      DEF BlinkWakes, BlinkFlag, LedSettled, NoBlinker, VerdictPending
    <3> QED  BY <3>1, <3>2
  <2> QED  BY <2>1, <2>2, <2>3 DEF LedInv
<1>16. ASSUME NEW state \in {"active", "passive"}, NEW longOk \in BOOLEAN,
              NEW pressOk \in BOOLEAN, btn_callback(state, longOk, pressOk)
       PROVE  LedInv'
  BY <1>16, <1>d, <1>e DEF btn_callback, Events
<1>17. CASE long_press_callback
  BY <1>17, <1>d, <1>e DEF long_press_callback, Events
<1>18. CASE UNCHANGED vars
  BY <1>18, <1>d DEF vars
<1> QED
  BY <1>1, <1>2, <1>3, <1>4, <1>5, <1>6, <1>7, <1>8, <1>9, <1>10, <1>11, <1>12,
     <1>13, <1>14, <1>15, <1>16, <1>17, <1>18
  DEF Next, main_routine, Boot, PairAnswer, PressedAnswer, HeartbeatAnswer, Button

LEMMA LedInvShows ==
  LedInv /\ TypeOK => LedShowsLock
<1> SUFFICES ASSUME LedInv, TypeOK, buzzer_paired, main = "receive",
                    rcv_queue = <<>>, blinking = {}
             PROVE  led1 <=> ~buzzer_locked
  BY DEF LedShowsLock
<1>1. Len(rcv_queue) = 0
  BY EmptySeq
<1>2. ~Full /\ ~VerdictPending
  BY <1>1 DEF Full, VerdictPending
<1>3. pairing = "dead"
  BY <1>2 DEF LedInv, PairingBlinks, BlockedOnlyWhenFull, TypeOK, ThreadsTyped
<1> QED  BY <1>2, <1>3 DEF LedInv, LedSettled, NoBlinker

(* The LED of an idle paired buzzer shows whether it accepts a press, for  *)
(* any queue size; the property itself assumes no stray wakeups.           *)
THEOREM LedCorrect == Spec => []LedShowsLock
<1>1. CASE StalePidMayBePairing
  <2>1. LedShowsLock
    BY <1>1 DEF LedShowsLock
  <2> QED  BY <2>1, PTL
<1>2. CASE ~StalePidMayBePairing
  <2>1. Init => LedInv
    BY DEF Init, LedInv, LedSettled, PairingBlinks, BlockedOnlyWhenFull
  <2> QED
    BY <1>2, <2>1, TypeInit, TypeNext, PairingModeCorrect, LedNext, LedInvShows,
       PTL DEF Spec
<1> QED  BY <1>1, <1>2

-----------------------------------------------------------------------------
(* The firmware implements RoundBuzzer, for every queue size: each step of *)
(* a thread, handler or interrupt is a step of the contract or leaves its  *)
(* state alone.                                                            *)

(* The state the contract speaks of, as Round substitutes it.              *)
Shown(paired, locked, at, inbox, posting) ==
  [paired |-> paired, locked |-> locked, at |-> at, inbox |-> inbox,
   posting |-> posting]

At == IF main \in {"init", "receive"} THEN "idle" ELSE main

abstract == Shown(buzzer_paired, buzzer_locked, At, rcv_queue, gcoap = "posting")

(* Nothing pairs or locks the buzzer while it boots, so that the contract  *)
(* need not know of the boot.                                              *)
BootsUnpaired ==
  main = "init" => buzzer_paired = FALSE /\ buzzer_locked = FALSE

-----------------------------------------------------------------------------
(* The steps of the contract, from a state given by its fields.            *)

Fields == {"paired", "locked", "at", "inbox", "posting"}
IsShown(t) == t = [x \in Fields |-> t[x]]

LEMMA ShownByFields ==
  ASSUME NEW t, IsShown(t)
  PROVE  t = Shown(t.paired, t.locked, t.at, t.inbox, t.posting)
<1> DEFINE s == Shown(t.paired, t.locked, t.at, t.inbox, t.posting)
<1>1. IsShown(s)
  BY DEF IsShown, Shown, Fields
<1>2. \A x \in Fields : t[x] = s[x]
  BY DEF Fields, Shown
<1> HIDE DEF s
<1>3. t = s
  BY <1>1, <1>2, Zenon DEF IsShown
<1> QED  BY <1>3 DEF s

LEMMA PutShown ==
  ASSUME NEW p, NEW l, NEW at, NEW q, NEW o, NEW ev
  PROVE  Round!Put(Shown(p, l, at, q, o), ev) = Shown(p, l, at, Append(q, ev), o)
<1> DEFINE s == Shown(p, l, at, q, o)
           t == [s EXCEPT !.inbox = Append(@, ev)]
<1>1. IsShown(s) /\ s.paired = p /\ s.locked = l /\ s.at = at /\ s.inbox = q /\ s.posting = o
  BY DEF IsShown, Shown, Fields
<1> HIDE DEF s
<1>2. IsShown(t)
  BY <1>1 DEF IsShown, Fields
<1>3. /\ t.paired = s.paired /\ t.locked = s.locked /\ t.at = s.at
      /\ t.inbox = Append(s.inbox, ev) /\ t.posting = s.posting
  BY <1>1 DEF IsShown, Fields
<1>4. t = Round!Put(s, ev)
  BY DEF Round!Put
<1> HIDE DEF t
<1>5. t = Shown(t.paired, t.locked, t.at, t.inbox, t.posting)
  BY <1>2, ShownByFields
<1>6. t = Shown(p, l, at, Append(q, ev), o)
  BY <1>1, <1>3, <1>5
<1> QED  BY <1>4, <1>6 DEF s

(* What the updates of the contract make of a state.                       *)
LEMMA ShownExcept ==
  ASSUME NEW t, IsShown(t)
  PROVE  /\ [t EXCEPT !.paired = FALSE, !.locked = FALSE]
              = Shown(FALSE, FALSE, t.at, t.inbox, t.posting)
         /\ [t EXCEPT !.paired = TRUE, !.at = "locking"]
              = Shown(TRUE, t.locked, "locking", t.inbox, t.posting)
         /\ [t EXCEPT !.at = "idle", !.locked = TRUE]
              = Shown(t.paired, TRUE, "idle", t.inbox, t.posting)
         /\ [t EXCEPT !.locked = FALSE]
              = Shown(t.paired, FALSE, t.at, t.inbox, t.posting)
         /\ [t EXCEPT !.posting = TRUE]
              = Shown(t.paired, t.locked, t.at, t.inbox, TRUE)
<1>1. [t EXCEPT !.paired = FALSE, !.locked = FALSE] = Shown(FALSE, FALSE, t.at, t.inbox, t.posting)
  <2> DEFINE r == [t EXCEPT !.paired = FALSE, !.locked = FALSE]
  <2>1. IsShown(r)
    BY DEF IsShown, Fields
  <2>2. /\ r.paired = FALSE /\ r.locked = FALSE /\ r.at = t.at
        /\ r.inbox = t.inbox /\ r.posting = t.posting
    BY DEF IsShown, Fields
  <2> HIDE DEF r
  <2>3. r = Shown(FALSE, FALSE, t.at, t.inbox, t.posting)
    BY <2>1, <2>2, ShownByFields DEF Shown
  <2> QED  BY <2>3 DEF r
<1>2. [t EXCEPT !.paired = TRUE, !.at = "locking"] = Shown(TRUE, t.locked, "locking", t.inbox, t.posting)
  <2> DEFINE r == [t EXCEPT !.paired = TRUE, !.at = "locking"]
  <2>1. IsShown(r)
    BY DEF IsShown, Fields
  <2>2. /\ r.paired = TRUE /\ r.locked = t.locked /\ r.at = "locking"
        /\ r.inbox = t.inbox /\ r.posting = t.posting
    BY DEF IsShown, Fields
  <2> HIDE DEF r
  <2>3. r = Shown(TRUE, t.locked, "locking", t.inbox, t.posting)
    BY <2>1, <2>2, ShownByFields DEF Shown
  <2> QED  BY <2>3 DEF r
<1>3. [t EXCEPT !.at = "idle", !.locked = TRUE] = Shown(t.paired, TRUE, "idle", t.inbox, t.posting)
  <2> DEFINE r == [t EXCEPT !.at = "idle", !.locked = TRUE]
  <2>1. IsShown(r)
    BY DEF IsShown, Fields
  <2>2. /\ r.paired = t.paired /\ r.locked = TRUE /\ r.at = "idle"
        /\ r.inbox = t.inbox /\ r.posting = t.posting
    BY DEF IsShown, Fields
  <2> HIDE DEF r
  <2>3. r = Shown(t.paired, TRUE, "idle", t.inbox, t.posting)
    BY <2>1, <2>2, ShownByFields DEF Shown
  <2> QED  BY <2>3 DEF r
<1>4. [t EXCEPT !.locked = FALSE] = Shown(t.paired, FALSE, t.at, t.inbox, t.posting)
  <2> DEFINE r == [t EXCEPT !.locked = FALSE]
  <2>1. IsShown(r)
    BY DEF IsShown, Fields
  <2>2. /\ r.paired = t.paired /\ r.locked = FALSE /\ r.at = t.at
        /\ r.inbox = t.inbox /\ r.posting = t.posting
    BY DEF IsShown, Fields
  <2> HIDE DEF r
  <2>3. r = Shown(t.paired, FALSE, t.at, t.inbox, t.posting)
    BY <2>1, <2>2, ShownByFields DEF Shown
  <2> QED  BY <2>3 DEF r
<1>5. [t EXCEPT !.posting = TRUE] = Shown(t.paired, t.locked, t.at, t.inbox, TRUE)
  <2> DEFINE r == [t EXCEPT !.posting = TRUE]
  <2>1. IsShown(r)
    BY DEF IsShown, Fields
  <2>2. /\ r.paired = t.paired /\ r.locked = t.locked /\ r.at = t.at
        /\ r.inbox = t.inbox /\ r.posting = TRUE
    BY DEF IsShown, Fields
  <2> HIDE DEF r
  <2>3. r = Shown(t.paired, t.locked, t.at, t.inbox, TRUE)
    BY <2>1, <2>2, ShownByFields DEF Shown
  <2> QED  BY <2>3 DEF r
<1> QED  BY <1>1, <1>2, <1>3, <1>4, <1>5

LEMMA ShownAt ==
  ASSUME NEW t, IsShown(t), NEW a
  PROVE  [t EXCEPT !.at = a] = Shown(t.paired, t.locked, a, t.inbox, t.posting)
<1> DEFINE r == [t EXCEPT !.at = a]
<1>1. IsShown(r)
  BY DEF IsShown, Fields
<1>2. /\ r.paired = t.paired /\ r.locked = t.locked /\ r.at = a
      /\ r.inbox = t.inbox /\ r.posting = t.posting
  BY DEF IsShown, Fields
<1> HIDE DEF r
<1>3. r = Shown(t.paired, t.locked, a, t.inbox, t.posting)
  BY <1>1, <1>2, ShownByFields DEF Shown
<1> QED  BY <1>3 DEF r

(* Main takes a message and nobody, another thread or the reset handler    *)
(* waited for the room.                                                    *)
LEMMA TakesLeft ==
  ASSUME NEW p, NEW l, NEW q, q # <<>>
  PROVE  Shown(p, l, "idle", Tail(q), FALSE)
           \in Round!Takes(Shown(p, l, "idle", q, FALSE), Head(q))
BY DEF Round!Takes, Shown

LEMMA TakesTold ==
  ASSUME NEW p, NEW l, NEW q, q # <<>>, NEW o,
         NEW other \in {"NOT_CONNECTED", "START_PAIRING", "CONNECTED"}
  PROVE  Shown(p, l, "idle", Append(Tail(q), other), o)
           \in Round!Takes(Shown(p, l, "idle", q, o), Head(q))
<1> DEFINE s == Shown(p, l, "idle", q, o)
           left == [s EXCEPT !.inbox = Tail(@)]
<1>1. s.at = "idle" /\ s.inbox = q
  BY DEF Shown
<1>2. Round!Put(left, other) = Shown(p, l, "idle", Append(Tail(q), other), o)
  <2>1. left = Shown(p, l, "idle", Tail(q), o)
    BY SMTT(30) DEF Shown
  <2> HIDE DEF left
  <2> QED  BY <2>1, PutShown
<1>3. Round!Put(left, other) \in Round!Takes(s, Head(q))
  <2> HIDE DEF s
  <2> QED  BY <1>1 DEF Round!Takes
<1> QED  BY <1>2, <1>3

LEMMA TakesPosted ==
  ASSUME NEW p, NEW l, NEW q, q # <<>>
  PROVE  Shown(p, l, "idle", Append(Tail(q), "ENABLE_NORMAL"), FALSE)
           \in Round!Takes(Shown(p, l, "idle", q, TRUE), Head(q))
BY DEF Round!Takes, Round!Put, Shown

(* The state once main has its message and has not acted on it.            *)
Taken == Shown(buzzer_paired, buzzer_locked, "idle", rcv_queue',
               gcoap' = "posting")

LEMMA TakenFields ==
  /\ IsShown(Taken) /\ Taken.paired = buzzer_paired
  /\ Taken.locked = buzzer_locked /\ Taken.at = "idle"
  /\ Taken.inbox = rcv_queue' /\ Taken.posting = (gcoap' = "posting")
BY DEF IsShown, Fields, Shown, Taken

(* Receive takes a message as the contract does.                           *)
LEMMA ReceiveTakes ==
  ASSUME NEW ev, Receive(ev), gcoap \in {"idle", "posting"}
  PROVE  Taken \in Round!Takes(abstract, ev)
<1>1. /\ abstract = Shown(buzzer_paired, buzzer_locked, "idle", rcv_queue,
                          gcoap = "posting")
      /\ rcv_queue # <<>> /\ ev = Head(rcv_queue)
  BY DEF Receive, abstract, At
<1>2. CASE Waiter = "none"
  <2>1. (gcoap = "posting") = FALSE /\ (gcoap' = "posting") = FALSE
    BY <1>2 DEF Receive, Waiter
  <2>2. rcv_queue' = Tail(rcv_queue)
    BY <1>2 DEF Receive
  <2> QED  BY <1>1, <2>1, <2>2, TakesLeft DEF Taken
<1>3. CASE Waiter \in {"heartbeat", "pairing"}
  <2>1. WaiterEvent \in {"NOT_CONNECTED", "START_PAIRING", "CONNECTED"}
    BY <1>3, Zenon DEF WaiterEvent
  <2>2. rcv_queue' = Append(Tail(rcv_queue), WaiterEvent) /\ gcoap' = gcoap
    BY <1>3 DEF Receive
  <2> QED  BY <1>1, <2>1, <2>2, TakesTold DEF Taken
<1>4. CASE Waiter = "gcoap"
  <2>1. (gcoap = "posting") = TRUE /\ (gcoap' = "posting") = FALSE
    BY <1>4 DEF Receive, Waiter
  <2>2. WaiterEvent = "ENABLE_NORMAL"
    BY <1>4, Zenon DEF WaiterEvent
  <2>3. rcv_queue' = Append(Tail(rcv_queue), "ENABLE_NORMAL")
    BY <1>4, <2>2 DEF Receive
  <2> QED  BY <1>1, <2>1, <2>3, TakesPosted DEF Taken
<1> QED  BY <1>2, <1>3, <1>4 DEF Waiter

LEMMA AbstractFields ==
  /\ IsShown(abstract) /\ abstract.paired = buzzer_paired
  /\ abstract.locked = buzzer_locked /\ abstract.at = At
  /\ abstract.inbox = rcv_queue /\ abstract.posting = (gcoap = "posting")
BY DEF IsShown, Fields, Shown, abstract

(***************************************************************************)
(* What a step may do to the state the contract speaks of.                 *)
(***************************************************************************)
StutterOr(steps) == abstract' = abstract \/ abstract' \in steps

(* A message of pairing, heartbeat or long press, or none for want of room.*)
LEMMA PostTold ==
  ASSUME NEW ev \in {"NOT_CONNECTED", "START_PAIRING", "CONNECTED"}, ~Full,
         rcv_queue' = Append(rcv_queue, ev),
         UNCHANGED <<buzzer_paired, buzzer_locked, main, gcoap>>
  PROVE  abstract' \in Round!Told(abstract)
<1>1. abstract.inbox = rcv_queue
  BY DEF abstract, Shown
<1>2. abstract' = Round!Put(abstract, ev)
  BY PutShown DEF abstract, At
<1> HIDE DEF abstract
<1> QED  BY <1>1, <1>2 DEF Round!Told, Round!Full, Full

(* A step that leaves the contract's variables alone.                      *)
LEMMA KeptStutters ==
  ASSUME UNCHANGED <<buzzer_paired, buzzer_locked, main, gcoap, rcv_queue>>
  PROVE  abstract' = abstract
BY DEF abstract, At, Shown

LEMMA FinishPairingTold ==
  ASSUME NEW timeout, NEW mode, FinishPairing(timeout, mode),
         UNCHANGED <<buzzer_paired, buzzer_locked, main, gcoap>>
  PROVE  StutterOr(Round!Told(abstract))
<1>1. CASE Full
  BY <1>1, KeptStutters DEF FinishPairing, StutterOr
<1>2. CASE ~Full
  <2>1. CASE timeout
    BY <1>2, <2>1, PostTold DEF FinishPairing, StutterOr
  <2>2. CASE ~timeout
    BY <1>2, <2>2, PostTold DEF FinishPairing, StutterOr
  <2> QED  BY <2>1, <2>2
<1> QED  BY <1>1, <1>2

-----------------------------------------------------------------------------
(* The steps of main.                                                      *)

LEMMA BootStutters ==
  ASSUME BootsUnpaired, NEW ok, SntpSync(ok)
  PROVE  abstract' = abstract
<1>1. CASE UNCHANGED <<init_done, main, modeVars>>
  BY <1>1, KeptStutters DEF SntpSync, modeVars
<1>2. CASE main' = "receive" /\ not_connected_mode
  <2>1. At = "idle" /\ At' = "idle"
    BY <1>2 DEF SntpSync, At
  <2>2. buzzer_paired' = buzzer_paired /\ buzzer_locked' = buzzer_locked
    BY <1>2, Zenon DEF SntpSync, not_connected_mode, BootsUnpaired
  <2> QED  BY <2>1, <2>2 DEF SntpSync, abstract
<1> QED  BY <1>1, <1>2 DEF SntpSync

LEMMA NotConnectedDisconnects ==
  ASSUME NotConnected, gcoap \in {"idle", "posting"}
  PROVE  abstract' \in Round!Disconnects(abstract)
<1>1. Taken \in Round!Takes(abstract, "NOT_CONNECTED")
  BY ReceiveTakes DEF NotConnected
<1>2. abstract' = [Taken EXCEPT !.paired = FALSE, !.locked = FALSE]
  <2>1. abstract' = Shown(FALSE, FALSE, "idle", rcv_queue',
                          gcoap' = "posting")
    BY DEF NotConnected, not_connected_mode, Receive, abstract, At
  <2>2. [Taken EXCEPT !.paired = FALSE, !.locked = FALSE]
          = Shown(FALSE, FALSE, Taken.at, Taken.inbox, Taken.posting)
    BY Zenon, TakenFields, ShownExcept
  <2> QED  BY Zenon, <2>1, <2>2, TakenFields
<1> QED  BY <1>1, <1>2, Zenon DEF Round!Disconnects

LEMMA StartPairingPairsAnew ==
  ASSUME StartPairing, gcoap \in {"idle", "posting"}
  PROVE  abstract' \in Round!PairsAnew(abstract)
<1>1. abstract' = Taken
  BY DEF StartPairing, Receive, abstract, At, Taken
<1> QED  BY <1>1, ReceiveTakes DEF StartPairing, Round!PairsAnew

LEMMA EnableConnectedConnects ==
  ASSUME EnableConnected, gcoap \in {"idle", "posting"}
  PROVE  abstract' \in Round!Connects(abstract)
<1>1. Taken \in Round!Takes(abstract, "CONNECTED")
  BY ReceiveTakes DEF EnableConnected
<1>2. abstract' = [Taken EXCEPT !.paired = TRUE, !.at = "locking"]
  <2>1. abstract' = Shown(TRUE, buzzer_locked, "locking", rcv_queue',
                          gcoap' = "posting")
    BY DEF EnableConnected, Receive, abstract, At
  <2> QED  BY <2>1, TakenFields, ShownExcept DEF Shown
<1> QED  BY <1>1, <1>2, Zenon DEF Round!Connects

LEMMA LockConnectedLocks ==
  ASSUME LockConnected
  PROVE  abstract' \in Round!Locks(abstract)
<1>1. abstract' = [abstract EXCEPT !.at = "idle", !.locked = TRUE]
      /\ abstract.at = "locking"
  <2>1. abstract' = Shown(buzzer_paired, TRUE, "idle", rcv_queue,
                          gcoap = "posting")
    BY DEF LockConnected, lock_buzzer, abstract, At
  <2> QED  BY ZenonT(40), <2>1, AbstractFields, ShownExcept DEF LockConnected, At, Shown
<1> QED  BY <1>1, Zenon DEF Round!Locks

LEMMA EnableNormalOpens ==
  ASSUME EnableNormal, gcoap \in {"idle", "posting"}
  PROVE  abstract' \in Round!Opens(abstract)
<1>1. Taken \in Round!Takes(abstract, "ENABLE_NORMAL")
  BY ReceiveTakes DEF EnableNormal
<1>2. abstract' = [Taken EXCEPT !.locked = FALSE]
  <2>1. abstract' = Shown(buzzer_paired, FALSE, "idle", rcv_queue',
                          gcoap' = "posting")
    BY DEF EnableNormal, unlock_buzzer, Receive, abstract, At
  <2>2. [Taken EXCEPT !.locked = FALSE]
          = Shown(Taken.paired, FALSE, Taken.at, Taken.inbox, Taken.posting)
    BY TakenFields, ShownExcept
  <2> QED  BY <2>1, <2>2, TakenFields DEF Shown
<1> QED  BY <1>1, <1>2, Zenon DEF Round!Opens

LEMMA BuzzerPressedTakes ==
  ASSUME BuzzerPressed, gcoap \in {"idle", "posting"}
  PROVE  abstract' \in Round!TakesPress(abstract)
<1>1. Taken \in Round!Takes(abstract, "BUZZER_PRESSED")
  BY ReceiveTakes DEF BuzzerPressed
<1>2. abstract' = [Taken EXCEPT !.at = "delay"]
  <2>1. abstract' = Shown(buzzer_paired, buzzer_locked, "delay", rcv_queue',
                          gcoap' = "posting")
    BY DEF BuzzerPressed, modeVars, Receive, abstract, At
  <2>2. [Taken EXCEPT !.at = "delay"] = Shown(Taken.paired, Taken.locked, "delay",
                                              Taken.inbox, Taken.posting)
    BY TakenFields, ShownAt
  <2> QED  BY <2>1, <2>2, TakenFields DEF Shown
<1> QED  BY <1>1, <1>2, Zenon DEF Round!TakesPress

LEMMA SendPressedSends ==
  ASSUME SendPressed
  PROVE  abstract' \in Round!Sends(abstract)
<1>1. abstract' = [abstract EXCEPT !.at = "asleep"] /\ abstract.at = "delay"
  BY DEF SendPressed, modeVars, abstract, At, Shown
<1> QED  BY <1>1, Zenon DEF Round!Sends

LEMMA ResendAndLockLocks ==
  ASSUME ResendAndLock
  PROVE  abstract' \in Round!LocksPressed(abstract)
<1>1. abstract' = [abstract EXCEPT !.at = "idle", !.locked = TRUE]
      /\ abstract.at = "woken"
  <2>1. abstract' = Shown(buzzer_paired, TRUE, "idle", rcv_queue,
                          gcoap = "posting")
    BY DEF ResendAndLock, lock_buzzer, abstract, At
  <2> QED  BY ZenonT(40), <2>1, AbstractFields, ShownExcept DEF ResendAndLock, At, Shown
<1> QED  BY <1>1, Zenon DEF Round!LocksPressed

-----------------------------------------------------------------------------
(* The steps of gcoap's handlers, the other threads and the interrupts.    *)

LEMMA PairAnswerTold ==
  ASSUME NEW outcome \in PairOutcomes, pair_resp_handler(outcome)
  PROVE  StutterOr(Round!Told(abstract))
<1>1. UNCHANGED <<buzzer_paired, buzzer_locked, main, gcoap>>
  BY DEF pair_resp_handler, modeVars
<1>2. CASE WakesPairing(outcome)
  BY <1>1, <1>2, FinishPairingTold DEF pair_resp_handler
<1>3. CASE ~WakesPairing(outcome)
  BY <1>1, <1>3, KeptStutters DEF pair_resp_handler, StutterOr
<1> QED  BY <1>2, <1>3

LEMMA PressedAnswerWakes ==
  ASSUME NEW answered, _pressed_send_resp_handler(answered)
  PROVE  StutterOr(Round!Wakes(abstract) \cup Round!Told(abstract))
<1>1. UNCHANGED <<buzzer_paired, buzzer_locked, gcoap>>
  BY DEF _pressed_send_resp_handler, modeVars
<1>2. CASE main = "asleep" /\ main' = "woken" /\ UNCHANGED rcv_queue
  <2>1. abstract' = Shown(buzzer_paired, buzzer_locked, "woken", rcv_queue,
                          gcoap = "posting")
    BY <1>1, <1>2 DEF abstract, At
  <2>2. abstract' = [abstract EXCEPT !.at = "woken"]
    <3>1. [abstract EXCEPT !.at = "woken"]
            = Shown(abstract.paired, abstract.locked, "woken", abstract.inbox,
                    abstract.posting)
      BY AbstractFields, ShownAt
    <3> QED  BY <2>1, <3>1, AbstractFields DEF Shown
  <2>3. abstract' \in Round!Wakes(abstract)
    BY <1>2, <2>2, AbstractFields DEF Round!Wakes, At
  <2> QED  BY <2>3 DEF StutterOr
<1>3. CASE UNCHANGED <<main, rcv_queue>>
  BY <1>1, <1>3, KeptStutters DEF StutterOr
<1>4. CASE /\ FinishPairing(buzzer_pairing_mode_timeout, buzzer_pairing_mode)
           /\ UNCHANGED main
  BY <1>1, <1>4, FinishPairingTold DEF StutterOr
<1> QED  BY <1>2, <1>3, <1>4 DEF _pressed_send_resp_handler

LEMMA HeartbeatWakesTold ==
  ASSUME HeartbeatWakes
  PROVE  StutterOr(Round!Told(abstract))
<1>1. UNCHANGED <<buzzer_paired, buzzer_locked, main, gcoap>>
  BY DEF HeartbeatWakes, modeVars
<1>2. CASE UNCHANGED rcv_queue
  BY <1>1, <1>2, KeptStutters DEF StutterOr
<1>3. CASE ~Full /\ rcv_queue' = Append(rcv_queue, "NOT_CONNECTED")
  BY <1>1, <1>3, PostTold DEF StutterOr
<1> QED  BY <1>2, <1>3 DEF HeartbeatWakes, HeartbeatFails

LEMMA LongPressTold ==
  ASSUME long_press_callback
  PROVE  StutterOr(Round!Told(abstract))
<1>1. UNCHANGED <<buzzer_paired, buzzer_locked, main, gcoap>>
  BY DEF long_press_callback, modeVars, threadVars
<1>2. CASE Full
  BY <1>1, <1>2, KeptStutters DEF long_press_callback, IsrPost, StutterOr
<1>3. CASE ~Full
  BY <1>1, <1>3, PostTold DEF long_press_callback, IsrPost, StutterOr
<1> QED  BY <1>2, <1>3

(* The reset resource answers, posts, or waits for room.                   *)
LEMMA ResetResets ==
  ASSUME _buzzer_reset_handler
  PROVE  abstract' \in Round!Resets(abstract)
<1> DEFINE next ==
      IF ~(abstract.paired /\ abstract.locked) THEN abstract
      ELSE IF Round!Full(abstract) THEN [abstract EXCEPT !.posting = TRUE]
      ELSE Round!Put(abstract, "ENABLE_NORMAL")
<1>1. abstract.at # "locking" /\ ~abstract.posting
  BY AbstractFields DEF _buzzer_reset_handler, GcoapRuns, At
<1>2. /\ UNCHANGED <<buzzer_paired, buzzer_locked, main>>
      /\ Round!Full(abstract) <=> Full
  BY AbstractFields DEF _buzzer_reset_handler, modeVars, Round!Full, Full
<1>3. abstract' = next
  <2>1. CASE ~(buzzer_paired /\ buzzer_locked)
    <3>1. abstract' = abstract
      BY <1>2, <2>1, KeptStutters DEF _buzzer_reset_handler
    <3> QED  BY <2>1, <3>1, AbstractFields
  <2>2. CASE buzzer_paired /\ buzzer_locked /\ Full
    <3>1. gcoap' = "posting" /\ UNCHANGED rcv_queue
      BY <2>2 DEF _buzzer_reset_handler
    <3>2. abstract' = Shown(buzzer_paired, buzzer_locked, At, rcv_queue, TRUE)
      BY <1>2, <3>1 DEF abstract, At
    <3>3. abstract' = [abstract EXCEPT !.posting = TRUE]
      BY <3>2, AbstractFields, ShownExcept DEF Shown
    <3> QED  BY <1>2, <2>2, <3>3, AbstractFields
  <2>3. CASE buzzer_paired /\ buzzer_locked /\ ~Full
    <3>1. rcv_queue' = Append(rcv_queue, "ENABLE_NORMAL") /\ UNCHANGED gcoap
      BY <2>3 DEF _buzzer_reset_handler
    <3>2. abstract' = Round!Put(abstract, "ENABLE_NORMAL")
      BY <1>2, <3>1, PutShown DEF abstract, At
    <3> QED  BY <1>2, <2>3, <3>2, AbstractFields
  <2> QED  BY <2>1, <2>2, <2>3
<1> HIDE DEF abstract
<1> QED  BY <1>1, <1>3, Zenon DEF Round!Resets

LEMMA ButtonEdges ==
  ASSUME NEW state, NEW longOk, NEW pressOk, btn_callback(state, longOk, pressOk)
  PROVE  StutterOr(Round!Edge(abstract))
<1>1. /\ UNCHANGED <<buzzer_paired, buzzer_locked, main, gcoap>>
      /\ Round!Full(abstract) <=> Full
  BY AbstractFields DEF btn_callback, modeVars, threadVars, Round!Full, Full
<1>2. CASE UNCHANGED rcv_queue
  BY <1>1, <1>2, KeptStutters DEF StutterOr
<1>3. CASE /\ buzzer_paired /\ ~buzzer_locked /\ ~Full
           /\ rcv_queue' = Append(rcv_queue, "BUZZER_PRESSED")
  <2>1. abstract' = Round!Put(abstract, "BUZZER_PRESSED")
    <3>1. abstract' = Shown(buzzer_paired, buzzer_locked, At,
                            Append(rcv_queue, "BUZZER_PRESSED"), gcoap = "posting")
      BY <1>1, <1>3 DEF abstract, At
    <3> QED  BY <3>1, PutShown DEF abstract
  <2>2. abstract.paired /\ ~abstract.locked /\ ~Round!Full(abstract)
    BY <1>1, <1>3, AbstractFields
  <2> QED  BY <2>1, <2>2 DEF Round!Edge, StutterOr
<1> QED  BY <1>2, <1>3 DEF btn_callback, IsrPost

-----------------------------------------------------------------------------
LEMMA BootsUnpairedNext ==
  BootsUnpaired /\ [Next]_vars => BootsUnpaired'
<1> SUFFICES ASSUME BootsUnpaired, [Next]_vars, main' = "init"
             PROVE  UNCHANGED <<main, buzzer_paired, buzzer_locked>>
  BY DEF BootsUnpaired
<1> USE DEF threadVars, modeVars
<1>1. ASSUME NEW ok \in BOOLEAN, SntpSync(ok)
      PROVE  UNCHANGED <<main, buzzer_paired, buzzer_locked>>
  BY <1>1 DEF SntpSync
<1>2. ~(\E ev : Receive(ev)) \/ main = "receive"
  BY DEF Receive
<1>3. ~main_routine \/ Boot
  BY <1>2 DEF main_routine, NotConnected, StartPairing, EnableConnected,
     LockConnected, EnableNormal, BuzzerPressed, SendPressed, ResendAndLock
<1>4. CASE \/ PairAnswer \/ HeartbeatAnswer \/ _buzzer_reset_handler
           \/ HeartbeatWakes \/ Button \/ long_press_callback
  BY <1>4 DEF PairAnswer, HeartbeatAnswer, Button, pair_resp_handler,
     _heartbeat_resp_handler, _buzzer_reset_handler, HeartbeatWakes,
     btn_callback, long_press_callback
<1>5. CASE PressedAnswer
  BY <1>5 DEF PressedAnswer, _pressed_send_resp_handler
<1>6. ASSUME NEW b \in {"not_connected", "pairing"}, BlinkWakes(b)
      PROVE  UNCHANGED <<main, buzzer_paired, buzzer_locked>>
  BY <1>6 DEF BlinkWakes
<1>7. CASE UNCHANGED vars
  BY <1>7 DEF vars
<1> QED  BY <1>1, <1>3, <1>4, <1>5, <1>6, <1>7 DEF Next, Boot

LEMMA StepImplements ==
  ASSUME TypeOK, BootsUnpaired, [Next]_vars
  PROVE  StutterOr(Round!Steps(abstract))
<1> USE DEF Round!Steps, StutterOr
<1>a. gcoap \in {"idle", "posting"}
  BY DEF TypeOK, ThreadsTyped
<1>1. ASSUME NEW ok \in BOOLEAN, SntpSync(ok) PROVE abstract' = abstract
  BY <1>1, BootStutters
<1>2. CASE NotConnected
  BY <1>2, <1>a, NotConnectedDisconnects
<1>3. CASE StartPairing
  BY <1>3, <1>a, StartPairingPairsAnew
<1>4. CASE EnableConnected
  BY <1>4, <1>a, EnableConnectedConnects
<1>5. CASE LockConnected
  BY <1>5, LockConnectedLocks
<1>6. CASE EnableNormal
  BY <1>6, <1>a, EnableNormalOpens
<1>7. CASE BuzzerPressed
  BY <1>7, <1>a, BuzzerPressedTakes
<1>8. CASE SendPressed
  BY <1>8, SendPressedSends
<1>9. CASE ResendAndLock
  BY <1>9, ResendAndLockLocks
<1>10. CASE PairAnswer
  BY <1>10, PairAnswerTold DEF PairAnswer
<1>11. CASE PressedAnswer
  BY <1>11, PressedAnswerWakes DEF PressedAnswer
<1>12. ASSUME NEW alive \in BOOLEAN, _heartbeat_resp_handler(alive)
       PROVE  abstract' = abstract
  BY <1>12, KeptStutters DEF _heartbeat_resp_handler, threadVars, modeVars
<1>13. CASE _buzzer_reset_handler
  BY <1>13, ResetResets
<1>14. CASE HeartbeatWakes
  BY <1>14, HeartbeatWakesTold
<1>15. ASSUME NEW b \in {"not_connected", "pairing"}, BlinkWakes(b)
       PROVE  abstract' = abstract
  BY <1>15, KeptStutters DEF BlinkWakes, threadVars
<1>16. CASE Button
  BY <1>16, ButtonEdges DEF Button
<1>17. CASE long_press_callback
  BY <1>17, LongPressTold
<1>18. CASE UNCHANGED vars
  BY <1>18, KeptStutters DEF vars, threadVars, modeVars
<1> QED
  BY <1>1, <1>2, <1>3, <1>4, <1>5, <1>6, <1>7, <1>8, <1>9, <1>10, <1>11, <1>12,
     <1>13, <1>14, <1>15, <1>16, <1>17, <1>18
  DEF Next, main_routine, Boot, HeartbeatAnswer

(* Whatever threads, handlers, interrupts and lost answers do, the buzzer  *)
(* keeps its contract with the game, for every size of its queue and memo  *)
(* table.                                                                  *)
THEOREM RoundContractKept == Spec => ImplementsRoundBuzzer
<1>1. Init => Round!Init
  BY DEF Init, Round!Init, Round!Unpaired
<1>2. TypeOK /\ BootsUnpaired /\ [Next]_vars => [Round!Next]_abstract
  <2> SUFFICES ASSUME TypeOK, BootsUnpaired, [Next]_vars
               PROVE  Round!Next
    OBVIOUS
  <2>1. Round!Next <=> \E s \in {abstract}, t \in {abstract'} :
                         t = s \/ t \in Round!Steps(s)
    BY DEF Round!Next, abstract, Shown, At
  <2> QED  BY <2>1, StepImplements, Zenon DEF StutterOr
<1>3. Init => BootsUnpaired
  BY DEF Init, BootsUnpaired
<1> QED  BY <1>1, <1>2, <1>3, TypeCorrect, BootsUnpairedNext, PTL
         DEF Spec, ImplementsRoundBuzzer, Round!Spec, abstract, Shown, At
=============================================================================
