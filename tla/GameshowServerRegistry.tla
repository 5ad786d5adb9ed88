----------------------- MODULE GameshowServerRegistry -----------------------
(***************************************************************************)
(* What the locks of the buzzer backend protect, for any number of buzzers *)
(* and requests: no name is given to two registrations, so a recorded      *)
(* press stands until a reset, the registry with its listings is the one   *)
(* Registry promises, and the monitor watches every buzzer in it.          *)
(***************************************************************************)
EXTENDS GameshowServerLocks

(* A name of the counter is in the registry, or on its way to it, at most  *)
(* once, and only if the counter has passed it.                            *)
Insert(n) == {t \in Task : t.op = "register" /\ t.at = "insert" /\ t.name = n}
Registered(n) == IF n \in DOMAIN device_status_map THEN 1 ELSE 0

FreshNames ==
  \A n \in Names : Total(tasks, mutex, Insert(n)) + Registered(n)
                     <= IF n < max_device_num THEN 1 ELSE 0

RegistryInv == LockInv /\ FreshNames

LEMMA CounterKept ==
  ASSUME [Next]_vars, ~RegisterCreate
  PROVE  max_device_num' = max_device_num
BY DEF Next, Requests, Commands, MonitorTimer, MainStep, ReceiverStep,
   Shared, RegisterArrives, PressedArrives, HeartbeatArrives, Arrives,
   ResetCommand, PairingCommand, RemoveCommand, RegisterForbidden,
   RegisterKnown, RegisterLookup, RegisterInsert, RegisterWatch, PressedStart,
   PressedRecord, HeartbeatStart, HeartbeatRefresh, MonitorStart,
   MonitorCheck, RemoveStart, RemovePop, RemoveForget, ListStart, ListCopy,
   ListSend, ResetStart, ResetClear, ResetAnswered, vars

(* Whoever inserts a buzzer has a name that is not in the registry.        *)
LEMMA InsertFresh ==
  ASSUME TypeInv, FreshNames, At("main", "register", "insert")
  PROVE  LET n == Now("main").name
         IN  /\ n \in Names /\ n \notin DOMAIN device_status_map
             /\ Bit(Now("main"), Insert(n)) = 1 /\ Now("main") \in GoodTask
<1> DEFINE req == Now("main")
           n == req.name
<1>1. req \in GoodTask /\ req \in Task /\ req.op = "register" /\ req.at = "insert"
      /\ \A S : Bit(req, S) <= Total(tasks, mutex, S)
  BY NowTyped DEF TypeInv, Threads
<1>2. n \in Names
  BY <1>1 DEF GoodTask, Named
<1>3. Bit(req, Insert(n)) = 1
  BY <1>1 DEF Bit, Insert
<1>4. Total(tasks, mutex, Insert(n)) \in Nat
  BY TotalTyped DEF TypeInv, QueuesTyped
<1>5. 1 <= Total(tasks, mutex, Insert(n))
  BY <1>1, <1>3
<1>6. Total(tasks, mutex, Insert(n)) + Registered(n) <= 1
      /\ Registered(n) \in {0, 1}
  <2> HIDE DEF n
  <2>1. Total(tasks, mutex, Insert(n)) + Registered(n)
          <= IF n < max_device_num THEN 1 ELSE 0
    BY <1>2 DEF FreshNames
  <2>2. (IF n < max_device_num THEN 1 ELSE 0) \in {0, 1}
        /\ Registered(n) \in {0, 1}
    BY DEF Registered
  <2> QED  BY <1>4, <2>1, <2>2
<1>7. Registered(n) = 0
  <2> HIDE DEF n
  <2> QED  BY <1>4, <1>5, <1>6
<1> QED  BY <1>1, <1>2, <1>3, <1>7 DEF Registered

(* The five things a step does to the registry.                            *)
Enrols(n) == /\ RegisterInsert /\ n = Now("main").name
             /\ n \in Names /\ n \notin DOMAIN device_status_map
             /\ \E d \in Device : d.timestamp = None
                                  /\ device_status_map' = Add(device_status_map, n, d)
Stamps(n, t) == /\ PressedRecord /\ n \in DOMAIN device_status_map
                /\ device_status_map[n].timestamp = None
                /\ device_status_map' = [device_status_map EXCEPT ![n].timestamp = t]
Blanks == /\ ResetClear
          /\ device_status_map' = [n \in DOMAIN device_status_map |->
               [device_status_map[n] EXCEPT !.timestamp = None]]
Drops(n) == /\ n \in DOMAIN device_status_map
            /\ \E thr \in Threads : RemovePop(thr)
            /\ device_status_map' = Pop(device_status_map, n)

LEMMA RegistryEffects ==
  ASSUME TypeInv, FreshNames, [Next]_vars
  PROVE  \/ device_status_map' = device_status_map
         \/ \E n \in Names : Enrols(n)
         \/ \E n \in Names, t \in Timestamps : Stamps(n, t)
         \/ Blanks
         \/ \E n \in Names : Drops(n)
<1>0. /\ device_status_map \in PartialMaps(Names, Device) /\ QueuesTyped
      /\ "main" \in Threads /\ DOMAIN device_status_map \subseteq Names
  BY PartialMap DEF TypeInv, MapsTyped, Threads
<1>1. ASSUME RegisterInsert
      PROVE  \E n \in Names : Enrols(n)
  <2> DEFINE req == Now("main")
             n == req.name
             device == [endpoint |-> req.endpoint, timestamp |-> None]
  <2>1. At("main", "register", "insert")
    BY <1>1 DEF RegisterInsert
  <2>2. req \in GoodTask /\ req \in Task /\ req.op = "register"
        /\ n \in Names /\ n \notin DOMAIN device_status_map
    BY <1>0, <2>1, NowTyped, InsertFresh
  <2>3. req.endpoint \in Endpoints
    BY <2>2, KindOf DEF RegisterTask
  <2>4. device_status_map' = Add(device_status_map, n, device)
    BY <1>1 DEF RegisterInsert
  <2>5. device \in Device /\ device.timestamp = None
    BY <2>3 DEF Device
  <2> HIDE DEF device
  <2>6. Enrols(n)
    BY <1>1, <2>2, <2>4, <2>5 DEF Enrols
  <2> QED  BY <2>2, <2>6
<1>2. ASSUME PressedRecord
      PROVE  \/ device_status_map' = device_status_map
             \/ \E n \in Names, t \in Timestamps : Stamps(n, t)
  <2> DEFINE press == Now("main")
  <2>1. press \in Task /\ press.op = "pressed"
    BY <1>0, <1>2, NowTyped DEF PressedRecord
  <2>2. press.time \in Timestamps /\ press.name \in Names
    BY <2>1, KindOf DEF PressedTask
  <2> DEFINE n == press.name
             t == press.time
  <2>t. n \in Names /\ t \in Timestamps
    BY <2>2
  <2>3. ASSUME NEW k, NEW u, k \in DOMAIN device_status_map,
               device_status_map[k].timestamp = None,
               device_status_map' = [device_status_map EXCEPT ![k].timestamp = u]
        PROVE  Stamps(k, u)
    BY <1>2, <2>3, Zenon DEF Stamps
  <2>4. \/ device_status_map' = device_status_map
        \/ /\ n \in DOMAIN device_status_map
           /\ device_status_map[n].timestamp = None
           /\ device_status_map' = [device_status_map EXCEPT ![n].timestamp = t]
    BY <1>2 DEF PressedRecord
  <2> HIDE DEF press, n, t
  <2>5. device_status_map' = device_status_map \/ Stamps(n, t)
    BY <2>3, <2>4, Zenon
  <2> QED  BY <2>t, <2>5
<1>3. ASSUME ResetClear PROVE Blanks
  BY <1>3 DEF ResetClear, Blanks
<1>4. ASSUME NEW thr \in Threads, RemovePop(thr)
      PROVE  device_status_map' = device_status_map \/ \E n \in Names : Drops(n)
  <2> DEFINE name == NextName(Now(thr).names)
  <2>1. \/ device_status_map' = device_status_map
        \/ /\ device_status_map' = Pop(device_status_map, name)
           /\ name \in DOMAIN device_status_map
    BY <1>4 DEF RemovePop
  <2> HIDE DEF name
  <2>2. ASSUME NEW n, n \in DOMAIN device_status_map,
               device_status_map' = Pop(device_status_map, n)
        PROVE  Drops(n) /\ n \in Names
    BY <1>0, <1>4, <2>2 DEF Drops
  <2> QED  BY <2>1, <2>2
<1> QED  BY <1>1, <1>2, <1>3, <1>4, StatusTyped

LEMMA RegistryDomain ==
  ASSUME TypeInv, FreshNames, [Next]_vars
  PROVE  \/ DOMAIN device_status_map' \subseteq DOMAIN device_status_map
         \/ /\ RegisterInsert
            /\ DOMAIN device_status_map'
                 = DOMAIN device_status_map \cup {Now("main").name}
<1>0. device_status_map \in PartialMaps(Names, Device)
  BY DEF TypeInv, MapsTyped
<1>1. ASSUME NEW n \in Names, Enrols(n)
      PROVE  DOMAIN device_status_map' = DOMAIN device_status_map \cup {Now("main").name}
             /\ RegisterInsert
  BY <1>1 DEF Enrols, Add
<1>2. ASSUME NEW n \in Names, NEW t \in Timestamps, Stamps(n, t)
      PROVE  DOMAIN device_status_map' = DOMAIN device_status_map
  BY <1>0, <1>2, PressTyped DEF Stamps
<1>3. ASSUME Blanks
      PROVE  DOMAIN device_status_map' = DOMAIN device_status_map
  BY <1>3 DEF Blanks
<1>4. ASSUME NEW n \in Names, Drops(n)
      PROVE  DOMAIN device_status_map' \subseteq DOMAIN device_status_map
  BY <1>4 DEF Drops, Pop
<1> QED  BY <1>1, <1>2, <1>3, <1>4, RegistryEffects

LEMMA InsertGrows ==
  ASSUME NEW n, Grows(Insert(n))
  PROVE  RegisterCreate
<1>1. ASSUME NEW thr, NEW m, NEW task \in Insert(n), Enters(thr, m, task)
      PROVE  RegisterCreate
  BY <1>1 DEF Enters, Insert
<1>2. ASSUME NEW thr, NEW m \in Mutexes, NEW task \in Insert(n), LeavesFor(thr, m, task)
      PROVE  FALSE
  BY <1>2 DEF LeavesFor, Insert, Mutexes
<1>3. ASSUME NEW thr, NEW task \in Insert(n), EntersInner(thr, task)
      PROVE  FALSE
  BY <1>3 DEF EntersInner, Insert
<1>4. ASSUME NEW task \in Insert(n), Created(task) \/ Commanded(task)
      PROVE  FALSE
  BY <1>4 DEF Created, Commanded, Insert
<1>5. ASSUME NEW m, NEW task \in Insert(n), LeavesCreating(m, task)
      PROVE  FALSE
  BY <1>5 DEF LeavesCreating, Insert
<1>6. ListTask \notin Insert(n) /\ AnswerTask \notin Insert(n)
  BY DEF ListTask, AnswerTask, Insert
<1> QED  BY <1>1, <1>2, <1>3, <1>4, <1>5, <1>6 DEF Grows

LEMMA FreshCreate ==
  ASSUME TypeInv, FreshNames, RegisterCreate, NEW n \in Names
  PROVE  Total(tasks', mutex', Insert(n)) + Registered(n)
           <= IF n < max_device_num' THEN 1 ELSE 0
<1> DEFINE S == Insert(n)
           old == Total(tasks, mutex, S)
           new == Total(tasks', mutex', S)
<1>1. PICK task : /\ Enters("main", "status", task)
                  /\ task.at = "insert" /\ task.name = max_device_num
  BY CreateEnters
<1>2. /\ "main" \in Threads /\ "status" \in Mutexes
      /\ "none" \in Mutexes \cup {"none"} /\ MapsTyped /\ QueuesTyped
  BY DEF Threads, Mutexes, TypeInv
<1>3. /\ Runs("main") /\ task \in Waiter("status") /\ Now("main").at # "insert"
      /\ Acquire("main", "status", task, "none")
  BY <1>1 DEF Enters
<1>4. new \in Nat /\ new <= old - Bit(Now("main"), S) + Bit(task, S)
  BY <1>2, <1>3, AcquireTyped
<1>5. Bit(Now("main"), S) = 0
  BY <1>3 DEF Bit, Insert
<1>6. Bit(task, S) \in {0, 1} /\ (n # max_device_num => Bit(task, S) = 0)
  BY <1>1 DEF Bit, Insert
<1>7. old \in Nat /\ Registered(n) \in {0, 1} /\ n \in Nat /\ max_device_num \in Nat
      /\ max_device_num' = max_device_num + 1
  BY <1>2, TotalTyped DEF QueuesTyped, Registered, Names, MapsTyped, RegisterCreate
<1>8. old + Registered(n) <= IF n < max_device_num THEN 1 ELSE 0
  BY DEF FreshNames
<1> HIDE DEF S, old, new
<1>9. new + Registered(n) <= IF n < max_device_num' THEN 1 ELSE 0
  <2>1. CASE n < max_device_num
    BY <1>4, <1>5, <1>6, <1>7, <1>8, <2>1
  <2>2. CASE n = max_device_num
    BY <1>4, <1>5, <1>6, <1>7, <1>8, <2>2
  <2>3. CASE n > max_device_num
    BY <1>4, <1>5, <1>6, <1>7, <1>8, <2>3
  <2> QED  BY <1>7, <2>1, <2>2, <2>3
<1> QED  BY <1>9 DEF new, S

LEMMA FreshStep ==
  ASSUME TypeInv, FreshNames, [Next]_vars
  PROVE  FreshNames'
<1>1. MapsTyped /\ QueuesTyped /\ Moves
  BY StepMoves DEF TypeInv
<1> SUFFICES ASSUME NEW n \in Names
             PROVE  Total(tasks', mutex', Insert(n)) + Registered(n)'
                      <= IF n < max_device_num' THEN 1 ELSE 0
  BY DEF FreshNames
<1> DEFINE S == Insert(n)
           old == Total(tasks, mutex, S)
           new == Total(tasks', mutex', S)
<1>2. QueuesTyped' /\ (new <= old \/ RegisterCreate)
  BY <1>1, StepTotal, InsertGrows
<1>3. old \in Nat /\ new \in Nat
  BY <1>1, <1>2, TotalTyped DEF QueuesTyped
<1>4. /\ Registered(n) = IF n \in DOMAIN device_status_map THEN 1 ELSE 0
      /\ Registered(n)' = IF n \in DOMAIN device_status_map' THEN 1 ELSE 0
  BY DEF Registered
<1>5. old + Registered(n) <= IF n < max_device_num THEN 1 ELSE 0
  BY DEF FreshNames
<1>6. CASE RegisterCreate
  <2>1. device_status_map' = device_status_map
    BY <1>6 DEF RegisterCreate, mapVars
  <2>2. Registered(n)' = Registered(n)
    BY <1>4, <2>1
  <2> QED  BY <1>6, <2>2, FreshCreate
<1>7. CASE ~RegisterCreate
  <2>1. max_device_num' = max_device_num /\ new <= old
    BY <1>2, <1>7, CounterKept
  <2>2. CASE Registered(n)' <= Registered(n)
    <3>1. Registered(n) \in Nat /\ Registered(n)' \in Nat
      BY <1>4
    <3> DEFINE reg == Registered(n)
               reg1 == Registered(n)'
               limit == IF n < max_device_num THEN 1 ELSE 0
    <3>2. limit \in Nat /\ limit = IF n < max_device_num' THEN 1 ELSE 0
      BY <2>1
    <3>3. reg1 <= reg /\ old + reg <= limit /\ reg \in Nat /\ reg1 \in Nat
      BY <1>5, <2>2, <3>1
    <3> HIDE DEF new, old, reg, reg1, limit
    <3>4. new + reg1 <= limit
      BY <1>3, <2>1, <3>2, <3>3
    <3> QED  BY <3>2, <3>4 DEF new, reg1, S
  <2>3. CASE ~(Registered(n)' <= Registered(n))
    <3>1. Registered(n) = 0 /\ Registered(n)' = 1
          /\ n \in DOMAIN device_status_map' /\ n \notin DOMAIN device_status_map
      BY <1>4, <2>3
    <3>2. RegisterInsert /\ n = Now("main").name
      BY <3>1, RegistryDomain
    <3>3. At("main", "register", "insert")
      BY <3>2 DEF RegisterInsert
    <3>4. Bit(Now("main"), S) = 1 /\ Now("main") \in GoodTask
      BY <3>2, <3>3, InsertFresh
    <3>5. Now("main").at = "insert" /\ Runs("main")
      BY <3>3 DEF At, Now, Runs, Threads
    <3>6. PICK task : EntersInner("main", task)
      BY <3>2, RegistersMove
    <3>7. /\ task \in Waiter("heartbeat") /\ task.at # "insert"
          /\ Acquire("main", "heartbeat", task, "status")
      BY <3>6 DEF EntersInner
    <3>8. /\ "main" \in Threads /\ "heartbeat" \in Mutexes
          /\ "status" \in Mutexes \cup {"none"}
      BY DEF Threads, Mutexes
    <3>9. new <= old - Bit(Now("main"), S) + Bit(task, S)
      BY <1>1, <3>5, <3>7, <3>8, AcquireTyped
    <3>10. Bit(task, S) = 0
      BY <3>7 DEF Bit, Insert
    <3> DEFINE limit == IF n < max_device_num THEN 1 ELSE 0
    <3>11. limit \in Nat /\ limit = IF n < max_device_num' THEN 1 ELSE 0
      BY <2>1
    <3>l. old + Registered(n) <= limit
      BY <1>5
    <3>n. Bit(Now("main"), S) = 1
      BY <3>4
    <3> HIDE DEF new, old, limit, S
    <3>12. new + 1 <= limit
      BY <1>3, <3>1, <3>n, <3>9, <3>10, <3>11, <3>l
    <3> QED  BY <3>1, <3>11, <3>12 DEF new, S
  <2> QED  BY <2>2, <2>3
<1> QED  BY <1>6, <1>7

LEMMA RegistryInit == Init => RegistryInv
<1> SUFFICES ASSUME Init PROVE RegistryInv
  OBVIOUS
<1>1. LockInv /\ QueuesTyped
  BY LockInit DEF LockInv, TypeInv
<1>2. /\ "main" \in Threads /\ "receiver" \in Threads
      /\ MonitorTask \in GoodTask /\ ListTask \in GoodTask
      /\ tasks["main"] = <<MonitorTask, ListTask>> /\ ReceiverIdle
  BY NewTasks DEF Threads, Init, ReceiverIdle, Waiting
<1>3. ASSUME NEW n \in Names PROVE Total(tasks, mutex, Insert(n)) = 0
  <2>1. Own(tasks, mutex, "receiver", Insert(n)) = 0
    BY <1>2, IdleOwns
  <2>2. Count(tasks["main"], Insert(n)) = Bit(MonitorTask, Insert(n)) + Bit(ListTask, Insert(n))
    BY <1>2, CountPair
  <2>3. Bit(MonitorTask, Insert(n)) = 0 /\ Bit(ListTask, Insert(n)) = 0
    BY DEF Bit, Insert, MonitorTask, ListTask
  <2>4. Bound(mutex, "status", "main", Insert(n)) = 0
        /\ Bound(mutex, "heartbeat", "main", Insert(n)) = 0
    BY DEF Init, Bound, Mutexes
  <2> QED  BY <2>1, <2>2, <2>3, <2>4 DEF Total, Own
<1>4. ASSUME NEW n \in Names PROVE Registered(n) = 0
  BY DEF Init, Registered
<1>5. max_device_num = 0
  BY DEF Init
<1>6. FreshNames
  BY <1>3, <1>4, <1>5 DEF FreshNames, Names
<1> QED  BY <1>1, <1>6 DEF RegistryInv

LEMMA RegistryStep ==
  RegistryInv /\ [Next]_vars => RegistryInv'
BY LockStep, FreshStep DEF RegistryInv, LockInv

(* What FirstPressKept says of one step.                                   *)
PressKept ==
  \A n \in DOMAIN device_status_map \cap DOMAIN device_status_map' :
    device_status_map[n].timestamp # None =>
      \/ device_status_map'[n] = device_status_map[n]
      \/ device_status_map'[n].timestamp = None /\ ResetClear

LEMMA PressKeptStep ==
  RegistryInv /\ [Next]_vars => PressKept
<1> SUFFICES ASSUME RegistryInv, [Next]_vars,
                    NEW n \in DOMAIN device_status_map \cap DOMAIN device_status_map',
                    device_status_map[n].timestamp # None
             PROVE  \/ device_status_map'[n] = device_status_map[n]
                    \/ device_status_map'[n].timestamp = None /\ ResetClear
  BY DEF PressKept
<1>0. device_status_map \in PartialMaps(Names, Device)
  BY DEF RegistryInv, LockInv, TypeInv, MapsTyped
<1>1. ASSUME NEW k \in Names, Enrols(k)
      PROVE  device_status_map'[n] = device_status_map[n]
  BY <1>1 DEF Enrols, Add
<1>2. ASSUME NEW k \in Names, NEW t \in Timestamps, Stamps(k, t)
      PROVE  device_status_map'[n] = device_status_map[n]
  <2>1. k # n
    BY <1>2 DEF Stamps
  <2> QED  BY <1>2, <2>1 DEF Stamps
<1>3. ASSUME Blanks
      PROVE  device_status_map'[n].timestamp = None /\ ResetClear
  <2>1. device_status_map[n] \in Device
    BY <1>0, PartialMap
  <2>2. device_status_map'[n] = [device_status_map[n] EXCEPT !.timestamp = None]
    BY <1>3 DEF Blanks
  <2>3. ResetClear
    BY <1>3 DEF Blanks
  <2> QED  BY <2>1, <2>2, <2>3 DEF Device
<1>4. ASSUME NEW k \in Names, Drops(k)
      PROVE  device_status_map'[n] = device_status_map[n]
  BY <1>4 DEF Drops, Pop
<1> QED
  BY <1>1, <1>2, <1>3, <1>4, RegistryEffects DEF RegistryInv, LockInv

(* A recorded press stands until a reset: a repeated, delayed or second    *)
(* press never replaces it, and no name is inserted twice, which would     *)
(* forget the press of its first owner (gameshow_server.py:133-161, 228).  *)
THEOREM FirstPressStands == Spec => FirstPressKept
<1>1. Init => RegistryInv
  BY RegistryInit
<1>2. RegistryInv /\ [Next]_vars => RegistryInv'
  BY RegistryStep
<1>3. RegistryInv /\ [Next]_vars => PressKept
  BY PressKeptStep
<1> QED  BY <1>1, <1>2, <1>3, PTL DEF Spec, FirstPressKept, PressKept

-----------------------------------------------------------------------------
(* The lists on their way to the UI: only ListCopy adds one, only ListSend *)
(* takes one away.                                                         *)
Sending(l) == {t \in Task : t.op = "list" /\ t.at = "send" /\ t.list = l}
Copies == {Coroutines[i].list : i \in {j \in DOMAIN Coroutines :
             Coroutines[j].op = "list" /\ Coroutines[j].at = "send"}}

LEMMA CopiesCounted ==
  ASSUME QueuesTyped, NEW l
  PROVE  l \in Copies <=> Total(tasks, mutex, Sending(l)) > 0
<1>1. /\ Coroutines \in Seq(GoodTask)
      /\ Count(Coroutines, Sending(l)) = Total(tasks, mutex, Sending(l))
  BY CoroutinesTotal
<1>2. \A i \in DOMAIN Coroutines : Coroutines[i] \in Task
  <2>1. \A i \in DOMAIN Coroutines : Coroutines[i] \in GoodTask
    BY <1>1, LenProperties, ElementOfSeq
  <2> QED  BY <2>1 DEF GoodTask
<1>3. l \in Copies <=> \E i \in DOMAIN Coroutines : Coroutines[i] \in Sending(l)
  <2> DEFINE c == Coroutines
  <2>1. l \in Copies <=> \E i \in DOMAIN c : /\ c[i].op = "list" /\ c[i].at = "send"
                                            /\ c[i].list = l
    BY DEF Copies
  <2>2. \A i \in DOMAIN c : c[i] \in Task
    BY <1>2
  <2> HIDE DEF c
  <2>3. l \in Copies <=> \E i \in DOMAIN c : c[i] \in Sending(l)
    BY <2>1, <2>2 DEF Sending
  <2> QED  BY <2>3 DEF c
<1> QED  BY <1>1, <1>3, CountPositive

LEMMA SendingCounts ==
  ASSUME QueuesTyped, OneCommand, Moves, NEW k \in Threads, NEW l,
         \A thr \in Threads : ~ListCopy(thr) /\ ~ListSend(thr)
  PROVE  Own(tasks', mutex', k, Sending(l)) = Own(tasks, mutex, k, Sending(l))
<1> DEFINE S == Sending(l)
           old == Own(tasks, mutex, k, S)
           new == Own(tasks', mutex', k, S)
<1>0. "receiver" \in Threads /\ "status" \in Mutexes /\ "heartbeat" \in Mutexes
  BY DEF Threads, Mutexes
<1>1. \A t : t.at # "send" => Bit(t, S) = 0
  BY DEF Bit, Sending
<1>2. ListTask.at = "start" /\ AnswerTask.at = "answer"
  BY DEF ListTask, AnswerTask
<1>3. old \in Nat
  BY OwnTyped DEF QueuesTyped
<1>4. ASSUME Ending(k) PROVE Now(k).at # "send"
  <2>1. ASSUME NEW m \in Mutexes, Leaves(k, m) PROVE Now(k).at # "send"
    BY <2>1 DEF Leaves
  <2>2. ASSUME NEW m, NEW task, Enters(k, m, task) PROVE Now(k).at # "send"
    BY <2>2 DEF Enters
  <2>3. ASSUME NEW task, EntersInner(k, task) PROVE Now(k).at # "send"
    BY <2>3 DEF EntersInner
  <2>4. ASSUME Fails(k) PROVE Now(k).at # "send"
    BY <2>4 DEF Fails
  <2>5. ASSUME Finishes(k) PROVE Now(k).at # "send"
    BY <2>5 DEF Finishes
  <2> QED  BY <1>4, <2>1, <2>2, <2>3, <2>4, <2>5 DEF Ending
<1>5. ASSUME NEW task, Going(k, task) PROVE Now(k).at # "send" /\ task.at # "send"
  <2>1. ASSUME NEW m \in Mutexes, Enters(k, m, task)
        PROVE  Now(k).at # "send" /\ task.at # "send"
    BY <2>1 DEF Enters, Waiter, WaitPlaces
  <2>2. ASSUME NEW m \in Mutexes, LeavesFor(k, m, task)
        PROVE  Now(k).at # "send" /\ task.at # "send"
    <3>1. Now(k).at \in {"lookup", "copy", "forget"}
      BY <2>2 DEF LeavesFor
    <3> QED  BY <2>2, <3>1 DEF LeavesFor
  <2>3. ASSUME EntersInner(k, task) PROVE Now(k).at # "send" /\ task.at # "send"
    BY <2>3 DEF EntersInner
  <2>4. ASSUME k = "main", NEW m \in Mutexes, LeavesCreating(m, task)
        PROVE  Now(k).at # "send" /\ task.at # "send"
    BY <2>4 DEF LeavesCreating
  <2>5. ASSUME task = ListTask, LeavesBoth(k)
        PROVE  Now(k).at # "send" /\ task.at # "send"
    BY <1>2, <2>5 DEF LeavesBoth
  <2> QED  BY <1>5, <2>1, <2>2, <2>3, <2>4, <2>5 DEF Going
<1>6. ASSUME NEW task, Beginning(k, task) PROVE task.at # "send"
  BY <1>6 DEF Beginning, Created, Commanded
<1>7. ASSUME Clears
      PROVE  Count(tasks["receiver"], S) = 0
  <2>1. \A t \in S : t \in Working
    BY DEF Sending, Working
  <2>2. Count(tasks["receiver"], S) = Bit(Now("receiver"), S)
    <3> HIDE DEF S
    <3> QED  BY <1>7, <2>1, ClearsAlone
  <2>3. Now("receiver").at # "send"
    BY <1>7 DEF Clears
  <2> QED  BY <1>1, <2>2, <2>3
<1>8. ASSUME Cancels, k = "receiver"
      PROVE  new = old
  <2>1. TasksTyped(tasks) /\ MutexTyped(mutex) /\ tasks["receiver"] # <<>>
        /\ tasks' = Done(tasks, "receiver") /\ Now("receiver").at # "send"
    BY <1>8 DEF QueuesTyped, Cancels, Runs
  <2>2. /\ mutex'["heartbeat"] = mutex["heartbeat"]
        /\ mutex'["status"].waiters = <<>>
    BY <1>0, <1>8, <2>1 DEF Cancels, MutexTyped
  <2>3. Count(tasks'["receiver"], S) = Count(tasks["receiver"], S) - 0
    <3>1. Count(tasks'["receiver"], S)
            = Count(tasks["receiver"], S) - On("receiver", "receiver", Head(tasks["receiver"]), S)
      BY <1>0, <2>1, DoneEffect
    <3>2. On("receiver", "receiver", Head(tasks["receiver"]), S) = 0
      BY <1>1, <2>1 DEF On, Now
    <3> QED  BY <3>1, <3>2
  <2>4. Count(mutex["status"].waiters, S) = 0
    <3>1. mutex["status"].waiters \in Seq(Waiter("status"))
      BY <1>0, <2>1 DEF MutexTyped
    <3>2. \A i \in DOMAIN mutex["status"].waiters : mutex["status"].waiters[i] \in Waiter("status")
      BY <3>1, LenProperties, ElementOfSeq
    <3>3. \A i \in DOMAIN mutex["status"].waiters : mutex["status"].waiters[i] \notin S
      BY <3>2 DEF Waiter, WaitPlaces, Sending
    <3>4. ~(Count(mutex["status"].waiters, S) > 0)
      BY <3>1, <3>3, CountPositive
    <3>5. Count(mutex["status"].waiters, S) \in Nat
      BY <3>1, PositionsFinite
    <3> QED  BY <3>4, <3>5
  <2>5. Bound(mutex', "status", "receiver", S) = 0 /\ Bound(mutex, "status", "receiver", S) = 0
        /\ Bound(mutex', "heartbeat", "receiver", S) = Bound(mutex, "heartbeat", "receiver", S)
    BY <2>2, <2>4, CountNone DEF Bound
  <2>6. Count(tasks["receiver"], S) \in Nat
    BY <1>0, <2>1, ReadyTyped
  <2>7. Count(tasks'["receiver"], S) = Count(tasks["receiver"], S)
    BY <2>3, <2>6
  <2> QED  BY <1>8, <2>5, <2>7 DEF Own
<1>9. /\ QueuesTyped'
      /\ \/ new = old
         \/ Runs(k) /\ Ending(k) /\ new = old - Bit(Now(k), S)
         \/ Runs(k) /\ \E task : /\ Going(k, task)
                                /\ new = old - Bit(Now(k), S) + Bit(task, S)
         \/ \E task : Beginning(k, task) /\ new = old + Bit(task, S)
         \/ /\ k = "receiver" /\ Clears
            /\ new = old - Count(tasks[k], S) + Bit(ListTask, S) + Bit(AnswerTask, S)
         \/ k = "receiver" /\ Cancels /\ new <= old - Bit(Now(k), S)
  BY StepOwns
<1> HIDE DEF S, old, new
<1>10. ASSUME Ending(k), new = old - Bit(Now(k), S) PROVE new = old
  <2>1. Bit(Now(k), S) = 0
    BY <1>1, <1>4, <1>10
  <2> QED  BY <1>3, <1>10, <2>1
<1>11. ASSUME NEW task, Going(k, task), new = old - Bit(Now(k), S) + Bit(task, S)
       PROVE  new = old
  <2>1. Bit(Now(k), S) = 0 /\ Bit(task, S) = 0
    BY <1>1, <1>5, <1>11
  <2> QED  BY <1>3, <1>11, <2>1
<1>12. ASSUME NEW task, Beginning(k, task), new = old + Bit(task, S)
       PROVE  new = old
  <2>1. Bit(task, S) = 0
    BY <1>1, <1>6, <1>12
  <2> QED  BY <1>3, <1>12, <2>1
<1>13. ASSUME k = "receiver", Clears,
              new = old - Count(tasks[k], S) + Bit(ListTask, S) + Bit(AnswerTask, S)
       PROVE  new = old
  <2>1. Bit(ListTask, S) = 0 /\ Bit(AnswerTask, S) = 0
    BY <1>1, <1>2
  <2>2. Count(tasks[k], S) = 0
    BY <1>7, <1>13
  <2> QED  BY <1>3, <1>13, <2>1, <2>2
<1>14. new = old
  BY <1>8, <1>9, <1>10, <1>11, <1>12, <1>13
<1> QED  BY <1>14 DEF new, old, S

LEMMA CopiesAll ==
  QueuesTyped => \A l : l \in Copies <=> Total(tasks, mutex, Sending(l)) > 0
BY CopiesCounted

LEMMA CopiesNext ==
  QueuesTyped' => \A l : l \in Copies' <=> Total(tasks', mutex', Sending(l)) > 0
<1>1. (QueuesTyped => \A l : l \in Copies <=> Total(tasks, mutex, Sending(l)) > 0)'
  BY CopiesAll, PTL
<1> QED  BY <1>1

LEMMA CopiesKept ==
  ASSUME RegistryInv, [Next]_vars,
         \A thr \in Threads : ~ListCopy(thr) /\ ~ListSend(thr)
  PROVE  Copies' = Copies
<1>1. TypeInv /\ QueuesTyped /\ OneCommand
  BY DEF RegistryInv, LockInv, TypeInv
<1>2. Moves
  BY <1>1, StepMoves
<1>3. QueuesTyped'
  BY <1>1, NamesLeftStep
<1>4. ASSUME NEW l
      PROVE  l \in Copies' <=> l \in Copies
  <2>1. \A k \in Threads :
          Own(tasks', mutex', k, Sending(l)) = Own(tasks, mutex, k, Sending(l))
    BY <1>1, <1>2, SendingCounts
  <2>2. Total(tasks', mutex', Sending(l)) = Total(tasks, mutex, Sending(l))
    BY <2>1 DEF Total, Threads
  <2> QED  BY <1>1, <1>3, <2>2, CopiesAll, CopiesNext
<1>5. Copies' \subseteq Copies /\ Copies \subseteq Copies'
  BY <1>4
<1> QED  BY <1>5

LEMMA SendEffect ==
  ASSUME RegistryInv, NEW thr \in Threads, ListSend(thr)
  PROVE  LET list == Now(thr).list
         IN  /\ list \in Copies /\ ui_list' = list
             /\ Copies' \in {Copies, Copies \ {list}}
             /\ device_status_map' = device_status_map
<1> DEFINE now == Now(thr)
           list == now.list
<1>1. TypeInv /\ QueuesTyped
  BY DEF RegistryInv, LockInv, TypeInv
<1>2. /\ Runs(thr) /\ now \in Task /\ now.op = "list" /\ now.at = "send"
      /\ \A S : Bit(now, S) <= Total(tasks, mutex, S)
  BY <1>1, NowTyped DEF ListSend
<1>3. tasks' = Done(tasks, thr) /\ mutex' = mutex
  BY DEF ListSend
<1>4. ui_list' = list /\ device_status_map' = device_status_map
  BY DEF ListSend, mapVars
<1>5. now \in Sending(list) /\ \A l : l # list => now \notin Sending(l)
  BY <1>2 DEF Sending
<1> HIDE DEF now, list
<1>6. ASSUME NEW l
      PROVE  /\ QueuesTyped' /\ Total(tasks, mutex, Sending(l)) \in Nat
             /\ Total(tasks', mutex', Sending(l))
                  = Total(tasks, mutex, Sending(l)) - Bit(now, Sending(l))
  <2>1. QueuesTyped' /\ Ends(thr, Sending(l))
    BY <1>1, <1>2, <1>3, DoneMoves
  <2> QED  BY <1>1, <2>1, MovesTotal DEF now
<1>7. QueuesTyped'
  BY <1>6
<1>8. list \in Copies
  <2>1. Bit(now, Sending(list)) = 1
    BY <1>5 DEF Bit
  <2>2. Bit(now, Sending(list)) <= Total(tasks, mutex, Sending(list))
    BY <1>2
  <2>3. Total(tasks, mutex, Sending(list)) \in Nat
    BY <1>6
  <2> QED  BY <1>1, <2>1, <2>2, <2>3, CopiesAll
<1>9. ASSUME NEW l, l # list
      PROVE  l \in Copies' <=> l \in Copies
  <2>1. Bit(now, Sending(l)) = 0
    BY <1>5, <1>9 DEF Bit
  <2>2. Total(tasks', mutex', Sending(l)) = Total(tasks, mutex, Sending(l))
    BY <1>6, <2>1
  <2> QED  BY <1>1, <1>7, <2>2, CopiesAll, CopiesNext
<1>10. Copies' \in {Copies, Copies \ {list}}
  <2>1. CASE list \in Copies'
    <3>1. Copies' \subseteq Copies /\ Copies \subseteq Copies'
      BY <1>8, <1>9, <2>1
    <3> QED  BY <3>1
  <2>2. CASE list \notin Copies'
    <3>1. Copies' \subseteq Copies \ {list} /\ Copies \ {list} \subseteq Copies'
      BY <1>9, <2>2
    <3> QED  BY <3>1
  <2> QED  BY <2>1, <2>2
<1> QED  BY <1>4, <1>8, <1>10 DEF list, now

LEMMA CopyEffect ==
  ASSUME RegistryInv, NEW thr \in Threads, ListCopy(thr)
  PROVE  /\ Copies' = Copies \cup {CurrentList} /\ ui_list' = ui_list
         /\ device_status_map' = device_status_map
<1> DEFINE now == Now(thr)
           list == CurrentList
           task == [now EXCEPT !.at = "send", !.list = list]
<1>1. TypeInv /\ QueuesTyped /\ MapsTyped
  BY DEF RegistryInv, LockInv, TypeInv
<1>2. /\ Runs(thr) /\ now \in Task /\ now.op = "list" /\ now.at = "copy"
  BY <1>1, NowTyped DEF ListCopy
<1>3. /\ mutex' = Released(mutex, "status")
      /\ tasks' = Woken(Goto(tasks, thr, task), "status")
      /\ ui_list' = ui_list /\ device_status_map' = device_status_map
  BY DEF ListCopy, mapVars
<1>4. list \in BuzzerLists
  BY <1>1, CurrentListTyped DEF MapsTyped
<1> HIDE DEF now, list
<1>5. task \in Task /\ task.op = "list" /\ task.at = "send" /\ task.list = list
  BY <1>2, <1>4, CopySends
<1> HIDE DEF task
<1>6. task \in GoodTask /\ task \in Sending(list)
      /\ \A l : l # list => task \notin Sending(l)
  BY <1>5 DEF GoodTask, Named, Sending
<1>7. \A l : Bit(now, Sending(l)) = 0
  BY <1>2 DEF Bit, Sending
<1>8. ASSUME NEW l
      PROVE  /\ QueuesTyped' /\ Total(tasks, mutex, Sending(l)) \in Nat
             /\ Total(tasks', mutex', Sending(l))
                  = Total(tasks, mutex, Sending(l)) + Bit(task, Sending(l))
  <2>1. QueuesTyped' /\ GoesOn(thr, task, Sending(l))
    <3>1. "status" \in Mutexes
      BY DEF Mutexes
    <3> QED  BY <1>1, <1>2, <1>3, <1>6, <3>1, LeaveGoesOn
  <2>2. Total(tasks, mutex, Sending(l)) \in Nat
        /\ Total(tasks', mutex', Sending(l)) = Total(tasks, mutex, Sending(l))
             - Bit(now, Sending(l)) + Bit(task, Sending(l))
    BY <1>1, <2>1, MovesTotal DEF now
  <2>3. Bit(now, Sending(l)) = 0 /\ Bit(task, Sending(l)) \in Nat
    BY <1>7 DEF Bit
  <2> QED  BY <2>1, <2>2, <2>3
<1>9. QueuesTyped'
  BY <1>8
<1>10. list \in Copies'
  <2>1. Bit(task, Sending(list)) = 1
    BY <1>6 DEF Bit
  <2>2. Total(tasks', mutex', Sending(list)) > 0
    BY <1>8, <2>1
  <2> QED  BY <1>9, <2>2, CopiesNext
<1>11. ASSUME NEW l, l # list
       PROVE  l \in Copies' <=> l \in Copies
  <2>1. Bit(task, Sending(l)) = 0
    BY <1>6, <1>11 DEF Bit
  <2>2. Total(tasks', mutex', Sending(l)) = Total(tasks, mutex, Sending(l))
    BY <1>8, <2>1
  <2> QED  BY <1>1, <1>9, <2>2, CopiesAll, CopiesNext
<1>12. Copies' \subseteq Copies \cup {list} /\ Copies \cup {list} \subseteq Copies'
  BY <1>10, <1>11
<1> QED  BY <1>3, <1>12 DEF list

-----------------------------------------------------------------------------
(* The steps of the registry are those of Registry.                        *)
LEMMA ListUnchanged ==
  ASSUME device_status_map' = device_status_map
  PROVE  CurrentList' = CurrentList
BY DEF CurrentList

LEMMA EnrolsList ==
  ASSUME NEW n \in Names, Enrols(n)
  PROVE  /\ n \notin DOMAIN CurrentList
         /\ CurrentList' = [k \in DOMAIN CurrentList \cup {n} |->
                              IF k = n THEN None ELSE CurrentList[k]]
<1>1. PICK d \in Device : d.timestamp = None
                          /\ device_status_map' = Add(device_status_map, n, d)
  BY DEF Enrols
<1>2. n \notin DOMAIN device_status_map
  BY DEF Enrols
<1>3. DOMAIN device_status_map' = DOMAIN device_status_map \cup {n}
      /\ \A k \in DOMAIN device_status_map \cup {n} :
           device_status_map'[k] = IF k = n THEN d ELSE device_status_map[k]
  BY <1>1 DEF Add
<1>4. DOMAIN CurrentList = DOMAIN device_status_map
      /\ \A k \in DOMAIN device_status_map : CurrentList[k] = device_status_map[k].timestamp
  BY DEF CurrentList
<1>5. CurrentList' = [k \in DOMAIN device_status_map' |-> device_status_map'[k].timestamp]
  BY DEF CurrentList
<1>6. \A k \in DOMAIN device_status_map \cup {n} :
        device_status_map'[k].timestamp = IF k = n THEN None ELSE CurrentList[k]
  BY <1>1, <1>3, <1>4
<1> QED  BY <1>2, <1>3, <1>4, <1>5, <1>6

LEMMA StampsList ==
  ASSUME device_status_map \in PartialMaps(Names, Device),
         NEW n \in Names, NEW t \in Timestamps, Stamps(n, t)
  PROVE  /\ n \in DOMAIN CurrentList /\ CurrentList[n] = None
         /\ CurrentList' = [CurrentList EXCEPT ![n] = t]
<1>1. /\ n \in DOMAIN device_status_map /\ device_status_map[n].timestamp = None
      /\ device_status_map' = [device_status_map EXCEPT ![n].timestamp = t]
  BY DEF Stamps
<1>2. \A k \in DOMAIN device_status_map : device_status_map[k] \in Device
  BY PartialMap
<1>3. /\ DOMAIN device_status_map' = DOMAIN device_status_map
      /\ device_status_map'[n] = [device_status_map[n] EXCEPT !.timestamp = t]
      /\ \A k \in DOMAIN device_status_map :
           k # n => device_status_map'[k] = device_status_map[k]
  BY <1>1
<1>4. device_status_map'[n].timestamp = t
  BY <1>1, <1>2, <1>3 DEF Device
<1>5. DOMAIN CurrentList = DOMAIN device_status_map
      /\ \A k \in DOMAIN device_status_map : CurrentList[k] = device_status_map[k].timestamp
  BY DEF CurrentList
<1>6. CurrentList' = [k \in DOMAIN device_status_map |-> device_status_map'[k].timestamp]
  BY <1>3 DEF CurrentList
<1>7. \A k \in DOMAIN device_status_map :
        device_status_map'[k].timestamp = IF k = n THEN t ELSE CurrentList[k]
  BY <1>3, <1>4, <1>5
<1>8. [CurrentList EXCEPT ![n] = t]
        = [k \in DOMAIN device_status_map |-> IF k = n THEN t ELSE CurrentList[k]]
  BY <1>1, <1>5
<1> QED  BY <1>1, <1>5, <1>6, <1>7, <1>8

LEMMA BlanksList ==
  ASSUME device_status_map \in PartialMaps(Names, Device), Blanks
  PROVE  CurrentList' = [n \in DOMAIN CurrentList |-> None]
<1>1. \A k \in DOMAIN device_status_map : device_status_map[k] \in Device
  BY PartialMap
<1>2. DOMAIN device_status_map' = DOMAIN device_status_map
      /\ \A k \in DOMAIN device_status_map :
           device_status_map'[k] = [device_status_map[k] EXCEPT !.timestamp = None]
  BY DEF Blanks
<1>3. \A k \in DOMAIN device_status_map : device_status_map'[k].timestamp = None
  BY <1>1, <1>2 DEF Device
<1> QED  BY <1>2, <1>3 DEF CurrentList

LEMMA DropsList ==
  ASSUME NEW n \in Names, Drops(n)
  PROVE  /\ n \in DOMAIN CurrentList
         /\ CurrentList' = [k \in DOMAIN CurrentList \ {n} |-> CurrentList[k]]
<1>1. DOMAIN device_status_map' = DOMAIN device_status_map \ {n}
      /\ \A k \in DOMAIN device_status_map \ {n} :
           device_status_map'[k] = device_status_map[k]
  BY DEF Drops, Pop
<1>2. n \in DOMAIN device_status_map
  BY DEF Drops
<1>3. DOMAIN CurrentList = DOMAIN device_status_map
      /\ \A k \in DOMAIN device_status_map : CurrentList[k] = device_status_map[k].timestamp
  BY DEF CurrentList
<1>4. CurrentList' = [k \in DOMAIN device_status_map' |-> device_status_map'[k].timestamp]
  BY DEF CurrentList
<1> QED  BY <1>1, <1>2, <1>3, <1>4

LEMMA ListShownKept ==
  ASSUME [Next]_vars, \A thr \in Threads : ~ListSend(thr)
  PROVE  ui_list' = ui_list
BY DEF Next, Requests, Commands, MonitorTimer, MainStep, ReceiverStep,
   Shared, RegisterArrives, PressedArrives, HeartbeatArrives, Arrives,
   ResetCommand, PairingCommand, RemoveCommand, RegisterForbidden,
   RegisterKnown, RegisterLookup, RegisterCreate, RegisterInsert, RegisterWatch,
   PressedStart, PressedRecord, HeartbeatStart, HeartbeatRefresh, MonitorStart,
   MonitorCheck, RemoveStart, RemovePop, RemoveForget, ListStart, ListCopy,
   ResetStart, ResetClear, ResetAnswered, vars, Threads

LEMMA StepImplements ==
  RegistryInv /\ [Next]_vars => [Contract!Next]_<<CurrentList, Copies, ui_list>>
<1> SUFFICES ASSUME RegistryInv, [Next]_vars
             PROVE  Contract!Next \/ UNCHANGED <<CurrentList, Copies, ui_list>>
  OBVIOUS
<1>0. TypeInv /\ FreshNames /\ device_status_map \in PartialMaps(Names, Device)
  BY DEF RegistryInv, LockInv, TypeInv, MapsTyped
<1>1. ASSUME NEW thr \in Threads, ListSend(thr)
      PROVE  Contract!Next
  <2> PICK got \in Copies : /\ ui_list' = got /\ CurrentList' = CurrentList
                           /\ Copies' \in {Copies, Copies \ {got}}
    BY <1>1, SendEffect, ListUnchanged
  <2>1. Contract!Send(got)
    BY DEF Contract!Send, Copies
  <2> QED  BY <2>1 DEF Contract!Next, Copies
<1>2. ASSUME NEW thr \in Threads, ListCopy(thr)
      PROVE  Contract!Next
  <2>1. /\ Copies' = Copies \cup {CurrentList} /\ ui_list' = ui_list
        /\ CurrentList' = CurrentList
    BY <1>2, CopyEffect, ListUnchanged
  <2>2. Contract!Copy
    BY <2>1 DEF Contract!Copy, Copies
  <2> QED  BY <2>2 DEF Contract!Next
<1>3. CASE \A thr \in Threads : ~ListCopy(thr) /\ ~ListSend(thr)
  <2>1. Copies' = Copies /\ ui_list' = ui_list
    BY <1>3, CopiesKept, ListShownKept
  <2>2. ASSUME device_status_map' = device_status_map
        PROVE  UNCHANGED <<CurrentList, Copies, ui_list>>
    BY <2>1, <2>2, ListUnchanged
  <2>3. ASSUME NEW n \in Names, Enrols(n) PROVE Contract!Next
    <3>1. Contract!Register(n)
      BY <2>1, <2>3, EnrolsList DEF Contract!Register, Copies
    <3> QED  BY <3>1 DEF Contract!Next
  <2>4. ASSUME NEW n \in Names, NEW t \in Timestamps, Stamps(n, t)
        PROVE  Contract!Next
    <3>1. Contract!Press(n, t)
      BY <1>0, <2>1, <2>4, StampsList DEF Contract!Press, Copies
    <3> QED  BY <3>1 DEF Contract!Next
  <2>5. ASSUME Blanks PROVE Contract!Next
    <3>1. Contract!Reset
      BY <1>0, <2>1, <2>5, BlanksList DEF Contract!Reset, Copies
    <3> QED  BY <3>1 DEF Contract!Next
  <2>6. ASSUME NEW n \in Names, Drops(n) PROVE Contract!Next
    <3>1. Contract!Remove(n)
      BY <2>1, <2>6, DropsList DEF Contract!Remove, Copies
    <3> QED  BY <3>1 DEF Contract!Next
  <2> QED  BY <1>0, <2>2, <2>3, <2>4, <2>5, <2>6, RegistryEffects
<1> QED  BY <1>1, <1>2, <1>3

LEMMA InitImplements == Init => Contract!Init
<1> SUFFICES ASSUME Init PROVE Contract!Init
  OBVIOUS
<1>1. CurrentList = <<>> /\ ui_list = <<>>
  BY DEF Init, CurrentList
<1>2. RegistryInv /\ QueuesTyped
  BY RegistryInit DEF RegistryInv, LockInv, TypeInv
<1>3. ASSUME NEW l PROVE l \notin Copies
  <2>1. ReceiverIdle
    BY DEF Init, ReceiverIdle, Waiting, Mutexes
  <2>2. Own(tasks, mutex, "receiver", Sending(l)) = 0
    BY <2>1, IdleOwns
  <2>3. Count(tasks["main"], Sending(l))
          = Bit(MonitorTask, Sending(l)) + Bit(ListTask, Sending(l))
    <3>1. MonitorTask \in GoodTask /\ ListTask \in GoodTask
          /\ tasks["main"] = <<MonitorTask, ListTask>>
      BY NewTasks DEF Init
    <3> QED  BY <3>1, CountPair
  <2>4. Bit(MonitorTask, Sending(l)) = 0 /\ Bit(ListTask, Sending(l)) = 0
    BY DEF Bit, Sending, MonitorTask, ListTask
  <2>5. Bound(mutex, "status", "main", Sending(l)) = 0
        /\ Bound(mutex, "heartbeat", "main", Sending(l)) = 0
    BY DEF Init, Bound, Mutexes
  <2>6. Total(tasks, mutex, Sending(l)) = 0
    BY <2>2, <2>3, <2>4, <2>5 DEF Total, Own
  <2> QED  BY <1>2, <2>6, CopiesAll
<1>4. Copies = {}
  BY <1>3
<1> QED  BY <1>1, <1>4 DEF Contract!Init, Copies

(* However the two threads, failed tasks and removals interleave, the      *)
(* backend does what Registry promises: a press is recorded once, a reset  *)
(* clears all presses in one step, and what the UI gets was the registry   *)
(* at one moment (gameshow_server.py:78-88, 225-234, 324-328).             *)
THEOREM RegistryContractKept == Spec => ImplementsRegistry
<1>1. Init => RegistryInv
  BY RegistryInit
<1>2. RegistryInv /\ [Next]_vars => RegistryInv'
  BY RegistryStep
<1>3. RegistryInv /\ [Next]_vars => [Contract!Next]_<<CurrentList, Copies, ui_list>>
  BY StepImplements
<1>4. Init => Contract!Init
  BY InitImplements
<1> QED  BY <1>1, <1>2, <1>3, <1>4, PTL
         DEF Spec, ImplementsRegistry, Contract!Spec, Copies

-----------------------------------------------------------------------------
(* No buzzer of the registry is forgotten by the monitor.  The argument    *)
(* needs that a registration never fails between its two maps: it would,   *)
(* if the heartbeat lock were bound to a loop of the receiver and taken by *)
(* a coroutine of the main thread that is not running; there is none.      *)

(* Behind the running coroutine nothing is inside the heartbeat lock: true *)
(* of the main thread while no coroutine of it ever waited for that lock.  *)
Outside(t) == t.at \notin Section("heartbeat")
Behind(s) == \A i \in 2 .. Len(s) : Outside(s[i])
Away(s) == \A i \in 1 .. Len(s) : Outside(s[i])
HeadInv == mutex["heartbeat"].loop # "main" => Behind(tasks["main"])

(* A removal that waits for the heartbeat lock has taken its buzzer out of *)
(* the registry, and nobody has put it back.                               *)
Forget(n) == {t \in Task : t.op = "remove" /\ t.at = "forget" /\ NextName(t.names) = n}
ForgetInv == \A n \in DOMAIN device_status_map : Total(tasks, mutex, Forget(n)) = 0

Watch(n) == {t \in Task : t.op = "register" /\ t.at = "watch" /\ t.name = n}
WatchInv ==
  \A n \in DOMAIN device_status_map \ DOMAIN device_heartbeat_map :
    Own(tasks, mutex, "main", Watch(n)) > 0

(* What a removal has popped of the first map is in the second.            *)
PoppedInv ==
  \A n : n \notin DOMAIN device_heartbeat_map => Total(tasks, mutex, Forget(n)) = 0

WatchedInv == RegistryInv /\ HeadInv /\ ForgetInv /\ WatchInv /\ PoppedInv

-----------------------------------------------------------------------------
(* What the queue operations leave behind the running coroutine.           *)
LEMMA TailAway ==
  ASSUME NEW s \in Seq(GoodTask), s # <<>>, Behind(s)
  PROVE  Away(Tail(s)) /\ Behind(Tail(s)) /\ Tail(s) \in Seq(GoodTask)
<1>1. /\ Tail(s) \in Seq(GoodTask) /\ Len(s) \in Nat /\ Len(Tail(s)) = Len(s) - 1
      /\ \A i \in 1 .. Len(Tail(s)) : Tail(s)[i] = s[i + 1]
  BY HeadTailProperties, LenProperties, EmptySeq
<1>2. ASSUME NEW i \in 1 .. Len(Tail(s)) PROVE Outside(Tail(s)[i])
  <2>1. i + 1 \in 2 .. Len(s) /\ Tail(s)[i] = s[i + 1]
    BY <1>1
  <2> QED  BY <2>1 DEF Behind
<1>3. Len(Tail(s)) \in Nat
  BY <1>1, LenProperties
<1> QED  BY <1>1, <1>2, <1>3 DEF Away, Behind

LEMMA PrependBehind ==
  ASSUME NEW s \in Seq(GoodTask), Away(s), NEW task \in GoodTask
  PROVE  Behind(<<task>> \o s)
<1>1. <<task>> \in Seq(GoodTask) /\ Len(<<task>>) = 1 /\ Len(s) \in Nat
  BY LenProperties
<1>2. /\ Len(<<task>> \o s) = 1 + Len(s)
      /\ \A i \in 1 .. 1 + Len(s) :
           (<<task>> \o s)[i] = IF i <= 1 THEN <<task>>[i] ELSE s[i - 1]
  BY <1>1, ConcatProperties
<1>3. ASSUME NEW i \in 2 .. 1 + Len(s) PROVE Outside((<<task>> \o s)[i])
  <2>1. i \in 1 .. 1 + Len(s) /\ ~(i <= 1) /\ i - 1 \in 1 .. Len(s)
    BY <1>1
  <2>2. (<<task>> \o s)[i] = s[i - 1]
    BY <1>2, <2>1
  <2> QED  BY <2>1, <2>2 DEF Away
<1> QED  BY <1>2, <1>3 DEF Behind

LEMMA AppendBehind ==
  ASSUME NEW s \in Seq(GoodTask), Behind(s), NEW task \in GoodTask, Outside(task)
  PROVE  Behind(Append(s, task))
<1>1. /\ Len(s) \in Nat /\ Len(Append(s, task)) = Len(s) + 1
      /\ \A i \in 1 .. Len(s) : Append(s, task)[i] = s[i]
      /\ Append(s, task)[Len(s) + 1] = task
  BY AppendProperties, LenProperties
<1>2. ASSUME NEW i \in 2 .. Len(s) + 1 PROVE Outside(Append(s, task)[i])
  <2>1. CASE i = Len(s) + 1
    BY <1>1, <2>1
  <2>2. CASE i # Len(s) + 1
    <3>1. i \in 1 .. Len(s) /\ i \in 2 .. Len(s)
      BY <1>1, <2>2
    <3> QED  BY <1>1, <3>1 DEF Behind
  <2> QED  BY <2>1, <2>2
<1> QED  BY <1>1, <1>2 DEF Behind

Calm(ts) == TasksTyped(ts) /\ Behind(ts["main"])

LEMMA CalmDone ==
  ASSUME NEW ts, Calm(ts), NEW thr \in Threads, ts[thr] # <<>>
  PROVE  Calm(Done(ts, thr))
<1>0. "main" \in Threads /\ ts["main"] \in Seq(GoodTask) /\ ts \in [Threads -> Seq(GoodTask)]
  BY DEF Calm, TasksTyped, Threads
<1>1. TasksTyped(Done(ts, thr))
  BY <1>0, DoneEffect DEF Calm
<1>2. Done(ts, thr)["main"] = IF thr = "main" THEN Tail(ts["main"]) ELSE ts["main"]
  BY <1>0 DEF Done
<1>3. thr = "main" => Behind(Tail(ts["main"]))
  BY <1>0, TailAway DEF Calm
<1> QED  BY <1>1, <1>2, <1>3 DEF Calm

LEMMA CalmGoto ==
  ASSUME NEW ts, Calm(ts), NEW thr \in Threads, ts[thr] # <<>>, NEW task \in GoodTask
  PROVE  Calm(Goto(ts, thr, task))
<1>0. "main" \in Threads /\ ts["main"] \in Seq(GoodTask) /\ ts \in [Threads -> Seq(GoodTask)]
  BY DEF Calm, TasksTyped, Threads
<1>1. TasksTyped(Goto(ts, thr, task))
  BY <1>0, GotoEffect DEF Calm
<1>2. Goto(ts, thr, task)["main"]
        = IF thr = "main" THEN <<task>> \o Tail(ts["main"]) ELSE ts["main"]
  BY <1>0 DEF Goto
<1>3. thr = "main" => Behind(<<task>> \o Tail(ts["main"]))
  BY <1>0, TailAway, PrependBehind DEF Calm
<1> QED  BY <1>1, <1>2, <1>3 DEF Calm

LEMMA CalmCreate ==
  ASSUME NEW ts, Calm(ts), NEW thr \in Threads, NEW task \in GoodTask, Outside(task)
  PROVE  Calm(create_task(ts, thr, task))
<1>0. "main" \in Threads /\ ts["main"] \in Seq(GoodTask) /\ ts \in [Threads -> Seq(GoodTask)]
  BY DEF Calm, TasksTyped, Threads
<1>1. TasksTyped(create_task(ts, thr, task))
  BY <1>0, CreateEffect DEF Calm
<1>2. create_task(ts, thr, task)["main"]
        = IF thr = "main" THEN Append(ts["main"], task) ELSE ts["main"]
  BY <1>0 DEF create_task
<1>3. Behind(Append(ts["main"], task))
  BY <1>0, AppendBehind DEF Calm
<1> QED  BY <1>1, <1>2, <1>3 DEF Calm

(* Who waited for the status lock was outside the heartbeat lock.          *)
LEMMA CalmWoken ==
  ASSUME NEW ts, Calm(ts), MutexTyped(mutex), mutex["heartbeat"].loop # "main",
         NEW m \in Mutexes
  PROVE  Calm(Woken(ts, m))
<1>0. "main" \in Threads /\ "receiver" \in Threads /\ ts["main"] \in Seq(GoodTask)
      /\ ts \in [Threads -> Seq(GoodTask)] /\ "status" \in Mutexes
  BY DEF Calm, TasksTyped, Threads, Mutexes
<1>1. TasksTyped(Woken(ts, m))
  BY <1>0, WokenEffect DEF Calm
<1> DEFINE task == Head(mutex[m].waiters)
<1>2. CASE mutex[m].waiters = <<>>
  BY <1>2 DEF Woken
<1>3. CASE mutex[m].waiters # <<>> /\ mutex[m].loop = "main"
  <2>1. m = "status"
    BY <1>3 DEF Mutexes
  <2>2. mutex["status"].waiters \in Seq(Waiter("status"))
    BY <1>0 DEF MutexTyped
  <2>3. task \in Waiter("status")
    BY <1>3, <2>1, <2>2, HeadTailProperties
  <2>4. task \in GoodTask /\ Outside(task)
    BY <2>3, Sections DEF Waiter, WaitPlaces, Outside
  <2>5. Woken(ts, m) = create_task(ts, "main", task)
    BY <1>3 DEF Woken
  <2> HIDE DEF task
  <2> QED  BY <1>0, <2>4, <2>5, CalmCreate
<1>4. CASE mutex[m].waiters # <<>> /\ mutex[m].loop # "main"
  <2>1. Woken(ts, m) = [ts EXCEPT !["receiver"] = <<task>> \o @]
    BY <1>4 DEF Woken
  <2> HIDE DEF task
  <2>2. Woken(ts, m)["main"] = ts["main"]
    BY <1>0, <2>1
  <2> QED  BY <1>1, <2>2 DEF Calm
<1> QED  BY <1>2, <1>3, <1>4

-----------------------------------------------------------------------------
(* HeadInv is kept by every shape of step.                                 *)
LEMMA LoopReleased ==
  ASSUME NEW mx, MutexTyped(mx), MutexTyped(mutex), NEW m \in Mutexes,
         mx[m] = mutex[m]
  PROVE  /\ MutexTyped(Released(mx, m))
         /\ \A j \in Mutexes : Released(mx, m)[j].loop = mx[j].loop
         /\ \A j \in Mutexes \ {m} : Released(mx, m)[j] = mx[j]
<1>1. "main" \in Threads
  BY DEF Threads
<1> QED  BY <1>1, ReleasedEffect

LEMMA HeadLeave ==
  ASSUME QueuesTyped, HeadInv, NEW thr \in Threads, Runs(thr), NEW m \in Mutexes,
         mutex' = Released(mutex, m),
         \/ tasks' = Woken(Done(tasks, thr), m)
         \/ \E task \in GoodTask : tasks' = Woken(Goto(tasks, thr, task), m)
         \/ \E task \in GoodTask : /\ Outside(task)
              /\ tasks' = create_task(Woken(Done(tasks, thr), m), "main", task)
  PROVE  HeadInv'
<1>0. "heartbeat" \in Mutexes /\ "main" \in Threads
      /\ MutexTyped(mutex) /\ TasksTyped(tasks)
  BY DEF Mutexes, Threads, QueuesTyped
<1> SUFFICES ASSUME mutex'["heartbeat"].loop # "main"
             PROVE  Behind(tasks'["main"])
  BY DEF HeadInv
<1>1. mutex["heartbeat"].loop # "main"
  BY <1>0, LoopReleased
<1>2. Calm(tasks) /\ tasks[thr] # <<>>
  BY <1>0, <1>1 DEF HeadInv, Calm, Runs
<1>3. CASE tasks' = Woken(Done(tasks, thr), m)
  BY <1>0, <1>1, <1>2, <1>3, CalmDone, CalmWoken DEF Calm
<1>4. ASSUME NEW task \in GoodTask, tasks' = Woken(Goto(tasks, thr, task), m)
      PROVE  Behind(tasks'["main"])
  <2>1. Calm(Goto(tasks, thr, task))
    BY <1>2, CalmGoto
  <2>2. Calm(Woken(Goto(tasks, thr, task), m))
    BY <1>0, <1>1, <2>1, CalmWoken
  <2> QED  BY <1>4, <2>2 DEF Calm
<1>5. ASSUME NEW task \in GoodTask, Outside(task),
             tasks' = create_task(Woken(Done(tasks, thr), m), "main", task)
      PROVE  Behind(tasks'["main"])
  <2>1. Calm(Woken(Done(tasks, thr), m))
    BY <1>0, <1>1, <1>2, CalmDone, CalmWoken
  <2>2. Calm(create_task(Woken(Done(tasks, thr), m), "main", task))
    BY <1>0, <1>5, <2>1, CalmCreate
  <2> QED  BY <1>5, <2>2 DEF Calm
<1> QED  BY <1>3, <1>4, <1>5

LEMMA HeadRaise ==
  ASSUME QueuesTyped, HeadInv, NEW thr \in Threads, Runs(thr),
         NEW held \in Mutexes \cup {"none"}, Raise(thr, held)
  PROVE  HeadInv'
<1>1. CASE held = "none"
  <2>1. tasks' = Done(tasks, thr) /\ mutex' = mutex
    BY <1>1 DEF Raise
  <2>2. HeadInv => (mutex["heartbeat"].loop # "main" => Calm(Done(tasks, thr)))
    BY CalmDone DEF HeadInv, Calm, QueuesTyped, Runs
  <2> QED  BY <2>1, <2>2 DEF HeadInv, Calm
<1>2. CASE held # "none"
  <2>1. held \in Mutexes /\ tasks' = Woken(Done(tasks, thr), held)
        /\ mutex' = Released(mutex, held)
    BY <1>2 DEF Raise
  <2> QED  BY <2>1, HeadLeave
<1> QED  BY <1>1, <1>2

LEMMA HeadAcquire ==
  ASSUME QueuesTyped, HeadInv, NEW thr \in Threads, Runs(thr), NEW m \in Mutexes,
         NEW task \in Waiter(m), NEW held \in Mutexes \cup {"none"},
         Acquire(thr, m, task, held)
  PROVE  HeadInv'
<1>0. "heartbeat" \in Mutexes /\ "main" \in Threads /\ task \in GoodTask
      /\ MutexTyped(mutex) /\ TasksTyped(tasks) /\ tasks[thr] # <<>>
  BY DEF Mutexes, Threads, QueuesTyped, Waiter, Runs
<1>c. mutex["heartbeat"].loop # "main" => Calm(tasks)
  BY <1>0 DEF HeadInv, Calm
<1>1. CASE mutex[m].holder # "none" /\ ~MayWait(thr, m)
  <2>1. Raise(thr, held)
    BY <1>1 DEF Acquire
  <2> QED  BY <2>1, HeadRaise
<1>2. CASE mutex[m].holder = "none"
  <2>1. tasks' = Goto(tasks, thr, task) /\ mutex' = [mutex EXCEPT ![m].holder = thr]
    BY <1>2 DEF Acquire
  <2>2. mutex'["heartbeat"].loop = mutex["heartbeat"].loop
    <3>1. /\ \A j \in Mutexes \ {m} : mutex'[j] = mutex[j]
          /\ mutex'[m].loop = mutex[m].loop
      BY <1>0, <2>1, TakeTyped
    <3> QED  BY <1>0, <3>1
  <2>3. mutex["heartbeat"].loop # "main" => Calm(Goto(tasks, thr, task))
    BY <1>0, <1>c, CalmGoto
  <2> QED  BY <2>1, <2>2, <2>3 DEF HeadInv, Calm
<1>3. CASE mutex[m].holder # "none" /\ MayWait(thr, m)
  <2>1. tasks' = Done(tasks, thr) /\ mutex' = Enqueued(mutex, m, thr, task)
    BY <1>3 DEF Acquire, Enqueued
  <2>2. mutex[m].loop \in {"none", thr}
    BY <1>3 DEF MayWait
  <2>3. mutex'["heartbeat"].loop # "main" => mutex["heartbeat"].loop # "main"
    <3> DEFINE waits == Enqueued(mutex, m, thr, task)
    <3>0. /\ \A j \in Mutexes \ {m} : waits[j] = mutex[j]
          /\ waits[m].loop = thr
          /\ Own(tasks, waits, "main", {})
               = Own(tasks, mutex, "main", {}) + On("main", thr, task, {})
      BY <1>0, <2>2, WaitTyped
    <3> HIDE DEF waits
    <3>1. /\ \A j \in Mutexes \ {m} : mutex'[j] = mutex[j]
          /\ mutex'[m].loop = thr
      BY <2>1, <3>0 DEF waits
    <3> QED  BY <1>0, <2>2, <3>1
  <2>4. mutex["heartbeat"].loop # "main" => Calm(Done(tasks, thr))
    BY <1>0, <1>c, CalmDone
  <2> QED  BY <2>1, <2>3, <2>4 DEF HeadInv, Calm
<1> QED  BY <1>1, <1>2, <1>3

LEMMA HeadLeaveBoth ==
  ASSUME QueuesTyped, HeadInv, NEW thr \in Threads, LeavesBoth(thr)
  PROVE  HeadInv'
<1>0. "heartbeat" \in Mutexes /\ "status" \in Mutexes /\ "main" \in Threads
      /\ MutexTyped(mutex) /\ TasksTyped(tasks) /\ tasks[thr] # <<>>
      /\ mutex' = Released(Released(mutex, "heartbeat"), "status")
  BY DEF Mutexes, Threads, QueuesTyped, LeavesBoth, Runs
<1> SUFFICES ASSUME mutex'["heartbeat"].loop # "main"
             PROVE  Behind(tasks'["main"])
  BY DEF HeadInv
<1>1. mutex["heartbeat"].loop # "main"
  <2> DEFINE mx == Released(mutex, "heartbeat")
  <2>1. MutexTyped(mx) /\ mx["status"] = mutex["status"]
        /\ mx["heartbeat"].loop = mutex["heartbeat"].loop
    BY <1>0, LoopReleased
  <2> HIDE DEF mx
  <2>2. Released(mx, "status")["heartbeat"].loop = mx["heartbeat"].loop
    BY <1>0, <2>1, LoopReleased
  <2> QED  BY <1>0, <2>1, <2>2 DEF mx
<1>2. Calm(tasks)
  BY <1>0, <1>1 DEF HeadInv, Calm
<1>3. ListTask \in GoodTask /\ Outside(ListTask)
  BY NewTasks, Sections DEF Outside, ListTask
<1> DEFINE ts == Woken(Done(tasks, thr), "heartbeat")
<1>4. Calm(ts)
  BY <1>0, <1>1, <1>2, CalmDone, CalmWoken
<1> HIDE DEF ts
<1>5. Calm(Woken(create_task(ts, thr, ListTask), "status"))
  BY <1>0, <1>1, <1>3, <1>4, CalmCreate, CalmWoken
<1>6. Calm(create_task(Woken(ts, "status"), thr, ListTask))
  BY <1>0, <1>1, <1>3, <1>4, CalmCreate, CalmWoken
<1> QED  BY <1>5, <1>6 DEF LeavesBoth, ts, Calm

LEMMA HeadStep ==
  ASSUME QueuesTyped, HeadInv, Moves
  PROVE  HeadInv'
<1>0. "heartbeat" \in Mutexes /\ "status" \in Mutexes /\ "main" \in Threads
      /\ "receiver" \in Threads /\ MutexTyped(mutex) /\ TasksTyped(tasks)
      /\ "none" \in Mutexes \cup {"none"} /\ "status" \in Mutexes \cup {"none"}
      /\ tasks \in [Threads -> Seq(GoodTask)]
  BY DEF Mutexes, Threads, QueuesTyped, TasksTyped
<1>s. \A t : t.at = "start" => Outside(t)
  BY Sections DEF Outside
<1>c. mutex["heartbeat"].loop # "main" => Calm(tasks)
  BY <1>0 DEF HeadInv, Calm
<1>1. ASSUME NEW thr \in Threads, NEW m \in Mutexes, NEW task, Enters(thr, m, task)
      PROVE  HeadInv'
  BY <1>0, <1>1, HeadAcquire DEF Enters
<1>2. ASSUME NEW thr \in Threads, NEW task, EntersInner(thr, task) PROVE HeadInv'
  BY <1>0, <1>2, HeadAcquire DEF EntersInner
<1>3. ASSUME NEW thr \in Threads, Fails(thr) PROVE HeadInv'
  BY <1>0, <1>3, HeadRaise DEF Fails
<1>4. ASSUME NEW thr \in Threads, NEW m \in Mutexes, Leaves(thr, m) PROVE HeadInv'
  BY <1>4, HeadLeave DEF Leaves, Leave
<1>5. ASSUME NEW thr \in Threads, NEW m \in Mutexes, NEW task, LeavesFor(thr, m, task)
      PROVE  HeadInv'
  BY <1>5, HeadLeave DEF LeavesFor
<1>6. ASSUME NEW m \in Mutexes, NEW task, LeavesCreating(m, task) PROVE HeadInv'
  <2>1. Outside(task) /\ task \in GoodTask /\ Runs("main")
    BY <1>6, <1>s DEF LeavesCreating
  <2> QED  BY <1>0, <1>6, <2>1, HeadLeave DEF LeavesCreating
<1>7. ASSUME NEW thr \in Threads, LeavesBoth(thr) PROVE HeadInv'
  BY <1>7, HeadLeaveBoth
<1>8. ASSUME NEW thr \in Threads, Finishes(thr) PROVE HeadInv'
  <2>1. tasks[thr] # <<>> /\ tasks' = Done(tasks, thr) /\ mutex' = mutex
    BY <1>8 DEF Finishes, Runs
  <2>2. mutex["heartbeat"].loop # "main" => Calm(Done(tasks, thr))
    BY <1>c, <2>1, CalmDone
  <2> QED  BY <2>1, <2>2 DEF HeadInv, Calm
<1>9. ASSUME NEW task, Created(task) PROVE HeadInv'
  <2>1. Outside(task) /\ task \in GoodTask /\ mutex' = mutex
        /\ tasks' = create_task(tasks, "main", task)
    BY <1>9, <1>s DEF Created
  <2>2. mutex["heartbeat"].loop # "main" => Calm(create_task(tasks, "main", task))
    BY <1>0, <1>c, <2>1, CalmCreate
  <2> QED  BY <2>1, <2>2 DEF HeadInv, Calm
<1>10. ASSUME NEW task, Commanded(task) PROVE HeadInv'
  <2>1. mutex' = mutex /\ tasks'["main"] = tasks["main"]
    BY <1>0, <1>10 DEF Commanded
  <2> QED  BY <2>1 DEF HeadInv
<1>11. ASSUME Clears PROVE HeadInv'
  <2> DEFINE ts == [tasks EXCEPT !["receiver"] = <<ListTask, AnswerTask>>]
  <2>1. ListTask \in GoodTask /\ AnswerTask \in GoodTask
    BY NewTasks
  <2>2. TasksTyped(ts) /\ ts["main"] = tasks["main"]
    BY <1>0, <2>1 DEF TasksTyped
  <2>3. /\ tasks' = Woken(ts, "status") /\ mutex' = Released(mutex, "status")
    BY <1>11 DEF Clears
  <2> HIDE DEF ts
  <2>4. mutex'["heartbeat"].loop = mutex["heartbeat"].loop
    BY <1>0, <2>3, LoopReleased
  <2>5. mutex["heartbeat"].loop # "main" => Calm(Woken(ts, "status"))
    BY <1>0, <1>c, <2>2, CalmWoken DEF Calm
  <2> QED  BY <2>3, <2>4, <2>5 DEF HeadInv, Calm
<1>12. ASSUME Cancels PROVE HeadInv'
  <2>1. tasks["receiver"] # <<>> /\ tasks' = Done(tasks, "receiver")
        /\ mutex'["heartbeat"] = mutex["heartbeat"]
    BY <1>0, <1>12 DEF Cancels, Runs, MutexTyped
  <2>2. mutex["heartbeat"].loop # "main" => Calm(Done(tasks, "receiver"))
    BY <1>0, <1>c, <2>1, CalmDone
  <2> QED  BY <2>1, <2>2 DEF HeadInv, Calm
<1>13. ASSUME Rests PROVE HeadInv'
  BY <1>13 DEF Rests, HeadInv
<1> QED
  BY <1>1, <1>2, <1>3, <1>4, <1>5, <1>6, <1>7, <1>8, <1>9, <1>10, <1>11, <1>12,
     <1>13 DEF Moves

-----------------------------------------------------------------------------
(* A coroutine inside the status lock is alone there: nobody else is       *)
(* between the two maps.                                                   *)
Between == {t \in Task : t.at \in {"watch", "forget"}}

LEMMA InsideBounds ==
  ASSUME QueuesTyped, LocksInv, NEW k \in Threads
  PROVE  /\ Inside(tasks, mutex, "status") <= 1
         /\ Inside(tasks, mutex, "status") = Count(tasks["main"], InSection("status"))
              + Count(tasks["receiver"], InSection("status"))
              + Count(mutex["heartbeat"].waiters, InSection("status"))
         /\ Count(tasks["main"], InSection("status")) \in Nat
         /\ Count(tasks["receiver"], InSection("status")) \in Nat
         /\ Count(mutex["heartbeat"].waiters, InSection("status")) \in Nat
<1>1. "status" \in Mutexes
  BY DEF Mutexes
<1>2. Inside(tasks, mutex, "status") = Held(mutex, "status")
  BY <1>1 DEF LocksInv, Open
<1> QED  BY <1>1, <1>2, InsideTyped DEF QueuesTyped, Held, Inside

LEMMA NoneWaitsBetween ==
  ASSUME QueuesTyped, NEW S, S \subseteq Between
  PROVE  Count(mutex["status"].waiters, S) = 0
<1>1. mutex["status"].waiters \in Seq(Waiter("status"))
  BY DEF QueuesTyped, MutexTyped, Mutexes
<1>2. \A i \in DOMAIN mutex["status"].waiters :
        mutex["status"].waiters[i] \in Waiter("status")
  BY <1>1, LenProperties, ElementOfSeq
<1>3. \A t \in Waiter("status") : t \notin S
  BY DEF Waiter, WaitPlaces, Between
<1>4. ~(Count(mutex["status"].waiters, S) > 0)
  BY <1>1, <1>2, <1>3, CountPositive
<1> QED  BY <1>1, <1>4, PositionsFinite

LEMMA Alone ==
  ASSUME QueuesTyped, LocksInv, NEW thr \in Threads, Runs(thr),
         Now(thr) \in GoodTask, Now(thr).at \in Section("status"),
         NEW S, S \subseteq Between
  PROVE  Total(tasks, mutex, S) = Bit(Now(thr), S)
<1> DEFINE IS == InSection("status")
           wait == mutex["heartbeat"].waiters
<1>0. /\ "main" \in Threads /\ "receiver" \in Threads
      /\ \A k \in Threads : tasks[k] \in Seq(GoodTask)
      /\ wait \in Seq(GoodTask) /\ tasks[thr] # <<>> /\ Now(thr) = Head(tasks[thr])
  BY DEF Threads, QueuesTyped, TasksTyped, MutexTyped, Lock, Mutexes, Runs, Now
<1>1. S \subseteq IS
  BY Sections DEF Between, InSection
<1>2. Bit(Now(thr), IS) = 1 /\ Bit(Now(thr), S) \in Nat
  BY DEF Bit, InSection, GoodTask
<1>3. /\ Count(tasks[thr], IS) = Bit(Now(thr), IS) + Count(Tail(tasks[thr]), IS)
      /\ Count(tasks[thr], S) = Bit(Now(thr), S) + Count(Tail(tasks[thr]), S)
      /\ Tail(tasks[thr]) \in Seq(GoodTask)
  BY <1>0, CountTail, HeadTailProperties
<1> HIDE DEF IS, wait
<1>4. /\ Count(Tail(tasks[thr]), S) <= Count(Tail(tasks[thr]), IS)
      /\ Count(Tail(tasks[thr]), S) \in Nat /\ Count(Tail(tasks[thr]), IS) \in Nat
  BY <1>1, <1>3, CountSubset, PositionsFinite
<1>5. \A k \in Threads : /\ Count(tasks[k], S) <= Count(tasks[k], IS)
                         /\ Count(tasks[k], S) \in Nat /\ Count(tasks[k], IS) \in Nat
  BY <1>0, <1>1, CountSubset, PositionsFinite
<1>6. /\ Count(wait, S) <= Count(wait, IS)
      /\ Count(wait, S) \in Nat /\ Count(wait, IS) \in Nat
  BY <1>0, <1>1, CountSubset, PositionsFinite
<1>7. Count(tasks["main"], IS) + Count(tasks["receiver"], IS) + Count(wait, IS) <= 1
  BY InsideBounds DEF IS, wait
<1>8. /\ Count(tasks["main"], S) + Count(tasks["receiver"], S) = Bit(Now(thr), S)
      /\ Count(wait, S) = 0
  <2>1. CASE thr = "main"
    BY <1>0, <1>2, <1>3, <1>4, <1>5, <1>6, <1>7, <2>1
  <2>2. CASE thr = "receiver"
    BY <1>0, <1>2, <1>3, <1>4, <1>5, <1>6, <1>7, <2>2
  <2> QED  BY <2>1, <2>2 DEF Threads
<1>9. Count(mutex["status"].waiters, S) = 0
  BY NoneWaitsBetween
<1>10. \A k \in Threads : Bound(mutex, "status", k, S) = 0
                          /\ Bound(mutex, "heartbeat", k, S) = 0
  BY <1>8, <1>9 DEF Bound, wait
<1>11. /\ Own(tasks, mutex, "main", S) = Count(tasks["main"], S)
       /\ Own(tasks, mutex, "receiver", S) = Count(tasks["receiver"], S)
  BY <1>0, <1>5, <1>10 DEF Own
<1> QED  BY <1>8, <1>11 DEF Total

(* So a registration that has its name in the first map gets, or waits     *)
(* for, the lock of the second.                                            *)
LEMMA InsertGoesOn ==
  ASSUME LockInv, HeadInv, RegisterInsert
  PROVE  mutex["heartbeat"].holder = "none" \/ MayWait("main", "heartbeat")
<1> SUFFICES ASSUME mutex["heartbeat"].holder # "none", ~MayWait("main", "heartbeat")
             PROVE  FALSE
  OBVIOUS
<1> DEFINE IH == InSection("heartbeat")
           IS == InSection("status")
           main == tasks["main"]
           rec == tasks["receiver"]
<1>0. /\ "main" \in Threads /\ "receiver" \in Threads /\ "heartbeat" \in Mutexes
      /\ QueuesTyped /\ LocksInv /\ OneCommand
      /\ main \in Seq(GoodTask) /\ rec \in Seq(GoodTask)
  BY DEF Threads, Mutexes, LockInv, TypeInv, QueuesTyped, TasksTyped
<1>1. At("main", "register", "insert")
  BY DEF RegisterInsert
<1>2. /\ Runs("main") /\ Now("main") \in Task /\ Now("main").at = "insert"
      /\ main # <<>> /\ Now("main") = Head(main)
  BY <1>0, <1>1, NowTyped DEF Runs, Now
<1>3. Bit(Now("main"), IH) = 0 /\ Bit(Now("main"), IS) = 1
  BY <1>2, Sections DEF Bit, InSection
<1>4. Away(Tail(main)) /\ Tail(main) \in Seq(GoodTask)
  <2>1. mutex["heartbeat"].loop # "main"
    BY DEF MayWait
  <2> QED  BY <1>0, <1>2, <2>1, TailAway DEF HeadInv
<1>5. Count(Tail(main), IH) = 0
  <2>1. \A i \in DOMAIN Tail(main) : Tail(main)[i] \notin IH
    BY <1>4, LenProperties DEF Away, Outside, InSection
  <2>2. ~(Count(Tail(main), IH) > 0) /\ Count(Tail(main), IH) \in Nat
    BY <1>4, <2>1, CountPositive, PositionsFinite
  <2> QED  BY <2>2
<1>6. Count(main, IH) = 0 /\ Count(main, IS) >= 1
  <2>1. /\ Count(main, IH) = Bit(Now("main"), IH) + Count(Tail(main), IH)
        /\ Count(main, IS) = Bit(Now("main"), IS) + Count(Tail(main), IS)
        /\ Count(Tail(main), IS) \in Nat
    BY <1>0, <1>2, <1>4, CountTail, PositionsFinite
  <2> HIDE DEF main, IH, IS
  <2> QED  BY <1>3, <1>5, <2>1
<1>7. Count(rec, IH) = 1
  <2>1. Inside(tasks, mutex, "heartbeat") = 1
    BY <1>0 DEF LocksInv, Open, Held
  <2>2. Inside(tasks, mutex, "heartbeat") = Count(main, IH) + Count(rec, IH) + 0
    BY DEF Inside
  <2>3. Count(rec, IH) \in Nat
    BY <1>0, PositionsFinite
  <2> QED  BY <1>6, <2>1, <2>2, <2>3
<1>8. Count(rec, IS) > 0
  <2>1. PICK i \in DOMAIN rec : rec[i] \in IH
    BY <1>0, <1>7, CountPositive
  <2>2. rec[i] \in Task /\ rec[i].at \in Section("heartbeat")
    BY <2>1 DEF InSection
  <2>3. rec[i] \notin Foreign
    <3>1. Own(tasks, mutex, "receiver", Foreign) = 0
      BY <1>0 DEF OneCommand
    <3>2. Bound(mutex, "status", "receiver", Foreign) \in Nat
          /\ Bound(mutex, "heartbeat", "receiver", Foreign) \in Nat
          /\ Count(rec, Foreign) \in Nat
      BY <1>0, OwnTyped, ReadyTyped DEF QueuesTyped
    <3>r. Own(tasks, mutex, "receiver", Foreign)
            = Count(rec, Foreign) + Bound(mutex, "status", "receiver", Foreign)
                + Bound(mutex, "heartbeat", "receiver", Foreign)
      BY DEF Own
    <3> HIDE DEF rec
    <3>3. Count(rec, Foreign) = 0
      BY <3>1, <3>2, <3>r
    <3>4. ~(Count(rec, Foreign) > 0)
      BY <3>3
    <3> QED  BY <1>0, <3>4, CountPositive
  <2>4. rec[i].op \in {"list", "remove", "reset"}
    BY <2>2, <2>3 DEF Foreign
  <2>5. rec[i].at = "forget"
    BY <2>2, <2>4, KindOf, Sections DEF CopyTask, RemoveTask, ResetTask
  <2>6. rec[i] \in IS
    BY <2>2, <2>5, Sections DEF InSection
  <2> QED  BY <1>0, <2>6, CountPositive
<1>9. /\ Count(main, IS) + Count(rec, IS) + Count(mutex["heartbeat"].waiters, IS) <= 1
      /\ Count(main, IS) \in Nat /\ Count(rec, IS) \in Nat
      /\ Count(mutex["heartbeat"].waiters, IS) \in Nat
  BY <1>0, InsideBounds
<1> HIDE DEF main, rec, IS, IH
<1> QED  BY <1>6, <1>8, <1>9

-----------------------------------------------------------------------------
(* Only RemovePop sends a removal to the second map, and it has taken the  *)
(* buzzer out of the first.                                                *)
LEMMA ForgetGrows ==
  ASSUME NEW n, Grows(Forget(n))
  PROVE  \E thr \in Threads : RemovePop(thr) /\ n = NextName(Now(thr).names)
<1>1. ASSUME NEW thr \in Threads, NEW m \in Mutexes, NEW task \in Forget(n),
             Enters(thr, m, task) \/ LeavesFor(thr, m, task)
      PROVE  FALSE
  BY <1>1 DEF Enters, LeavesFor, Forget, Mutexes
<1>2. ASSUME NEW thr \in Threads, NEW task \in Forget(n), EntersInner(thr, task)
      PROVE  RemovePop(thr) /\ n = NextName(Now(thr).names)
  BY <1>2 DEF EntersInner, Forget
<1>3. ASSUME NEW task \in Forget(n), Created(task) \/ Commanded(task)
      PROVE  FALSE
  BY <1>3 DEF Created, Commanded, Forget
<1>4. ASSUME NEW m \in Mutexes, NEW task \in Forget(n), LeavesCreating(m, task)
      PROVE  FALSE
  BY <1>4 DEF LeavesCreating, Forget
<1>5. ListTask \notin Forget(n) /\ AnswerTask \notin Forget(n)
  BY DEF ListTask, AnswerTask, Forget
<1> QED  BY <1>1, <1>2, <1>3, <1>4, <1>5 DEF Grows

LEMMA ForgetStep ==
  ASSUME RegistryInv, ForgetInv, [Next]_vars
  PROVE  ForgetInv'
<1>0. TypeInv /\ FreshNames /\ QueuesTyped /\ MapsTyped /\ LocksInv /\ Moves
      /\ "main" \in Threads
  BY StepMoves DEF RegistryInv, LockInv, TypeInv, Threads
<1> SUFFICES ASSUME NEW n \in DOMAIN device_status_map'
             PROVE  Total(tasks', mutex', Forget(n)) = 0
  BY DEF ForgetInv
<1>1. /\ Total(tasks', mutex', Forget(n)) <= Total(tasks, mutex, Forget(n))
           \/ Grows(Forget(n))
      /\ QueuesTyped'
  BY <1>0, StepTotal
<1>2. Total(tasks', mutex', Forget(n)) \in Nat
  BY <1>1, TotalTyped DEF QueuesTyped
<1>3. ~Grows(Forget(n))
  <2> SUFFICES ASSUME NEW thr \in Threads, RemovePop(thr), n = NextName(Now(thr).names)
               PROVE  FALSE
    BY ForgetGrows
  <2>1. CASE n \in DOMAIN device_status_map
    <3>1. device_status_map' = Pop(device_status_map, n)
      BY <2>1 DEF RemovePop
    <3> QED  BY <3>1 DEF Pop
  <2>2. CASE n \notin DOMAIN device_status_map
    <3>1. device_status_map' = device_status_map
      BY <2>2 DEF RemovePop
    <3> QED  BY <2>2, <3>1
  <2> QED  BY <2>1, <2>2
<1>4. Total(tasks, mutex, Forget(n)) = 0
  <2>1. CASE n \in DOMAIN device_status_map
    BY <2>1 DEF ForgetInv
  <2>2. CASE n \notin DOMAIN device_status_map
    <3>1. RegisterInsert
      BY <1>0, <2>2, RegistryDomain
    <3>2. At("main", "register", "insert")
      BY <3>1 DEF RegisterInsert
    <3>3. Runs("main") /\ Now("main") \in GoodTask /\ Now("main").at = "insert"
      BY <1>0, <3>2, NowTyped
    <3>4. Now("main").at \in Section("status") /\ Now("main") \notin Forget(n)
          /\ Forget(n) \subseteq Between
      BY <3>3, Sections DEF Forget, Between
    <3> QED  BY <1>0, <3>3, <3>4, Alone DEF Bit
  <2> QED  BY <2>1, <2>2
<1> QED  BY <1>1, <1>2, <1>3, <1>4

-----------------------------------------------------------------------------
LEMMA InsertWatches ==
  ASSUME LockInv, HeadInv, RegisterInsert, NEW n, n = Now("main").name
  PROVE  Own(tasks', mutex', "main", Watch(n)) > 0
<1> DEFINE S == Watch(n)
           old == Own(tasks, mutex, "main", S)
           new == Own(tasks', mutex', "main", S)
<1>0. /\ "main" \in Threads /\ "heartbeat" \in Mutexes
      /\ "status" \in Mutexes \cup {"none"} /\ TypeInv /\ QueuesTyped
  BY DEF Threads, Mutexes, LockInv, TypeInv
<1>1. PICK task : EntersInner("main", task)
  BY <1>0, RegistersMove
<1>2. At("main", "register", "insert")
  BY DEF RegisterInsert
<1>3. /\ Runs("main") /\ Now("main").at = "insert" /\ Now("main").op = "register"
  BY <1>0, <1>2, NowTyped
<1>4. /\ task \in Waiter("heartbeat") /\ task \in Task /\ task.op = "register"
      /\ task.at = "watch" /\ task.name = n
      /\ Acquire("main", "heartbeat", task, "status")
  BY <1>1, <1>3 DEF EntersInner, Waiter, GoodTask
<1>5. ~(mutex["heartbeat"].holder # "none" /\ ~MayWait("main", "heartbeat"))
  BY InsertGoesOn
<1>6. GoesOn("main", task, S)
  BY <1>0, <1>3, <1>4, <1>5, AcquireMoves
<1>7. Bit(Now("main"), S) = 0 /\ Bit(task, S) = 1
  BY <1>3, <1>4 DEF Bit, Watch
<1>8. new = old - On("main", "main", Now("main"), S) + On("main", "main", task, S)
  BY <1>0, <1>6 DEF GoesOn
<1>9. On("main", "main", Now("main"), S) = 0 /\ On("main", "main", task, S) = 1
  BY <1>7 DEF On
<1>10. old \in Nat
  BY <1>0, OwnTyped DEF QueuesTyped
<1> HIDE DEF old, new, S
<1>11. new > 0
  BY <1>8, <1>9, <1>10
<1> QED  BY <1>11 DEF new, S

(* A coroutine on its way to the second map leaves that place only for     *)
(* having been there.                                                      *)
LEMMA WatchersLast ==
  ASSUME QueuesTyped, Moves, NEW n
  PROVE  \/ Own(tasks, mutex, "main", Watch(n)) <= Own(tasks', mutex', "main", Watch(n))
         \/ RegisterWatch /\ Now("main").name = n
<1> DEFINE S == Watch(n)
           old == Own(tasks, mutex, "main", S)
           new == Own(tasks', mutex', "main", S)
<1>0. "main" \in Threads /\ "main" # "receiver"
  BY DEF Threads
<1>1. /\ old \in Nat /\ new \in Nat
      /\ \/ new = old
         \/ Ending("main") /\ new = old - Bit(Now("main"), S)
         \/ \E task : /\ Going("main", task)
                      /\ new = old - Bit(Now("main"), S) + Bit(task, S)
         \/ \E task : Beginning("main", task) /\ new = old + Bit(task, S)
  BY <1>0, StepOwns
<1>2. \A t : Bit(t, S) \in Nat /\ (Bit(t, S) # 0 => t.at = "watch" /\ t.name = n
                                                     /\ t.op = "register")
  BY DEF Bit, Watch
<1>3. ASSUME Ending("main") PROVE Now("main").at # "watch"
  <2>1. ASSUME NEW m \in Mutexes, NEW task, Enters("main", m, task)
        PROVE  Now("main").at # "watch"
    BY <2>1 DEF Enters
  <2>2. ASSUME NEW task, EntersInner("main", task) PROVE Now("main").at # "watch"
    BY <2>2 DEF EntersInner
  <2>3. ASSUME NEW m \in Mutexes, Leaves("main", m) PROVE Now("main").at # "watch"
    BY <2>3 DEF Leaves
  <2>4. CASE Fails("main")
    BY <2>4 DEF Fails
  <2>5. CASE Finishes("main")
    BY <2>5 DEF Finishes
  <2> QED  BY <1>3, <2>1, <2>2, <2>3, <2>4, <2>5 DEF Ending
<1>4. ASSUME NEW task, Going("main", task), Now("main").at = "watch"
      PROVE  RegisterWatch
  <2>1. ASSUME NEW m \in Mutexes, Enters("main", m, task) PROVE FALSE
    BY <1>4, <2>1 DEF Enters
  <2>2. ASSUME EntersInner("main", task) PROVE FALSE
    BY <1>4, <2>2 DEF EntersInner
  <2>3. ASSUME NEW m \in Mutexes, LeavesFor("main", m, task) PROVE FALSE
    BY <1>4, <2>3 DEF LeavesFor, Mutexes
  <2>4. ASSUME NEW m \in Mutexes, LeavesCreating(m, task) PROVE FALSE
    BY <1>4, <2>4 DEF LeavesCreating, Mutexes
  <2>5. CASE LeavesBoth("main")
    BY <1>4, <2>5 DEF LeavesBoth
  <2> QED  BY <1>4, <2>1, <2>2, <2>3, <2>4, <2>5 DEF Going
<1> HIDE DEF S, old, new
<1>5. CASE Ending("main") /\ new = old - Bit(Now("main"), S)
  <2>1. Bit(Now("main"), S) = 0
    BY <1>2, <1>3, <1>5
  <2>2. old <= new
    BY <1>1, <1>5, <2>1
  <2> QED  BY <2>2 DEF S, old, new
<1>6. ASSUME NEW task, Going("main", task),
             new = old - Bit(Now("main"), S) + Bit(task, S)
      PROVE  \/ old <= new
             \/ RegisterWatch /\ Now("main").name = n
  <2>1. CASE Bit(Now("main"), S) = 0
    <3>1. new = old + Bit(task, S) /\ Bit(task, S) \in Nat
      BY <1>1, <1>2, <1>6, <2>1
    <3> QED  BY <1>1, <3>1
  <2>2. CASE Bit(Now("main"), S) # 0
    BY <1>2, <1>4, <1>6, <2>2
  <2> QED  BY <2>1, <2>2
<1>7. ASSUME NEW task, new = old + Bit(task, S)
      PROVE  old <= new
  BY <1>1, <1>2, <1>7
<1> QED  BY <1>1, <1>5, <1>6, <1>7 DEF S, old, new

LEMMA WatchStep ==
  ASSUME WatchedInv, [Next]_vars
  PROVE  WatchInv'
<1>0. /\ TypeInv /\ FreshNames /\ QueuesTyped /\ LockInv /\ HeadInv
      /\ ForgetInv /\ WatchInv /\ Moves
  BY StepMoves DEF WatchedInv, RegistryInv, LockInv, TypeInv
<1> SUFFICES ASSUME NEW n \in DOMAIN device_status_map' \ DOMAIN device_heartbeat_map'
             PROVE  Own(tasks', mutex', "main", Watch(n)) > 0
  BY DEF WatchInv
<1>1. CASE n \notin DOMAIN device_status_map
  <2>1. RegisterInsert /\ n = Now("main").name
    BY <1>0, <1>1, RegistryDomain
  <2> QED  BY <1>0, <2>1, InsertWatches
<1>2. CASE n \in DOMAIN device_status_map /\ n \in DOMAIN device_heartbeat_map
  <2>1. ~RegisterWatch
    <3>1. RegisterWatch => DOMAIN device_heartbeat_map \subseteq DOMAIN device_heartbeat_map'
      BY DEF RegisterWatch, Add
    <3> QED  BY <1>2, <3>1
  <2>2. PICK thr \in Threads : RemoveForget(thr)
    BY <1>0, <1>2, <2>1, HeartbeatTyped
  <2>3. n = NextName(Now(thr).names)
    <3>1. device_heartbeat_map' = Pop(device_heartbeat_map, NextName(Now(thr).names))
      BY <2>2 DEF RemoveForget
    <3> QED  BY <1>2, <3>1 DEF Pop
  <2>4. At(thr, "remove", "forget")
    BY <2>2 DEF RemoveForget
  <2>5. /\ Now(thr) \in Task /\ Now(thr).op = "remove" /\ Now(thr).at = "forget"
        /\ Bit(Now(thr), Forget(n)) <= Total(tasks, mutex, Forget(n))
    BY <1>0, <2>4, NowTyped
  <2>6. Bit(Now(thr), Forget(n)) = 1
    BY <2>3, <2>5 DEF Bit, Forget
  <2>7. Total(tasks, mutex, Forget(n)) = 0
    BY <1>0, <1>2 DEF ForgetInv
  <2> QED  BY <2>5, <2>6, <2>7
<1>3. CASE n \in DOMAIN device_status_map /\ n \notin DOMAIN device_heartbeat_map
  <2>1. Own(tasks, mutex, "main", Watch(n)) > 0
    BY <1>0, <1>3 DEF WatchInv
  <2>2. ~(RegisterWatch /\ Now("main").name = n)
    BY DEF RegisterWatch, Add
  <2>3. Own(tasks, mutex, "main", Watch(n)) <= Own(tasks', mutex', "main", Watch(n))
    BY <1>0, <2>2, WatchersLast
  <2>4. /\ Own(tasks, mutex, "main", Watch(n)) \in Nat
        /\ Own(tasks', mutex', "main", Watch(n)) \in Nat
    <3>1. "main" \in Threads
      BY DEF Threads
    <3> QED  BY <1>0, <3>1, StepOwns
  <2> QED  BY <2>1, <2>3, <2>4
<1> QED  BY <1>1, <1>2, <1>3

(* A removal leaves the second map with the name it came for.              *)
LEMMA ForgetLeaves ==
  ASSUME TypeInv, LocksInv, NEW thr \in Threads, RemoveForget(thr),
         NEW n, n = NextName(Now(thr).names)
  PROVE  Total(tasks', mutex', Forget(n)) = 0
<1> DEFINE S == Forget(n)
<1>0. /\ "main" \in Threads /\ "receiver" \in Threads /\ "main" # "receiver"
      /\ "heartbeat" \in Mutexes /\ QueuesTyped
  BY DEF Threads, Mutexes, TypeInv
<1>1. At(thr, "remove", "forget")
  BY DEF RemoveForget
<1>2. /\ Runs(thr) /\ Now(thr) \in GoodTask /\ Now(thr) \in Task
      /\ Now(thr).op = "remove" /\ Now(thr).at = "forget"
  BY <1>0, <1>1, NowTyped
<1>3. Bit(Now(thr), S) = 1
  BY <1>2 DEF Bit, Forget
<1>4. Now(thr).at \in Section("status") /\ S \subseteq Between
  BY <1>2, Sections DEF Forget, Between
<1>5. Total(tasks, mutex, S) = 1
  BY <1>0, <1>2, <1>3, <1>4, Alone
<1>6. \E task : GoesOn(thr, task, S) /\ Bit(task, S) = 0
  <2>1. LeavesBoth(thr) \/ \E task : LeavesFor(thr, "heartbeat", task)
    BY RemovesMove
  <2>2. CASE LeavesBoth(thr)
    <3>1. ListTask \in GoodTask /\ Bit(ListTask, S) = 0
      BY NewTasks DEF Bit, Forget, ListTask
    <3>2. GoesOn(thr, ListTask, S)
      BY <1>0, <1>2, <2>2, <3>1, LeaveBothCreates DEF LeavesBoth
    <3> QED  BY <3>1, <3>2
  <2>3. ASSUME NEW task, LeavesFor(thr, "heartbeat", task)
        PROVE  GoesOn(thr, task, S) /\ Bit(task, S) = 0
    <3>1. GoesOn(thr, task, S)
      BY <1>0, <1>2, <2>3, LeaveGoesOn DEF LeavesFor
    <3> QED  BY <2>3, <3>1 DEF LeavesFor, Bit, Forget
  <2> QED  BY <2>1, <2>2, <2>3
<1>7. PICK task : GoesOn(thr, task, S) /\ Bit(task, S) = 0
  BY <1>6
<1>8. /\ Own(tasks, mutex, "main", S) \in Nat /\ Own(tasks, mutex, "receiver", S) \in Nat
      /\ On("main", thr, Now(thr), S) + On("receiver", thr, Now(thr), S) = 1
      /\ On("main", thr, task, S) = 0 /\ On("receiver", thr, task, S) = 0
      /\ On("main", thr, Now(thr), S) \in Nat /\ On("receiver", thr, Now(thr), S) \in Nat
  BY <1>0, <1>3, <1>7, OwnTyped DEF On, Threads, QueuesTyped
<1> HIDE DEF S
<1>9. \A k \in Threads : Own(tasks', mutex', k, S) = Own(tasks, mutex, k, S)
                           - On(k, thr, Now(thr), S) + On(k, thr, task, S)
  BY <1>7 DEF GoesOn
<1>10. Total(tasks', mutex', S) = 0
  BY <1>0, <1>5, <1>8, <1>9 DEF Total
<1> QED  BY <1>10 DEF S

LEMMA PoppedStep ==
  ASSUME WatchedInv, [Next]_vars
  PROVE  PoppedInv'
<1>0. /\ TypeInv /\ QueuesTyped /\ MapsTyped /\ LocksInv /\ WatchInv /\ PoppedInv
      /\ Moves
  BY StepMoves DEF WatchedInv, RegistryInv, LockInv, TypeInv
<1> SUFFICES ASSUME NEW n, n \notin DOMAIN device_heartbeat_map'
             PROVE  Total(tasks', mutex', Forget(n)) = 0
  BY DEF PoppedInv
<1>1. /\ Total(tasks', mutex', Forget(n)) <= Total(tasks, mutex, Forget(n))
           \/ Grows(Forget(n))
      /\ QueuesTyped'
  BY <1>0, StepTotal
<1>2. Total(tasks', mutex', Forget(n)) \in Nat
  BY <1>1, TotalTyped DEF QueuesTyped
<1>3. CASE n \in DOMAIN device_heartbeat_map
  <2>1. ~RegisterWatch
    <3>1. RegisterWatch => DOMAIN device_heartbeat_map \subseteq DOMAIN device_heartbeat_map'
      BY DEF RegisterWatch, Add
    <3> QED  BY <1>3, <3>1
  <2>2. PICK thr \in Threads : RemoveForget(thr)
    BY <1>0, <1>3, <2>1, HeartbeatTyped
  <2>3. n = NextName(Now(thr).names)
    <3>1. device_heartbeat_map' = Pop(device_heartbeat_map, NextName(Now(thr).names))
      BY <2>2 DEF RemoveForget
    <3> QED  BY <1>3, <3>1 DEF Pop
  <2> QED  BY <1>0, <2>2, <2>3, ForgetLeaves
<1>4. CASE n \notin DOMAIN device_heartbeat_map /\ ~Grows(Forget(n))
  <2>1. Total(tasks, mutex, Forget(n)) = 0
    BY <1>0, <1>4 DEF PoppedInv
  <2> QED  BY <1>1, <1>2, <1>4, <2>1
<1>5. CASE n \notin DOMAIN device_heartbeat_map /\ Grows(Forget(n))
  <2>1. PICK thr \in Threads : RemovePop(thr) /\ n = NextName(Now(thr).names)
    BY <1>5, ForgetGrows
  <2>2. At(thr, "remove", "pop")
    BY <2>1 DEF RemovePop
  <2>3. /\ Runs(thr) /\ Now(thr) \in GoodTask /\ Now(thr).at = "pop"
        /\ Now(thr).op = "remove"
    BY <1>0, <2>2, NowTyped
  <2>4. Now(thr).at \in Section("status")
    BY <2>3, Sections
  <2>5. CASE n \in DOMAIN device_status_map
    <3>1. Own(tasks, mutex, "main", Watch(n)) > 0
      BY <1>0, <1>5, <2>5 DEF WatchInv
    <3>2. Watch(n) \subseteq Between /\ Bit(Now(thr), Watch(n)) = 0
      BY <2>3 DEF Watch, Between, Bit
    <3>3. Total(tasks, mutex, Watch(n)) = 0
      BY <1>0, <2>3, <2>4, <3>2, Alone
    <3>4. /\ Own(tasks, mutex, "main", Watch(n)) \in Nat
          /\ Own(tasks, mutex, "receiver", Watch(n)) \in Nat
      BY <1>0, OwnTyped DEF QueuesTyped, Threads
    <3> QED  BY <3>1, <3>3, <3>4 DEF Total
  <2>6. CASE n \notin DOMAIN device_status_map
    <3>1. Raise(thr, "status")
      BY <2>1, <2>6 DEF RemovePop
    <3>2. Ends(thr, Forget(n))
      BY <1>0, <2>3, <3>1, RaiseMoves DEF Mutexes
    <3>3. \A k \in Threads :
            /\ On(k, thr, Now(thr), Forget(n)) = 0
            /\ Own(tasks, mutex, k, Forget(n)) \in Nat
      BY <1>0, <2>3, OwnTyped DEF On, Bit, Forget, QueuesTyped
    <3>4. \A k \in Threads : Own(tasks', mutex', k, Forget(n))
                              = Own(tasks, mutex, k, Forget(n))
      BY <3>2, <3>3 DEF Ends
    <3>5. Total(tasks', mutex', Forget(n)) = Total(tasks, mutex, Forget(n))
      BY <3>4 DEF Total, Threads
    <3> QED  BY <1>0, <1>5, <3>5 DEF PoppedInv
  <2> QED  BY <2>5, <2>6
<1> QED  BY <1>3, <1>4, <1>5

LEMMA WatchedInit == Init => WatchedInv
<1> SUFFICES ASSUME Init PROVE WatchedInv
  OBVIOUS
<1>1. RegistryInv
  BY RegistryInit
<1>2. HeadInv
  <2>1. tasks["main"] = <<MonitorTask, ListTask>>
    BY DEF Init
  <2>2. Outside(ListTask)
    BY Sections DEF Outside, ListTask
  <2>3. ASSUME NEW i \in 2 .. Len(<<MonitorTask, ListTask>>)
        PROVE  Outside(<<MonitorTask, ListTask>>[i])
    <3>1. i = 2
      OBVIOUS
    <3> QED  BY <2>2, <3>1
  <2> QED  BY <2>1, <2>3 DEF HeadInv, Behind
<1>3. DOMAIN device_status_map = {}
  BY DEF Init
<1>4. ASSUME NEW n PROVE Total(tasks, mutex, Forget(n)) = 0
  <2>1. /\ "main" \in Threads /\ MonitorTask \in GoodTask /\ ListTask \in GoodTask
        /\ tasks["main"] = <<MonitorTask, ListTask>> /\ ReceiverIdle
        /\ QueuesTyped
    BY <1>1, NewTasks DEF Threads, Init, ReceiverIdle, Waiting, RegistryInv, LockInv,
       TypeInv
  <2>2. Own(tasks, mutex, "receiver", Forget(n)) = 0
    BY <2>1, IdleOwns
  <2>3. Count(tasks["main"], Forget(n)) = Bit(MonitorTask, Forget(n)) + Bit(ListTask, Forget(n))
    BY <2>1, CountPair
  <2>4. Bit(MonitorTask, Forget(n)) = 0 /\ Bit(ListTask, Forget(n)) = 0
    BY DEF Bit, Forget, MonitorTask, ListTask
  <2>5. Bound(mutex, "status", "main", Forget(n)) = 0
        /\ Bound(mutex, "heartbeat", "main", Forget(n)) = 0
    BY DEF Init, Bound, Mutexes
  <2> QED  BY <2>2, <2>3, <2>4, <2>5 DEF Total, Own
<1> QED  BY <1>1, <1>2, <1>3, <1>4 DEF WatchedInv, ForgetInv, WatchInv, PoppedInv

LEMMA WatchedStep ==
  WatchedInv /\ [Next]_vars => WatchedInv'
<1> SUFFICES ASSUME WatchedInv, [Next]_vars PROVE WatchedInv'
  OBVIOUS
<1>1. RegistryInv /\ HeadInv /\ ForgetInv /\ TypeInv /\ QueuesTyped
  BY DEF WatchedInv, RegistryInv, LockInv, TypeInv
<1>2. RegistryInv'
  BY <1>1, RegistryStep
<1>3. HeadInv'
  BY <1>1, StepMoves, HeadStep
<1>4. ForgetInv'
  BY <1>1, ForgetStep
<1> QED  BY <1>2, <1>3, <1>4, WatchStep, PoppedStep DEF WatchedInv

LEMMA WatchedShown ==
  WatchedInv => StatusWatched
<1> SUFFICES ASSUME WatchedInv PROVE StatusWatched
  OBVIOUS
<1>1. QueuesTyped
  BY DEF WatchedInv, RegistryInv, LockInv, TypeInv
<1>2. /\ Coroutines \in Seq(GoodTask)
      /\ \A S : Count(Coroutines, S) = Total(tasks, mutex, S)
  BY <1>1, CoroutinesTotal
<1>3. ASSUME NEW n \in DOMAIN device_status_map \ DOMAIN device_heartbeat_map
      PROVE  \E i \in DOMAIN Coroutines : /\ Coroutines[i].op = "register"
                                          /\ Coroutines[i].at = "watch"
                                          /\ Coroutines[i].name = n
  <2>1. Own(tasks, mutex, "main", Watch(n)) > 0
    BY DEF WatchedInv, WatchInv
  <2>2. /\ Own(tasks, mutex, "main", Watch(n)) \in Nat
        /\ Own(tasks, mutex, "receiver", Watch(n)) \in Nat
    BY <1>1, OwnTyped DEF QueuesTyped, Threads
  <2>3. Total(tasks, mutex, Watch(n)) > 0
    BY <2>1, <2>2 DEF Total
  <2>4. Count(Coroutines, Watch(n)) > 0
    BY <1>2, <2>3
  <2>5. PICK i \in DOMAIN Coroutines : Coroutines[i] \in Watch(n)
    BY <1>2, <2>4, CountPositive
  <2> QED  BY <2>5 DEF Watch
<1>4. ASSUME NEW i \in DOMAIN Coroutines,
             Coroutines[i].op = "remove", Coroutines[i].at = "forget"
      PROVE  NextName(Coroutines[i].names) \in DOMAIN device_heartbeat_map
  <2> DEFINE n == NextName(Coroutines[i].names)
  <2>1. Coroutines[i] \in Task
    BY <1>2, ElementOfSeq DEF GoodTask
  <2>2. Coroutines[i] \in Forget(n)
    BY <1>4, <2>1 DEF Forget
  <2>3. Count(Coroutines, Forget(n)) > 0
    BY <1>2, <2>2, CountPositive
  <2>4. Total(tasks, mutex, Forget(n)) > 0
    BY <1>2, <2>3
  <2> HIDE DEF n
  <2>5. n \in DOMAIN device_heartbeat_map
    BY <2>4 DEF WatchedInv, PoppedInv
  <2> QED  BY <2>5 DEF n
<1> QED  BY <1>3, <1>4 DEF StatusWatched

(* Every buzzer in the registry is watched by the monitor, up to the one   *)
(* whose registration holds the status lock: neither the exception of a    *)
(* lock contended from a second event loop nor a removal leaves a buzzer   *)
(* that nobody would ever remove, and the pop of a removal from the second *)
(* map never raises (gameshow_server.py:148-161, 306-316).                 *)
THEOREM RegistryIsWatched == Spec => []StatusWatched
<1>1. Init => WatchedInv
  BY WatchedInit
<1>2. WatchedInv /\ [Next]_vars => WatchedInv'
  BY WatchedStep
<1>3. WatchedInv => StatusWatched
  BY WatchedShown
<1> QED  BY <1>1, <1>2, <1>3, PTL DEF Spec
=============================================================================
