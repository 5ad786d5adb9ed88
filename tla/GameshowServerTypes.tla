------------------------- MODULE GameshowServerTypes -------------------------
(***************************************************************************)
(* The types of the buzzer backend, for any number of devices, requests    *)
(* and removals.  TypeOK is not inductive: a name is given out by a        *)
(* coroutine that may have waited for a lock since it was let in, so that  *)
(* the bound on names needs the registrations still under way counted in.  *)
(***************************************************************************)
EXTENDS GameshowServer, SequenceCounts

USE NoneAssumption, BoundAssumption

-----------------------------------------------------------------------------
(* The coroutines, one set for each operation.                             *)
RegisterTask ==
  [op : {"register"}, at : {"start", "lookup", "create", "insert", "watch"},
   endpoint : Endpoints, name : Names \cup {None}]
PressedTask == [op : {"pressed"}, at : {"start", "record"}, name : Names,
                time : Timestamps]
HeartbeatTask == [op : {"heartbeat"}, at : {"start", "refresh"}, name : Names]
CheckTask == [op : {"monitor"}, at : {"start", "check"}]
RemoveTask == [op : {"remove"}, at : {"start", "pop", "forget"},
               names : SUBSET Names]
ResetTask == [op : {"reset"}, at : {"start", "clear", "answer"}]
CopyTask == [op : {"list"}, at : {"start", "copy", "send"}, list : BuzzerLists]

(* A registration past the lookup or the counter has a name.               *)
Named(t) == t.op = "register" /\ t.at \in {"lookup", "insert", "watch"}
              => t.name \in Names
GoodTask == {t \in Task : Named(t)}

LEMMA TaskKinds ==
  Task = RegisterTask \cup PressedTask \cup HeartbeatTask \cup CheckTask
           \cup RemoveTask \cup ResetTask \cup CopyTask
BY DEF Task, RegisterTask, PressedTask, HeartbeatTask, CheckTask, RemoveTask,
       ResetTask, CopyTask

LEMMA KindOf ==
  ASSUME NEW t \in Task
  PROVE  /\ t.op = "register" => t \in RegisterTask
         /\ t.op = "pressed" => t \in PressedTask
         /\ t.op = "heartbeat" => t \in HeartbeatTask
         /\ t.op = "monitor" => t \in CheckTask
         /\ t.op = "remove" => t \in RemoveTask
         /\ t.op = "reset" => t \in ResetTask
         /\ t.op = "list" => t \in CopyTask
BY TaskKinds DEF RegisterTask, PressedTask, HeartbeatTask, CheckTask, RemoveTask,
       ResetTask, CopyTask

(* A task that goes on at another place.                                   *)
LEMMA RegisterGoes ==
  ASSUME NEW t \in Task, t.op = "register",
         NEW a \in {"start", "lookup", "create", "insert", "watch"}
  PROVE  /\ [t EXCEPT !.at = a] \in Task
         /\ [t EXCEPT !.at = a].op = "register" /\ [t EXCEPT !.at = a].at = a
         /\ [t EXCEPT !.at = a].name = t.name
         /\ [t EXCEPT !.at = a].endpoint = t.endpoint
<1>1. t \in RegisterTask
  BY KindOf
<1>2. [t EXCEPT !.at = a] \in RegisterTask
  BY <1>1 DEF RegisterTask
<1> QED  BY <1>1, <1>2, TaskKinds DEF RegisterTask

LEMMA RegisterNamed ==
  ASSUME NEW t \in Task, t.op = "register", NEW n \in Names
  PROVE  LET u == [t EXCEPT !.at = "insert", !.name = n]
         IN  u \in Task /\ u.op = "register" /\ u.at = "insert" /\ u.name = n
             /\ u.endpoint = t.endpoint
<1> DEFINE u == [t EXCEPT !.at = "insert", !.name = n]
<1>1. t \in RegisterTask
  BY KindOf
<1>2. u \in RegisterTask
  BY <1>1 DEF RegisterTask
<1> QED  BY <1>1, <1>2, TaskKinds DEF RegisterTask

LEMMA PressedGoes ==
  ASSUME NEW t \in Task, t.op = "pressed"
  PROVE  LET u == [t EXCEPT !.at = "record"]
         IN  u \in Task /\ u.op = "pressed" /\ u.at = "record"
             /\ u.name = t.name /\ u.time = t.time
<1>1. t \in PressedTask
  BY KindOf
<1>2. [t EXCEPT !.at = "record"] \in PressedTask
  BY <1>1 DEF PressedTask
<1> QED  BY <1>1, <1>2, TaskKinds DEF PressedTask

LEMMA HeartbeatGoes ==
  ASSUME NEW t \in Task, t.op = "heartbeat"
  PROVE  LET u == [t EXCEPT !.at = "refresh"]
         IN  u \in Task /\ u.op = "heartbeat" /\ u.at = "refresh"
<1>1. t \in HeartbeatTask
  BY KindOf
<1>2. [t EXCEPT !.at = "refresh"] \in HeartbeatTask
  BY <1>1 DEF HeartbeatTask
<1> QED  BY <1>1, <1>2, TaskKinds DEF HeartbeatTask

LEMMA CheckGoes ==
  ASSUME NEW t \in Task, t.op = "monitor"
  PROVE  LET u == [t EXCEPT !.at = "check"]
         IN  u \in Task /\ u.op = "monitor" /\ u.at = "check"
<1>1. t \in CheckTask
  BY KindOf
<1>2. [t EXCEPT !.at = "check"] \in CheckTask
  BY <1>1 DEF CheckTask
<1> QED  BY <1>1, <1>2, TaskKinds DEF CheckTask

LEMMA RemoveGoes ==
  ASSUME NEW t \in Task, t.op = "remove", NEW a \in {"start", "pop", "forget"}
  PROVE  LET u == [t EXCEPT !.at = a]
         IN  u \in Task /\ u.op = "remove" /\ u.at = a /\ u.names = t.names
<1>1. t \in RemoveTask
  BY KindOf
<1>2. [t EXCEPT !.at = a] \in RemoveTask
  BY <1>1 DEF RemoveTask
<1> QED  BY <1>1, <1>2, TaskKinds DEF RemoveTask

LEMMA RemoveRest ==
  ASSUME NEW t \in Task, t.op = "remove", NEW rest \in SUBSET Names
  PROVE  LET u == [t EXCEPT !.at = "pop", !.names = rest]
         IN  u \in Task /\ u.op = "remove" /\ u.at = "pop" /\ u.names = rest
<1>1. t \in RemoveTask
  BY KindOf
<1>2. [t EXCEPT !.at = "pop", !.names = rest] \in RemoveTask
  BY <1>1 DEF RemoveTask
<1> QED  BY <1>1, <1>2, TaskKinds DEF RemoveTask

LEMMA ResetGoes ==
  ASSUME NEW t \in Task, t.op = "reset"
  PROVE  LET u == [t EXCEPT !.at = "clear"]
         IN  u \in Task /\ u.op = "reset" /\ u.at = "clear"
<1>1. t \in ResetTask
  BY KindOf
<1>2. [t EXCEPT !.at = "clear"] \in ResetTask
  BY <1>1 DEF ResetTask
<1> QED  BY <1>1, <1>2, TaskKinds DEF ResetTask

LEMMA CopyGoes ==
  ASSUME NEW t \in Task, t.op = "list"
  PROVE  LET u == [t EXCEPT !.at = "copy"]
         IN  u \in Task /\ u.op = "list" /\ u.at = "copy"
<1>1. t \in CopyTask
  BY KindOf
<1>2. [t EXCEPT !.at = "copy"] \in CopyTask
  BY <1>1 DEF CopyTask
<1> QED  BY <1>1, <1>2, TaskKinds DEF CopyTask

LEMMA CopySends ==
  ASSUME NEW t \in Task, t.op = "list", NEW list \in BuzzerLists
  PROVE  LET u == [t EXCEPT !.at = "send", !.list = list]
         IN  u \in Task /\ u.op = "list" /\ u.at = "send" /\ u.list = list
<1>1. t \in CopyTask
  BY KindOf
<1>2. [t EXCEPT !.at = "send", !.list = list] \in CopyTask
  BY <1>1 DEF CopyTask
<1> QED  BY <1>1, <1>2, TaskKinds DEF CopyTask

-----------------------------------------------------------------------------
(* The maps of the backend are partial functions.                          *)
LEMMA PartialMap ==
  ASSUME NEW S, NEW T, NEW f
  PROVE  f \in PartialMaps(S, T) <=> DOMAIN f \subseteq S /\ f \in [DOMAIN f -> T]
BY DEF PartialMaps

LEMMA EmptyMap ==
  ASSUME NEW S, NEW T
  PROVE  <<>> \in PartialMaps(S, T)
<1>1. DOMAIN <<>> = {} /\ <<>> \in [{} -> T]
  OBVIOUS
<1> QED  BY <1>1, PartialMap

LEMMA AddTyped ==
  ASSUME NEW S, NEW T, NEW f \in PartialMaps(S, T), NEW k \in S, NEW v \in T
  PROVE  Add(f, k, v) \in PartialMaps(S, T) /\ DOMAIN Add(f, k, v) = DOMAIN f \cup {k}
BY PartialMap DEF Add

LEMMA PopTyped ==
  ASSUME NEW S, NEW T, NEW f \in PartialMaps(S, T), NEW k
  PROVE  Pop(f, k) \in PartialMaps(S, T) /\ DOMAIN Pop(f, k) = DOMAIN f \ {k}
BY PartialMap DEF Pop

LEMMA ExceptTyped ==
  ASSUME NEW S, NEW T, NEW f \in PartialMaps(S, T), NEW k \in DOMAIN f, NEW v \in T
  PROVE  [f EXCEPT ![k] = v] \in PartialMaps(S, T)
BY PartialMap

LEMMA CurrentListTyped ==
  ASSUME device_status_map \in PartialMaps(Names, Device)
  PROVE  CurrentList \in BuzzerLists /\ DOMAIN CurrentList = DOMAIN device_status_map
<1>1. /\ DOMAIN device_status_map \subseteq Names
      /\ \A n \in DOMAIN device_status_map : device_status_map[n] \in Device
  BY PartialMap
<1>2. \A n \in DOMAIN device_status_map :
        device_status_map[n].timestamp \in Timestamps \cup {None}
  BY <1>1 DEF Device
<1>3. CurrentList \in [DOMAIN device_status_map -> Timestamps \cup {None}]
  BY <1>2 DEF CurrentList
<1> QED  BY <1>1, <1>3, PartialMap DEF BuzzerLists

(* A press or a reset changes one field of a device.                       *)
LEMMA StampTyped ==
  ASSUME NEW d \in Device, NEW t \in Timestamps \cup {None}
  PROVE  [d EXCEPT !.timestamp = t] \in Device
BY DEF Device

LEMMA PressTyped ==
  ASSUME NEW f \in PartialMaps(Names, Device), NEW n \in DOMAIN f,
         NEW t \in Timestamps
  PROVE  /\ [f EXCEPT ![n].timestamp = t] \in PartialMaps(Names, Device)
         /\ DOMAIN [f EXCEPT ![n].timestamp = t] = DOMAIN f
<1>1. f[n] \in Device
  BY PartialMap
<1>2. [f[n] EXCEPT !.timestamp = t] \in Device
  BY <1>1, StampTyped
<1> QED  BY <1>2, PartialMap

-----------------------------------------------------------------------------
(* Locks and queues, typed.  Who waits for a lock waits at the place it    *)
(* goes to with the lock, and the lock is bound to a loop.                 *)
Lock == [holder : Threads \cup {"none"}, loop : Threads \cup {"none"},
         waiters : Seq(GoodTask)]
WaitPlaces(m) ==
  IF m = "status" THEN {"lookup", "insert", "record", "pop", "copy", "clear"}
  ELSE {"watch", "forget", "refresh", "check"}
Waiter(m) == {t \in GoodTask : t.at \in WaitPlaces(m)}

MutexTyped(mx) ==
  /\ mx \in [Mutexes -> Lock]
  /\ \A m \in Mutexes : /\ mx[m].waiters \in Seq(Waiter(m))
                        /\ mx[m].waiters # <<>> => mx[m].loop # "none"
TasksTyped(ts) == ts \in [Threads -> Seq(GoodTask)]

(* How many coroutines of a set wait for m in the loop of thread k, and    *)
(* how many belong to k, waiting or ready.                                 *)
Bound(mx, m, k, S) == IF mx[m].loop = k THEN Count(mx[m].waiters, S) ELSE 0
Own(ts, mx, k, S) ==
  Count(ts[k], S) + Bound(mx, "status", k, S) + Bound(mx, "heartbeat", k, S)
Total(ts, mx, S) == Own(ts, mx, "main", S) + Own(ts, mx, "receiver", S)

On(k, thr, task, S) == IF k = thr THEN Bit(task, S) ELSE 0

(* What k gets when m is released now.                                     *)
Handed(m, k, S) ==
  IF mutex[m].waiters = <<>> THEN 0
  ELSE On(k, mutex[m].loop, Head(mutex[m].waiters), S)

LEMMA OnTyped ==
  ASSUME NEW k, NEW thr, NEW task, NEW S
  PROVE  On(k, thr, task, S) \in Nat
BY DEF On, Bit

LEMMA HandedTyped ==
  ASSUME NEW m, NEW k, NEW S
  PROVE  Handed(m, k, S) \in Nat
BY OnTyped DEF Handed

LEMMA ReadyTyped ==
  ASSUME NEW ts, TasksTyped(ts), NEW k \in Threads, NEW S
  PROVE  Count(ts[k], S) \in Nat
BY PositionsFinite DEF TasksTyped

LEMMA WaitsTyped ==
  ASSUME NEW mx, MutexTyped(mx), NEW m \in Mutexes, NEW S
  PROVE  Count(mx[m].waiters, S) \in Nat
BY PositionsFinite DEF MutexTyped

LEMMA OwnTyped ==
  ASSUME NEW ts, TasksTyped(ts), NEW mx, MutexTyped(mx), NEW k \in Threads, NEW S
  PROVE  /\ Bound(mx, "status", k, S) \in Nat /\ Bound(mx, "heartbeat", k, S) \in Nat
         /\ Own(ts, mx, k, S) \in Nat
<1>1. /\ Count(mx["status"].waiters, S) \in Nat
      /\ Count(mx["heartbeat"].waiters, S) \in Nat
  BY WaitsTyped DEF Mutexes
<1>2. Count(ts[k], S) \in Nat
  BY ReadyTyped
<1> QED  BY <1>1, <1>2 DEF Own, Bound

LEMMA TotalTyped ==
  ASSUME NEW ts, TasksTyped(ts), NEW mx, MutexTyped(mx), NEW S
  PROVE  Total(ts, mx, S) \in Nat
<1>1. Own(ts, mx, "main", S) \in Nat /\ Own(ts, mx, "receiver", S) \in Nat
  BY OwnTyped DEF Threads
<1> QED  BY <1>1 DEF Total

-----------------------------------------------------------------------------
(* What the queue operations do to the ready coroutines of each thread.    *)
LEMMA DoneEffect ==
  ASSUME NEW ts, TasksTyped(ts), NEW thr \in Threads, ts[thr] # <<>>,
         NEW k \in Threads, NEW S
  PROVE  /\ TasksTyped(Done(ts, thr)) /\ Head(ts[thr]) \in GoodTask
         /\ Count(Done(ts, thr)[k], S)
              = Count(ts[k], S) - On(k, thr, Head(ts[thr]), S)
<1>1. /\ Head(ts[thr]) \in GoodTask /\ Tail(ts[thr]) \in Seq(GoodTask)
      /\ Count(ts[thr], S) = Bit(Head(ts[thr]), S) + Count(Tail(ts[thr]), S)
  BY HeadTailProperties, CountTail DEF TasksTyped
<1>2. /\ TasksTyped(Done(ts, thr)) /\ Done(ts, thr)[thr] = Tail(ts[thr])
      /\ k # thr => Done(ts, thr)[k] = ts[k]
  BY <1>1 DEF Done, TasksTyped
<1>3. /\ Count(ts[k], S) \in Nat /\ Count(Tail(ts[thr]), S) \in Nat
      /\ Bit(Head(ts[thr]), S) \in Nat
  BY <1>1, PositionsFinite DEF TasksTyped, Bit
<1> QED  BY <1>1, <1>2, <1>3 DEF On

LEMMA GotoEffect ==
  ASSUME NEW ts, TasksTyped(ts), NEW thr \in Threads, ts[thr] # <<>>,
         NEW task \in GoodTask, NEW k \in Threads, NEW S
  PROVE  /\ TasksTyped(Goto(ts, thr, task))
         /\ Goto(ts, thr, task)[thr] # <<>> /\ Head(Goto(ts, thr, task)[thr]) = task
         /\ Count(Goto(ts, thr, task)[k], S)
              = Count(ts[k], S) - On(k, thr, Head(ts[thr]), S) + On(k, thr, task, S)
<1> DEFINE rest == Tail(ts[thr])
<1>1. /\ Head(ts[thr]) \in GoodTask /\ rest \in Seq(GoodTask)
      /\ Count(ts[thr], S) = Bit(Head(ts[thr]), S) + Count(rest, S)
  BY HeadTailProperties, CountTail DEF TasksTyped
<1>2. /\ <<task>> \o rest \in Seq(GoodTask)
      /\ Count(<<task>> \o rest, S) = Bit(task, S) + Count(rest, S)
      /\ <<task>> \o rest # <<>> /\ Head(<<task>> \o rest) = task
  <2>1. <<task>> \in Seq(GoodTask) /\ Len(<<task>>) = 1 /\ Len(rest) \in Nat
    BY <1>1, LenProperties
  <2>2. /\ <<task>> \o rest \in Seq(GoodTask)
        /\ Len(<<task>> \o rest) = 1 + Len(rest) /\ (<<task>> \o rest)[1] = task
    BY <1>1, <2>1, ConcatProperties
  <2>3. <<task>> \o rest # <<>>
    BY <2>1, <2>2, EmptySeq
  <2>4. Head(<<task>> \o rest) = task
    BY <2>2, <2>3, HeadTailProperties
  <2>5. Count(<<task>> \o rest, S) = Bit(task, S) + Count(rest, S)
    BY <1>1, CountPrepend
  <2> QED  BY <2>2, <2>3, <2>4, <2>5
<1>3. /\ TasksTyped(Goto(ts, thr, task))
      /\ Goto(ts, thr, task)[thr] = <<task>> \o rest
      /\ k # thr => Goto(ts, thr, task)[k] = ts[k]
  BY <1>2 DEF Goto, TasksTyped
<1>4. /\ Count(ts[k], S) \in Nat /\ Count(rest, S) \in Nat
      /\ Bit(Head(ts[thr]), S) \in Nat /\ Bit(task, S) \in Nat
  BY <1>1, PositionsFinite DEF TasksTyped, Bit
<1> HIDE DEF rest
<1>5. CASE k = thr
  <2>1. On(k, thr, Head(ts[thr]), S) = Bit(Head(ts[thr]), S)
        /\ On(k, thr, task, S) = Bit(task, S)
    BY <1>5 DEF On
  <2>2. Count(Goto(ts, thr, task)[k], S) = Bit(task, S) + Count(rest, S)
    BY <1>2, <1>3, <1>5
  <2>3. Count(ts[k], S) = Bit(Head(ts[thr]), S) + Count(rest, S)
    BY <1>1, <1>5
  <2> QED  BY <1>2, <1>3, <1>4, <2>1, <2>2, <2>3
<1>6. CASE k # thr
  BY <1>2, <1>3, <1>4, <1>6 DEF On
<1> QED  BY <1>5, <1>6

LEMMA CreateEffect ==
  ASSUME NEW ts, TasksTyped(ts), NEW thr \in Threads, NEW task \in GoodTask,
         NEW k \in Threads, NEW S
  PROVE  /\ TasksTyped(create_task(ts, thr, task))
         /\ Count(create_task(ts, thr, task)[k], S)
              = Count(ts[k], S) + On(k, thr, task, S)
<1>1. /\ Append(ts[thr], task) \in Seq(GoodTask)
      /\ Count(Append(ts[thr], task), S) = Count(ts[thr], S) + Bit(task, S)
  BY AppendProperties, CountAppend DEF TasksTyped
<1>2. /\ TasksTyped(create_task(ts, thr, task))
      /\ create_task(ts, thr, task)[thr] = Append(ts[thr], task)
      /\ k # thr => create_task(ts, thr, task)[k] = ts[k]
  BY <1>1 DEF create_task, TasksTyped
<1>3. Count(ts[k], S) \in Nat
  BY PositionsFinite DEF TasksTyped
<1>4. CASE k = thr
  <2>1. On(k, thr, task, S) = Bit(task, S)
    BY <1>4 DEF On
  <2>2. Count(create_task(ts, thr, task)[k], S) = Count(Append(ts[thr], task), S)
    BY <1>2, <1>4
  <2> QED  BY <1>1, <1>2, <1>4, <2>1, <2>2
<1>5. CASE k # thr
  BY <1>2, <1>3, <1>5 DEF On
<1> QED  BY <1>4, <1>5

LEMMA WokenEffect ==
  ASSUME NEW ts, TasksTyped(ts), MutexTyped(mutex), NEW m \in Mutexes,
         NEW k \in Threads, NEW S
  PROVE  /\ TasksTyped(Woken(ts, m))
         /\ Count(Woken(ts, m)[k], S) = Count(ts[k], S) + Handed(m, k, S)
<1>0. Count(ts[k], S) \in Nat
  BY ReadyTyped
<1>1. CASE mutex[m].waiters = <<>>
  BY <1>0, <1>1 DEF Woken, Handed
<1>2. CASE mutex[m].waiters # <<>>
  <2> DEFINE task == Head(mutex[m].waiters)
  <2>1. task \in GoodTask /\ mutex[m].loop \in Threads
    BY <1>2, HeadTailProperties DEF MutexTyped, Waiter, Lock
  <2>2. CASE mutex[m].loop = "main"
    BY <1>2, <2>1, <2>2, CreateEffect DEF Woken, Handed, Threads
  <2>3. CASE mutex[m].loop = "receiver"
    <3>1. /\ <<task>> \o ts["receiver"] \in Seq(GoodTask)
          /\ Count(<<task>> \o ts["receiver"], S) = Bit(task, S) + Count(ts["receiver"], S)
      <4>1. <<task>> \in Seq(GoodTask) /\ ts["receiver"] \in Seq(GoodTask)
        BY <2>1 DEF TasksTyped, Threads
      <4> QED  BY <2>1, <4>1, ConcatProperties, CountPrepend
    <3>2. Woken(ts, m) = [ts EXCEPT !["receiver"] = <<task>> \o @]
      BY <1>2, <2>3 DEF Woken
    <3>3. Handed(m, k, S) = On(k, "receiver", task, S)
      BY <1>2, <2>3 DEF Handed
    <3> HIDE DEF task
    <3>4. /\ TasksTyped(Woken(ts, m))
          /\ Woken(ts, m)["receiver"] = <<task>> \o ts["receiver"]
          /\ k # "receiver" => Woken(ts, m)[k] = ts[k]
      BY <3>1, <3>2 DEF TasksTyped, Threads
    <3>5. Bit(task, S) \in Nat
      BY DEF Bit
    <3>6. CASE k = "receiver"
      <4>1. Handed(m, k, S) = Bit(task, S)
        BY <3>3, <3>6 DEF On
      <4>2. Count(Woken(ts, m)[k], S) = Bit(task, S) + Count(ts[k], S)
        BY <3>1, <3>4, <3>6
      <4> QED  BY <1>0, <3>4, <3>5, <4>1, <4>2
    <3>7. CASE k # "receiver"
      BY <1>0, <3>3, <3>4, <3>7 DEF On
    <3> QED  BY <3>6, <3>7
  <2> QED  BY <2>1, <2>2, <2>3 DEF Threads
<1> QED  BY <1>1, <1>2

(* What a release does to the lock.                                        *)
LEMMA ReleasedEffect ==
  ASSUME NEW mx, MutexTyped(mx), MutexTyped(mutex), NEW m \in Mutexes,
         mx[m] = mutex[m], NEW k \in Threads, NEW S
  PROVE  /\ MutexTyped(Released(mx, m))
         /\ \A j \in Mutexes \ {m} : Released(mx, m)[j] = mx[j]
         /\ Released(mx, m)[m].loop = mx[m].loop
         /\ Bound(Released(mx, m), m, k, S) = Bound(mx, m, k, S) - Handed(m, k, S)
         /\ IF mx[m].waiters = <<>>
              THEN /\ Released(mx, m)[m].holder = "none"
                   /\ Released(mx, m)[m].waiters = <<>>
              ELSE /\ Released(mx, m)[m].holder \in Threads
                   /\ Released(mx, m)[m].waiters = Tail(mx[m].waiters)
                   /\ Head(mx[m].waiters) \in Waiter(m)
<1>1. /\ mx[m] \in Lock /\ mx[m].waiters \in Seq(Waiter(m))
      /\ mx[m].waiters # <<>> => mx[m].loop \in Threads
  BY DEF MutexTyped, Lock
<1>2. CASE mx[m].waiters = <<>>
  <2>1. [mx[m] EXCEPT !.holder = "none"] \in Lock
    BY <1>1 DEF Lock
  <2>2. Released(mx, m) = [mx EXCEPT ![m] = [mx[m] EXCEPT !.holder = "none"]]
    BY <1>2 DEF Released
  <2>3. /\ [mx[m] EXCEPT !.holder = "none"].holder = "none"
        /\ [mx[m] EXCEPT !.holder = "none"].loop = mx[m].loop
        /\ [mx[m] EXCEPT !.holder = "none"].waiters = mx[m].waiters
    BY <1>1 DEF Lock
  <2>4. Handed(m, k, S) = 0 /\ Count(mx[m].waiters, S) \in Nat
    BY <1>1, <1>2, PositionsFinite DEF Handed
  <2> QED  BY <1>2, <2>1, <2>2, <2>3, <2>4 DEF MutexTyped, Bound
<1>3. CASE mx[m].waiters # <<>>
  <2> DEFINE l == [mx[m] EXCEPT !.holder = mx[m].loop, !.waiters = Tail(@)]
  <2>1. /\ Tail(mx[m].waiters) \in Seq(Waiter(m)) /\ Head(mx[m].waiters) \in Waiter(m)
        /\ Tail(mx[m].waiters) \in Seq(GoodTask)
    <3>1. /\ Tail(mx[m].waiters) \in Seq(Waiter(m))
          /\ Head(mx[m].waiters) \in Waiter(m)
      BY <1>1, <1>3, HeadTailProperties
    <3>2. Waiter(m) \subseteq GoodTask
      BY DEF Waiter
    <3> QED  BY <3>1, <3>2, SeqMonotonic
  <2>2. l \in Lock
    BY <1>1, <1>3, <2>1 DEF Lock
  <2>3. /\ l.holder = mx[m].loop /\ l.loop = mx[m].loop
        /\ l.waiters = Tail(mx[m].waiters)
    BY <1>1 DEF Lock
  <2>4. Released(mx, m) = [mx EXCEPT ![m] = l]
    BY <1>3 DEF Released
  <2>5. Count(mx[m].waiters, S)
          = Bit(Head(mx[m].waiters), S) + Count(Tail(mx[m].waiters), S)
    BY <1>1, <1>3, CountTail
  <2>6. /\ Count(Tail(mx[m].waiters), S) \in Nat
        /\ Bit(Head(mx[m].waiters), S) \in Nat
        /\ Handed(m, k, S) = On(k, mx[m].loop, Head(mx[m].waiters), S)
    BY <1>3, <2>1, PositionsFinite DEF Handed, Bit
  <2> HIDE DEF l
  <2>7. /\ Released(mx, m)[m] = l
        /\ \A j \in Mutexes \ {m} : Released(mx, m)[j] = mx[j]
        /\ Released(mx, m) \in [Mutexes -> Lock]
    BY <2>2, <2>4 DEF MutexTyped
  <2>8. MutexTyped(Released(mx, m))
    BY <1>1, <1>3, <2>1, <2>3, <2>7 DEF MutexTyped
  <2>9. Bound(Released(mx, m), m, k, S) = Bound(mx, m, k, S) - Handed(m, k, S)
    BY <2>3, <2>5, <2>6, <2>7 DEF Bound, On
  <2> QED  BY <1>1, <1>3, <2>1, <2>3, <2>7, <2>8, <2>9
<1> QED  BY <1>2, <1>3

-----------------------------------------------------------------------------
(* The same in terms of who belongs to which thread.  Handing a lock over  *)
(* makes a waiting coroutine a ready one of the same thread.               *)
LEMMA OwnDone ==
  ASSUME NEW ts, TasksTyped(ts), NEW mx, MutexTyped(mx), NEW thr \in Threads,
         ts[thr] # <<>>, NEW k \in Threads, NEW S
  PROVE  Own(Done(ts, thr), mx, k, S)
           = Own(ts, mx, k, S) - On(k, thr, Head(ts[thr]), S)
<1>1. /\ Count(Done(ts, thr)[k], S) = Count(ts[k], S) - On(k, thr, Head(ts[thr]), S)
  BY DoneEffect
<1>2. Count(ts[k], S) \in Nat /\ On(k, thr, Head(ts[thr]), S) \in Nat
  BY ReadyTyped, OnTyped
<1>3. Bound(mx, "status", k, S) \in Nat /\ Bound(mx, "heartbeat", k, S) \in Nat
  BY OwnTyped
<1> QED  BY <1>1, <1>2, <1>3 DEF Own

LEMMA OwnGoto ==
  ASSUME NEW ts, TasksTyped(ts), NEW mx, MutexTyped(mx), NEW thr \in Threads,
         ts[thr] # <<>>, NEW task \in GoodTask, NEW k \in Threads, NEW S
  PROVE  Own(Goto(ts, thr, task), mx, k, S)
           = Own(ts, mx, k, S) - On(k, thr, Head(ts[thr]), S) + On(k, thr, task, S)
<1>1. Count(Goto(ts, thr, task)[k], S)
        = Count(ts[k], S) - On(k, thr, Head(ts[thr]), S) + On(k, thr, task, S)
  BY GotoEffect
<1>2. /\ Count(ts[k], S) \in Nat /\ On(k, thr, Head(ts[thr]), S) \in Nat
      /\ On(k, thr, task, S) \in Nat
  BY ReadyTyped, OnTyped
<1>3. Bound(mx, "status", k, S) \in Nat /\ Bound(mx, "heartbeat", k, S) \in Nat
  BY OwnTyped
<1> QED  BY <1>1, <1>2, <1>3 DEF Own

LEMMA OwnCreate ==
  ASSUME NEW ts, TasksTyped(ts), NEW mx, MutexTyped(mx), NEW thr \in Threads,
         NEW task \in GoodTask, NEW k \in Threads, NEW S
  PROVE  Own(create_task(ts, thr, task), mx, k, S)
           = Own(ts, mx, k, S) + On(k, thr, task, S)
<1>1. Count(create_task(ts, thr, task)[k], S) = Count(ts[k], S) + On(k, thr, task, S)
  BY CreateEffect
<1>2. Count(ts[k], S) \in Nat /\ On(k, thr, task, S) \in Nat
  BY ReadyTyped, OnTyped
<1>3. Bound(mx, "status", k, S) \in Nat /\ Bound(mx, "heartbeat", k, S) \in Nat
  BY OwnTyped
<1> QED  BY <1>1, <1>2, <1>3 DEF Own

LEMMA HandOver ==
  ASSUME NEW ts, TasksTyped(ts), NEW mx, MutexTyped(mx), MutexTyped(mutex),
         NEW m \in Mutexes, mx[m] = mutex[m], NEW k \in Threads, NEW S
  PROVE  /\ TasksTyped(Woken(ts, m)) /\ MutexTyped(Released(mx, m))
         /\ \A j \in Mutexes \ {m} : Released(mx, m)[j] = mx[j]
         /\ Own(Woken(ts, m), Released(mx, m), k, S) = Own(ts, mx, k, S)
<1>1. /\ MutexTyped(Released(mx, m))
      /\ \A j \in Mutexes \ {m} : Released(mx, m)[j] = mx[j]
      /\ Bound(Released(mx, m), m, k, S) = Bound(mx, m, k, S) - Handed(m, k, S)
  BY ReleasedEffect
<1>2. /\ TasksTyped(Woken(ts, m))
      /\ Count(Woken(ts, m)[k], S) = Count(ts[k], S) + Handed(m, k, S)
  BY WokenEffect
<1>3. Count(ts[k], S) \in Nat /\ Handed(m, k, S) \in Nat
  BY ReadyTyped, HandedTyped
<1>4. Bound(mx, "status", k, S) \in Nat /\ Bound(mx, "heartbeat", k, S) \in Nat
  BY OwnTyped
<1>5. \A j \in Mutexes \ {m} : Bound(Released(mx, m), j, k, S) = Bound(mx, j, k, S)
  BY <1>1 DEF Bound
<1>6. CASE m = "status"
  <2>1. Bound(Released(mx, m), "heartbeat", k, S) = Bound(mx, "heartbeat", k, S)
    BY <1>5, <1>6 DEF Mutexes
  <2> QED  BY <1>1, <1>2, <1>3, <1>4, <1>6, <2>1 DEF Own
<1>7. CASE m = "heartbeat"
  <2>1. Bound(Released(mx, m), "status", k, S) = Bound(mx, "status", k, S)
    BY <1>5, <1>7 DEF Mutexes
  <2> QED  BY <1>1, <1>2, <1>3, <1>4, <1>7, <2>1 DEF Own
<1> QED  BY <1>1, <1>2, <1>6, <1>7 DEF Mutexes

(* A free lock is taken.                                                   *)
LEMMA TakeTyped ==
  ASSUME NEW mx, MutexTyped(mx), NEW m \in Mutexes, NEW thr \in Threads,
         NEW ts, NEW k \in Threads, NEW S
  PROVE  LET took == [mx EXCEPT ![m].holder = thr]
         IN  /\ MutexTyped(took)
             /\ \A j \in Mutexes \ {m} : took[j] = mx[j]
             /\ took[m].holder = thr /\ took[m].loop = mx[m].loop
             /\ took[m].waiters = mx[m].waiters
             /\ Own(ts, took, k, S) = Own(ts, mx, k, S)
<1> DEFINE took == [mx EXCEPT ![m].holder = thr]
<1>1. mx[m] \in Lock
  BY DEF MutexTyped
<1>2. [mx[m] EXCEPT !.holder = thr] \in Lock
  BY <1>1 DEF Lock
<1>3. /\ took \in [Mutexes -> Lock] /\ \A j \in Mutexes \ {m} : took[j] = mx[j]
      /\ took[m] = [mx[m] EXCEPT !.holder = thr]
  BY <1>2 DEF MutexTyped
<1>4. /\ took[m].holder = thr /\ took[m].loop = mx[m].loop
      /\ took[m].waiters = mx[m].waiters
  BY <1>1, <1>3 DEF Lock
<1> HIDE DEF took
<1>5. \A j \in Mutexes : took[j].loop = mx[j].loop /\ took[j].waiters = mx[j].waiters
  BY <1>3, <1>4
<1>6. MutexTyped(took)
  BY <1>3, <1>5 DEF MutexTyped
<1>7. \A j \in Mutexes : Bound(took, j, k, S) = Bound(mx, j, k, S)
  BY <1>5 DEF Bound
<1> QED  BY <1>3, <1>4, <1>6, <1>7 DEF Own, Mutexes, took

(* A coroutine of thr begins to wait, in a loop the lock is not kept from. *)
Enqueued(mx, m, thr, task) ==
  [mx EXCEPT ![m].loop = thr, ![m].waiters = Append(@, task)]

LEMMA WaitTyped ==
  ASSUME NEW mx, MutexTyped(mx), NEW m \in Mutexes, NEW thr \in Threads,
         mx[m].loop \in {"none", thr}, NEW task \in Waiter(m),
         NEW ts, TasksTyped(ts), NEW k \in Threads, NEW S
  PROVE  LET waits == Enqueued(mx, m, thr, task)
         IN  /\ MutexTyped(waits)
             /\ \A j \in Mutexes \ {m} : waits[j] = mx[j]
             /\ waits[m].holder = mx[m].holder /\ waits[m].loop = thr
             /\ waits[m].waiters = Append(mx[m].waiters, task)
             /\ Own(ts, waits, k, S) = Own(ts, mx, k, S) + On(k, thr, task, S)
<1> DEFINE queue == Append(mx[m].waiters, task)
           l == [mx[m] EXCEPT !.loop = thr, !.waiters = queue]
           waits == Enqueued(mx, m, thr, task)
<1>1. /\ mx[m] \in Lock /\ mx[m].waiters \in Seq(Waiter(m)) /\ task \in GoodTask
      /\ mx[m].waiters # <<>> => mx[m].loop = thr
  BY DEF MutexTyped, Lock, Waiter
<1>2. /\ queue \in Seq(Waiter(m)) /\ queue \in Seq(GoodTask)
      /\ Count(queue, S) = Count(mx[m].waiters, S) + Bit(task, S)
  BY <1>1, AppendProperties, CountAppend DEF Lock
<1> HIDE DEF queue
<1>3. /\ l \in Lock /\ l.holder = mx[m].holder /\ l.loop = thr
      /\ l.waiters = queue
  BY <1>1, <1>2 DEF Lock
<1>4. waits = [mx EXCEPT ![m] = l]
  BY DEF queue, Enqueued
<1> HIDE DEF l, waits
<1>5. /\ waits \in [Mutexes -> Lock] /\ \A j \in Mutexes \ {m} : waits[j] = mx[j]
      /\ waits[m] = l
  BY <1>3, <1>4 DEF MutexTyped
<1>6. MutexTyped(waits)
  <2>1. ASSUME NEW j \in Mutexes
        PROVE  /\ waits[j].waiters \in Seq(Waiter(j))
               /\ waits[j].waiters # <<>> => waits[j].loop # "none"
    <3>1. CASE j = m
      BY <1>2, <1>3, <1>5, <3>1 DEF Threads
    <3>2. CASE j # m
      BY <1>5, <3>2 DEF MutexTyped
    <3> QED  BY <3>1, <3>2
  <2> QED  BY <1>5, <2>1 DEF MutexTyped
<1>7. Bound(waits, m, k, S) = Bound(mx, m, k, S) + On(k, thr, task, S)
  <2>1. Count(mx[m].waiters, S) \in Nat /\ Bit(task, S) \in Nat
    BY WaitsTyped DEF Bit
  <2>2. mx[m].waiters = <<>> => Count(mx[m].waiters, S) = 0
    BY CountNone
  <2>3. CASE k = thr
    <3>1. Bound(waits, m, k, S) = Count(queue, S)
      BY <1>3, <1>5, <2>3 DEF Bound
    <3>2. Bound(mx, m, k, S) = Count(mx[m].waiters, S)
      BY <1>1, <2>2, <2>3 DEF Bound
    <3>3. On(k, thr, task, S) = Bit(task, S)
      BY <2>3 DEF On
    <3> QED  BY <1>2, <2>1, <3>1, <3>2, <3>3
  <2>4. CASE k # thr
    <3>1. Bound(waits, m, k, S) = 0 /\ On(k, thr, task, S) = 0
      BY <1>3, <1>5, <2>4 DEF Bound, On
    <3>2. Bound(mx, m, k, S) = 0
      BY <2>4 DEF Bound, Threads
    <3> QED  BY <3>1, <3>2
  <2> QED  BY <2>3, <2>4
<1>8. \A j \in Mutexes \ {m} : Bound(waits, j, k, S) = Bound(mx, j, k, S)
  BY <1>5 DEF Bound
<1>9. /\ Count(ts[k], S) \in Nat /\ On(k, thr, task, S) \in Nat
      /\ Bound(mx, "status", k, S) \in Nat /\ Bound(mx, "heartbeat", k, S) \in Nat
  BY ReadyTyped, OnTyped, OwnTyped
<1>10. Own(ts, waits, k, S) = Own(ts, mx, k, S) + On(k, thr, task, S)
  <2>1. CASE m = "status"
    BY <1>7, <1>8, <1>9, <2>1 DEF Own, Mutexes
  <2>2. CASE m = "heartbeat"
    BY <1>7, <1>8, <1>9, <2>2 DEF Own, Mutexes
  <2> QED  BY <2>1, <2>2 DEF Mutexes
<1> QED  BY <1>3, <1>5, <1>6, <1>10 DEF waits, queue

-----------------------------------------------------------------------------
(* What a step of thread thr does to both: task is what its coroutine, the *)
(* head of the queue, goes on as.                                          *)
QueuesTyped == TasksTyped(tasks) /\ MutexTyped(mutex)
Runs(thr) == thr \in Threads /\ tasks[thr] # <<>>

Ends(thr, S) ==
  \A k \in Threads : Own(tasks', mutex', k, S)
                       = Own(tasks, mutex, k, S) - On(k, thr, Now(thr), S)
GoesOn(thr, task, S) ==
  \A k \in Threads : Own(tasks', mutex', k, S) = Own(tasks, mutex, k, S)
                       - On(k, thr, Now(thr), S) + On(k, thr, task, S)
Begins(thr, task, S) ==
  \A k \in Threads : Own(tasks', mutex', k, S)
                       = Own(tasks, mutex, k, S) + On(k, thr, task, S)

LEMMA DoneMoves ==
  ASSUME QueuesTyped, NEW thr \in Threads, Runs(thr), tasks' = Done(tasks, thr),
         mutex' = mutex, NEW S
  PROVE  QueuesTyped' /\ Ends(thr, S)
<1> SUFFICES ASSUME NEW k \in Threads
             PROVE  /\ QueuesTyped'
                    /\ Own(tasks', mutex', k, S)
                         = Own(tasks, mutex, k, S) - On(k, thr, Now(thr), S)
  BY DEF Ends, Threads
<1>1. TasksTyped(Done(tasks, thr))
  BY DoneEffect DEF QueuesTyped, Runs
<1>2. Own(Done(tasks, thr), mutex, k, S)
        = Own(tasks, mutex, k, S) - On(k, thr, Head(tasks[thr]), S)
  BY OwnDone DEF QueuesTyped, Runs
<1> QED  BY <1>1, <1>2 DEF QueuesTyped, Now

LEMMA CreateMoves ==
  ASSUME QueuesTyped, NEW thr \in Threads, NEW task \in GoodTask,
         tasks' = create_task(tasks, thr, task), mutex' = mutex,
         NEW S
  PROVE  QueuesTyped' /\ Begins(thr, task, S)
<1> SUFFICES ASSUME NEW k \in Threads
             PROVE  /\ QueuesTyped'
                    /\ Own(tasks', mutex', k, S)
                         = Own(tasks, mutex, k, S) + On(k, thr, task, S)
  BY DEF Begins, Threads
<1>1. TasksTyped(create_task(tasks, thr, task))
  BY CreateEffect DEF QueuesTyped
<1>2. Own(create_task(tasks, thr, task), mutex, k, S)
        = Own(tasks, mutex, k, S) + On(k, thr, task, S)
  BY OwnCreate DEF QueuesTyped
<1> QED  BY <1>1, <1>2 DEF QueuesTyped

LEMMA LeaveMoves ==
  ASSUME QueuesTyped, NEW thr \in Threads, Runs(thr), NEW m \in Mutexes,
         Leave(thr, m), NEW S
  PROVE  QueuesTyped' /\ Ends(thr, S)
<1> SUFFICES ASSUME NEW k \in Threads
             PROVE  /\ QueuesTyped'
                    /\ Own(tasks', mutex', k, S)
                         = Own(tasks, mutex, k, S) - On(k, thr, Now(thr), S)
  BY DEF Ends, Threads
<1> DEFINE ts == Done(tasks, thr)
<1>1. TasksTyped(ts)
  BY DoneEffect DEF QueuesTyped, Runs
<1>2. Own(ts, mutex, k, S) = Own(tasks, mutex, k, S) - On(k, thr, Now(thr), S)
  BY OwnDone DEF QueuesTyped, Runs, Now
<1> HIDE DEF ts
<1>3. /\ TasksTyped(Woken(ts, m)) /\ MutexTyped(Released(mutex, m))
      /\ Own(Woken(ts, m), Released(mutex, m), k, S) = Own(ts, mutex, k, S)
  BY <1>1, HandOver DEF QueuesTyped
<1> QED  BY <1>2, <1>3 DEF Leave, QueuesTyped, ts

(* The coroutine goes on after the lock.                                   *)
LEMMA LeaveGoesOn ==
  ASSUME QueuesTyped, NEW thr \in Threads, Runs(thr), NEW m \in Mutexes,
         NEW task \in GoodTask, mutex' = Released(mutex, m),
         tasks' = Woken(Goto(tasks, thr, task), m), NEW S
  PROVE  QueuesTyped' /\ GoesOn(thr, task, S)
<1> SUFFICES ASSUME NEW k \in Threads
             PROVE  /\ QueuesTyped'
                    /\ Own(tasks', mutex', k, S) = Own(tasks, mutex, k, S)
                         - On(k, thr, Now(thr), S) + On(k, thr, task, S)
  BY DEF GoesOn, Threads
<1> DEFINE ts == Goto(tasks, thr, task)
<1>1. TasksTyped(ts)
  BY GotoEffect DEF QueuesTyped, Runs
<1>2. Own(ts, mutex, k, S) = Own(tasks, mutex, k, S)
        - On(k, thr, Now(thr), S) + On(k, thr, task, S)
  BY OwnGoto DEF QueuesTyped, Runs, Now
<1> HIDE DEF ts
<1>3. /\ TasksTyped(Woken(ts, m)) /\ MutexTyped(Released(mutex, m))
      /\ Own(Woken(ts, m), Released(mutex, m), k, S) = Own(ts, mutex, k, S)
  BY <1>1, HandOver DEF QueuesTyped
<1> QED  BY <1>2, <1>3 DEF QueuesTyped, ts

(* The coroutine ends, another one is created behind those that were woken.*)
LEMMA LeaveCreates ==
  ASSUME QueuesTyped, NEW thr \in Threads, Runs(thr), NEW m \in Mutexes,
         NEW task \in GoodTask, mutex' = Released(mutex, m),
         tasks' = create_task(Woken(Done(tasks, thr), m), thr, task),
         NEW S
  PROVE  QueuesTyped' /\ GoesOn(thr, task, S)
<1> SUFFICES ASSUME NEW k \in Threads
             PROVE  /\ QueuesTyped'
                    /\ Own(tasks', mutex', k, S) = Own(tasks, mutex, k, S)
                         - On(k, thr, Now(thr), S) + On(k, thr, task, S)
  BY DEF GoesOn, Threads
<1> DEFINE ts == Done(tasks, thr)
           us == Woken(ts, m)
           mx == Released(mutex, m)
<1>1. TasksTyped(ts)
  BY DoneEffect DEF QueuesTyped, Runs
<1>2. Own(ts, mutex, k, S) = Own(tasks, mutex, k, S) - On(k, thr, Now(thr), S)
  BY OwnDone DEF QueuesTyped, Runs, Now
<1> HIDE DEF ts
<1>3. /\ TasksTyped(us) /\ MutexTyped(mx)
      /\ Own(us, mx, k, S) = Own(ts, mutex, k, S)
  BY <1>1, HandOver DEF QueuesTyped
<1> HIDE DEF us, mx
<1>4. /\ TasksTyped(create_task(us, thr, task))
      /\ Own(create_task(us, thr, task), mx, k, S)
           = Own(us, mx, k, S) + On(k, thr, task, S)
  BY <1>3, CreateEffect, OwnCreate
<1> QED  BY <1>2, <1>3, <1>4 DEF QueuesTyped, ts, us, mx

LEMMA RaiseMoves ==
  ASSUME QueuesTyped, NEW thr \in Threads, Runs(thr),
         NEW held \in Mutexes \cup {"none"}, Raise(thr, held),
         NEW S
  PROVE  QueuesTyped' /\ Ends(thr, S)
<1>1. CASE held = "none"
  BY <1>1, DoneMoves DEF Raise
<1>2. CASE held # "none"
  BY <1>2, LeaveMoves DEF Raise, Leave
<1> QED  BY <1>1, <1>2

(* The lock is free, or kept for later, or lost to the other loop.         *)
LEMMA AcquireMoves ==
  ASSUME QueuesTyped, NEW thr \in Threads, Runs(thr), NEW m \in Mutexes,
         NEW task \in Waiter(m), NEW held \in Mutexes \cup {"none"},
         Acquire(thr, m, task, held), NEW S
  PROVE  /\ QueuesTyped'
         /\ IF mutex[m].holder # "none" /\ ~MayWait(thr, m)
              THEN Raise(thr, held) /\ Ends(thr, S)
              ELSE UNCHANGED <<monitor, receiver_alive>> /\ GoesOn(thr, task, S)
<1>0. task \in GoodTask
  BY DEF Waiter
<1>1. CASE mutex[m].holder # "none" /\ ~MayWait(thr, m)
  BY <1>1, RaiseMoves DEF Acquire
<1>2. CASE mutex[m].holder = "none"
  <2> SUFFICES ASSUME NEW k \in Threads
               PROVE  /\ QueuesTyped' /\ UNCHANGED <<monitor, receiver_alive>>
                      /\ Own(tasks', mutex', k, S) = Own(tasks, mutex, k, S)
                           - On(k, thr, Now(thr), S) + On(k, thr, task, S)
    BY <1>2 DEF GoesOn, Threads
  <2> DEFINE took == [mutex EXCEPT ![m].holder = thr]
             ts == Goto(tasks, thr, task)
  <2>1. TasksTyped(ts)
    BY <1>0, GotoEffect DEF QueuesTyped, Runs
  <2>2. Own(ts, mutex, k, S) = Own(tasks, mutex, k, S)
          - On(k, thr, Now(thr), S) + On(k, thr, task, S)
    BY <1>0, OwnGoto DEF QueuesTyped, Runs, Now
  <2> HIDE DEF ts
  <2>3. MutexTyped(took) /\ Own(ts, took, k, S) = Own(ts, mutex, k, S)
    BY TakeTyped DEF QueuesTyped
  <2> QED  BY <1>2, <2>1, <2>2, <2>3 DEF Acquire, QueuesTyped, ts
<1>3. CASE mutex[m].holder # "none" /\ MayWait(thr, m)
  <2> SUFFICES ASSUME NEW k \in Threads
               PROVE  /\ QueuesTyped' /\ UNCHANGED <<monitor, receiver_alive>>
                      /\ Own(tasks', mutex', k, S) = Own(tasks, mutex, k, S)
                           - On(k, thr, Now(thr), S) + On(k, thr, task, S)
    BY <1>3 DEF GoesOn, Threads
  <2> DEFINE waits == Enqueued(mutex, m, thr, task)
             ts == Done(tasks, thr)
  <2>0. mutex[m].loop \in {"none", thr}
    BY <1>3 DEF MayWait
  <2>1. TasksTyped(ts)
    BY DoneEffect DEF QueuesTyped, Runs
  <2>2. Own(ts, mutex, k, S) = Own(tasks, mutex, k, S) - On(k, thr, Now(thr), S)
    BY OwnDone DEF QueuesTyped, Runs, Now
  <2> HIDE DEF ts
  <2>3. MutexTyped(waits)
        /\ Own(ts, waits, k, S) = Own(ts, mutex, k, S) + On(k, thr, task, S)
    BY <2>0, <2>1, WaitTyped DEF QueuesTyped
  <2> QED  BY <1>3, <2>1, <2>2, <2>3 DEF Acquire, Enqueued, QueuesTyped, ts
<1> QED  BY <1>1, <1>2, <1>3

(* The same for all coroutines together.                                   *)
LEMMA MovesTotal ==
  ASSUME QueuesTyped, QueuesTyped', NEW thr \in Threads, NEW S
  PROVE  /\ Total(tasks, mutex, S) \in Nat /\ Total(tasks', mutex', S) \in Nat
         /\ Ends(thr, S) => Total(tasks', mutex', S)
                              = Total(tasks, mutex, S) - Bit(Now(thr), S)
         /\ \A task : GoesOn(thr, task, S) =>
              Total(tasks', mutex', S)
                = Total(tasks, mutex, S) - Bit(Now(thr), S) + Bit(task, S)
         /\ \A task : Begins(thr, task, S) =>
              Total(tasks', mutex', S) = Total(tasks, mutex, S) + Bit(task, S)
<1>1. /\ Own(tasks, mutex, "main", S) \in Nat /\ Own(tasks, mutex, "receiver", S) \in Nat
      /\ Own(tasks', mutex', "main", S) \in Nat
      /\ Own(tasks', mutex', "receiver", S) \in Nat
  BY OwnTyped DEF QueuesTyped, Threads
<1>2. \A task : On("main", thr, task, S) + On("receiver", thr, task, S) = Bit(task, S)
                /\ On("main", thr, task, S) \in Nat /\ On("receiver", thr, task, S) \in Nat
  BY DEF On, Bit, Threads
<1>3. "main" \in Threads /\ "receiver" \in Threads
  BY DEF Threads
<1>4. Ends(thr, S) => Total(tasks', mutex', S)
                        = Total(tasks, mutex, S) - Bit(Now(thr), S)
  BY <1>1, <1>2, <1>3 DEF Ends, Total
<1>5. ASSUME NEW task, GoesOn(thr, task, S)
      PROVE  Total(tasks', mutex', S)
               = Total(tasks, mutex, S) - Bit(Now(thr), S) + Bit(task, S)
  BY <1>1, <1>2, <1>3, <1>5 DEF GoesOn, Total
<1>6. ASSUME NEW task, Begins(thr, task, S)
      PROVE  Total(tasks', mutex', S) = Total(tasks, mutex, S) + Bit(task, S)
  BY <1>1, <1>2, <1>3, <1>6 DEF Begins, Total
<1> QED  BY <1>1, <1>4, <1>5, <1>6 DEF Total

(* The coroutines in one row are those of both threads.                    *)
LEMMA CoroutinesTotal ==
  ASSUME QueuesTyped
  PROVE  /\ Coroutines \in Seq(GoodTask)
         /\ \A S : Count(Coroutines, S) = Total(tasks, mutex, S)
<1> DEFINE a == tasks["main"] \o tasks["receiver"]
           b == a \o mutex["status"].waiters
           c == b \o mutex["heartbeat"].waiters
<1>1. /\ tasks["main"] \in Seq(GoodTask) /\ tasks["receiver"] \in Seq(GoodTask)
      /\ \A m \in Mutexes : /\ mutex[m].waiters \in Seq(GoodTask)
                            /\ mutex[m].loop \in Threads \cup {"none"}
                            /\ mutex[m].waiters # <<>> => mutex[m].loop # "none"
  BY DEF QueuesTyped, TasksTyped, MutexTyped, Lock, Threads
<1>2. a \in Seq(GoodTask) /\ \A S : Count(a, S) = Count(tasks["main"], S)
                                      + Count(tasks["receiver"], S)
  BY <1>1, ConcatProperties, CountConcat
<1> HIDE DEF a
<1>3. b \in Seq(GoodTask) /\ \A S : Count(b, S) = Count(a, S)
                                      + Count(mutex["status"].waiters, S)
  BY <1>1, <1>2, ConcatProperties, CountConcat DEF Mutexes
<1> HIDE DEF b
<1>4. c \in Seq(GoodTask) /\ \A S : Count(c, S) = Count(b, S)
                                      + Count(mutex["heartbeat"].waiters, S)
  BY <1>1, <1>3, ConcatProperties, CountConcat DEF Mutexes
<1>5. ASSUME NEW S, NEW m \in Mutexes
      PROVE  /\ Bound(mutex, m, "main", S) \in Nat /\ Bound(mutex, m, "receiver", S) \in Nat
             /\ Bound(mutex, m, "main", S) + Bound(mutex, m, "receiver", S)
                  = Count(mutex[m].waiters, S)
  <2>1. Count(mutex[m].waiters, S) \in Nat
    BY WaitsTyped DEF QueuesTyped
  <2>2. mutex[m].waiters = <<>> => Count(mutex[m].waiters, S) = 0
    BY CountNone
  <2> QED  BY <1>1, <2>1, <2>2 DEF Bound, Threads
<1>6. ASSUME NEW S PROVE Count(c, S) = Total(tasks, mutex, S)
  <2>1. Count(tasks["main"], S) \in Nat /\ Count(tasks["receiver"], S) \in Nat
    BY ReadyTyped DEF QueuesTyped, Threads
  <2> HIDE DEF c
  <2> QED  BY <1>2, <1>3, <1>4, <1>5, <2>1 DEF Total, Own, Mutexes
<1> QED  BY <1>4, <1>6 DEF Coroutines, a, b

LEMMA UnfinishedTotal ==
  ASSUME QueuesTyped, NEW ops
  PROVE  Unfinished(ops) = Total(tasks, mutex, {t \in Task : t.op \in ops})
<1>1. Coroutines \in Seq(GoodTask)
      /\ Count(Coroutines, {t \in Task : t.op \in ops})
           = Total(tasks, mutex, {t \in Task : t.op \in ops})
  BY CoroutinesTotal
<1>2. \A i \in DOMAIN Coroutines : Coroutines[i] \in Task
  BY <1>1, ElementOfSeq, LenProperties DEF GoodTask
<1>3. {i \in DOMAIN Coroutines : Coroutines[i].op \in ops}
        = Positions(Coroutines, {t \in Task : t.op \in ops})
  BY <1>2 DEF Positions
<1> QED  BY <1>1, <1>3 DEF Unfinished, Count

LEMMA NowTyped ==
  ASSUME QueuesTyped, NEW thr \in Threads, NEW op, NEW at, At(thr, op, at)
  PROVE  /\ Runs(thr) /\ Now(thr) \in GoodTask /\ Now(thr) \in Task
         /\ Now(thr).op = op /\ Now(thr).at = at
         /\ \A S : Bit(Now(thr), S) <= Total(tasks, mutex, S)
<1>1. /\ tasks[thr] \in Seq(GoodTask) /\ tasks[thr] # <<>>
      /\ Now(thr).op = op /\ Now(thr).at = at
  BY DEF QueuesTyped, TasksTyped, At, Now
<1>2. Now(thr) \in GoodTask /\ Tail(tasks[thr]) \in Seq(GoodTask)
  BY <1>1, HeadTailProperties DEF Now
<1>3. ASSUME NEW S PROVE Bit(Now(thr), S) <= Total(tasks, mutex, S)
  <2>1. /\ Count(tasks[thr], S) = Bit(Now(thr), S) + Count(Tail(tasks[thr]), S)
        /\ Count(Tail(tasks[thr]), S) \in Nat /\ Bit(Now(thr), S) \in Nat
    BY <1>1, <1>2, CountTail, PositionsFinite DEF Now, Bit
  <2>2. \A k \in Threads : /\ Count(tasks[k], S) \in Nat
                           /\ Bound(mutex, "status", k, S) \in Nat
                           /\ Bound(mutex, "heartbeat", k, S) \in Nat
    BY ReadyTyped, OwnTyped DEF QueuesTyped
  <2>3. Count(tasks[thr], S) <= Total(tasks, mutex, S)
    BY <2>2 DEF Total, Own, Threads
  <2>4. Total(tasks, mutex, S) \in Nat
    BY TotalTyped DEF QueuesTyped
  <2> QED  BY <2>1, <2>3, <2>4
<1> QED  BY <1>1, <1>2, <1>3 DEF Runs, GoodTask

(* Both locks are left, and the UI is told, in either order.               *)
LEMMA LeaveBothCreates ==
  ASSUME QueuesTyped, NEW thr \in Threads, Runs(thr), NEW task \in GoodTask,
         mutex' = Released(Released(mutex, "heartbeat"), "status"),
         \/ tasks' = Woken(create_task(Woken(Done(tasks, thr), "heartbeat"),
                                       thr, task), "status")
         \/ tasks' = create_task(Woken(Woken(Done(tasks, thr), "heartbeat"),
                                       "status"), thr, task),
         NEW S
  PROVE  QueuesTyped' /\ GoesOn(thr, task, S)
<1> SUFFICES ASSUME NEW k \in Threads
             PROVE  /\ QueuesTyped'
                    /\ Own(tasks', mutex', k, S) = Own(tasks, mutex, k, S)
                         - On(k, thr, Now(thr), S) + On(k, thr, task, S)
  BY DEF GoesOn, Threads
<1> DEFINE ts == Done(tasks, thr)
           us == Woken(ts, "heartbeat")
           mx == Released(mutex, "heartbeat")
           m2 == Released(mx, "status")
<1>0. "heartbeat" \in Mutexes /\ "status" \in Mutexes \ {"heartbeat"}
      /\ "status" \in Mutexes
  BY DEF Mutexes
<1>1. TasksTyped(ts)
  BY DoneEffect DEF QueuesTyped, Runs
<1>2. Own(ts, mutex, k, S) = Own(tasks, mutex, k, S) - On(k, thr, Now(thr), S)
  BY OwnDone DEF QueuesTyped, Runs, Now
<1> HIDE DEF ts
<1>3. /\ TasksTyped(us) /\ MutexTyped(mx) /\ mx["status"] = mutex["status"]
      /\ Own(us, mx, k, S) = Own(ts, mutex, k, S)
  BY <1>0, <1>1, HandOver DEF QueuesTyped
<1> HIDE DEF us, mx
<1>4. CASE tasks' = Woken(create_task(us, thr, task), "status")
  <2> DEFINE vs == create_task(us, thr, task)
  <2>1. TasksTyped(vs) /\ Own(vs, mx, k, S) = Own(us, mx, k, S) + On(k, thr, task, S)
    BY <1>3, CreateEffect, OwnCreate
  <2> HIDE DEF vs
  <2>2. /\ TasksTyped(Woken(vs, "status")) /\ MutexTyped(m2)
        /\ Own(Woken(vs, "status"), m2, k, S) = Own(vs, mx, k, S)
    BY <1>0, <1>3, <2>1, HandOver DEF QueuesTyped
  <2> HIDE DEF m2
  <2>3. mutex' = m2 /\ tasks' = Woken(vs, "status")
    BY <1>4 DEF m2, mx, vs
  <2> QED  BY <1>2, <1>3, <2>1, <2>2, <2>3 DEF QueuesTyped
<1>5. CASE tasks' = create_task(Woken(us, "status"), thr, task)
  <2> DEFINE vs == Woken(us, "status")
  <2>1. /\ TasksTyped(vs) /\ MutexTyped(m2)
        /\ Own(vs, m2, k, S) = Own(us, mx, k, S)
    BY <1>0, <1>3, HandOver DEF QueuesTyped
  <2> HIDE DEF vs, m2
  <2>2. TasksTyped(create_task(vs, thr, task))
        /\ Own(create_task(vs, thr, task), m2, k, S)
             = Own(vs, m2, k, S) + On(k, thr, task, S)
    BY <2>1, CreateEffect, OwnCreate
  <2>3. mutex' = m2 /\ tasks' = create_task(vs, thr, task)
    BY <1>5 DEF m2, mx, vs
  <2> QED  BY <1>2, <1>3, <2>1, <2>2, <2>3 DEF QueuesTyped
<1> QED  BY <1>4, <1>5 DEF us, ts

-----------------------------------------------------------------------------
(* The receiver's own steps.                                               *)
AnswerTask == [op |-> "reset", at |-> "answer"]

(* An idle receiver owns no coroutine.                                     *)
LEMMA IdleOwns ==
  ASSUME ReceiverIdle, NEW S
  PROVE  /\ Own(tasks, mutex, "receiver", S) = 0
         /\ Count(tasks["receiver"], S) = 0
<1>1. Count(<<>>, S) = 0
  BY CountNone
<1>2. \A m \in Mutexes : Bound(mutex, m, "receiver", S) = 0
  BY <1>1 DEF ReceiverIdle, Waiting, Bound
<1>3. tasks["receiver"] = <<>>
  BY DEF ReceiverIdle
<1> QED  BY <1>1, <1>2, <1>3 DEF Own, Mutexes

LEMMA CommandMoves ==
  ASSUME QueuesTyped, ReceiverIdle, NEW task \in GoodTask,
         tasks' = [tasks EXCEPT !["receiver"] = <<task>>], mutex' = mutex, NEW S
  PROVE  QueuesTyped' /\ Begins("receiver", task, S)
<1>1. <<task>> \in Seq(GoodTask) /\ Count(<<task>>, S) = Bit(task, S)
  BY CountOne
<1>2. /\ TasksTyped(tasks') /\ tasks'["receiver"] = <<task>>
      /\ tasks'["main"] = tasks["main"]
  BY <1>1 DEF QueuesTyped, TasksTyped, Threads
<1>3. /\ Bound(mutex, "status", "receiver", S) \in Nat
      /\ Bound(mutex, "heartbeat", "receiver", S) \in Nat
      /\ Count(tasks["receiver"], S) = 0 /\ Bit(task, S) \in Nat
  BY IdleOwns, OwnTyped DEF QueuesTyped, Threads, Bit
<1>4. Own(tasks', mutex', "receiver", S)
        = Own(tasks, mutex, "receiver", S) + On("receiver", "receiver", task, S)
  BY <1>1, <1>2, <1>3 DEF Own, On
<1>5. Own(tasks', mutex', "main", S)
        = Own(tasks, mutex, "main", S) + On("main", "receiver", task, S)
  <2>1. Own(tasks, mutex, "main", S) \in Nat
    BY OwnTyped DEF QueuesTyped, Threads
  <2> QED  BY <1>2, <2>1 DEF Own, On
<1> QED  BY <1>2, <1>4, <1>5 DEF QueuesTyped, Begins, Threads

(* Everything the receiver had ready is replaced by two coroutines.        *)
LEMMA ClearMoves ==
  ASSUME QueuesTyped, NEW a \in GoodTask, NEW b \in GoodTask,
         mutex' = Released(mutex, "status"),
         tasks' = Woken([tasks EXCEPT !["receiver"] = <<a, b>>], "status"), NEW S
  PROVE  /\ QueuesTyped'
         /\ Own(tasks', mutex', "main", S) = Own(tasks, mutex, "main", S)
         /\ Own(tasks', mutex', "receiver", S) = Own(tasks, mutex, "receiver", S)
              - Count(tasks["receiver"], S) + Bit(a, S) + Bit(b, S)
<1> DEFINE ts == [tasks EXCEPT !["receiver"] = <<a, b>>]
<1>1. <<a, b>> \in Seq(GoodTask) /\ Count(<<a, b>>, S) = Bit(a, S) + Bit(b, S)
  <2>1. <<a>> \in Seq(GoodTask) /\ <<a, b>> = Append(<<a>>, b)
        /\ <<a, b>> \in Seq(GoodTask)
    OBVIOUS
  <2>2. Count(Append(<<a>>, b), S) = Count(<<a>>, S) + Bit(b, S)
    BY <2>1, CountAppend
  <2> QED  BY <2>1, <2>2, CountOne
<1>2. /\ TasksTyped(ts) /\ ts["receiver"] = <<a, b>> /\ ts["main"] = tasks["main"]
  BY <1>1 DEF QueuesTyped, TasksTyped, Threads
<1> HIDE DEF ts
<1>3. "status" \in Mutexes /\ "main" \in Threads /\ "receiver" \in Threads
  BY DEF Mutexes, Threads
<1>4. ASSUME NEW k \in Threads
      PROVE  /\ TasksTyped(Woken(ts, "status")) /\ MutexTyped(Released(mutex, "status"))
             /\ Own(Woken(ts, "status"), Released(mutex, "status"), k, S)
                  = Own(ts, mutex, k, S)
  BY <1>2, <1>3, HandOver DEF QueuesTyped
<1>5. \A k \in Threads : Own(tasks', mutex', k, S) = Own(ts, mutex, k, S)
  BY <1>4 DEF ts
<1>6. Own(ts, mutex, "main", S) = Own(tasks, mutex, "main", S)
  BY <1>2 DEF Own
<1>7. Own(ts, mutex, "receiver", S) = Own(tasks, mutex, "receiver", S)
        - Count(tasks["receiver"], S) + Bit(a, S) + Bit(b, S)
  <2>1. /\ Bound(mutex, "status", "receiver", S) \in Nat
        /\ Bound(mutex, "heartbeat", "receiver", S) \in Nat
        /\ Count(tasks["receiver"], S) \in Nat
        /\ Bit(a, S) \in Nat /\ Bit(b, S) \in Nat
    BY <1>3, ReadyTyped, OwnTyped DEF QueuesTyped, Bit
  <2> QED  BY <1>1, <1>2, <2>1 DEF Own
<1>8. QueuesTyped'
  BY <1>3, <1>4 DEF QueuesTyped, ts
<1> QED  BY <1>3, <1>5, <1>6, <1>7, <1>8

LEMMA ReceiverDone ==
  ASSUME TasksTyped(tasks), tasks["receiver"] # <<>>, NEW S
  PROVE  /\ TasksTyped(Done(tasks, "receiver"))
         /\ \A k \in Threads : Count(Done(tasks, "receiver")[k], S)
              = Count(tasks[k], S) - On(k, "receiver", Head(tasks["receiver"]), S)
<1>1. "receiver" \in Threads
  BY DEF Threads
<1> QED  BY <1>1, DoneEffect

(* Coroutines the receiver cancels: those waiting for m, if any.           *)
LEMMA CancelMoves ==
  ASSUME QueuesTyped, Runs("receiver"), NEW m \in Mutexes,
         mutex[m].waiters # <<>> => mutex[m].loop = "receiver",
         NEW l \in Lock, l.holder = mutex[m].holder, l.loop \in Threads,
         l.waiters = <<>>, mutex' = [mutex EXCEPT ![m] = l],
         tasks' = Done(tasks, "receiver"), NEW S
  PROVE  /\ QueuesTyped'
         /\ Own(tasks', mutex', "main", S) = Own(tasks, mutex, "main", S)
         /\ Own(tasks', mutex', "receiver", S)
              <= Own(tasks, mutex, "receiver", S) - Bit(Now("receiver"), S)
<1>1. /\ TasksTyped(tasks')
      /\ \A k \in Threads : Count(tasks'[k], S)
           = Count(tasks[k], S) - On(k, "receiver", Now("receiver"), S)
  <2>1. TasksTyped(tasks) /\ tasks["receiver"] # <<>>
    BY DEF QueuesTyped, Runs
  <2> QED  BY <2>1, ReceiverDone DEF Now
<1>2. /\ mutex' \in [Mutexes -> Lock] /\ mutex'[m] = l
      /\ \A j \in Mutexes \ {m} : mutex'[j] = mutex[j]
  BY DEF QueuesTyped, MutexTyped
<1>3. <<>> \in Seq(Waiter(m))
  OBVIOUS
<1>4. MutexTyped(mutex')
  BY <1>2, <1>3 DEF QueuesTyped, MutexTyped, Threads
<1>5. /\ Count(<<>>, S) = 0
      /\ Bound(mutex', m, "main", S) = 0 /\ Bound(mutex', m, "receiver", S) = 0
  BY <1>2, CountNone DEF Bound
<1>6. Bound(mutex, m, "main", S) = 0
  BY <1>5 DEF Bound
<1>7. ASSUME NEW k \in Threads, NEW j \in Mutexes, j # m
      PROVE  Bound(mutex', j, k, S) = Bound(mutex, j, k, S)
  BY <1>2, <1>7 DEF Bound
<1>8. \A k \in Threads : /\ Count(tasks[k], S) \in Nat
                         /\ Bound(mutex, "status", k, S) \in Nat
                         /\ Bound(mutex, "heartbeat", k, S) \in Nat
  BY ReadyTyped, OwnTyped DEF QueuesTyped
<1>9. /\ On("main", "receiver", Now("receiver"), S) = 0
      /\ On("receiver", "receiver", Now("receiver"), S) = Bit(Now("receiver"), S)
      /\ Bit(Now("receiver"), S) \in Nat
  BY DEF On, Bit
<1>10. CASE m = "status"
  BY <1>1, <1>4, <1>5, <1>6, <1>7, <1>8, <1>9, <1>10
     DEF Own, Threads, Mutexes, QueuesTyped
<1>11. CASE m = "heartbeat"
  BY <1>1, <1>4, <1>5, <1>6, <1>7, <1>8, <1>9, <1>11
     DEF Own, Threads, Mutexes, QueuesTyped
<1> QED  BY <1>10, <1>11 DEF Mutexes

-----------------------------------------------------------------------------
(* The types of everything but the queues, and the bound on names: the     *)
(* names given out, and those the registrations under way will still ask   *)
(* for.                                                                    *)
MapsTyped ==
  /\ paring_mode_enabled \in BOOLEAN
  /\ max_device_num \in 0 .. MaxDevices
  /\ device_status_map \in PartialMaps(Names, Device)
  /\ device_heartbeat_map \in PartialMaps(Names, 0 .. AHEAD)
  /\ monitor \in {"asleep", "running", "dead"}
  /\ receiver_alive \in BOOLEAN
  /\ ui_list \in BuzzerLists

Uncreated ==
  {t \in Task : t.op = "register" /\ t.at \in {"start", "lookup", "create"}}
NamesLeft == max_device_num + Total(tasks, mutex, Uncreated) <= MaxDevices

TypeInv == MapsTyped /\ QueuesTyped /\ NamesLeft

LEMMA TypeInvTyped ==
  ASSUME TypeInv
  PROVE  TypeOK
<1>1. GoodTask \subseteq Task
  BY DEF GoodTask
<1>2. tasks \in [Threads -> Seq(Task)]
  BY <1>1, SeqMonotonic DEF TypeInv, QueuesTyped, TasksTyped
<1>3. mutex \in [Mutexes -> [holder : Threads \cup {"none"},
                             loop : Threads \cup {"none"}, waiters : Seq(Task)]]
  <2>1. Seq(GoodTask) \subseteq Seq(Task)
    BY <1>1, SeqMonotonic
  <2> QED  BY <2>1 DEF TypeInv, QueuesTyped, MutexTyped, Lock
<1> QED  BY <1>2, <1>3 DEF TypeInv, MapsTyped, TypeOK

(* The coroutines a step creates.                                          *)
LEMMA NewTasks ==
  /\ ListTask \in GoodTask /\ MonitorTask \in GoodTask /\ AnswerTask \in GoodTask
  /\ [op |-> "reset", at |-> "start"] \in GoodTask
  /\ \A names \in SUBSET Names :
       [op |-> "remove", at |-> "start", names |-> names] \in GoodTask
  /\ \A e \in Endpoints, n \in Names \cup {None} :
       [op |-> "register", at |-> "start", endpoint |-> e, name |-> n] \in GoodTask
  /\ \A n \in Names, t \in Timestamps :
       [op |-> "pressed", at |-> "start", name |-> n, time |-> t] \in GoodTask
  /\ \A n \in Names :
       [op |-> "heartbeat", at |-> "start", name |-> n] \in GoodTask
<1>1. ListTask \in CopyTask
  BY EmptyMap DEF ListTask, CopyTask, BuzzerLists
<1>2. ListTask \in GoodTask
  BY <1>1, TaskKinds DEF GoodTask, Named, ListTask
<1>3. MonitorTask \in GoodTask
  BY TaskKinds DEF GoodTask, Named, MonitorTask, CheckTask
<1>4. AnswerTask \in GoodTask /\ [op |-> "reset", at |-> "start"] \in GoodTask
  BY TaskKinds DEF GoodTask, Named, AnswerTask, ResetTask
<1>5. ASSUME NEW names \in SUBSET Names
      PROVE  [op |-> "remove", at |-> "start", names |-> names] \in GoodTask
  BY TaskKinds DEF GoodTask, Named, RemoveTask
<1>6. ASSUME NEW e \in Endpoints, NEW n \in Names \cup {None}
      PROVE  [op |-> "register", at |-> "start", endpoint |-> e, name |-> n]
               \in GoodTask
  BY TaskKinds DEF GoodTask, Named, RegisterTask
<1>7. ASSUME NEW n \in Names, NEW t \in Timestamps
      PROVE  [op |-> "pressed", at |-> "start", name |-> n, time |-> t] \in GoodTask
  BY TaskKinds DEF GoodTask, Named, PressedTask
<1>8. ASSUME NEW n \in Names
      PROVE  [op |-> "heartbeat", at |-> "start", name |-> n] \in GoodTask
  BY TaskKinds DEF GoodTask, Named, HeartbeatTask
<1> QED  BY <1>2, <1>3, <1>4, <1>5, <1>6, <1>7, <1>8

LEMMA TypeInit == Init => TypeInv
<1> SUFFICES ASSUME Init PROVE TypeInv
  OBVIOUS
<1>1. MapsTyped
  <2>1. /\ <<>> \in PartialMaps(Names, Device)
        /\ <<>> \in PartialMaps(Names, 0 .. AHEAD) /\ <<>> \in BuzzerLists
    BY EmptyMap DEF BuzzerLists
  <2>2. 0 \in 0 .. MaxDevices
    OBVIOUS
  <2>3. /\ device_status_map \in PartialMaps(Names, Device)
        /\ device_heartbeat_map \in PartialMaps(Names, 0 .. AHEAD)
        /\ ui_list \in BuzzerLists
    BY <2>1, Zenon DEF Init
  <2>4. /\ paring_mode_enabled \in BOOLEAN /\ max_device_num \in 0 .. MaxDevices
        /\ monitor \in {"asleep", "running", "dead"} /\ receiver_alive \in BOOLEAN
    BY <2>2, Zenon DEF Init
  <2> QED  BY <2>3, <2>4 DEF MapsTyped
<1>2. /\ tasks["main"] = <<MonitorTask, ListTask>> /\ tasks["receiver"] = <<>>
      /\ TasksTyped(tasks)
  <2>1. <<MonitorTask, ListTask>> \in Seq(GoodTask) /\ <<>> \in Seq(GoodTask)
    BY NewTasks
  <2>2. /\ tasks["main"] = <<MonitorTask, ListTask>> /\ tasks["receiver"] = <<>>
        /\ tasks = [k \in Threads |-> tasks[k]]
    BY DEF Init, Threads
  <2> QED  BY <2>1, <2>2 DEF TasksTyped, Threads
<1>3. MutexTyped(mutex)
      /\ \A m \in Mutexes : mutex[m].waiters = <<>> /\ mutex[m].loop = "none"
  <2>1. [holder |-> "none", loop |-> "none", waiters |-> <<>>] \in Lock
    BY DEF Lock
  <2>2. \A m \in Mutexes : <<>> \in Seq(Waiter(m))
    OBVIOUS
  <2>3. /\ mutex \in [Mutexes -> Lock]
        /\ \A m \in Mutexes : mutex[m].waiters = <<>> /\ mutex[m].loop = "none"
    BY <2>1 DEF Init
  <2> QED  BY <2>2, <2>3 DEF MutexTyped
<1>4. Count(tasks["main"], Uncreated) = 0
  <2>1. \A i \in DOMAIN tasks["main"] : tasks["main"][i] \notin Uncreated
    BY <1>2 DEF Uncreated, MonitorTask, ListTask
  <2>2. tasks["main"] \in Seq(GoodTask)
    BY <1>2 DEF TasksTyped, Threads
  <2> QED  BY <2>1, <2>2, CountPositive, PositionsFinite
<1>5. Count(tasks["receiver"], Uncreated) = 0
  BY <1>2, CountNone
<1>6. \A m \in Mutexes, k \in Threads : Bound(mutex, m, k, Uncreated) = 0
  BY <1>3, CountNone DEF Bound
<1>7. Total(tasks, mutex, Uncreated) = 0
  BY <1>4, <1>5, <1>6 DEF Total, Own, Mutexes, Threads
<1> QED  BY <1>1, <1>2, <1>3, <1>7 DEF TypeInv, NamesLeft, QueuesTyped, Init

-----------------------------------------------------------------------------
(* Every step keeps the types.                                             *)
LEMMA RaiseTyped ==
  ASSUME MapsTyped, NEW thr, NEW held, Raise(thr, held)
  PROVE  monitor' \in {"asleep", "running", "dead"} /\ receiver_alive' \in BOOLEAN
<1>1. receiver_alive' \in BOOLEAN
  BY Zenon DEF Raise
<1> QED  BY <1>1 DEF MapsTyped, Raise

LEMMA AcquireTyped ==
  ASSUME MapsTyped, QueuesTyped, NEW thr \in Threads, Runs(thr),
         NEW m \in Mutexes, NEW task \in Waiter(m),
         NEW held \in Mutexes \cup {"none"}, Acquire(thr, m, task, held), NEW S
  PROVE  /\ QueuesTyped'
         /\ Total(tasks', mutex', S) \in Nat
         /\ Total(tasks', mutex', S)
              <= Total(tasks, mutex, S) - Bit(Now(thr), S) + Bit(task, S)
         /\ monitor' \in {"asleep", "running", "dead"} /\ receiver_alive' \in BOOLEAN
<1>1. /\ QueuesTyped'
      /\ IF mutex[m].holder # "none" /\ ~MayWait(thr, m)
           THEN Raise(thr, held) /\ Ends(thr, S)
           ELSE UNCHANGED <<monitor, receiver_alive>> /\ GoesOn(thr, task, S)
  BY AcquireMoves
<1>2. Bit(task, S) \in Nat /\ Bit(Now(thr), S) \in Nat
  BY DEF Bit
<1>3. CASE mutex[m].holder # "none" /\ ~MayWait(thr, m)
  <2>1. monitor' \in {"asleep", "running", "dead"} /\ receiver_alive' \in BOOLEAN
    BY <1>1, <1>3, RaiseTyped
  <2>2. /\ Total(tasks', mutex', S) = Total(tasks, mutex, S) - Bit(Now(thr), S)
        /\ Total(tasks, mutex, S) \in Nat /\ Total(tasks', mutex', S) \in Nat
    BY <1>1, <1>3, MovesTotal
  <2> QED  BY <1>1, <1>2, <2>1, <2>2
<1>4. CASE ~(mutex[m].holder # "none" /\ ~MayWait(thr, m))
  <2>1. monitor' \in {"asleep", "running", "dead"} /\ receiver_alive' \in BOOLEAN
    BY <1>1, <1>4 DEF MapsTyped
  <2>2. /\ Total(tasks', mutex', S)
             = Total(tasks, mutex, S) - Bit(Now(thr), S) + Bit(task, S)
        /\ Total(tasks', mutex', S) \in Nat
    BY <1>1, <1>4, MovesTotal
  <2> QED  BY <1>1, <1>2, <2>1, <2>2
<1> QED  BY <1>3, <1>4

(* A step that gives out no name.                                          *)
LEMMA NamesLeftKept ==
  ASSUME TypeInv, QueuesTyped', max_device_num' = max_device_num,
         Total(tasks', mutex', Uncreated) <= Total(tasks, mutex, Uncreated)
  PROVE  NamesLeft'
<1>1. /\ Total(tasks, mutex, Uncreated) \in Nat
      /\ Total(tasks', mutex', Uncreated) \in Nat
  BY TotalTyped DEF TypeInv, QueuesTyped
<1>2. max_device_num \in Nat /\ MaxDevices \in Nat
  BY DEF TypeInv, MapsTyped
<1> QED  BY <1>1, <1>2 DEF TypeInv, NamesLeft

LEMMA UncreatedBits ==
  /\ \A t : t.op # "register" => Bit(t, Uncreated) = 0
  /\ \A t : t.at \in {"insert", "watch"} => Bit(t, Uncreated) = 0
  /\ \A t \in Task : t.op = "register" /\ t.at \in {"start", "lookup", "create"}
                       => Bit(t, Uncreated) = 1
  /\ \A t : Bit(t, Uncreated) \in Nat
BY DEF Bit, Uncreated

LEMMA EndsLess ==
  ASSUME QueuesTyped, QueuesTyped', NEW thr \in Threads, NEW S,
         \/ Ends(thr, S)
         \/ \E task : GoesOn(thr, task, S) /\ Bit(task, S) <= Bit(Now(thr), S)
         \/ \E task : Begins(thr, task, S) /\ Bit(task, S) = 0
  PROVE  Total(tasks', mutex', S) <= Total(tasks, mutex, S)
<1>1. \A task : Bit(task, S) \in Nat
  BY DEF Bit
<1>2. CASE Ends(thr, S)
  BY <1>1, <1>2, MovesTotal
<1>3. ASSUME NEW task, GoesOn(thr, task, S), Bit(task, S) <= Bit(Now(thr), S)
      PROVE  Total(tasks', mutex', S) <= Total(tasks, mutex, S)
  BY <1>1, <1>3, MovesTotal
<1>4. ASSUME NEW task, Begins(thr, task, S), Bit(task, S) = 0
      PROVE  Total(tasks', mutex', S) <= Total(tasks, mutex, S)
  BY <1>1, <1>4, MovesTotal
<1> QED  BY <1>2, <1>3, <1>4

-----------------------------------------------------------------------------
(* The ways a step moves coroutines; every action is one of them.  thr     *)
(* runs the coroutine Now(thr).                                            *)

(* It asks for its first lock.                                             *)
Enters(thr, m, task) ==
  /\ Runs(thr) /\ Now(thr) \in GoodTask /\ Now(thr).at \in {"start", "create"}
  /\ task \in Waiter(m) /\ task.op = Now(thr).op
  /\ task.at \notin {"watch", "forget"}
  /\ task.at = "insert" => RegisterCreate
  /\ Acquire(thr, m, task, "none")

(* It asks for the heartbeat lock and has the status lock.                 *)
EntersInner(thr, task) ==
  /\ Runs(thr) /\ Now(thr) \in GoodTask
  /\ task \in Waiter("heartbeat") /\ task.op = Now(thr).op
  /\ \/ Now(thr).at = "insert" /\ task.at = "watch" /\ task.name = Now(thr).name
     \/ Now(thr).at = "pop" /\ task.at = "forget" /\ task.names = Now(thr).names
  /\ task.at = "watch" => RegisterInsert
  /\ task.at = "forget" => RemovePop(thr)
  /\ Acquire(thr, "heartbeat", task, "status")

(* It fails: KeyError.                                                     *)
Fails(thr) ==
  /\ Runs(thr) /\ Now(thr) \in GoodTask /\ Now(thr).at = "pop"
  /\ Raise(thr, "status")

(* It leaves m and ends.                                                   *)
Leaves(thr, m) ==
  /\ Runs(thr) /\ Now(thr) \in GoodTask
  /\ IF m = "status" THEN Now(thr).at \in {"lookup", "record"}
     ELSE Now(thr).at \in {"refresh", "check"}
  /\ Leave(thr, m)

(* It leaves m and goes on.                                                *)
LeavesFor(thr, m, task) ==
  /\ Runs(thr) /\ Now(thr) \in GoodTask
  /\ task \in GoodTask /\ task.op = Now(thr).op
  /\ IF m = "status" THEN <<Now(thr).at, task.at>> \in {<<"lookup", "create">>,
                                                      <<"copy", "send">>}
     ELSE Now(thr).at = "forget" /\ task.at = "pop"
  /\ task.at = "send" => ListCopy(thr)
  /\ mutex' = Released(mutex, m)
  /\ tasks' = Woken(Goto(tasks, thr, task), m)

(* It leaves m, creates task and ends.                                     *)
LeavesCreating(m, task) ==
  /\ Runs("main") /\ Now("main") \in GoodTask
  /\ Now("main").at = IF m = "status" THEN "record" ELSE "check"
  /\ task \in GoodTask /\ task.at = "start" /\ task.op \in {"list", "remove"}
  /\ mutex' = Released(mutex, m)
  /\ tasks' = create_task(Woken(Done(tasks, "main"), m), "main", task)

(* It leaves both locks and ends; the UI is told.                          *)
LeavesBoth(thr) ==
  /\ Runs(thr) /\ Now(thr) \in GoodTask
  /\ \/ Now(thr).at = "watch" /\ Now(thr).op = "register" /\ RegisterWatch
     \/ Now(thr).at = "forget" /\ Now(thr).op = "remove" /\ RemoveForget(thr)
  /\ mutex' = Released(Released(mutex, "heartbeat"), "status")
  /\ \/ tasks' = Woken(create_task(Woken(Done(tasks, thr), "heartbeat"),
                                   thr, ListTask), "status")
     \/ tasks' = create_task(Woken(Woken(Done(tasks, thr), "heartbeat"),
                                   "status"), thr, ListTask)

(* It ends and never had a lock.                                           *)
Finishes(thr) ==
  /\ Runs(thr) /\ Now(thr) \in GoodTask /\ Now(thr).at \in {"start", "send", "answer"}
  /\ Now(thr).at = "send" => ListSend(thr)
  /\ tasks' = Done(tasks, thr) /\ mutex' = mutex

(* A request, or the monitor's timer.                                      *)
Created(task) ==
  /\ task \in GoodTask /\ task.at = "start"
  /\ task.op = "register"
       => max_device_num + Unfinished({"register"}) < MaxDevices
  /\ tasks' = create_task(tasks, "main", task) /\ mutex' = mutex

(* A command for the receiver.                                             *)
Commanded(task) ==
  /\ ReceiverIdle /\ task \in GoodTask /\ task.at = "start"
  /\ task.op \in {"remove", "reset"}
  /\ tasks' = [tasks EXCEPT !["receiver"] = <<task>>] /\ mutex' = mutex

(* The reset has cleared the presses.                                      *)
Clears ==
  /\ Runs("receiver") /\ Now("receiver") \in GoodTask
  /\ Now("receiver").op = "reset" /\ Now("receiver").at = "clear"
  /\ mutex' = Released(mutex, "status")
  /\ tasks' = Woken([tasks EXCEPT !["receiver"] = <<ListTask, AnswerTask>>],
                    "status")

LEMMA ClearsMoves ==
  ASSUME QueuesTyped, Clears, NEW S
  PROVE  /\ QueuesTyped'
         /\ Own(tasks', mutex', "main", S) = Own(tasks, mutex, "main", S)
         /\ Own(tasks', mutex', "receiver", S) = Own(tasks, mutex, "receiver", S)
              - Count(tasks["receiver"], S) + Bit(ListTask, S) + Bit(AnswerTask, S)
<1>1. ListTask \in GoodTask /\ AnswerTask \in GoodTask
  BY NewTasks
<1>2. /\ mutex' = Released(mutex, "status")
      /\ tasks' = Woken([tasks EXCEPT !["receiver"] = <<ListTask, AnswerTask>>],
                        "status")
  BY DEF Clears
<1> QED  BY <1>1, <1>2, ClearMoves

(* A command is over, and what it left waiting is cancelled.               *)
Cancels ==
  /\ Runs("receiver") /\ Now("receiver") \in GoodTask
  /\ Now("receiver").at \in {"start", "answer"}
  /\ tasks' = Done(tasks, "receiver")
  /\ mutex["status"].waiters # <<>> => mutex["status"].loop = "receiver"
  /\ \E l \in Lock : /\ l.holder = mutex["status"].holder
                     /\ l.loop \in Threads /\ l.waiters = <<>>
                     /\ mutex["status"].loop = "main" => l.loop = "main"
                     /\ mutex' = [mutex EXCEPT !["status"] = l]

Rests == tasks' = tasks /\ mutex' = mutex

Moves ==
  \/ \E thr \in Threads, m \in Mutexes :
       \/ \E task : Enters(thr, m, task)
       \/ Leaves(thr, m)
       \/ \E task : LeavesFor(thr, m, task)
  \/ \E thr \in Threads : \/ \E task : EntersInner(thr, task)
                          \/ Fails(thr) \/ LeavesBoth(thr) \/ Finishes(thr)
  \/ \E m \in Mutexes : \E task : LeavesCreating(m, task)
  \/ \E task : Created(task) \/ Commanded(task)
  \/ Clears \/ Cancels \/ Rests

LEMMA WaiterTask ==
  ASSUME NEW m \in Mutexes, NEW task \in Task, Named(task),
         task.at \in WaitPlaces(m)
  PROVE  task \in Waiter(m)
BY DEF Waiter, GoodTask

(* A registration whose name the counter gives out.                        *)
LEMMA CreateEnters ==
  ASSUME TypeInv, RegisterCreate
  PROVE  /\ max_device_num \in Names
         /\ \E task : /\ Enters("main", "status", task)
                      /\ task.at = "insert" /\ task.name = max_device_num
                      /\ Bit(task, Uncreated) = 0
         /\ Bit(Now("main"), Uncreated) = 1
<1> DEFINE req == Now("main")
           task == [req EXCEPT !.at = "insert", !.name = max_device_num]
<1>0. "main" \in Threads /\ "status" \in Mutexes
  BY DEF Threads, Mutexes
<1>1. /\ Runs("main") /\ req \in Task /\ req.op = "register" /\ req \in GoodTask
      /\ req.at \in {"start", "create"}
      /\ Bit(req, Uncreated) <= Total(tasks, mutex, Uncreated)
  <2>1. CASE At("main", "register", "start")
    BY <1>0, <2>1, NowTyped DEF TypeInv
  <2>2. CASE At("main", "register", "create")
    BY <1>0, <2>2, NowTyped DEF TypeInv
  <2> QED  BY <2>1, <2>2 DEF RegisterCreate
<1>2. Bit(req, Uncreated) = 1
  BY <1>1, UncreatedBits
<1> HIDE DEF req
<1>3. max_device_num \in Names
  <2>1. /\ Total(tasks, mutex, Uncreated) \in Nat /\ max_device_num \in Nat
        /\ max_device_num + Total(tasks, mutex, Uncreated) <= MaxDevices
    BY TotalTyped DEF TypeInv, QueuesTyped, MapsTyped, NamesLeft
  <2>2. 1 <= Total(tasks, mutex, Uncreated)
    BY <1>1, <1>2
  <2> QED  BY <2>1, <2>2 DEF Names
<1>4. task \in Task /\ task.op = "register" /\ task.at = "insert"
      /\ task.name = max_device_num
  BY <1>1, <1>3, RegisterNamed
<1>5. Acquire("main", "status", task, "none")
  BY DEF RegisterCreate, req
<1> HIDE DEF task
<1>6. task \in Waiter("status") /\ Bit(task, Uncreated) = 0
  BY <1>0, <1>3, <1>4, WaiterTask, UncreatedBits DEF Named, WaitPlaces
<1>7. Enters("main", "status", task)
  BY <1>1, <1>4, <1>5, <1>6 DEF Enters, req
<1> QED  BY <1>2, <1>3, <1>4, <1>6, <1>7 DEF req

LEMMA RequestsMove ==
  ASSUME TypeInv, Requests
  PROVE  \E task : Created(task)
<1>1. ASSUME NEW e \in Endpoints, NEW n \in Names \cup {None}, RegisterArrives(e, n)
      PROVE  \E task : Created(task)
  <2> DEFINE task == [op |-> "register", at |-> "start", endpoint |-> e, name |-> n]
  <2>1. task \in GoodTask /\ task.at = "start"
    BY NewTasks
  <2>2. /\ max_device_num + Unfinished({"register"}) < MaxDevices
        /\ Arrives(task)
    BY <1>1 DEF RegisterArrives
  <2> HIDE DEF task
  <2> QED  BY <2>1, <2>2 DEF Created, Arrives
<1>2. ASSUME NEW n \in Names, NEW t \in Timestamps, PressedArrives(n, t)
      PROVE  \E task : Created(task)
  <2> DEFINE task == [op |-> "pressed", at |-> "start", name |-> n, time |-> t]
  <2>1. task \in GoodTask /\ task.op = "pressed" /\ task.at = "start"
    BY NewTasks
  <2>2. Arrives(task)
    BY <1>2 DEF PressedArrives
  <2> HIDE DEF task
  <2> QED  BY <2>1, <2>2 DEF Created, Arrives
<1>3. ASSUME NEW n \in Names, HeartbeatArrives(n)
      PROVE  \E task : Created(task)
  <2> DEFINE task == [op |-> "heartbeat", at |-> "start", name |-> n]
  <2>1. task \in GoodTask /\ task.op = "heartbeat" /\ task.at = "start"
    BY NewTasks
  <2>2. Arrives(task)
    BY <1>3 DEF HeartbeatArrives
  <2> HIDE DEF task
  <2> QED  BY <2>1, <2>2 DEF Created, Arrives
<1> QED  BY <1>1, <1>2, <1>3 DEF Requests

LEMMA TimerMoves ==
  ASSUME MonitorTimer
  PROVE  \E task : Created(task)
<1>1. MonitorTask \in GoodTask /\ MonitorTask.at = "start"
      /\ MonitorTask.op = "monitor"
  BY NewTasks DEF MonitorTask
<1> QED  BY <1>1, Zenon DEF MonitorTimer, Created

LEMMA CommandsMove ==
  ASSUME TypeInv, Commands
  PROVE  Rests \/ \E task : Commanded(task)
<1>1. CASE ResetCommand
  <2> DEFINE task == [op |-> "reset", at |-> "start"]
  <2>1. task \in GoodTask /\ task.at = "start" /\ task.op = "reset"
    BY NewTasks
  <2>2. /\ ReceiverIdle /\ mutex' = mutex
        /\ tasks' = [tasks EXCEPT !["receiver"] = <<task>>]
    BY <1>1 DEF ResetCommand
  <2> HIDE DEF task
  <2> QED  BY <2>1, <2>2 DEF Commanded
<1>2. ASSUME NEW enabled \in BOOLEAN, PairingCommand(enabled)
      PROVE  Rests
  BY <1>2, Zenon DEF PairingCommand, Rests
<1>3. ASSUME NEW n \in DOMAIN ui_list, RemoveCommand(n)
      PROVE  Rests \/ \E task : Commanded(task)
  <2> DEFINE task == [op |-> "remove", at |-> "start", names |-> {n}]
  <2>1. n \in DOMAIN device_status_map => n \in Names
    BY PartialMap DEF TypeInv, MapsTyped
  <2>2. n \in DOMAIN device_status_map =>
          task \in GoodTask /\ task.at = "start" /\ task.op = "remove"
    BY <2>1, NewTasks
  <2>3. IF n \in DOMAIN device_status_map
          THEN /\ ReceiverIdle /\ mutex' = mutex
               /\ tasks' = [tasks EXCEPT !["receiver"] = <<task>>]
          ELSE Rests
    BY <1>3 DEF RemoveCommand, Rests
  <2> HIDE DEF task
  <2> QED  BY <2>2, <2>3 DEF Commanded
<1> QED  BY <1>1, <1>2, <1>3 DEF Commands

(* Registrations, presses and heartbeats.                                  *)
LEMMA RegistersMove ==
  ASSUME TypeInv
  PROVE  /\ RegisterForbidden => Finishes("main")
         /\ RegisterKnown => \E task : Enters("main", "status", task)
         /\ RegisterLookup => \/ Leaves("main", "status")
                              \/ \E task : LeavesFor("main", "status", task)
         /\ RegisterInsert => \E task : EntersInner("main", task)
         /\ RegisterWatch => LeavesBoth("main")
<1>0. /\ "main" \in Threads /\ "status" \in Mutexes /\ "heartbeat" \in Mutexes
      /\ QueuesTyped
  BY DEF Threads, Mutexes, TypeInv
<1>1. ASSUME RegisterForbidden PROVE Finishes("main")
  <2>1. Runs("main") /\ Now("main") \in GoodTask /\ Now("main").at = "start"
    BY <1>0, <1>1, NowTyped DEF RegisterForbidden
  <2> QED  BY <1>1, <2>1 DEF RegisterForbidden, Finishes
<1>2. ASSUME RegisterKnown PROVE \E task : Enters("main", "status", task)
  <2> DEFINE req == Now("main")
             task == [req EXCEPT !.at = "lookup"]
  <2>1. /\ Runs("main") /\ req \in GoodTask /\ req.at = "start"
        /\ req.op = "register" /\ req \in Task
    BY <1>0, <1>2, NowTyped DEF RegisterKnown
  <2>2. Acquire("main", "status", task, "none") /\ req.name # None
    BY <1>2 DEF RegisterKnown
  <2>3. req.name \in Names
    BY <2>1, <2>2, KindOf DEF RegisterTask
  <2> HIDE DEF req
  <2>4. task \in Task /\ task.op = "register" /\ task.at = "lookup"
        /\ task.name = req.name
    BY <2>1, RegisterGoes
  <2> HIDE DEF task
  <2>5. task \in Waiter("status")
    BY <1>0, <2>3, <2>4, WaiterTask DEF Named, WaitPlaces
  <2>6. Enters("main", "status", task)
    BY <2>1, <2>2, <2>4, <2>5 DEF Enters, req
  <2> QED  BY <2>6
<1>3. ASSUME RegisterLookup
      PROVE  \/ Leaves("main", "status")
             \/ \E task : LeavesFor("main", "status", task)
  <2> DEFINE req == Now("main")
             task == [req EXCEPT !.at = "create"]
  <2>1. /\ Runs("main") /\ req \in GoodTask /\ req.at = "lookup"
        /\ req.op = "register" /\ req \in Task
    BY <1>0, <1>3, NowTyped DEF RegisterLookup
  <2>2. \/ Leave("main", "status")
        \/ /\ mutex' = Released(mutex, "status")
           /\ tasks' = Woken(Goto(tasks, "main", task), "status")
    BY <1>3 DEF RegisterLookup
  <2>3. task \in Task /\ task.op = "register" /\ task.at = "create"
    BY <2>1, RegisterGoes
  <2> HIDE DEF task
  <2>4. task \in GoodTask
    BY <2>3 DEF GoodTask, Named
  <2> QED  BY <2>1, <2>2, <2>3, <2>4 DEF Leaves, LeavesFor
<1>4. ASSUME RegisterInsert PROVE \E task : EntersInner("main", task)
  <2> DEFINE req == Now("main")
             task == [req EXCEPT !.at = "watch"]
  <2>1. /\ Runs("main") /\ req \in GoodTask /\ req.at = "insert"
        /\ req.op = "register" /\ req \in Task
    BY <1>0, <1>4, NowTyped DEF RegisterInsert
  <2>2. Acquire("main", "heartbeat", task, "status")
    BY <1>4 DEF RegisterInsert
  <2>3. req.name \in Names
    BY <2>1 DEF GoodTask, Named
  <2> HIDE DEF req
  <2>4. task \in Task /\ task.op = "register" /\ task.at = "watch"
        /\ task.name = req.name
    BY <2>1, RegisterGoes
  <2> HIDE DEF task
  <2>5. task \in Waiter("heartbeat")
    BY <1>0, <2>3, <2>4, WaiterTask DEF Named, WaitPlaces
  <2>6. EntersInner("main", task)
    BY <1>4, <2>1, <2>2, <2>4, <2>5 DEF EntersInner, req
  <2> QED  BY <2>6
<1>5. ASSUME RegisterWatch PROVE LeavesBoth("main")
  <2>1. /\ Runs("main") /\ Now("main") \in GoodTask /\ Now("main").at = "watch"
        /\ Now("main").op = "register"
    BY <1>0, <1>5, NowTyped DEF RegisterWatch
  <2> QED  BY <1>5, <2>1, Zenon DEF RegisterWatch, LeavesBoth
<1> QED  BY <1>1, <1>2, <1>3, <1>4, <1>5

LEMMA PressesMove ==
  ASSUME TypeInv
  PROVE  /\ PressedStart => \E task : Enters("main", "status", task)
         /\ PressedRecord => \/ Leaves("main", "status")
                             \/ \E task : LeavesCreating("status", task)
         /\ HeartbeatStart => \E task : Enters("main", "heartbeat", task)
         /\ HeartbeatRefresh => Leaves("main", "heartbeat")
<1>0. /\ "main" \in Threads /\ "status" \in Mutexes /\ "heartbeat" \in Mutexes
      /\ QueuesTyped
  BY DEF Threads, Mutexes, TypeInv
<1>1. ASSUME PressedStart PROVE \E task : Enters("main", "status", task)
  <2> DEFINE press == Now("main")
             task == [press EXCEPT !.at = "record"]
  <2>1. /\ Runs("main") /\ press \in GoodTask /\ press.at = "start"
        /\ press.op = "pressed" /\ press \in Task
    BY <1>0, <1>1, NowTyped DEF PressedStart
  <2>2. Acquire("main", "status", task, "none")
    BY <1>1 DEF PressedStart
  <2> HIDE DEF press
  <2>3. task \in Task /\ task.op = "pressed" /\ task.at = "record"
    BY <2>1, PressedGoes
  <2> HIDE DEF task
  <2>4. task \in Waiter("status")
    BY <1>0, <2>3, WaiterTask DEF Named, WaitPlaces
  <2>5. Enters("main", "status", task)
    BY <2>1, <2>2, <2>3, <2>4 DEF Enters, press
  <2> QED  BY <2>5
<1>2. ASSUME PressedRecord
      PROVE  \/ Leaves("main", "status")
             \/ \E task : LeavesCreating("status", task)
  <2>1. Runs("main") /\ Now("main") \in GoodTask /\ Now("main").at = "record"
    BY <1>0, <1>2, NowTyped DEF PressedRecord
  <2>2. Leave("main", "status") \/ LeaveAndList("main", "status")
    BY <1>2 DEF PressedRecord
  <2>3. ListTask \in GoodTask /\ ListTask.at = "start" /\ ListTask.op = "list"
    BY NewTasks DEF ListTask
  <2> QED  BY <2>1, <2>2, <2>3 DEF Leaves, LeaveAndList, LeavesCreating
<1>3. ASSUME HeartbeatStart PROVE \E task : Enters("main", "heartbeat", task)
  <2> DEFINE beat == Now("main")
             task == [beat EXCEPT !.at = "refresh"]
  <2>1. /\ Runs("main") /\ beat \in GoodTask /\ beat.at = "start"
        /\ beat.op = "heartbeat" /\ beat \in Task
    BY <1>0, <1>3, NowTyped DEF HeartbeatStart
  <2>2. Acquire("main", "heartbeat", task, "none")
    BY <1>3 DEF HeartbeatStart
  <2> HIDE DEF beat
  <2>3. task \in Task /\ task.op = "heartbeat" /\ task.at = "refresh"
    BY <2>1, HeartbeatGoes
  <2> HIDE DEF task
  <2>4. task \in Waiter("heartbeat")
    BY <1>0, <2>3, WaiterTask DEF Named, WaitPlaces
  <2>5. Enters("main", "heartbeat", task)
    BY <2>1, <2>2, <2>3, <2>4 DEF Enters, beat
  <2> QED  BY <2>5
<1>4. ASSUME HeartbeatRefresh PROVE Leaves("main", "heartbeat")
  <2>1. Runs("main") /\ Now("main") \in GoodTask /\ Now("main").at = "refresh"
    BY <1>0, <1>4, NowTyped DEF HeartbeatRefresh
  <2> QED  BY <1>4, <2>1 DEF HeartbeatRefresh, Leaves
<1> QED  BY <1>1, <1>2, <1>3, <1>4

(* The monitor.                                                            *)
LEMMA MonitorMoves ==
  ASSUME TypeInv
  PROVE  /\ MonitorStart => \E task : Enters("main", "heartbeat", task)
         /\ \A late \in SUBSET Names : MonitorCheck(late) =>
              \/ Leaves("main", "heartbeat")
              \/ \E task : LeavesCreating("heartbeat", task)
<1>0. /\ "main" \in Threads /\ "heartbeat" \in Mutexes /\ QueuesTyped
  BY DEF Threads, Mutexes, TypeInv
<1>1. ASSUME MonitorStart PROVE \E task : Enters("main", "heartbeat", task)
  <2> DEFINE check == Now("main")
             task == [check EXCEPT !.at = "check"]
  <2>1. /\ Runs("main") /\ check \in GoodTask /\ check.at = "start"
        /\ check.op = "monitor" /\ check \in Task
    BY <1>0, <1>1, NowTyped DEF MonitorStart
  <2>2. Acquire("main", "heartbeat", task, "none")
    BY <1>1 DEF MonitorStart
  <2> HIDE DEF check
  <2>3. task \in Task /\ task.op = "monitor" /\ task.at = "check"
    BY <2>1, CheckGoes
  <2> HIDE DEF task
  <2>4. task \in Waiter("heartbeat")
    BY <1>0, <2>3, WaiterTask DEF Named, WaitPlaces
  <2>5. Enters("main", "heartbeat", task)
    BY <2>1, <2>2, <2>3, <2>4 DEF Enters, check
  <2> QED  BY <2>5
<1>2. ASSUME NEW late \in SUBSET Names, MonitorCheck(late)
      PROVE  \/ Leaves("main", "heartbeat")
             \/ \E task : LeavesCreating("heartbeat", task)
  <2> DEFINE task == [op |-> "remove", at |-> "start", names |-> Expired(late)]
  <2>1. Runs("main") /\ Now("main") \in GoodTask /\ Now("main").at = "check"
    BY <1>0, <1>2, NowTyped DEF MonitorCheck
  <2>2. task \in GoodTask /\ task.at = "start" /\ task.op = "remove"
    <3>1. Expired(late) \in SUBSET Names
      BY PartialMap DEF TypeInv, MapsTyped, Expired
    <3> QED  BY <3>1, NewTasks
  <2>3. /\ mutex' = Released(mutex, "heartbeat")
        /\ \/ tasks' = Woken(Done(tasks, "main"), "heartbeat")
           \/ tasks' = create_task(Woken(Done(tasks, "main"), "heartbeat"),
                                   "main", task)
    BY <1>2 DEF MonitorCheck
  <2> HIDE DEF task
  <2> QED  BY <2>1, <2>2, <2>3 DEF Leaves, Leave, LeavesCreating
<1> QED  BY <1>1, <1>2

(* Removals.                                                               *)
LEMMA RemovesMove ==
  ASSUME TypeInv, NEW thr \in Threads
  PROVE  /\ RemoveStart(thr) => \E task : Enters(thr, "status", task)
         /\ RemovePop(thr) => Fails(thr) \/ \E task : EntersInner(thr, task)
         /\ RemoveForget(thr) => \/ LeavesBoth(thr)
                                 \/ \E task : LeavesFor(thr, "heartbeat", task)
<1>0. /\ "status" \in Mutexes /\ "heartbeat" \in Mutexes /\ QueuesTyped
  BY DEF Mutexes, TypeInv
<1>1. ASSUME RemoveStart(thr) PROVE \E task : Enters(thr, "status", task)
  <2> DEFINE req == Now(thr)
             task == [req EXCEPT !.at = "pop"]
  <2>1. /\ Runs(thr) /\ req \in GoodTask /\ req.at = "start"
        /\ req.op = "remove" /\ req \in Task
    BY <1>0, <1>1, NowTyped DEF RemoveStart
  <2>2. Acquire(thr, "status", task, "none")
    BY <1>1 DEF RemoveStart
  <2> HIDE DEF req
  <2>3. task \in Task /\ task.op = "remove" /\ task.at = "pop"
    BY <2>1, RemoveGoes
  <2> HIDE DEF task
  <2>4. task \in Waiter("status")
    BY <1>0, <2>3, WaiterTask DEF Named, WaitPlaces
  <2>5. Enters(thr, "status", task)
    BY <2>1, <2>2, <2>3, <2>4 DEF Enters, req
  <2> QED  BY <2>5
<1>2. ASSUME RemovePop(thr)
      PROVE  Fails(thr) \/ \E task : EntersInner(thr, task)
  <2> DEFINE req == Now(thr)
             task == [req EXCEPT !.at = "forget"]
  <2>1. /\ Runs(thr) /\ req \in GoodTask /\ req.at = "pop"
        /\ req.op = "remove" /\ req \in Task
    BY <1>0, <1>2, NowTyped DEF RemovePop
  <2>2. Acquire(thr, "heartbeat", task, "status") \/ Raise(thr, "status")
    BY <1>2 DEF RemovePop
  <2> HIDE DEF req
  <2>3. task \in Task /\ task.op = "remove" /\ task.at = "forget"
        /\ task.names = req.names
    BY <2>1, RemoveGoes
  <2> HIDE DEF task
  <2>4. task \in Waiter("heartbeat")
    BY <1>0, <2>3, WaiterTask DEF Named, WaitPlaces
  <2>5. CASE Acquire(thr, "heartbeat", task, "status")
    <3>1. EntersInner(thr, task)
      BY <1>2, <2>1, <2>3, <2>4, <2>5 DEF EntersInner, req
    <3> QED  BY <3>1
  <2>6. CASE Raise(thr, "status")
    BY <2>1, <2>6 DEF Fails, req
  <2> QED  BY <2>2, <2>5, <2>6
<1>3. ASSUME RemoveForget(thr)
      PROVE  \/ LeavesBoth(thr)
             \/ \E task : LeavesFor(thr, "heartbeat", task)
  <2> DEFINE req == Now(thr)
             rest == req.names \ {NextName(req.names)}
             task == [req EXCEPT !.at = "pop", !.names = rest]
  <2>1. /\ Runs(thr) /\ req \in GoodTask /\ req.at = "forget"
        /\ req.op = "remove" /\ req \in Task
    BY <1>0, <1>3, NowTyped DEF RemoveForget
  <2>2. rest \in SUBSET Names
    BY <2>1, KindOf DEF RemoveTask
  <2>3. CASE rest = {}
    <3>1. /\ mutex' = Released(Released(mutex, "heartbeat"), "status")
          /\ tasks' = create_task(Woken(Woken(Done(tasks, thr), "heartbeat"),
                                        "status"), thr, ListTask)
      BY <1>3, <2>3 DEF RemoveForget
    <3> QED  BY <1>3, <2>1, <3>1, Zenon DEF LeavesBoth
  <2>4. CASE rest # {}
    <3>1. /\ mutex' = Released(mutex, "heartbeat")
          /\ tasks' = Woken(Goto(tasks, thr, task), "heartbeat")
      BY <1>3, <2>4 DEF RemoveForget
    <3> HIDE DEF rest, req
    <3>2. task \in Task /\ task.op = "remove" /\ task.at = "pop"
      BY <2>1, <2>2, RemoveRest
    <3> HIDE DEF task
    <3>3. task \in GoodTask
      BY <3>2 DEF GoodTask, Named
    <3>4. LeavesFor(thr, "heartbeat", task)
      BY <2>1, <3>1, <3>2, <3>3 DEF LeavesFor, req
    <3> QED  BY <3>4
  <2> QED  BY <2>3, <2>4
<1> QED  BY <1>1, <1>2, <1>3

(* Listings.                                                               *)
LEMMA ListsMove ==
  ASSUME TypeInv, NEW thr \in Threads
  PROVE  /\ ListStart(thr) => Cancels \/ \E task : Enters(thr, "status", task)
         /\ ListCopy(thr) => \E task : LeavesFor(thr, "status", task)
         /\ ListSend(thr) => Finishes(thr)
<1>0. /\ "status" \in Mutexes /\ "heartbeat" \in Mutexes /\ QueuesTyped
  BY DEF Mutexes, TypeInv
<1>1. ASSUME ListStart(thr) PROVE Cancels \/ \E task : Enters(thr, "status", task)
  <2> DEFINE list == Now(thr)
             task == [list EXCEPT !.at = "copy"]
  <2>1. /\ Runs(thr) /\ list \in GoodTask /\ list.at = "start"
        /\ list.op = "list" /\ list \in Task
    BY <1>0, <1>1, NowTyped DEF ListStart
  <2>2. CASE Acquire(thr, "status", task, "none")
    <3>1. task \in Task /\ task.op = "list" /\ task.at = "copy"
      <4> HIDE DEF list
      <4> QED  BY <2>1, CopyGoes
    <3> HIDE DEF task, list
    <3>2. task \in Waiter("status")
      BY <1>0, <3>1, WaiterTask DEF Named, WaitPlaces
    <3>3. Enters(thr, "status", task)
      BY <2>1, <2>2, <3>1, <3>2 DEF Enters, list
    <3> QED  BY <3>3
  <2>3. CASE ~Acquire(thr, "status", task, "none")
    <3>1. /\ thr = "receiver" /\ MayWait(thr, "status")
          /\ mutex' = [mutex EXCEPT !["status"].loop = thr]
          /\ tasks' = Done(tasks, thr)
      BY <1>1, <2>3 DEF ListStart
    <3>2. /\ mutex["status"].loop = "none" /\ mutex["status"].waiters = <<>>
          /\ mutex["status"] \in Lock
      BY <1>0, <3>1 DEF MayWait, QueuesTyped, MutexTyped
    <3> DEFINE l == [mutex["status"] EXCEPT !.loop = thr]
    <3>3. /\ l \in Lock /\ l.holder = mutex["status"].holder
          /\ l.loop = thr /\ l.waiters = <<>>
      BY <3>2 DEF Lock
    <3>4. mutex' = [mutex EXCEPT !["status"] = l]
      BY <3>1
    <3> HIDE DEF l
    <3>5. Cancels
      BY <2>1, <3>1, <3>2, <3>3, <3>4 DEF Cancels
    <3> QED  BY <3>5
  <2> QED  BY <2>2, <2>3
<1>2. ASSUME ListCopy(thr) PROVE \E task : LeavesFor(thr, "status", task)
  <2> DEFINE list == Now(thr)
             task == [list EXCEPT !.at = "send", !.list = CurrentList]
  <2>1. /\ Runs(thr) /\ list \in GoodTask /\ list.at = "copy"
        /\ list.op = "list" /\ list \in Task
    BY <1>0, <1>2, NowTyped DEF ListCopy
  <2>2. /\ mutex' = Released(mutex, "status")
        /\ tasks' = Woken(Goto(tasks, thr, task), "status")
    BY <1>2 DEF ListCopy
  <2>3. CurrentList \in BuzzerLists
    BY CurrentListTyped DEF TypeInv, MapsTyped
  <2> HIDE DEF list
  <2>4. task \in Task /\ task.op = "list" /\ task.at = "send"
    BY <2>1, <2>3, CopySends
  <2> HIDE DEF task
  <2>5. task \in GoodTask
    BY <2>4 DEF GoodTask, Named
  <2>6. LeavesFor(thr, "status", task)
    BY <1>2, <2>1, <2>2, <2>4, <2>5 DEF LeavesFor, list
  <2> QED  BY <2>6
<1>3. ASSUME ListSend(thr) PROVE Finishes(thr)
  <2>1. Runs(thr) /\ Now(thr) \in GoodTask /\ Now(thr).at = "send"
    BY <1>0, <1>3, NowTyped DEF ListSend
  <2> QED  BY <1>3, <2>1 DEF ListSend, Finishes
<1> QED  BY <1>1, <1>2, <1>3

(* Resets.                                                                 *)
LEMMA ResetsMove ==
  ASSUME TypeInv
  PROVE  /\ ResetStart => \E task : Enters("receiver", "status", task)
         /\ ResetClear => Clears
         /\ \A delivered \in BOOLEAN :
              ResetAnswered(delivered) => Cancels \/ Finishes("receiver")
<1>0. /\ "receiver" \in Threads /\ "status" \in Mutexes /\ QueuesTyped
  BY DEF Threads, Mutexes, TypeInv
<1>1. ASSUME ResetStart PROVE \E task : Enters("receiver", "status", task)
  <2> DEFINE req == Now("receiver")
             task == [req EXCEPT !.at = "clear"]
  <2>1. /\ Runs("receiver") /\ req \in GoodTask /\ req.at = "start"
        /\ req.op = "reset" /\ req \in Task
    BY <1>0, <1>1, NowTyped DEF ResetStart
  <2>2. Acquire("receiver", "status", task, "none")
    BY <1>1 DEF ResetStart
  <2> HIDE DEF req
  <2>3. task \in Task /\ task.op = "reset" /\ task.at = "clear"
    BY <2>1, ResetGoes
  <2> HIDE DEF task
  <2>4. task \in Waiter("status")
    BY <1>0, <2>3, WaiterTask DEF Named, WaitPlaces
  <2>5. Enters("receiver", "status", task)
    BY <2>1, <2>2, <2>3, <2>4 DEF Enters, req
  <2> QED  BY <2>5
<1>2. ASSUME ResetClear PROVE Clears
  <2>1. /\ Runs("receiver") /\ Now("receiver") \in GoodTask
        /\ Now("receiver").at = "clear" /\ Now("receiver").op = "reset"
    BY <1>0, <1>2, NowTyped DEF ResetClear
  <2> QED  BY <1>2, <2>1 DEF ResetClear, Clears, AnswerTask
<1>3. ASSUME NEW delivered \in BOOLEAN, ResetAnswered(delivered)
      PROVE  Cancels \/ Finishes("receiver")
  <2>1. /\ Runs("receiver") /\ Now("receiver") \in GoodTask
        /\ Now("receiver").at = "answer"
    BY <1>0, <1>3, NowTyped DEF ResetAnswered
  <2>2. tasks' = Done(tasks, "receiver")
    BY <1>3 DEF ResetAnswered
  <2>3. CASE Waiting("receiver", "status")
    <3> DEFINE l == [mutex["status"] EXCEPT !.waiters = <<>>]
    <3>1. mutex' = [mutex EXCEPT !["status"].waiters = <<>>]
      BY <1>3, <2>3 DEF ResetAnswered
    <3>2. mutex["status"] \in Lock /\ mutex["status"].loop = "receiver"
      BY <1>0, <2>3 DEF Waiting, QueuesTyped, MutexTyped
    <3>3. /\ l \in Lock /\ l.holder = mutex["status"].holder
          /\ l.loop = "receiver" /\ l.waiters = <<>>
      <4>1. <<>> \in Seq(GoodTask)
        OBVIOUS
      <4> QED  BY <3>2, <4>1 DEF Lock
    <3>4. mutex' = [mutex EXCEPT !["status"] = l]
      BY <3>1
    <3> HIDE DEF l
    <3>5. Cancels
      BY <1>0, <2>1, <2>2, <3>2, <3>3, <3>4 DEF Cancels
    <3> QED  BY <3>5
  <2>4. CASE ~Waiting("receiver", "status")
    <3>1. mutex' = mutex
      BY <1>3, <2>4 DEF ResetAnswered
    <3> QED  BY <2>1, <2>2, <3>1 DEF Finishes
  <2> QED  BY <2>3, <2>4
<1> QED  BY <1>1, <1>2, <1>3

LEMMA StepMoves ==
  ASSUME TypeInv, [Next]_vars
  PROVE  Moves
<1>0. "main" \in Threads /\ "receiver" \in Threads
      /\ "status" \in Mutexes /\ "heartbeat" \in Mutexes
  BY DEF Threads, Mutexes
<1>1. CASE Requests
  BY <1>1, RequestsMove DEF Moves
<1>2. CASE Commands
  BY <1>2, CommandsMove DEF Moves
<1>3. CASE MonitorTimer
  BY <1>3, TimerMoves DEF Moves
<1>4. ASSUME NEW thr \in Threads, Shared(thr) PROVE Moves
  <2>1. CASE RemoveStart(thr) \/ RemovePop(thr) \/ RemoveForget(thr)
    BY <1>0, <2>1, RemovesMove DEF Moves
  <2>2. CASE ListStart(thr) \/ ListCopy(thr) \/ ListSend(thr)
    BY <1>0, <2>2, ListsMove DEF Moves
  <2> QED  BY <1>4, <2>1, <2>2 DEF Shared
<1>5. CASE MainStep
  <2>1. CASE RegisterForbidden \/ RegisterKnown \/ RegisterLookup \/ RegisterInsert
             \/ RegisterWatch
    BY <1>0, <2>1, RegistersMove DEF Moves
  <2>2. CASE RegisterCreate
    BY <1>0, <2>2, CreateEnters DEF Moves
  <2>3. CASE PressedStart \/ PressedRecord \/ HeartbeatStart \/ HeartbeatRefresh
    BY <1>0, <2>3, PressesMove DEF Moves
  <2>4. CASE MonitorStart \/ \E late \in SUBSET Names : MonitorCheck(late)
    BY <1>0, <2>4, MonitorMoves DEF Moves
  <2>5. CASE Shared("main")
    BY <1>0, <1>4, <2>5
  <2> QED  BY <1>5, <2>1, <2>2, <2>3, <2>4, <2>5 DEF MainStep
<1>6. CASE ReceiverStep
  <2>1. CASE ResetStart \/ ResetClear
             \/ \E delivered \in BOOLEAN : ResetAnswered(delivered)
    BY <1>0, <2>1, ResetsMove DEF Moves
  <2>2. CASE Shared("receiver")
    BY <1>0, <1>4, <2>2
  <2> QED  BY <1>6, <2>1, <2>2 DEF ReceiverStep
<1>7. CASE UNCHANGED vars
  BY <1>7 DEF vars, Moves, Rests
<1> QED  BY <1>1, <1>2, <1>3, <1>5, <1>6, <1>7 DEF Next

(* The coroutines of a set S become more only by one that begins, or that  *)
(* goes on into S.                                                         *)
Grows(S) ==
  \/ \E thr \in Threads, m \in Mutexes, task \in S :
       (Enters(thr, m, task) \/ LeavesFor(thr, m, task)) /\ Now(thr) \notin S
  \/ \E thr \in Threads, task \in S : EntersInner(thr, task) /\ Now(thr) \notin S
  \/ \E task \in S : Created(task) \/ Commanded(task)
  \/ \E m \in Mutexes, task \in S : LeavesCreating(m, task)
  \/ ListTask \in S \/ AnswerTask \in S

LEMMA BitBounds ==
  ASSUME NEW S
  PROVE  \A t : /\ Bit(t, S) \in {0, 1}
                /\ Bit(t, S) = 1 <=> t \in S
BY DEF Bit

LEMMA StepTotal ==
  ASSUME QueuesTyped, MapsTyped, Moves, NEW S
  PROVE  /\ QueuesTyped'
         /\ Total(tasks', mutex', S) <= Total(tasks, mutex, S) \/ Grows(S)
<1>0. /\ "main" \in Threads /\ "receiver" \in Threads
      /\ "status" \in Mutexes /\ "heartbeat" \in Mutexes
      /\ "none" \in Mutexes \cup {"none"} /\ "status" \in Mutexes \cup {"none"}
      /\ Total(tasks, mutex, S) \in Nat
  BY TotalTyped DEF Threads, Mutexes, QueuesTyped
<1>1. ASSUME NEW thr \in Threads, NEW m \in Mutexes, NEW task, Enters(thr, m, task)
      PROVE  QueuesTyped' /\ (Total(tasks', mutex', S) <= Total(tasks, mutex, S)
                              \/ Grows(S))
  <2>1. /\ Runs(thr) /\ task \in Waiter(m) /\ Acquire(thr, m, task, "none")
    BY <1>1 DEF Enters
  <2>2. /\ QueuesTyped' /\ Total(tasks', mutex', S) \in Nat
        /\ Total(tasks', mutex', S)
             <= Total(tasks, mutex, S) - Bit(Now(thr), S) + Bit(task, S)
    BY <1>0, <2>1, AcquireTyped
  <2>3. CASE task \in S /\ Now(thr) \notin S
    BY <1>1, <2>2, <2>3 DEF Grows
  <2>4. CASE ~(task \in S /\ Now(thr) \notin S)
    <3>1. Bit(task, S) <= Bit(Now(thr), S) /\ Bit(task, S) \in Nat
          /\ Bit(Now(thr), S) \in Nat
      BY <2>4 DEF Bit
    <3> QED  BY <1>0, <2>2, <3>1
  <2> QED  BY <2>3, <2>4
<1>2. ASSUME NEW thr \in Threads, NEW task, EntersInner(thr, task)
      PROVE  QueuesTyped' /\ (Total(tasks', mutex', S) <= Total(tasks, mutex, S)
                              \/ Grows(S))
  <2>1. /\ Runs(thr) /\ task \in Waiter("heartbeat")
        /\ Acquire(thr, "heartbeat", task, "status")
    BY <1>2 DEF EntersInner
  <2>2. /\ QueuesTyped' /\ Total(tasks', mutex', S) \in Nat
        /\ Total(tasks', mutex', S)
             <= Total(tasks, mutex, S) - Bit(Now(thr), S) + Bit(task, S)
    BY <1>0, <2>1, AcquireTyped
  <2>3. CASE task \in S /\ Now(thr) \notin S
    BY <1>2, <2>2, <2>3 DEF Grows
  <2>4. CASE ~(task \in S /\ Now(thr) \notin S)
    <3>1. Bit(task, S) <= Bit(Now(thr), S) /\ Bit(task, S) \in Nat
          /\ Bit(Now(thr), S) \in Nat
      BY <2>4 DEF Bit
    <3> QED  BY <1>0, <2>2, <3>1
  <2> QED  BY <2>3, <2>4
<1>3. ASSUME NEW thr \in Threads, QueuesTyped' /\ Ends(thr, S)
      PROVE  QueuesTyped' /\ Total(tasks', mutex', S) <= Total(tasks, mutex, S)
  BY <1>3, EndsLess
<1>4. ASSUME NEW thr \in Threads, NEW task, QueuesTyped' /\ GoesOn(thr, task, S)
      PROVE  QueuesTyped' /\ (Total(tasks', mutex', S) <= Total(tasks, mutex, S)
                              \/ (task \in S /\ Now(thr) \notin S))
  <2>1. (task \in S /\ Now(thr) \notin S) \/ Bit(task, S) <= Bit(Now(thr), S)
    BY DEF Bit
  <2> QED  BY <1>4, <2>1, EndsLess
<1>5. ASSUME NEW thr \in Threads, NEW task, QueuesTyped' /\ Begins(thr, task, S)
      PROVE  QueuesTyped' /\ (Total(tasks', mutex', S) <= Total(tasks, mutex, S)
                              \/ task \in S)
  <2>1. task \in S \/ Bit(task, S) = 0
    BY DEF Bit
  <2> QED  BY <1>5, <2>1, EndsLess
<1>6. ASSUME NEW thr \in Threads, Fails(thr)
      PROVE  QueuesTyped' /\ Total(tasks', mutex', S) <= Total(tasks, mutex, S)
  BY <1>0, <1>3, <1>6, RaiseMoves DEF Fails
<1>7. ASSUME NEW thr \in Threads, NEW m \in Mutexes, Leaves(thr, m)
      PROVE  QueuesTyped' /\ Total(tasks', mutex', S) <= Total(tasks, mutex, S)
  BY <1>3, <1>7, LeaveMoves DEF Leaves
<1>8. ASSUME NEW thr \in Threads, NEW m \in Mutexes, NEW task, LeavesFor(thr, m, task)
      PROVE  QueuesTyped' /\ (Total(tasks', mutex', S) <= Total(tasks, mutex, S)
                              \/ Grows(S))
  <2>1. QueuesTyped' /\ GoesOn(thr, task, S)
    BY <1>8, LeaveGoesOn DEF LeavesFor
  <2> QED  BY <1>4, <1>8, <2>1 DEF Grows
<1>9. ASSUME NEW m \in Mutexes, NEW task, LeavesCreating(m, task)
      PROVE  QueuesTyped' /\ (Total(tasks', mutex', S) <= Total(tasks, mutex, S)
                              \/ Grows(S))
  <2>1. QueuesTyped' /\ GoesOn("main", task, S)
    BY <1>0, <1>9, LeaveCreates DEF LeavesCreating
  <2> QED  BY <1>0, <1>4, <1>9, <2>1 DEF Grows
<1>10. ASSUME NEW thr \in Threads, LeavesBoth(thr)
       PROVE  QueuesTyped' /\ (Total(tasks', mutex', S) <= Total(tasks, mutex, S)
                               \/ Grows(S))
  <2>1. QueuesTyped' /\ GoesOn(thr, ListTask, S)
    BY <1>10, NewTasks, LeaveBothCreates DEF LeavesBoth
  <2> QED  BY <1>4, <2>1 DEF Grows
<1>11. ASSUME NEW thr \in Threads, Finishes(thr)
       PROVE  QueuesTyped' /\ Total(tasks', mutex', S) <= Total(tasks, mutex, S)
  BY <1>3, <1>11, DoneMoves DEF Finishes
<1>12. ASSUME NEW task, Created(task)
       PROVE  QueuesTyped' /\ (Total(tasks', mutex', S) <= Total(tasks, mutex, S)
                               \/ Grows(S))
  <2>1. QueuesTyped' /\ Begins("main", task, S)
    BY <1>0, <1>12, CreateMoves DEF Created
  <2> QED  BY <1>0, <1>5, <1>12, <2>1 DEF Grows
<1>13. ASSUME NEW task, Commanded(task)
       PROVE  QueuesTyped' /\ (Total(tasks', mutex', S) <= Total(tasks, mutex, S)
                               \/ Grows(S))
  <2>1. QueuesTyped' /\ Begins("receiver", task, S)
    BY <1>13, CommandMoves DEF Commanded
  <2> QED  BY <1>0, <1>5, <1>13, <2>1 DEF Grows
<1>14. ASSUME Clears
       PROVE  QueuesTyped' /\ (Total(tasks', mutex', S) <= Total(tasks, mutex, S)
                               \/ Grows(S))
  <2>1. /\ QueuesTyped'
        /\ Own(tasks', mutex', "main", S) = Own(tasks, mutex, "main", S)
        /\ Own(tasks', mutex', "receiver", S) = Own(tasks, mutex, "receiver", S)
             - Count(tasks["receiver"], S) + Bit(ListTask, S) + Bit(AnswerTask, S)
    BY <1>14, ClearsMoves
  <2>2. /\ Count(tasks["receiver"], S) \in Nat
        /\ Own(tasks, mutex, "main", S) \in Nat
        /\ Own(tasks, mutex, "receiver", S) \in Nat
    BY <1>0, ReadyTyped, OwnTyped DEF QueuesTyped
  <2>3. CASE ListTask \in S \/ AnswerTask \in S
    BY <2>1, <2>3 DEF Grows
  <2>4. CASE ~(ListTask \in S \/ AnswerTask \in S)
    <3>1. Bit(ListTask, S) = 0 /\ Bit(AnswerTask, S) = 0
      BY <2>4 DEF Bit
    <3> QED  BY <2>1, <2>2, <3>1 DEF Total
  <2> QED  BY <2>3, <2>4
<1>15. ASSUME Cancels
       PROVE  QueuesTyped' /\ Total(tasks', mutex', S) <= Total(tasks, mutex, S)
  <2>1. /\ QueuesTyped'
        /\ Own(tasks', mutex', "main", S) = Own(tasks, mutex, "main", S)
        /\ Own(tasks', mutex', "receiver", S)
             <= Own(tasks, mutex, "receiver", S) - Bit(Now("receiver"), S)
    BY <1>0, <1>15, CancelMoves DEF Cancels
  <2>2. /\ Own(tasks, mutex, "main", S) \in Nat
        /\ Own(tasks, mutex, "receiver", S) \in Nat
        /\ Own(tasks', mutex', "receiver", S) \in Nat
        /\ Bit(Now("receiver"), S) \in Nat
    BY <1>0, <2>1, OwnTyped DEF QueuesTyped, Bit
  <2> QED  BY <2>1, <2>2 DEF Total
<1>16. ASSUME Rests
       PROVE  QueuesTyped' /\ Total(tasks', mutex', S) <= Total(tasks, mutex, S)
  BY <1>0, <1>16 DEF Rests, QueuesTyped
<1> QED
  BY <1>1, <1>2, <1>6, <1>7, <1>8, <1>9, <1>10, <1>11, <1>12, <1>13, <1>14,
     <1>15, <1>16 DEF Moves

-----------------------------------------------------------------------------
LEMMA RegistrationGrows ==
  ASSUME Grows(Uncreated)
  PROVE  \E task \in GoodTask : Created(task) /\ task.op = "register"
<1>1. ASSUME NEW thr, NEW m, NEW task \in Uncreated,
             Enters(thr, m, task) \/ LeavesFor(thr, m, task),
             Now(thr) \notin Uncreated
      PROVE  FALSE
  <2>1. /\ task.op = "register" /\ task.at \in {"start", "lookup", "create"}
        /\ Now(thr) \in Task /\ Now(thr).op = "register"
    BY <1>1 DEF Enters, LeavesFor, Uncreated, GoodTask
  <2>2. Now(thr).at \in {"start", "lookup", "create"}
    BY <1>1, <2>1 DEF Enters, LeavesFor
  <2> QED  BY <1>1, <2>1, <2>2 DEF Uncreated
<1>2. ASSUME NEW thr, NEW task \in Uncreated, EntersInner(thr, task)
      PROVE  FALSE
  BY <1>2 DEF EntersInner, Uncreated
<1>3. ASSUME NEW task \in Uncreated, Commanded(task) PROVE FALSE
  BY <1>3 DEF Commanded, Uncreated
<1>4. ASSUME NEW m, NEW task \in Uncreated, LeavesCreating(m, task) PROVE FALSE
  BY <1>4 DEF LeavesCreating, Uncreated
<1>5. ListTask \notin Uncreated /\ AnswerTask \notin Uncreated
  BY DEF ListTask, AnswerTask, Uncreated
<1>6. \E task \in Uncreated : Created(task)
  BY <1>1, <1>2, <1>3, <1>4, <1>5 DEF Grows
<1> QED  BY <1>6 DEF Created, Uncreated

LEMMA RegistrationLeft ==
  ASSUME TypeInv, NEW task \in GoodTask, Created(task), task.op = "register",
         max_device_num' = max_device_num
  PROVE  NamesLeft'
<1>0. "main" \in Threads
  BY DEF Threads
<1>1. QueuesTyped' /\ Begins("main", task, Uncreated)
  BY <1>0, CreateMoves DEF Created, TypeInv
<1>2. /\ Total(tasks, mutex, Uncreated) \in Nat
      /\ Total(tasks', mutex', Uncreated)
           = Total(tasks, mutex, Uncreated) + Bit(task, Uncreated)
  BY <1>0, <1>1, MovesTotal DEF TypeInv
<1>3. Total(tasks, mutex, Uncreated) <= Unfinished({"register"})
      /\ Unfinished({"register"}) \in Nat
  <2> DEFINE Registers == {t \in Task : t.op \in {"register"}}
  <2>1. /\ Coroutines \in Seq(GoodTask)
        /\ Count(Coroutines, Uncreated) = Total(tasks, mutex, Uncreated)
        /\ Count(Coroutines, Registers) = Total(tasks, mutex, Registers)
    BY CoroutinesTotal DEF TypeInv
  <2>2. Uncreated \subseteq Registers
    BY DEF Uncreated
  <2>3. Unfinished({"register"}) = Total(tasks, mutex, Registers)
    BY UnfinishedTotal DEF TypeInv
  <2> HIDE DEF Registers
  <2>4. Count(Coroutines, Uncreated) <= Count(Coroutines, Registers)
    BY <2>1, <2>2, CountSubset
  <2>5. Total(tasks, mutex, Registers) \in Nat
    BY TotalTyped DEF TypeInv, QueuesTyped
  <2> QED  BY <2>1, <2>3, <2>4, <2>5
<1>4. Bit(task, Uncreated) \in {0, 1}
  BY DEF Bit
<1>5. max_device_num \in Nat /\ max_device_num + Unfinished({"register"}) < MaxDevices
  BY DEF TypeInv, MapsTyped, Created
<1> QED  BY <1>2, <1>3, <1>4, <1>5 DEF NamesLeft

LEMMA NamesLeftStep ==
  ASSUME TypeInv, [Next]_vars
  PROVE  QueuesTyped' /\ NamesLeft'
<1>1. /\ QueuesTyped'
      /\ \/ Total(tasks', mutex', Uncreated) <= Total(tasks, mutex, Uncreated)
         \/ Grows(Uncreated)
  BY StepMoves, StepTotal DEF TypeInv
<1>2. CASE RegisterCreate
  <2>1. PICK task : /\ Enters("main", "status", task)
                    /\ Bit(task, Uncreated) = 0
                    /\ Bit(Now("main"), Uncreated) = 1
    BY <1>2, CreateEnters
  <2>2. /\ Total(tasks', mutex', Uncreated) \in Nat
        /\ Total(tasks', mutex', Uncreated) <= Total(tasks, mutex, Uncreated)
             - Bit(Now("main"), Uncreated) + Bit(task, Uncreated)
    <3>1. /\ "main" \in Threads /\ "status" \in Mutexes
          /\ "none" \in Mutexes \cup {"none"}
      BY DEF Threads, Mutexes
    <3>2. /\ Runs("main") /\ task \in Waiter("status")
          /\ Acquire("main", "status", task, "none")
      BY <2>1 DEF Enters
    <3>3. MapsTyped /\ QueuesTyped
      BY DEF TypeInv
    <3> QED  BY <3>1, <3>2, <3>3, AcquireTyped
  <2>3. max_device_num' = max_device_num + 1
    BY <1>2 DEF RegisterCreate
  <2>4. Total(tasks, mutex, Uncreated) \in Nat /\ max_device_num \in Nat
    BY TotalTyped DEF TypeInv, QueuesTyped, MapsTyped
  <2>5. NamesLeft'
    BY <2>1, <2>2, <2>3, <2>4 DEF TypeInv, NamesLeft
  <2> QED  BY <1>1, <2>5
<1>3. CASE ~RegisterCreate
  <2>1. max_device_num' = max_device_num
    BY <1>3 DEF Next, Requests, Commands, MonitorTimer, MainStep, ReceiverStep,
       Shared, RegisterArrives, PressedArrives, HeartbeatArrives, Arrives,
       ResetCommand, PairingCommand, RemoveCommand, RegisterForbidden,
       RegisterKnown, RegisterLookup, RegisterInsert, RegisterWatch, PressedStart,
       PressedRecord, HeartbeatStart, HeartbeatRefresh, MonitorStart,
       MonitorCheck, RemoveStart, RemovePop, RemoveForget, ListStart, ListCopy,
       ListSend, ResetStart, ResetClear, ResetAnswered, vars
  <2>2. CASE Grows(Uncreated)
    BY <1>1, <2>1, <2>2, RegistrationGrows, RegistrationLeft
  <2>3. CASE ~Grows(Uncreated)
    BY <1>1, <2>1, <2>3, NamesLeftKept
  <2> QED  BY <1>1, <2>2, <2>3
<1> QED  BY <1>2, <1>3

(* The maps are only ever changed in these ways.                           *)
LEMMA StatusTyped ==
  ASSUME TypeInv, [Next]_vars
  PROVE  /\ device_status_map' \in PartialMaps(Names, Device)
         /\ \/ device_status_map' = device_status_map
            \/ RegisterInsert \/ PressedRecord \/ ResetClear
            \/ \E thr \in Threads : RemovePop(thr)
<1>0. /\ device_status_map \in PartialMaps(Names, Device) /\ QueuesTyped
      /\ "main" \in Threads /\ "receiver" \in Threads
  BY DEF TypeInv, MapsTyped, Threads
<1>1. ASSUME RegisterInsert
      PROVE  device_status_map' \in PartialMaps(Names, Device)
  <2> DEFINE req == Now("main")
             device == [endpoint |-> req.endpoint, timestamp |-> None]
  <2>1. req \in GoodTask /\ req \in Task /\ req.op = "register" /\ req.at = "insert"
    BY <1>0, <1>1, NowTyped DEF RegisterInsert
  <2>2. req.name \in Names /\ req.endpoint \in Endpoints
    BY <2>1, KindOf DEF GoodTask, Named, RegisterTask
  <2>3. device_status_map' = Add(device_status_map, req.name, device)
    BY <1>1 DEF RegisterInsert
  <2>4. device \in Device
    BY <2>2 DEF Device
  <2> HIDE DEF device, req
  <2> QED  BY <1>0, <2>2, <2>3, <2>4, AddTyped
<1>2. ASSUME PressedRecord
      PROVE  device_status_map' \in PartialMaps(Names, Device)
  <2> DEFINE press == Now("main")
  <2>1. press \in Task /\ press.op = "pressed"
    BY <1>0, <1>2, NowTyped DEF PressedRecord
  <2>2. press.time \in Timestamps
    BY <2>1, KindOf DEF PressedTask
  <2>3. \/ device_status_map' = device_status_map
        \/ /\ press.name \in DOMAIN device_status_map
           /\ device_status_map' =
                [device_status_map EXCEPT ![press.name].timestamp = press.time]
    BY <1>2 DEF PressedRecord
  <2> HIDE DEF press
  <2> QED  BY <1>0, <2>2, <2>3, PressTyped
<1>3. ASSUME ResetClear
      PROVE  device_status_map' \in PartialMaps(Names, Device)
  <2>1. device_status_map' = [n \in DOMAIN device_status_map |->
          [device_status_map[n] EXCEPT !.timestamp = None]]
    BY <1>3 DEF ResetClear
  <2>2. \A n \in DOMAIN device_status_map :
          [device_status_map[n] EXCEPT !.timestamp = None] \in Device
    BY <1>0, PartialMap, StampTyped
  <2>3. DOMAIN device_status_map \subseteq Names
    BY <1>0, PartialMap
  <2>4. device_status_map' \in [DOMAIN device_status_map -> Device]
    BY <2>1, <2>2
  <2> QED  BY <2>3, <2>4, PartialMap
<1>4. ASSUME NEW thr \in Threads, RemovePop(thr)
      PROVE  device_status_map' \in PartialMaps(Names, Device)
  <2> DEFINE name == NextName(Now(thr).names)
  <2>1. \/ device_status_map' = device_status_map
        \/ device_status_map' = Pop(device_status_map, name)
    BY <1>4 DEF RemovePop
  <2> HIDE DEF name
  <2>2. Pop(device_status_map, name) \in PartialMaps(Names, Device)
    BY <1>0, PopTyped
  <2> QED  BY <1>0, <2>1, <2>2
<1>5. \/ device_status_map' = device_status_map
      \/ RegisterInsert \/ PressedRecord \/ ResetClear
      \/ \E thr \in Threads : RemovePop(thr)
  BY <1>0 DEF Next, Requests, Commands, MonitorTimer, MainStep, ReceiverStep,
     Shared, RegisterArrives, PressedArrives, HeartbeatArrives, Arrives,
     ResetCommand, PairingCommand, RemoveCommand, RegisterForbidden,
     RegisterKnown, RegisterLookup, RegisterCreate, RegisterWatch, PressedStart,
     HeartbeatStart, HeartbeatRefresh, MonitorStart, MonitorCheck, RemoveStart,
     RemoveForget, ListStart, ListCopy, ListSend, ResetStart, ResetAnswered,
     vars, mapVars
<1> QED  BY <1>0, <1>1, <1>2, <1>3, <1>4, <1>5

LEMMA HeartbeatTyped ==
  ASSUME TypeInv, [Next]_vars
  PROVE  /\ device_heartbeat_map' \in PartialMaps(Names, 0 .. AHEAD)
         /\ \/ DOMAIN device_heartbeat_map' = DOMAIN device_heartbeat_map
            \/ RegisterWatch \/ \E thr \in Threads : RemoveForget(thr)
<1>0. /\ device_heartbeat_map \in PartialMaps(Names, 0 .. AHEAD) /\ QueuesTyped
      /\ "main" \in Threads /\ "receiver" \in Threads /\ Fresh \in 0 .. AHEAD
  BY DEF TypeInv, MapsTyped, Threads, Fresh, AHEAD
<1>1. ASSUME RegisterWatch
      PROVE  device_heartbeat_map' \in PartialMaps(Names, 0 .. AHEAD)
  <2> DEFINE req == Now("main")
  <2>1. req \in GoodTask /\ req.op = "register" /\ req.at = "watch"
    BY <1>0, <1>1, NowTyped DEF RegisterWatch
  <2>2. req.name \in Names
    BY <2>1 DEF GoodTask, Named
  <2>3. device_heartbeat_map' = Add(device_heartbeat_map, req.name, Fresh)
    BY <1>1 DEF RegisterWatch
  <2> HIDE DEF req
  <2> QED  BY <1>0, <2>2, <2>3, AddTyped
<1>2. ASSUME HeartbeatRefresh
      PROVE  /\ device_heartbeat_map' \in PartialMaps(Names, 0 .. AHEAD)
             /\ DOMAIN device_heartbeat_map' = DOMAIN device_heartbeat_map
  <2> DEFINE name == Now("main").name
  <2>1. \/ device_heartbeat_map' = device_heartbeat_map
        \/ /\ name \in DOMAIN device_heartbeat_map
           /\ device_heartbeat_map' = [device_heartbeat_map EXCEPT ![name] = Fresh]
    BY <1>2 DEF HeartbeatRefresh
  <2> HIDE DEF name
  <2>2. DOMAIN device_heartbeat_map' = DOMAIN device_heartbeat_map
    BY <2>1
  <2>3. CASE device_heartbeat_map' = device_heartbeat_map
    BY <1>0, <2>3
  <2>4. CASE name \in DOMAIN device_heartbeat_map
             /\ device_heartbeat_map' = [device_heartbeat_map EXCEPT ![name] = Fresh]
    BY <1>0, <2>4, ExceptTyped
  <2> QED  BY <2>1, <2>2, <2>3, <2>4
<1>3. ASSUME NEW late \in SUBSET Names, MonitorCheck(late)
      PROVE  /\ device_heartbeat_map' \in PartialMaps(Names, 0 .. AHEAD)
             /\ DOMAIN device_heartbeat_map' = DOMAIN device_heartbeat_map
  <2>1. device_heartbeat_map' = [n \in DOMAIN device_heartbeat_map |->
                                   Aged(device_heartbeat_map[n])]
    BY <1>3 DEF MonitorCheck
  <2>2. /\ DOMAIN device_heartbeat_map \subseteq Names
        /\ \A n \in DOMAIN device_heartbeat_map : device_heartbeat_map[n] \in 0 .. AHEAD
    <3> DEFINE Ages == 0 .. AHEAD
    <3>1. device_heartbeat_map \in PartialMaps(Names, Ages)
      BY <1>0
    <3> HIDE DEF Ages
    <3>2. /\ DOMAIN device_heartbeat_map \subseteq Names
          /\ device_heartbeat_map \in [DOMAIN device_heartbeat_map -> Ages]
      BY <3>1, PartialMap
    <3>3. \A n \in DOMAIN device_heartbeat_map : device_heartbeat_map[n] \in Ages
      BY <3>2
    <3> QED  BY <3>2, <3>3 DEF Ages
  <2>3. \A age \in 0 .. AHEAD : Aged(age) \in 0 .. AHEAD
    BY DEF Aged, AHEAD, OLD
  <2>4. device_heartbeat_map' \in [DOMAIN device_heartbeat_map -> 0 .. AHEAD]
    BY <2>1, <2>2, <2>3
  <2> QED  BY <2>1, <2>2, <2>4, PartialMap
<1>4. ASSUME NEW thr \in Threads, RemoveForget(thr)
      PROVE  device_heartbeat_map' \in PartialMaps(Names, 0 .. AHEAD)
  <2>1. device_heartbeat_map'
          = Pop(device_heartbeat_map, NextName(Now(thr).names))
    BY <1>4 DEF RemoveForget
  <2> QED  BY <1>0, <2>1, PopTyped
<1>5. \/ device_heartbeat_map' = device_heartbeat_map
      \/ RegisterWatch \/ HeartbeatRefresh \/ \E late \in SUBSET Names : MonitorCheck(late)
      \/ \E thr \in Threads : RemoveForget(thr)
  BY <1>0 DEF Next, Requests, Commands, MonitorTimer, MainStep, ReceiverStep,
     Shared, RegisterArrives, PressedArrives, HeartbeatArrives, Arrives,
     ResetCommand, PairingCommand, RemoveCommand, RegisterForbidden,
     RegisterKnown, RegisterLookup, RegisterCreate, RegisterInsert, PressedStart,
     PressedRecord, HeartbeatStart, MonitorStart, RemoveStart, RemovePop,
     ListStart, ListCopy, ListSend, ResetStart, ResetClear, ResetAnswered,
     vars, mapVars
<1> QED  BY <1>0, <1>1, <1>2, <1>3, <1>4, <1>5

LEMMA ListTyped ==
  ASSUME TypeInv, [Next]_vars
  PROVE  ui_list' \in BuzzerLists
<1>0. "main" \in Threads /\ "receiver" \in Threads
  BY DEF Threads
<1>1. ASSUME NEW thr \in Threads, ListSend(thr) PROVE ui_list' \in BuzzerLists
  <2>1. Now(thr) \in Task /\ Now(thr).op = "list" /\ ui_list' = Now(thr).list
    BY <1>1, NowTyped DEF ListSend, TypeInv
  <2> QED  BY <2>1, KindOf DEF CopyTask
<1>2. ui_list' = ui_list \/ \E thr \in Threads : ListSend(thr)
  BY <1>0 DEF Next, Requests, Commands, MonitorTimer, MainStep, ReceiverStep,
     Shared, RegisterArrives, PressedArrives, HeartbeatArrives, Arrives,
     ResetCommand, PairingCommand, RemoveCommand, RegisterForbidden,
     RegisterKnown, RegisterLookup, RegisterCreate, RegisterInsert,
     RegisterWatch, PressedStart, PressedRecord, HeartbeatStart,
     HeartbeatRefresh, MonitorStart, MonitorCheck, RemoveStart, RemovePop,
     RemoveForget, ListStart, ListCopy, ResetStart, ResetClear, ResetAnswered,
     vars
<1> QED  BY <1>1, <1>2 DEF TypeInv, MapsTyped

LEMMA AliveTyped ==
  ASSUME TypeInv, [Next]_vars
  PROVE  monitor' \in {"asleep", "running", "dead"} /\ receiver_alive' \in BOOLEAN
<1>0. MapsTyped
  BY DEF TypeInv
<1>1. ASSUME NEW thr, NEW m, NEW task, NEW held, Acquire(thr, m, task, held)
      PROVE  monitor' \in {"asleep", "running", "dead"} /\ receiver_alive' \in BOOLEAN
  <2>1. CASE Raise(thr, held)
    BY <1>0, <2>1, RaiseTyped
  <2>2. CASE UNCHANGED <<monitor, receiver_alive>>
    BY <1>0, <2>2 DEF MapsTyped
  <2> QED  BY <1>1, <2>1, <2>2 DEF Acquire
<1>2. ASSUME NEW thr \in Threads, RemovePop(thr)
      PROVE  monitor' \in {"asleep", "running", "dead"} /\ receiver_alive' \in BOOLEAN
  <2>1. \/ Raise(thr, "status")
        \/ \E task : Acquire(thr, "heartbeat", task, "status")
    BY <1>2, Zenon DEF RemovePop
  <2> QED  BY <1>0, <1>1, <2>1, RaiseTyped
<1>3. ASSUME NEW thr \in Threads, ListStart(thr)
      PROVE  monitor' \in {"asleep", "running", "dead"} /\ receiver_alive' \in BOOLEAN
  <2>1. \/ UNCHANGED <<monitor, receiver_alive>>
        \/ \E task : Acquire(thr, "status", task, "none")
    BY <1>3, Zenon DEF ListStart
  <2> QED  BY <1>0, <1>1, <2>1 DEF MapsTyped
<1>4. ASSUME NEW delivered \in BOOLEAN, ResetAnswered(delivered)
      PROVE  monitor' \in {"asleep", "running", "dead"} /\ receiver_alive' \in BOOLEAN
  BY <1>0, <1>4 DEF ResetAnswered, MapsTyped
<1>5. ASSUME NEW n, RemoveCommand(n)
      PROVE  monitor' \in {"asleep", "running", "dead"} /\ receiver_alive' \in BOOLEAN
  BY <1>0, <1>5 DEF RemoveCommand, MapsTyped
<1>6. ASSUME NEW late, MonitorCheck(late)
      PROVE  monitor' \in {"asleep", "running", "dead"} /\ receiver_alive' \in BOOLEAN
  BY <1>0, <1>6 DEF MonitorCheck, MapsTyped
<1>7. CASE MonitorTimer
  BY <1>0, <1>7 DEF MonitorTimer, MapsTyped
<1>8. ASSUME NEW thr \in Threads, RemoveStart(thr)
      PROVE  monitor' \in {"asleep", "running", "dead"} /\ receiver_alive' \in BOOLEAN
  BY <1>1, <1>8 DEF RemoveStart
<1>9. CASE RegisterKnown \/ RegisterCreate \/ RegisterInsert \/ PressedStart
           \/ HeartbeatStart \/ MonitorStart \/ ResetStart
  BY <1>1, <1>9 DEF RegisterKnown, RegisterCreate, RegisterInsert, PressedStart,
     HeartbeatStart, MonitorStart, ResetStart
<1>10. ASSUME NEW thr \in Threads,
              RemoveForget(thr) \/ ListCopy(thr) \/ ListSend(thr)
       PROVE  monitor' \in {"asleep", "running", "dead"} /\ receiver_alive' \in BOOLEAN
  BY <1>0, <1>10 DEF RemoveForget, ListCopy, ListSend, MapsTyped
<1>11. CASE RegisterForbidden \/ RegisterLookup \/ RegisterWatch
            \/ PressedRecord \/ HeartbeatRefresh \/ ResetClear \/ ResetCommand
            \/ UNCHANGED vars
  BY <1>0, <1>11 DEF RegisterForbidden, RegisterLookup, RegisterWatch,
     PressedRecord, HeartbeatRefresh, ResetClear, ResetCommand, vars, MapsTyped
<1>12. ASSUME Requests \/ \E enabled \in BOOLEAN : PairingCommand(enabled)
       PROVE  monitor' \in {"asleep", "running", "dead"} /\ receiver_alive' \in BOOLEAN
  BY <1>0, <1>12 DEF Requests, RegisterArrives, PressedArrives, HeartbeatArrives,
     Arrives, PairingCommand, MapsTyped
<1>13. "main" \in Threads /\ "receiver" \in Threads
  BY DEF Threads
<1> QED
  BY <1>2, <1>3, <1>4, <1>5, <1>6, <1>7, <1>8, <1>9, <1>10, <1>11, <1>12, <1>13
     DEF Next, Commands, MainStep, ReceiverStep, Shared

LEMMA TypeStep ==
  TypeInv /\ [Next]_vars => TypeInv'
<1> SUFFICES ASSUME TypeInv, [Next]_vars PROVE TypeInv'
  OBVIOUS
<1>1. QueuesTyped' /\ NamesLeft'
  BY NamesLeftStep
<1>2. max_device_num' \in 0 .. MaxDevices
  <2>1. Total(tasks', mutex', Uncreated) \in Nat
    BY <1>1, TotalTyped DEF QueuesTyped
  <2>2. max_device_num' \in Nat
    <3>1. max_device_num' \in {max_device_num, max_device_num + 1}
      BY DEF Next, Requests, Commands, MonitorTimer, MainStep, ReceiverStep,
         Shared, RegisterArrives, PressedArrives, HeartbeatArrives, Arrives,
         ResetCommand, PairingCommand, RemoveCommand, RegisterForbidden,
         RegisterKnown, RegisterLookup, RegisterCreate, RegisterInsert,
         RegisterWatch, PressedStart, PressedRecord, HeartbeatStart,
         HeartbeatRefresh, MonitorStart, MonitorCheck, RemoveStart, RemovePop,
         RemoveForget, ListStart, ListCopy, ListSend, ResetStart, ResetClear,
         ResetAnswered, vars
    <3> QED  BY <3>1 DEF TypeInv, MapsTyped
  <2> QED  BY <1>1, <2>1, <2>2 DEF NamesLeft
<1>3. paring_mode_enabled' \in BOOLEAN
  <2>1. \/ paring_mode_enabled' = paring_mode_enabled
        \/ \E enabled \in BOOLEAN : PairingCommand(enabled)
    BY DEF Next, Requests, Commands, MonitorTimer, MainStep, ReceiverStep,
       Shared, RegisterArrives, PressedArrives, HeartbeatArrives, Arrives,
       ResetCommand, RemoveCommand, RegisterForbidden,
       RegisterKnown, RegisterLookup, RegisterCreate, RegisterInsert,
       RegisterWatch, PressedStart, PressedRecord, HeartbeatStart,
       HeartbeatRefresh, MonitorStart, MonitorCheck, RemoveStart, RemovePop,
       RemoveForget, ListStart, ListCopy, ListSend, ResetStart, ResetClear,
       ResetAnswered, vars
  <2> QED  BY <2>1 DEF PairingCommand, TypeInv, MapsTyped
<1>4. MapsTyped'
  BY <1>2, <1>3, StatusTyped, HeartbeatTyped, ListTyped, AliveTyped DEF MapsTyped
<1> QED  BY <1>1, <1>4 DEF TypeInv

(* The state of the buzzer backend has its types, however many requests,   *)
(* devices and removals there are: in particular no name above the bound   *)
(* is ever given out, although registrations wait for locks between the    *)
(* check of the bound and the counter (gameshow_server.py:129-161).        *)
THEOREM ServerTypeCorrect == Spec => []TypeOK
<1>1. TypeInv => TypeOK
  BY TypeInvTyped
<1> QED  BY <1>1, TypeInit, TypeStep, PTL DEF Spec
=============================================================================
