--------------------------- MODULE GameshowServer ---------------------------
(***************************************************************************)
(* The buzzer backend (src/pycoapapp/gameshow_server.py): the registry of  *)
(* buzzers, its CoAP resources, the heartbeat monitor, and the thread that *)
(* takes commands from the UI backend.                                     *)
(*                                                                         *)
(* Two threads share the maps.  "main" runs the event loop: one task after *)
(* the other, in the order they became ready, each until it ends or waits. *)
(* "receiver" runs one command at a time, each in an event loop of its own *)
(* (asyncio.run).  The interpreter switches between threads anywhere, so a *)
(* step here ends wherever the other thread could see or do something.     *)
(* The asyncio locks both threads use are made for one loop only.          *)
(***************************************************************************)
EXTENDS Naturals, Sequences, FiniteSets

CONSTANTS
  Endpoints,    \* addresses of buzzers
  Timestamps,   \* contents of the time field of a press
  None,         \* Python's None, also a register request without a name
  MaxDevices,   \* bound: names given out
  MaxRequests,     \* bound: requests the main thread has not finished
  MaxRemovals   \* bound: removals the main thread has not finished

ASSUME NoneAssumption == None \notin Timestamps \cup Nat
ASSUME BoundAssumption == MaxDevices \in Nat /\ MaxRequests \in Nat /\ MaxRemovals \in Nat

VARIABLES
  paring_mode_enabled,
  max_device_num,
  device_status_map,     \* name -> endpoint and timestamp of a buzzer
  device_heartbeat_map,  \* name -> age of its last heartbeat
  mutex,                 \* the locks of the two maps
  tasks,                 \* per thread, the coroutines that can run, in order
  monitor,               \* heartbeat_monitor_routine
  receiver_alive,        \* backend_message_receiver still loops
  ui_list                \* the buzzer list the UI backend got last

mapVars == <<device_status_map, device_heartbeat_map>>
vars == <<paring_mode_enabled, max_device_num, mapVars, mutex, tasks, monitor,
          receiver_alive, ui_list>>

Threads == {"main", "receiver"}
Mutexes == {"status", "heartbeat"}
Names == 0 .. MaxDevices - 1        \* buzzer0, buzzer1, ...

(* The age of a heartbeat in checks of the monitor; AHEAD: it came after   *)
(* the start_time of the check in progress.                                *)
OLD == 3
AHEAD == 4

PartialMaps(S, T) == UNION {[D -> T] : D \in SUBSET S}
Device == [endpoint : Endpoints, timestamp : Timestamps \cup {None}]
BuzzerLists == PartialMaps(Names, Timestamps \cup {None})

Task ==
  [op : {"register"}, at : {"start", "lookup", "create", "insert", "watch"},
   endpoint : Endpoints, name : Names \cup {None}]
  \cup [op : {"pressed"}, at : {"start", "record"}, name : Names,
        time : Timestamps]
  \cup [op : {"heartbeat"}, at : {"start", "refresh"}, name : Names]
  \cup [op : {"monitor"}, at : {"start", "check"}]
  \cup [op : {"remove"}, at : {"start", "pop", "forget"}, names : SUBSET Names]
  \cup [op : {"reset"}, at : {"start", "clear", "answer"}]
  \cup [op : {"list"}, at : {"start", "copy", "send"}, list : BuzzerLists]

TypeOK ==
  /\ paring_mode_enabled \in BOOLEAN
  /\ max_device_num \in 0 .. MaxDevices
  /\ device_status_map \in PartialMaps(Names, Device)
  /\ device_heartbeat_map \in PartialMaps(Names, 0 .. AHEAD)
  /\ mutex \in [Mutexes -> [holder : Threads \cup {"none"},
                            loop : Threads \cup {"none"},
                            waiters : Seq(Task)]]
  /\ tasks \in [Threads -> Seq(Task)]
  /\ monitor \in {"asleep", "running", "dead"}
  /\ receiver_alive \in BOOLEAN
  /\ ui_list \in BuzzerLists

ListTask == [op |-> "list", at |-> "start", list |-> <<>>]
MonitorTask == [op |-> "monitor", at |-> "start"]

Init ==
  /\ paring_mode_enabled = FALSE
  /\ max_device_num = 0
  /\ device_status_map = <<>> /\ device_heartbeat_map = <<>>
  /\ mutex = [m \in Mutexes |-> [holder |-> "none", loop |-> "none",
                                 waiters |-> <<>>]]
  /\ tasks = [main |-> <<MonitorTask, ListTask>>, receiver |-> <<>>]
  /\ monitor = "running"
  /\ receiver_alive = TRUE
  /\ ui_list = <<>>

-----------------------------------------------------------------------------
(* Tasks and asyncio locks.                                                *)

At(thr, op, at) ==
  /\ tasks[thr] # <<>>
  /\ Head(tasks[thr]).op = op /\ Head(tasks[thr]).at = at

Now(thr) == Head(tasks[thr])

(* The running task goes on at another place, or is over.                  *)
Goto(ts, thr, task) == [ts EXCEPT ![thr] = <<task>> \o Tail(@)]
Done(ts, thr) == [ts EXCEPT ![thr] = Tail(@)]
create_task(ts, thr, task) == [ts EXCEPT ![thr] = Append(@, task)]

(* A lock is bound to the loop of its first contended acquire; only there  *)
(* may a task wait for it.  Released it goes to its first waiter, which    *)
(* becomes ready.                                                          *)
Released(mx, m) ==
  IF mx[m].waiters = <<>> THEN [mx EXCEPT ![m].holder = "none"]
  ELSE [mx EXCEPT ![m].holder = mx[m].loop, ![m].waiters = Tail(@)]

Woken(ts, m) ==
  IF mutex[m].waiters = <<>> THEN ts
  ELSE LET task == Head(mutex[m].waiters)
       IN IF mutex[m].loop = "main" THEN create_task(ts, "main", task)
          ELSE [ts EXCEPT !["receiver"] = <<task>> \o @]

(* Contended in another loop an acquire raises RuntimeError, and every     *)
(* command of the receiver has a new loop.                                 *)
MayWait(thr, m) ==
  mutex[m].loop = "none" \/ (thr = "main" /\ mutex[m].loop = "main")

(* The running task of thr ends in an exception and leaves the locks it    *)
(* holds: fatal for the monitor and for the receiver.                      *)
Raise(thr, held) ==
  /\ mutex' = IF held = "none" THEN mutex ELSE Released(mutex, held)
  /\ tasks' = IF held = "none" THEN Done(tasks, thr)
              ELSE Woken(Done(tasks, thr), held)
  /\ monitor' = IF Now(thr).op = "monitor" THEN "dead" ELSE monitor
  /\ receiver_alive' = (receiver_alive /\ (thr = "main" \/ Now(thr).op = "list"))

(* async with m, in a task that already holds held: task is what runs once *)
(* the lock is acquired.                                                   *)
Acquire(thr, m, task, held) ==
  IF mutex[m].holder # "none" /\ ~MayWait(thr, m) THEN Raise(thr, held)
  ELSE /\ IF mutex[m].holder = "none"
            THEN /\ mutex' = [mutex EXCEPT ![m].holder = thr]
                 /\ tasks' = Goto(tasks, thr, task)
            ELSE /\ mutex' = [mutex EXCEPT ![m].loop = thr,
                                           ![m].waiters = Append(@, task)]
                 /\ tasks' = Done(tasks, thr)
       /\ UNCHANGED <<monitor, receiver_alive>>

(* The running task leaves m and ends.                                     *)
Leave(thr, m) ==
  /\ mutex' = Released(mutex, m)
  /\ tasks' = Woken(Done(tasks, thr), m)

LeaveAndList(thr, m) ==
  /\ mutex' = Released(mutex, m)
  /\ tasks' = create_task(Woken(Done(tasks, thr), m), thr, ListTask)

Waiting(thr, m) == mutex[m].loop = thr /\ mutex[m].waiters # <<>>

Add(map, key, value) ==
  [k \in DOMAIN map \cup {key} |-> IF k = key THEN value ELSE map[k]]
Pop(map, key) == [k \in DOMAIN map \ {key} |-> map[k]]

-----------------------------------------------------------------------------
(* Requests from buzzers.  A buzzer may come with any name: it keeps the   *)
(* one it got from the server before a restart.                            *)

Coroutines == tasks["main"] \o tasks["receiver"]
                \o mutex["status"].waiters \o mutex["heartbeat"].waiters

Unfinished(ops) ==
  Cardinality({i \in DOMAIN Coroutines : Coroutines[i].op \in ops})

Arrives(task) ==
  /\ Unfinished({"register", "pressed", "heartbeat"}) < MaxRequests
  /\ tasks' = create_task(tasks, "main", task)
  /\ UNCHANGED <<paring_mode_enabled, max_device_num, mapVars, mutex, monitor,
                 receiver_alive, ui_list>>

RegisterArrives(endpoint, name) ==
  /\ max_device_num + Unfinished({"register"}) < MaxDevices
  /\ Arrives([op |-> "register", at |-> "start", endpoint |-> endpoint,
              name |-> name])

(* render_put acknowledges the press before set_content has run.           *)
PressedArrives(name, time) ==
  Arrives([op |-> "pressed", at |-> "start", name |-> name, time |-> time])

HeartbeatArrives(name) ==
  Arrives([op |-> "heartbeat", at |-> "start", name |-> name])

(* register_device, then send_registered_name.                             *)
RegisterForbidden ==
  /\ At("main", "register", "start") /\ ~paring_mode_enabled
  /\ tasks' = Done(tasks, "main")
  /\ UNCHANGED <<paring_mode_enabled, max_device_num, mapVars, mutex, monitor,
                 receiver_alive, ui_list>>

RegisterKnown ==
  /\ At("main", "register", "start") /\ paring_mode_enabled
  /\ Now("main").name # None
  /\ Acquire("main", "status", [Now("main") EXCEPT !.at = "lookup"], "none")
  /\ UNCHANGED <<paring_mode_enabled, max_device_num, mapVars, ui_list>>

RegisterLookup ==
  /\ At("main", "register", "lookup")
  /\ LET req == Now("main")
         found == /\ req.name \in DOMAIN device_status_map
                  /\ device_status_map[req.name].endpoint = req.endpoint
     IN IF found THEN Leave("main", "status")
        ELSE /\ mutex' = Released(mutex, "status")
             /\ tasks' = Woken(Goto(tasks, "main", [req EXCEPT !.at = "create"]),
                               "status")
  /\ UNCHANGED <<paring_mode_enabled, max_device_num, mapVars, monitor,
                 receiver_alive, ui_list>>

(* A name taken from the counter after it was advanced.                    *)
RegisterCreateNextName ==
  /\ \/ /\ At("main", "register", "start") /\ paring_mode_enabled
        /\ Now("main").name = None
     \/ At("main", "register", "create")
  /\ max_device_num' = max_device_num + 1
  /\ Acquire("main", "status",
             [Now("main") EXCEPT !.at = "insert", !.name = max_device_num'],
             "none")
  /\ UNCHANGED <<paring_mode_enabled, mapVars, ui_list>>

RegisterCreate ==
  /\ \/ /\ At("main", "register", "start") /\ paring_mode_enabled
        /\ Now("main").name = None
     \/ At("main", "register", "create")
  /\ max_device_num' = max_device_num + 1
  /\ Acquire("main", "status",
             [Now("main") EXCEPT !.at = "insert", !.name = max_device_num],
             "none")
  /\ UNCHANGED <<paring_mode_enabled, mapVars, ui_list>>

RegisterInsert ==
  /\ At("main", "register", "insert")
  /\ LET req == Now("main")
     IN /\ device_status_map' = Add(device_status_map, req.name,
             [endpoint |-> req.endpoint, timestamp |-> None])
        /\ Acquire("main", "heartbeat", [req EXCEPT !.at = "watch"], "status")
  /\ UNCHANGED <<paring_mode_enabled, max_device_num, device_heartbeat_map,
                 ui_list>>

(* A check in progress took its start_time before now.                     *)
Checking == \E i \in DOMAIN Coroutines : Coroutines[i].op = "monitor"
                                       /\ Coroutines[i].at = "check"

Fresh == IF Checking THEN AHEAD ELSE 0

RegisterWatch ==
  /\ At("main", "register", "watch")
  /\ device_heartbeat_map' = Add(device_heartbeat_map, Now("main").name, Fresh)
  /\ mutex' = Released(Released(mutex, "heartbeat"), "status")
  /\ tasks' = Woken(create_task(Woken(Done(tasks, "main"), "heartbeat"),
                                "main", ListTask), "status")
  /\ UNCHANGED <<paring_mode_enabled, max_device_num, device_status_map,
                 monitor, receiver_alive, ui_list>>

(* ButtonPressedResource.set_content.                                      *)
PressedStart ==
  /\ At("main", "pressed", "start")
  /\ Acquire("main", "status", [Now("main") EXCEPT !.at = "record"], "none")
  /\ UNCHANGED <<paring_mode_enabled, max_device_num, mapVars, ui_list>>

(* A press that replaces an earlier one.                                   *)
PressedRecordLast ==
  /\ At("main", "pressed", "record")
  /\ LET press == Now("main")
     IN IF press.name \in DOMAIN device_status_map
          THEN /\ device_status_map' =
                    [device_status_map EXCEPT ![press.name].timestamp = press.time]
               /\ LeaveAndList("main", "status")
          ELSE /\ Leave("main", "status") /\ UNCHANGED device_status_map
  /\ UNCHANGED <<paring_mode_enabled, max_device_num, device_heartbeat_map,
                 monitor, receiver_alive, ui_list>>

(* A press that is recorded and not listed.                                *)
PressedRecordQuiet ==
  /\ At("main", "pressed", "record")
  /\ LET press == Now("main")
     IN device_status_map' =
          IF /\ press.name \in DOMAIN device_status_map
             /\ device_status_map[press.name].timestamp = None
          THEN [device_status_map EXCEPT ![press.name].timestamp = press.time]
          ELSE device_status_map
  /\ Leave("main", "status")
  /\ UNCHANGED <<paring_mode_enabled, max_device_num, device_heartbeat_map,
                 monitor, receiver_alive, ui_list>>

PressedRecord ==
  /\ At("main", "pressed", "record")
  /\ LET press == Now("main")
     IN IF /\ press.name \in DOMAIN device_status_map
           /\ device_status_map[press.name].timestamp = None
          THEN /\ device_status_map' =
                    [device_status_map EXCEPT ![press.name].timestamp = press.time]
               /\ LeaveAndList("main", "status")
          ELSE /\ Leave("main", "status") /\ UNCHANGED device_status_map
  /\ UNCHANGED <<paring_mode_enabled, max_device_num, device_heartbeat_map,
                 monitor, receiver_alive, ui_list>>

(* HeartbeatResource.render_put.                                           *)
HeartbeatStart ==
  /\ At("main", "heartbeat", "start")
  /\ Acquire("main", "heartbeat", [Now("main") EXCEPT !.at = "refresh"], "none")
  /\ UNCHANGED <<paring_mode_enabled, max_device_num, mapVars, ui_list>>

HeartbeatRefresh ==
  /\ At("main", "heartbeat", "refresh")
  /\ LET name == Now("main").name
     IN device_heartbeat_map' =
          IF name \in DOMAIN device_heartbeat_map
          THEN [device_heartbeat_map EXCEPT ![name] = Fresh]
          ELSE device_heartbeat_map
  /\ Leave("main", "heartbeat")
  /\ UNCHANGED <<paring_mode_enabled, max_device_num, device_status_map,
                 monitor, receiver_alive, ui_list>>

-----------------------------------------------------------------------------
(* heartbeat_monitor_routine.                                              *)

(* Removals pile up behind a receiver that holds a lock for good.          *)
MonitorTimer ==
  /\ monitor = "asleep" /\ Unfinished({"remove"}) < MaxRemovals
  /\ monitor' = "running"
  /\ tasks' = create_task(tasks, "main", MonitorTask)
  /\ UNCHANGED <<paring_mode_enabled, max_device_num, mapVars, mutex,
                 receiver_alive, ui_list>>

MonitorStart ==
  /\ At("main", "monitor", "start")
  /\ Acquire("main", "heartbeat", [Now("main") EXCEPT !.at = "check"], "none")
  /\ UNCHANGED <<paring_mode_enabled, max_device_num, mapVars, ui_list>>

Aged(age) == IF age = AHEAD THEN 0 ELSE IF age = OLD THEN OLD ELSE age + 1

(* A limit the saturated age never passes.                                 *)
ExpiredBeyond(late) ==
  {n \in DOMAIN device_heartbeat_map :
     \/ device_heartbeat_map[n] = AHEAD
     \/ Aged(device_heartbeat_map[n]) > OLD
     \/ Aged(device_heartbeat_map[n]) = 2 /\ n \in late}

(* last_heartbeat lies HEARTBEAT_INTERVAL_S in the future when it is set:  *)
(* its distance to start_time exceeds that interval at the third check     *)
(* after it; at the second one if checks and heartbeat drift so (late); or *)
(* if it lies behind start_time.                                           *)
Expired(late) ==
  {n \in DOMAIN device_heartbeat_map :
     \/ device_heartbeat_map[n] = AHEAD
     \/ Aged(device_heartbeat_map[n]) = OLD
     \/ Aged(device_heartbeat_map[n]) = 2 /\ n \in late}

(* A check that forgets the expired buzzers itself.                        *)
MonitorCheckForgets(late) ==
  /\ At("main", "monitor", "check")
  /\ mutex' = Released(mutex, "heartbeat")
  /\ tasks' = LET left == Woken(Done(tasks, "main"), "heartbeat")
              IN IF Expired(late) = {} THEN left
                 ELSE create_task(left, "main", [op |-> "remove", at |-> "start",
                                                 names |-> Expired(late)])
  /\ device_heartbeat_map' = [n \in DOMAIN device_heartbeat_map \ Expired(late) |->
                                Aged(device_heartbeat_map[n])]
  /\ monitor' = "asleep"
  /\ UNCHANGED <<paring_mode_enabled, max_device_num, device_status_map,
                 receiver_alive, ui_list>>

MonitorCheck(late) ==
  /\ At("main", "monitor", "check")
  /\ mutex' = Released(mutex, "heartbeat")
  /\ tasks' = LET left == Woken(Done(tasks, "main"), "heartbeat")
              IN IF Expired(late) = {} THEN left
                 ELSE create_task(left, "main", [op |-> "remove", at |-> "start",
                                                 names |-> Expired(late)])
  /\ device_heartbeat_map' = [n \in DOMAIN device_heartbeat_map |->
                                Aged(device_heartbeat_map[n])]
  /\ monitor' = "asleep"
  /\ UNCHANGED <<paring_mode_enabled, max_device_num, device_status_map,
                 receiver_alive, ui_list>>

-----------------------------------------------------------------------------
(* remove_old_buzzers: for the monitor in the main thread, for a command   *)
(* in the receiver.  Names are popped in the order they were given out.    *)
NextName(names) == CHOOSE n \in names : \A k \in names : n <= k

RemoveStart(thr) ==
  /\ At(thr, "remove", "start")
  /\ Acquire(thr, "status", [Now(thr) EXCEPT !.at = "pop"], "none")
  /\ UNCHANGED <<paring_mode_enabled, max_device_num, mapVars, ui_list>>

(* A lookup failure that skips the release of the lock.                    *)
RemovePopLeaks(thr) ==
  /\ At(thr, "remove", "pop")
  /\ LET name == NextName(Now(thr).names)
     IN IF name \in DOMAIN device_status_map
          THEN /\ device_status_map' = Pop(device_status_map, name)
               /\ Acquire(thr, "heartbeat", [Now(thr) EXCEPT !.at = "forget"],
                          "status")
          ELSE Raise(thr, "none") /\ UNCHANGED device_status_map
  /\ UNCHANGED <<paring_mode_enabled, max_device_num, device_heartbeat_map,
                 ui_list>>

RemovePop(thr) ==
  /\ At(thr, "remove", "pop")
  /\ LET name == NextName(Now(thr).names)
     IN IF name \in DOMAIN device_status_map
          THEN /\ device_status_map' = Pop(device_status_map, name)
               /\ Acquire(thr, "heartbeat", [Now(thr) EXCEPT !.at = "forget"],
                          "status")
          ELSE Raise(thr, "status") /\ UNCHANGED device_status_map  \* KeyError
  /\ UNCHANGED <<paring_mode_enabled, max_device_num, device_heartbeat_map,
                 ui_list>>

(* The second pop.  That its key is there, so that it does not raise, is   *)
(* what StatusWatched says.                                                *)
RemoveForget(thr) ==
  /\ At(thr, "remove", "forget")
  /\ LET name == NextName(Now(thr).names)
         rest == Now(thr).names \ {name}
     IN /\ device_heartbeat_map' = Pop(device_heartbeat_map, name)
        /\ IF rest = {}
             THEN /\ mutex' = Released(Released(mutex, "heartbeat"), "status")
                  /\ tasks' = create_task(Woken(Woken(Done(tasks, thr),
                                "heartbeat"), "status"), thr, ListTask)
             ELSE /\ mutex' = Released(mutex, "heartbeat")
                  /\ tasks' = Woken(Goto(tasks, thr,
                       [Now(thr) EXCEPT !.at = "pop", !.names = rest]),
                       "heartbeat")
  /\ UNCHANGED <<paring_mode_enabled, max_device_num, device_status_map,
                 monitor, receiver_alive, ui_list>>

(* DataSender._send_buzzer_list.  asyncio.run cancels the listing of a     *)
(* remove command that has to wait: the command is over by then.           *)
ListStart(thr) ==
  /\ At(thr, "list", "start")
  /\ IF /\ thr = "receiver" /\ Len(tasks[thr]) = 1
        /\ mutex["status"].holder # "none" /\ MayWait(thr, "status")
       THEN /\ mutex' = [mutex EXCEPT !["status"].loop = thr]
            /\ tasks' = Done(tasks, thr)
            /\ UNCHANGED <<monitor, receiver_alive>>
       ELSE Acquire(thr, "status", [Now(thr) EXCEPT !.at = "copy"], "none")
  /\ UNCHANGED <<paring_mode_enabled, max_device_num, mapVars, ui_list>>

CurrentList ==
  [n \in DOMAIN device_status_map |-> device_status_map[n].timestamp]

ListCopy(thr) ==
  /\ At(thr, "list", "copy")
  /\ mutex' = Released(mutex, "status")
  /\ tasks' = Woken(Goto(tasks, thr, [Now(thr) EXCEPT !.at = "send",
                                                      !.list = CurrentList]),
                    "status")
  /\ UNCHANGED <<paring_mode_enabled, max_device_num, mapVars, monitor,
                 receiver_alive, ui_list>>

ListSend(thr) ==
  /\ At(thr, "list", "send")
  /\ ui_list' = Now(thr).list
  /\ tasks' = Done(tasks, thr)
  /\ UNCHANGED <<paring_mode_enabled, max_device_num, mapVars, mutex, monitor,
                 receiver_alive>>

-----------------------------------------------------------------------------
(* backend_message_receiver and reset_buzzers.                             *)

ReceiverIdle ==
  /\ tasks["receiver"] = <<>>
  /\ \A m \in Mutexes : ~Waiting("receiver", m)

ResetCommand ==
  /\ receiver_alive /\ ReceiverIdle
  /\ tasks' = [tasks EXCEPT !["receiver"] = <<[op |-> "reset", at |-> "start"]>>]
  /\ UNCHANGED <<paring_mode_enabled, max_device_num, mapVars, mutex, monitor,
                 receiver_alive, ui_list>>

PairingCommand(enabled) ==
  /\ receiver_alive /\ ReceiverIdle
  /\ paring_mode_enabled' = enabled
  /\ UNCHANGED <<max_device_num, mapVars, mutex, tasks, monitor, receiver_alive,
                 ui_list>>

(* The UI removes a buzzer it shows.  device_status_map[key] raises        *)
(* KeyError if the buzzer is gone by now.                                  *)
RemoveCommand(name) ==
  /\ receiver_alive /\ ReceiverIdle
  /\ IF name \in DOMAIN device_status_map
       THEN /\ tasks' = [tasks EXCEPT !["receiver"] =
                           <<[op |-> "remove", at |-> "start", names |-> {name}]>>]
            /\ UNCHANGED receiver_alive
       ELSE receiver_alive' = FALSE /\ UNCHANGED tasks
  /\ UNCHANGED <<paring_mode_enabled, max_device_num, mapVars, mutex, monitor,
                 ui_list>>

ResetStart ==
  /\ At("receiver", "reset", "start")
  /\ Acquire("receiver", "status", [Now("receiver") EXCEPT !.at = "clear"], "none")
  /\ UNCHANGED <<paring_mode_enabled, max_device_num, mapVars, ui_list>>

(* The listing runs while the multicast is being sent.                     *)
ResetClear ==
  /\ At("receiver", "reset", "clear")
  /\ device_status_map' = [n \in DOMAIN device_status_map |->
       [device_status_map[n] EXCEPT !.timestamp = None]]
  /\ mutex' = Released(mutex, "status")
  /\ tasks' = Woken([tasks EXCEPT !["receiver"] =
                       <<ListTask, [op |-> "reset", at |-> "answer"]>>], "status")
  /\ UNCHANGED <<paring_mode_enabled, max_device_num, device_heartbeat_map,
                 monitor, receiver_alive, ui_list>>

(* send_data_multicast waits until some buzzer answers, and raises when    *)
(* the request cannot be sent.  A listing still waiting is cancelled.      *)
ResetAnswered(delivered) ==
  /\ At("receiver", "reset", "answer")
  /\ tasks' = Done(tasks, "receiver")
  /\ receiver_alive' = delivered
  /\ mutex' = IF Waiting("receiver", "status")
              THEN [mutex EXCEPT !["status"].waiters = <<>>] ELSE mutex
  /\ UNCHANGED <<paring_mode_enabled, max_device_num, mapVars, monitor, ui_list>>

-----------------------------------------------------------------------------
Requests ==
  \/ \E e \in Endpoints, n \in Names \cup {None} : RegisterArrives(e, n)
  \/ \E n \in Names, t \in Timestamps : PressedArrives(n, t)
  \/ \E n \in Names : HeartbeatArrives(n)

Commands == \/ ResetCommand
            \/ \E enabled \in BOOLEAN : PairingCommand(enabled)
            \/ \E n \in DOMAIN ui_list : RemoveCommand(n)

Shared(thr) == \/ RemoveStart(thr) \/ RemovePop(thr) \/ RemoveForget(thr)
               \/ ListStart(thr) \/ ListCopy(thr) \/ ListSend(thr)

MainStep == \/ RegisterForbidden \/ RegisterKnown \/ RegisterLookup
            \/ RegisterCreate \/ RegisterInsert \/ RegisterWatch
            \/ PressedStart \/ PressedRecord
            \/ HeartbeatStart \/ HeartbeatRefresh
            \/ MonitorStart \/ \E late \in SUBSET Names : MonitorCheck(late)
            \/ Shared("main")

ReceiverStep == \/ ResetStart \/ ResetClear
                \/ \E delivered \in BOOLEAN : ResetAnswered(delivered)
                \/ Shared("receiver")

Next == Requests \/ Commands \/ MonitorTimer \/ MainStep \/ ReceiverStep

Spec == Init /\ [][Next]_vars

(* The event loop runs whatever is ready, the monitor's timer fires, and   *)
(* the interpreter schedules the receiver.  A coroutine of the receiver    *)
(* that waited for a lock may never run again: the main thread makes it    *)
(* ready without waking the receiver's selector.  Nothing bounds the wait  *)
(* for the answer to a reset either.                                       *)
ReceiverRuns ==
  /\ \A m \in Mutexes : mutex[m].loop # "receiver"
  /\ ResetStart \/ ResetClear \/ Shared("receiver")

FairSpec == /\ Spec
            /\ WF_vars(MainStep) /\ WF_vars(MonitorTimer)
            /\ WF_vars(ReceiverRuns)

-----------------------------------------------------------------------------
(* Where a coroutine is inside the critical section of a lock.             *)
Section(m) ==
  CASE m = "status" -> {"lookup", "insert", "watch", "record", "pop", "forget",
                        "copy", "clear"}
    [] m = "heartbeat" -> {"watch", "forget", "refresh", "check"}

(* A waiter's place is the one it goes to with the lock: inside the outer  *)
(* section already, not yet inside the inner one.                          *)
Holding(m) ==
  LET held == tasks["main"] \o tasks["receiver"]
                \o IF m = "status" THEN mutex["heartbeat"].waiters ELSE <<>>
  IN {i \in DOMAIN held : held[i].at \in Section(m)}

(* The two maps are only ever touched under their locks, and no lock leaks *)
(* or is passed to two coroutines, whichever lookup, pop or acquire raises *)
(* on the way (KeyError at gameshow_server.py:312, RuntimeError of a lock  *)
(* contended from a second event loop) and whoever is handed it.           *)
MutexOwned ==
  \A m \in Mutexes :
    IF mutex[m].holder = "none" THEN Holding(m) = {} /\ mutex[m].waiters = <<>>
    ELSE Cardinality(Holding(m)) = 1

(* Every buzzer in the registry is watched by the monitor, up to the one   *)
(* whose registration holds the status lock (gameshow_server.py:148-161).  *)
(* No exception on the way to the inner lock, and no removal, leaves a     *)
(* buzzer that nobody would ever remove; and a removal that has popped a   *)
(* name of the first map finds it in the second (line 314).                *)
StatusWatched ==
  /\ \A n \in DOMAIN device_status_map \ DOMAIN device_heartbeat_map :
       \E i \in DOMAIN Coroutines : /\ Coroutines[i].op = "register"
                                   /\ Coroutines[i].at = "watch"
                                   /\ Coroutines[i].name = n
  /\ \A i \in DOMAIN Coroutines :
       Coroutines[i].op = "remove" /\ Coroutines[i].at = "forget"
         => NextName(Coroutines[i].names) \in DOMAIN device_heartbeat_map

(* A recorded press stands until a reset: a repeated, delayed or second    *)
(* press request (the buzzer sends each press twice) never replaces it     *)
(* (gameshow_server.py:228).                                               *)
FirstPressKept ==
  [][\A n \in DOMAIN device_status_map \cap DOMAIN device_status_map' :
       device_status_map[n].timestamp # None =>
         \/ device_status_map'[n] = device_status_map[n]
         \/ device_status_map'[n].timestamp = None /\ ResetClear]_vars

(* The contract of the registry: however the two threads, failed tasks and *)
(* removals interleave, a press is recorded once, a reset clears all       *)
(* presses in one step, and what the UI gets was the registry at one       *)
(* moment, never a mixture (gameshow_server.py:78-88, 225-234, 324-328).   *)
Contract ==
  INSTANCE Registry WITH
    Times <- Timestamps, presses <- CurrentList, shown <- ui_list,
    copies <- {Coroutines[i].list : i \in {j \in DOMAIN Coroutines :
                 Coroutines[j].op = "list" /\ Coroutines[j].at = "send"}}
ImplementsRegistry == Contract!Spec

LockLost == \E m \in Mutexes : mutex[m].loop = "receiver"

(* A press that counts is shown: the press about to be recorded appears in *)
(* a list the UI gets, unless a reset or a removal is quicker or a lock    *)
(* was bound to a loop of the receiver, so that the main thread's listings *)
(* may fail.  (gameshow_server.py:224-234; how long it is shown is another *)
(* question: UiListCurrent.)                                               *)
PressShown ==
  \A n \in Names, t \in Timestamps :
    (/\ At("main", "pressed", "record")
     /\ Now("main").name = n /\ Now("main").time = t
     /\ n \in DOMAIN device_status_map /\ device_status_map[n].timestamp = None)
      ~> \/ n \in DOMAIN ui_list /\ ui_list[n] = t
         \/ n \notin DOMAIN device_status_map
         \/ At("receiver", "reset", "clear")
         \/ LockLost

Heartbeats(n) == \E i \in DOMAIN Coroutines :
                   Coroutines[i].op = "heartbeat" /\ Coroutines[i].name = n

(* A buzzer that sends no heartbeat any more leaves the registry, unless   *)
(* a lock was bound to the receiver's loop or an earlier name is left in   *)
(* the heartbeat map only, where it fails every removal (KeyError at       *)
(* gameshow_server.py:312).                                                *)
DeadRemoved ==
  \A n \in Names :
    <>[](~Heartbeats(n)) =>
      []<>(\/ n \notin DOMAIN device_status_map
           \/ LockLost
           \/ \E k \in DOMAIN device_heartbeat_map : k \notin DOMAIN device_status_map)

(* The UI may send "remove, id" for a buzzer it shows (gameshow_server.py: *)
(* 404-407) to the "Routine to receiver messages from the ui backend"      *)
(* (gameshow_server.py:100): the routine goes on receiving after it.       *)
RemoveSurvived ==
  [][(\E n \in Names : RemoveCommand(n)) => receiver_alive']_vars

(* "immer liste aller Buzzer ... Bei Disconnect -> aktuelle Liste"         *)
(* (gameshow_server.py:400-402): when the backend has nothing left to do,  *)
(* the UI has the list of all buzzers as they are.                         *)
UiListCurrent ==
  tasks["main"] = <<>> /\ ReceiverIdle => ui_list = CurrentList
=============================================================================
