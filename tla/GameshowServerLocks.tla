------------------------- MODULE GameshowServerLocks -------------------------
(***************************************************************************)
(* The two locks of the buzzer backend, for any number of requests in any  *)
(* order: each is held by one coroutine at most, and whoever is inside a   *)
(* critical section holds its lock.  Coroutines are counted, thread by     *)
(* thread and queue by queue; that the receiver runs one command at a time *)
(* is part of the argument, since a reset forgets what its thread had      *)
(* ready.                                                                  *)
(***************************************************************************)
EXTENDS GameshowServerTypes

(* The coroutines inside the critical section of m: ready ones, and for    *)
(* the outer lock those that wait for the inner one.                       *)
InSection(m) == {t \in Task : t.at \in Section(m)}
Inside(ts, mx, m) ==
  Count(ts["main"], InSection(m)) + Count(ts["receiver"], InSection(m))
    + IF m = "status" THEN Count(mx["heartbeat"].waiters, InSection("status")) ELSE 0
Held(mx, m) == IF mx[m].holder = "none" THEN 0 ELSE 1

(* The locks of J have been left and not yet released.                     *)
Open(ts, mx, J) ==
  \A m \in Mutexes :
    /\ Inside(ts, mx, m) = IF m \in J THEN 0 ELSE Held(mx, m)
    /\ m \notin J /\ mx[m].holder = "none" => mx[m].waiters = <<>>

LocksInv == Open(tasks, mutex, {})

LEMMA SectionBits ==
  ASSUME NEW t \in Task, NEW m \in Mutexes
  PROVE  /\ Bit(t, InSection(m)) \in {0, 1}
         /\ Bit(t, InSection(m)) = 1 <=> t.at \in Section(m)
BY DEF Bit, InSection

LEMMA Sections ==
  /\ Section("status") = {"lookup", "insert", "watch", "record", "pop", "forget",
                          "copy", "clear"}
  /\ Section("heartbeat") = {"watch", "forget", "refresh", "check"}
BY DEF Section

(* Who waits for m will be inside m; who waits for the inner lock may      *)
(* already be inside the outer one.                                        *)
LEMMA WaiterBits ==
  ASSUME NEW t
  PROVE  /\ t \in Waiter("status") => /\ Bit(t, InSection("status")) = 1
                                     /\ Bit(t, InSection("heartbeat")) = 0
         /\ t \in Waiter("heartbeat") => Bit(t, InSection("heartbeat")) = 1
BY Sections DEF Waiter, WaitPlaces, GoodTask, InSection, Bit

LEMMA InsideTyped ==
  ASSUME NEW ts, TasksTyped(ts), NEW mx, MutexTyped(mx), NEW m \in Mutexes
  PROVE  /\ Inside(ts, mx, m) \in Nat
         /\ Count(ts["main"], InSection(m)) \in Nat
         /\ Count(ts["receiver"], InSection(m)) \in Nat
         /\ Count(mx["heartbeat"].waiters, InSection("status")) \in Nat
<1>1. /\ Count(ts["main"], InSection(m)) \in Nat
      /\ Count(ts["receiver"], InSection(m)) \in Nat
  BY ReadyTyped DEF Threads
<1>2. Count(mx["heartbeat"].waiters, InSection("status")) \in Nat
  BY WaitsTyped DEF Mutexes
<1> QED  BY <1>1, <1>2 DEF Inside

LEMMA OnSplits ==
  ASSUME NEW thr \in Threads, NEW task, NEW S
  PROVE  /\ On("main", thr, task, S) + On("receiver", thr, task, S) = Bit(task, S)
         /\ On("main", thr, task, S) \in Nat /\ On("receiver", thr, task, S) \in Nat
         /\ Bit(task, S) \in Nat
<1>1. Bit(task, S) \in Nat
  BY DEF Bit
<1> QED  BY <1>1 DEF On, Threads

LEMMA InsideDone ==
  ASSUME NEW ts, TasksTyped(ts), NEW mx, MutexTyped(mx), NEW m \in Mutexes,
         NEW thr \in Threads, ts[thr] # <<>>
  PROVE  Inside(Done(ts, thr), mx, m)
           = Inside(ts, mx, m) - Bit(Head(ts[thr]), InSection(m))
<1> DEFINE S == InSection(m)
           now == Head(ts[thr])
           left == Done(ts, thr)
           rest == IF m = "status" THEN Count(mx["heartbeat"].waiters, InSection("status"))
                   ELSE 0
<1>0. "main" \in Threads /\ "receiver" \in Threads
  BY DEF Threads
<1>1. /\ Count(left["main"], S) = Count(ts["main"], S) - On("main", thr, now, S)
      /\ Count(left["receiver"], S)
           = Count(ts["receiver"], S) - On("receiver", thr, now, S)
  <2>1. Count(left["main"], S) = Count(ts["main"], S) - On("main", thr, now, S)
    BY ZenonT(40), <1>0, DoneEffect
  <2>2. Count(left["receiver"], S)
          = Count(ts["receiver"], S) - On("receiver", thr, now, S)
    BY ZenonT(40), <1>0, DoneEffect
  <2> QED  BY <2>1, <2>2
<1>2. Count(ts["main"], S) \in Nat /\ Count(ts["receiver"], S) \in Nat /\ rest \in Nat
  BY InsideTyped
<1>3. /\ On("main", thr, now, S) + On("receiver", thr, now, S) = Bit(now, S)
      /\ On("main", thr, now, S) \in Nat /\ On("receiver", thr, now, S) \in Nat
      /\ Bit(now, S) \in Nat
  BY OnSplits
<1>4. /\ Inside(left, mx, m) = Count(left["main"], S) + Count(left["receiver"], S) + rest
      /\ Inside(ts, mx, m) = Count(ts["main"], S) + Count(ts["receiver"], S) + rest
  BY DEF Inside
<1> HIDE DEF S, now, left, rest
<1>5. Inside(left, mx, m) = Inside(ts, mx, m) - Bit(now, S)
  BY <1>1, <1>2, <1>3, <1>4
<1> QED  BY <1>5 DEF S, now, left

LEMMA InsideGoto ==
  ASSUME NEW ts, TasksTyped(ts), NEW mx, MutexTyped(mx), NEW m \in Mutexes,
         NEW thr \in Threads, ts[thr] # <<>>, NEW task \in GoodTask
  PROVE  Inside(Goto(ts, thr, task), mx, m) = Inside(ts, mx, m)
           - Bit(Head(ts[thr]), InSection(m)) + Bit(task, InSection(m))
<1> DEFINE S == InSection(m)
           now == Head(ts[thr])
           left == Goto(ts, thr, task)
           rest == IF m = "status" THEN Count(mx["heartbeat"].waiters, InSection("status"))
                   ELSE 0
<1>0. "main" \in Threads /\ "receiver" \in Threads
  BY DEF Threads
<1>1. /\ Count(left["main"], S) = Count(ts["main"], S) - On("main", thr, now, S)
                                    + On("main", thr, task, S)
      /\ Count(left["receiver"], S) = Count(ts["receiver"], S)
           - On("receiver", thr, now, S) + On("receiver", thr, task, S)
  BY <1>0, GotoEffect
<1>2. Count(ts["main"], S) \in Nat /\ Count(ts["receiver"], S) \in Nat /\ rest \in Nat
  BY InsideTyped
<1>3. /\ On("main", thr, now, S) + On("receiver", thr, now, S) = Bit(now, S)
      /\ On("main", thr, now, S) \in Nat /\ On("receiver", thr, now, S) \in Nat
      /\ Bit(now, S) \in Nat
  BY OnSplits
<1>4. /\ On("main", thr, task, S) + On("receiver", thr, task, S) = Bit(task, S)
      /\ On("main", thr, task, S) \in Nat /\ On("receiver", thr, task, S) \in Nat
      /\ Bit(task, S) \in Nat
  BY OnSplits
<1>5. /\ Inside(left, mx, m) = Count(left["main"], S) + Count(left["receiver"], S) + rest
      /\ Inside(ts, mx, m) = Count(ts["main"], S) + Count(ts["receiver"], S) + rest
  BY DEF Inside
<1> HIDE DEF S, now, left, rest
<1>6. Inside(left, mx, m) = Inside(ts, mx, m) - Bit(now, S) + Bit(task, S)
  BY SMTT(30), <1>1, <1>2, <1>3, <1>4, <1>5
<1> QED  BY <1>6 DEF S, now, left

LEMMA InsideCreate ==
  ASSUME NEW ts, TasksTyped(ts), NEW mx, MutexTyped(mx), NEW m \in Mutexes,
         NEW thr \in Threads, NEW task \in GoodTask
  PROVE  Inside(create_task(ts, thr, task), mx, m)
           = Inside(ts, mx, m) + Bit(task, InSection(m))
<1> DEFINE S == InSection(m)
           left == create_task(ts, thr, task)
           rest == IF m = "status" THEN Count(mx["heartbeat"].waiters, InSection("status"))
                   ELSE 0
<1>0. "main" \in Threads /\ "receiver" \in Threads
  BY DEF Threads
<1>1. /\ Count(left["main"], S) = Count(ts["main"], S) + On("main", thr, task, S)
      /\ Count(left["receiver"], S)
           = Count(ts["receiver"], S) + On("receiver", thr, task, S)
  BY <1>0, CreateEffect
<1>2. Count(ts["main"], S) \in Nat /\ Count(ts["receiver"], S) \in Nat /\ rest \in Nat
  BY InsideTyped
<1>4. /\ On("main", thr, task, S) + On("receiver", thr, task, S) = Bit(task, S)
      /\ On("main", thr, task, S) \in Nat /\ On("receiver", thr, task, S) \in Nat
      /\ Bit(task, S) \in Nat
  BY OnSplits
<1>5. /\ Inside(left, mx, m) = Count(left["main"], S) + Count(left["receiver"], S) + rest
      /\ Inside(ts, mx, m) = Count(ts["main"], S) + Count(ts["receiver"], S) + rest
  BY DEF Inside
<1> HIDE DEF S, left, rest
<1>6. Inside(left, mx, m) = Inside(ts, mx, m) + Bit(task, S)
  BY <1>1, <1>2, <1>4, <1>5
<1> QED  BY <1>6 DEF S, left

(* A lock that is left is held again, by the first of those that waited.   *)
Handing(m) == IF mutex[m].waiters = <<>> THEN 0 ELSE 1

LEMMA InsideHandOver ==
  ASSUME NEW ts, TasksTyped(ts), NEW mx, MutexTyped(mx), MutexTyped(mutex),
         NEW m \in Mutexes, mx[m] = mutex[m]
  PROVE  /\ Inside(Woken(ts, m), Released(mx, m), m) = Inside(ts, mx, m) + Handing(m)
         /\ \A j \in Mutexes \ {m} :
              /\ Inside(Woken(ts, m), Released(mx, m), j) = Inside(ts, mx, j)
              /\ Held(Released(mx, m), j) = Held(mx, j)
              /\ Released(mx, m)[j] = mx[j]
         /\ Held(Released(mx, m), m) = Handing(m) /\ Handing(m) \in {0, 1}
         /\ Released(mx, m)[m].holder = "none" => Released(mx, m)[m].waiters = <<>>
<1> DEFINE head == Head(mutex[m].waiters)
<1>0. "main" \in Threads /\ "receiver" \in Threads
      /\ "status" \in Mutexes /\ "heartbeat" \in Mutexes
  BY DEF Threads, Mutexes
<1>1. /\ MutexTyped(Released(mx, m))
      /\ \A j \in Mutexes \ {m} : Released(mx, m)[j] = mx[j]
      /\ IF mx[m].waiters = <<>>
           THEN /\ Released(mx, m)[m].holder = "none"
                /\ Released(mx, m)[m].waiters = <<>>
           ELSE /\ Released(mx, m)[m].holder \in Threads
                /\ Released(mx, m)[m].waiters = Tail(mx[m].waiters)
                /\ Head(mx[m].waiters) \in Waiter(m)
  BY <1>0, ReleasedEffect
<1>2. \A j \in Mutexes, k \in Threads :
        Count(Woken(ts, m)[k], InSection(j))
          = Count(ts[k], InSection(j)) + Handed(m, k, InSection(j))
  BY WokenEffect
<1>3. mutex[m].waiters # <<>> => mutex[m].loop \in Threads /\ head \in Waiter(m)
  BY <1>1 DEF MutexTyped, Lock
<1>4. \A j \in Mutexes :
        Handed(m, "main", InSection(j)) + Handed(m, "receiver", InSection(j))
          = IF mutex[m].waiters = <<>> THEN 0 ELSE Bit(head, InSection(j))
  <2>1. \A S : Bit(head, S) \in Nat
    BY DEF Bit
  <2> QED  BY <1>3, <2>1 DEF Handed, On, Threads
<1>5. \A j \in Mutexes : /\ Handed(m, "main", InSection(j)) \in Nat
                         /\ Handed(m, "receiver", InSection(j)) \in Nat
                         /\ Count(ts["main"], InSection(j)) \in Nat
                         /\ Count(ts["receiver"], InSection(j)) \in Nat
  BY HandedTyped, InsideTyped
<1> HIDE DEF head
<1>6. Count(mx["heartbeat"].waiters, InSection("status")) \in Nat
  BY <1>0, WaitsTyped
<1>7. /\ Held(Released(mx, m), m) = Handing(m) /\ Handing(m) \in {0, 1}
      /\ Released(mx, m)[m].holder = "none" => Released(mx, m)[m].waiters = <<>>
  BY <1>1 DEF Held, Handing, Threads
<1>8. \A j \in Mutexes \ {m} : /\ Held(Released(mx, m), j) = Held(mx, j)
                               /\ Released(mx, m)[j] = mx[j]
  BY <1>1 DEF Held
<1>9. \A j \in Mutexes : Bit(head, InSection(j)) \in Nat
  BY DEF Bit
<1>10. \A j \in Mutexes :
         Count(Woken(ts, m)["main"], InSection(j)) + Count(Woken(ts, m)["receiver"], InSection(j))
           = Count(ts["main"], InSection(j)) + Count(ts["receiver"], InSection(j))
               + IF mutex[m].waiters = <<>> THEN 0 ELSE Bit(head, InSection(j))
  <2> TAKE j \in Mutexes
  <2> DEFINE S == InSection(j)
  <2>1. /\ Count(Woken(ts, m)["main"], S) = Count(ts["main"], S) + Handed(m, "main", S)
        /\ Count(Woken(ts, m)["receiver"], S)
             = Count(ts["receiver"], S) + Handed(m, "receiver", S)
    BY <1>0, <1>2
  <2>2. Handed(m, "main", S) + Handed(m, "receiver", S)
          = IF mutex[m].waiters = <<>> THEN 0 ELSE Bit(head, S)
    BY <1>4
  <2>3. /\ Handed(m, "main", S) \in Nat /\ Handed(m, "receiver", S) \in Nat
        /\ Count(ts["main"], S) \in Nat /\ Count(ts["receiver"], S) \in Nat
    BY <1>5
  <2> HIDE DEF S
  <2>4. Count(Woken(ts, m)["main"], S) + Count(Woken(ts, m)["receiver"], S)
          = Count(ts["main"], S) + Count(ts["receiver"], S)
              + IF mutex[m].waiters = <<>> THEN 0 ELSE Bit(head, S)
    BY <2>1, <2>2, <2>3
  <2> QED  BY <2>4 DEF S
<1> DEFINE woken == Woken(ts, m)
           freed == Released(mx, m)
           wait == mutex[m].waiters # <<>>
           IS == InSection("status")
           IH == InSection("heartbeat")
<1>11. /\ Count(woken["main"], IS) + Count(woken["receiver"], IS)
            = Count(ts["main"], IS) + Count(ts["receiver"], IS)
                + IF wait THEN Bit(head, IS) ELSE 0
       /\ Count(woken["main"], IH) + Count(woken["receiver"], IH)
            = Count(ts["main"], IH) + Count(ts["receiver"], IH)
                + IF wait THEN Bit(head, IH) ELSE 0
  BY <1>0, <1>10
<1>12. /\ Inside(woken, freed, "status")
            = Count(woken["main"], IS) + Count(woken["receiver"], IS)
                + Count(freed["heartbeat"].waiters, IS)
       /\ Inside(ts, mx, "status")
            = Count(ts["main"], IS) + Count(ts["receiver"], IS)
                + Count(mx["heartbeat"].waiters, IS)
       /\ Inside(woken, freed, "heartbeat")
            = Count(woken["main"], IH) + Count(woken["receiver"], IH)
       /\ Inside(ts, mx, "heartbeat")
            = Count(ts["main"], IH) + Count(ts["receiver"], IH)
  <2>1. \A i, j : i \in Nat /\ j \in Nat => i + j + 0 = i + j
    OBVIOUS
  <2>2. /\ Count(ts["main"], IH) \in Nat /\ Count(ts["receiver"], IH) \in Nat
        /\ Count(woken["main"], IH) \in Nat /\ Count(woken["receiver"], IH) \in Nat
    BY <1>0, ReadyTyped, WokenEffect
  <2> QED  BY <2>1, <2>2 DEF Inside
<1>13. /\ Count(ts["main"], IS) \in Nat /\ Count(ts["receiver"], IS) \in Nat
       /\ Count(ts["main"], IH) \in Nat /\ Count(ts["receiver"], IH) \in Nat
       /\ Count(mx["heartbeat"].waiters, IS) \in Nat
       /\ Count(freed["heartbeat"].waiters, IS) \in Nat
       /\ Count(woken["main"], IS) \in Nat /\ Count(woken["receiver"], IS) \in Nat
       /\ Bit(head, IS) \in Nat /\ Bit(head, IH) \in Nat
  BY <1>0, <1>1, <1>5, <1>6, <1>9, WaitsTyped, ReadyTyped, WokenEffect
<1>14. Handing(m) = IF wait THEN 1 ELSE 0
  BY DEF Handing
<1>15. CASE m = "status"
  <2>1. freed["heartbeat"] = mx["heartbeat"]
    BY <1>0, <1>1, <1>15
  <2>2. wait => Bit(head, IS) = 1 /\ Bit(head, IH) = 0
    BY <1>3, <1>15, WaiterBits
  <2> HIDE DEF woken, freed, wait, IS, IH
  <2>3. /\ Inside(woken, freed, "status") = Inside(ts, mx, "status") + Handing(m)
        /\ Inside(woken, freed, "heartbeat") = Inside(ts, mx, "heartbeat")
    BY <1>11, <1>12, <1>13, <1>14, <2>1, <2>2
  <2> QED  BY <1>7, <1>8, <1>15, <2>3 DEF Mutexes, woken, freed
<1>16. CASE m = "heartbeat"
  <2>1. wait => Bit(head, IH) = 1
    BY <1>3, <1>16, WaiterBits
  <2>2. Count(freed["heartbeat"].waiters, IS)
          = Count(mx["heartbeat"].waiters, IS) - (IF wait THEN Bit(head, IS) ELSE 0)
    <3>1. CASE ~wait
      BY <1>1, <1>13, <1>16, <3>1
    <3>2. CASE wait
      <4>1. mx[m].waiters \in Seq(Waiter(m)) /\ mx[m].waiters # <<>>
            /\ head = Head(mx[m].waiters)
        BY <3>2 DEF MutexTyped, head
      <4>2. Count(mx[m].waiters, IS) = Bit(head, IS) + Count(Tail(mx[m].waiters), IS)
        BY <4>1, CountTail
      <4>3. freed["heartbeat"].waiters = Tail(mx[m].waiters)
        BY <1>1, <1>16, <3>2
      <4> QED  BY <1>13, <1>16, <3>2, <4>2, <4>3
    <3> QED  BY <3>1, <3>2
  <2> HIDE DEF woken, freed, wait, IS, IH
  <2>3. /\ Inside(woken, freed, "heartbeat") = Inside(ts, mx, "heartbeat") + Handing(m)
        /\ Inside(woken, freed, "status") = Inside(ts, mx, "status")
    BY <1>11, <1>12, <1>13, <1>14, <2>1, <2>2
  <2> QED  BY <1>7, <1>8, <1>16, <2>3 DEF Mutexes, woken, freed
<1> QED  BY <1>15, <1>16 DEF Mutexes

LEMMA ReleaseCloses ==
  ASSUME NEW ts, TasksTyped(ts), NEW mx, MutexTyped(mx), MutexTyped(mutex),
         NEW m \in Mutexes, mx[m] = mutex[m], NEW J, m \in J, Open(ts, mx, J)
  PROVE  Open(Woken(ts, m), Released(mx, m), J \ {m})
<1> DEFINE woken == Woken(ts, m)
           freed == Released(mx, m)
<1>1. /\ Inside(woken, freed, m) = Inside(ts, mx, m) + Handing(m)
      /\ \A j \in Mutexes \ {m} : /\ Inside(woken, freed, j) = Inside(ts, mx, j)
                                 /\ Held(freed, j) = Held(mx, j)
                                 /\ freed[j] = mx[j]
      /\ Held(freed, m) = Handing(m) /\ Handing(m) \in {0, 1}
      /\ freed[m].holder = "none" => freed[m].waiters = <<>>
  BY InsideHandOver
<1> HIDE DEF woken, freed
<1>2. /\ Inside(woken, freed, m) = Held(freed, m)
      /\ freed[m].holder = "none" => freed[m].waiters = <<>>
  BY <1>1 DEF Open
<1>3. ASSUME NEW j \in Mutexes, j # m
      PROVE  /\ Inside(woken, freed, j) = IF j \in J \ {m} THEN 0 ELSE Held(freed, j)
             /\ j \notin J \ {m} /\ freed[j].holder = "none" => freed[j].waiters = <<>>
  BY <1>1, <1>3 DEF Open
<1>4. Open(woken, freed, J \ {m})
  BY <1>2, <1>3 DEF Open
<1> QED  BY <1>4 DEF woken, freed

Departs(t) == {m \in Mutexes : t.at \in Section(m)}

LEMMA DoneOpens ==
  ASSUME NEW ts, TasksTyped(ts), NEW mx, MutexTyped(mx), NEW thr \in Threads,
         ts[thr] # <<>>, Open(ts, mx, {})
  PROVE  Open(Done(ts, thr), mx, Departs(Head(ts[thr])))
<1> DEFINE now == Head(ts[thr])
           left == Done(ts, thr)
<1>1. now \in GoodTask /\ TasksTyped(left)
  BY DoneEffect
<1>2. now \in Task
  BY <1>1 DEF GoodTask
<1> HIDE DEF now
<1>3. ASSUME NEW m \in Mutexes
      PROVE  /\ Inside(left, mx, m) = IF m \in Departs(now) THEN 0 ELSE Held(mx, m)
             /\ m \notin Departs(now) /\ mx[m].holder = "none" => mx[m].waiters = <<>>
  <2>1. Inside(left, mx, m) = Inside(ts, mx, m) - Bit(now, InSection(m))
    BY InsideDone DEF now
  <2>2. Inside(left, mx, m) \in Nat /\ Inside(ts, mx, m) \in Nat
    BY <1>1, InsideTyped
  <2>3. /\ Bit(now, InSection(m)) \in {0, 1}
        /\ Bit(now, InSection(m)) = 1 <=> m \in Departs(now)
    BY <1>2, SectionBits DEF Departs
  <2>4. Inside(ts, mx, m) = Held(mx, m) /\ Held(mx, m) \in {0, 1}
    BY DEF Open, Held
  <2>5. mx[m].holder = "none" => mx[m].waiters = <<>>
    BY DEF Open
  <2> HIDE DEF left
  <2> QED  BY <2>1, <2>2, <2>3, <2>4, <2>5
<1>4. Open(left, mx, Departs(now))
  BY <1>3 DEF Open
<1> QED  BY <1>4 DEF now

LEMMA GotoOpens ==
  ASSUME NEW ts, TasksTyped(ts), NEW mx, MutexTyped(mx), NEW thr \in Threads,
         ts[thr] # <<>>, Open(ts, mx, {}), NEW task \in GoodTask,
         Departs(task) \subseteq Departs(Head(ts[thr]))
  PROVE  Open(Goto(ts, thr, task), mx, Departs(Head(ts[thr])) \ Departs(task))
<1> DEFINE now == Head(ts[thr])
           left == Goto(ts, thr, task)
           J == Departs(now) \ Departs(task)
<1>1. now \in GoodTask /\ TasksTyped(left)
  BY DoneEffect, GotoEffect
<1>2. now \in Task /\ task \in Task /\ Departs(task) \subseteq Departs(now)
  BY <1>1 DEF GoodTask
<1> HIDE DEF now
<1>3. ASSUME NEW m \in Mutexes
      PROVE  /\ Inside(left, mx, m) = IF m \in J THEN 0 ELSE Held(mx, m)
             /\ m \notin J /\ mx[m].holder = "none" => mx[m].waiters = <<>>
  <2>1. Inside(left, mx, m) = Inside(ts, mx, m) - Bit(now, InSection(m))
                                + Bit(task, InSection(m))
    BY InsideGoto DEF now
  <2>2. Inside(left, mx, m) \in Nat /\ Inside(ts, mx, m) \in Nat
    BY <1>1, InsideTyped
  <2>3. /\ Bit(now, InSection(m)) \in {0, 1}
        /\ Bit(now, InSection(m)) = 1 <=> m \in Departs(now)
        /\ Bit(task, InSection(m)) \in {0, 1}
        /\ Bit(task, InSection(m)) = 1 <=> m \in Departs(task)
    BY <1>2, SectionBits DEF Departs
  <2>4. Inside(ts, mx, m) = Held(mx, m) /\ Held(mx, m) \in {0, 1}
    BY DEF Open, Held
  <2>5. mx[m].holder = "none" => mx[m].waiters = <<>>
    BY DEF Open
  <2>6. m \in J <=> m \in Departs(now) /\ m \notin Departs(task)
    OBVIOUS
  <2>7. m \in Departs(task) => m \in Departs(now)
    BY <1>2
  <2>8. Inside(ts, mx, m) - 1 \in Nat \/ Bit(now, InSection(m)) = 0
          \/ Bit(task, InSection(m)) = 1
    BY <2>1, <2>2, <2>3
  <2> HIDE DEF left, J
  <2> QED  BY <2>1, <2>2, <2>3, <2>4, <2>5, <2>6, <2>7, <2>8
<1>4. Open(left, mx, J)
  BY <1>3 DEF Open
<1> QED  BY <1>4 DEF now

LEMMA CreateOpens ==
  ASSUME NEW ts, TasksTyped(ts), NEW mx, MutexTyped(mx), NEW thr \in Threads,
         NEW J, Open(ts, mx, J), NEW task \in GoodTask, Departs(task) = {}
  PROVE  Open(create_task(ts, thr, task), mx, J)
<1>1. task \in Task
  BY DEF GoodTask
<1>2. ASSUME NEW m \in Mutexes
      PROVE  Inside(create_task(ts, thr, task), mx, m) = Inside(ts, mx, m)
  <2>1. Bit(task, InSection(m)) = 0
    BY <1>1, SectionBits DEF Departs
  <2>2. Inside(create_task(ts, thr, task), mx, m)
          = Inside(ts, mx, m) + Bit(task, InSection(m))
    BY InsideCreate
  <2> QED  BY <2>1, <2>2, InsideTyped
<1> QED  BY <1>2 DEF Open

(* A lock that is free is taken: its section is entered at once.           *)
LEMMA TakeCloses ==
  ASSUME NEW ts, TasksTyped(ts), NEW mx, MutexTyped(mx), NEW thr \in Threads,
         ts[thr] # <<>>, Open(ts, mx, {}), NEW m \in Mutexes,
         mx[m].holder = "none", NEW task \in GoodTask,
         m \notin Departs(Head(ts[thr])),
         Departs(task) = Departs(Head(ts[thr])) \cup {m}
  PROVE  Open(Goto(ts, thr, task), [mx EXCEPT ![m].holder = thr], {})
<1> DEFINE now == Head(ts[thr])
           left == Goto(ts, thr, task)
           took == [mx EXCEPT ![m].holder = thr]
<1>1. now \in GoodTask /\ TasksTyped(left)
  BY DoneEffect, GotoEffect
<1>2. now \in Task /\ task \in Task
  BY <1>1 DEF GoodTask
<1>3. /\ MutexTyped(took) /\ took[m].holder = thr
      /\ \A j \in Mutexes \ {m} : took[j] = mx[j]
      /\ took[m].waiters = mx[m].waiters
  BY TakeTyped
<1>4. thr # "none"
  BY DEF Threads
<1>5. ASSUME NEW j \in Mutexes
      PROVE  /\ Inside(left, took, j) = Held(took, j)
             /\ took[j].holder = "none" => took[j].waiters = <<>>
  <2>1. Inside(left, mx, j) = Inside(ts, mx, j) - Bit(now, InSection(j))
                                + Bit(task, InSection(j))
    BY InsideGoto
  <2>2. Inside(left, took, j) = Inside(left, mx, j)
    <3>1. took["heartbeat"].waiters = mx["heartbeat"].waiters
      BY <1>3 DEF Mutexes
    <3> HIDE DEF left, took
    <3> QED  BY <3>1 DEF Inside
  <2>3. /\ Bit(now, InSection(j)) \in {0, 1}
        /\ Bit(now, InSection(j)) = 1 <=> j \in Departs(now)
        /\ Bit(task, InSection(j)) \in {0, 1}
        /\ Bit(task, InSection(j)) = 1 <=> j \in Departs(task)
    BY <1>2, SectionBits DEF Departs
  <2>4. /\ Inside(ts, mx, j) = Held(mx, j) /\ Held(mx, j) \in {0, 1}
        /\ mx[j].holder = "none" => mx[j].waiters = <<>>
    BY DEF Open, Held
  <2>5. j \in Departs(task) <=> j \in Departs(now) \/ j = m
    OBVIOUS
  <2> HIDE DEF left, took, now
  <2>6. CASE j = m
    <3>1. Held(mx, j) = 0 /\ Held(took, j) = 1
      BY <1>3, <1>4, <2>6 DEF Held
    <3>2. Bit(now, InSection(j)) = 0 /\ Bit(task, InSection(j)) = 1
      BY <2>3, <2>5, <2>6 DEF now
    <3> QED  BY <1>3, <1>4, <2>1, <2>2, <2>4, <2>6, <3>1, <3>2
  <2>7. CASE j # m
    <3>1. took[j] = mx[j] /\ Held(took, j) = Held(mx, j)
      BY <1>3, <2>7 DEF Held
    <3>2. Bit(now, InSection(j)) = Bit(task, InSection(j))
      BY <2>3, <2>5, <2>7
    <3> QED  BY <2>1, <2>2, <2>3, <2>4, <3>1, <3>2
  <2> QED  BY <2>6, <2>7
<1> QED  BY <1>5 DEF Open

(* A task that waits has its place in the sections it holds.               *)
LEMMA WaitCloses ==
  ASSUME NEW ts, TasksTyped(ts), NEW mx, MutexTyped(mx), NEW thr \in Threads,
         ts[thr] # <<>>, Open(ts, mx, {}), NEW m \in Mutexes,
         mx[m].holder # "none", NEW task \in Waiter(m),
         mx[m].loop \in {"none", thr},
         Departs(Head(ts[thr])) = IF m = "heartbeat" THEN Departs(task) \ {m} ELSE {}
  PROVE  Open(Done(ts, thr), Enqueued(mx, m, thr, task), {})
<1> DEFINE now == Head(ts[thr])
           left == Done(ts, thr)
           waits == Enqueued(mx, m, thr, task)
<1>1. now \in GoodTask /\ TasksTyped(left)
  BY DoneEffect
<1>2. now \in Task /\ task \in Task /\ task \in GoodTask
  BY <1>1 DEF GoodTask, Waiter
<1>3. /\ waits[m].holder = mx[m].holder
      /\ \A j \in Mutexes \ {m} : waits[j] = mx[j]
      /\ waits[m].waiters = Append(mx[m].waiters, task)
  BY DEF MutexTyped, Lock, Enqueued
<1>4. mx["heartbeat"].waiters \in Seq(Waiter("heartbeat"))
  BY DEF MutexTyped, Mutexes
<1>5. ASSUME NEW j \in Mutexes
      PROVE  /\ Inside(left, waits, j) = Held(waits, j)
             /\ waits[j].holder = "none" => waits[j].waiters = <<>>
  <2> DEFINE add == IF m = "heartbeat" /\ j = "status"
                    THEN Bit(task, InSection("status")) ELSE 0
  <2>1. Inside(left, mx, j) = Inside(ts, mx, j) - Bit(now, InSection(j))
    BY InsideDone
  <2>2. Inside(left, waits, j) = Inside(left, mx, j) + add
    <3>0. Inside(left, mx, j) \in Nat
      BY <1>1, InsideTyped
    <3>1. CASE m = "heartbeat" /\ j = "status"
      <4>1. waits["heartbeat"].waiters = Append(mx["heartbeat"].waiters, task)
        BY <1>3, <3>1
      <4>2. Count(waits["heartbeat"].waiters, InSection("status"))
              = Count(mx["heartbeat"].waiters, InSection("status"))
                  + Bit(task, InSection("status"))
        <5>1. task \in Waiter("heartbeat")
          BY <3>1
        <5>2. Count(Append(mx["heartbeat"].waiters, task), InSection("status"))
                = Count(mx["heartbeat"].waiters, InSection("status"))
                    + Bit(task, InSection("status"))
          BY <1>4, <5>1, CountAppend
        <5> QED  BY <4>1, <5>2
      <4>3. /\ Count(left["main"], InSection("status")) \in Nat
            /\ Count(left["receiver"], InSection("status")) \in Nat
            /\ Count(mx["heartbeat"].waiters, InSection("status")) \in Nat
            /\ Bit(task, InSection("status")) \in Nat
        BY <1>1, <3>1, InsideTyped DEF Bit
      <4> HIDE DEF left, waits
      <4> QED  BY <3>1, <4>2, <4>3 DEF Inside
    <3>2. CASE j # "status"
      <4>1. Inside(left, waits, j) = Inside(left, mx, j)
        BY <3>2 DEF Inside
      <4> HIDE DEF left, waits
      <4> QED  BY <3>0, <3>2, <4>1
    <3>3. CASE m # "heartbeat"
      <4>1. waits["heartbeat"] = mx["heartbeat"]
        BY <1>3, <3>3 DEF Mutexes
      <4> HIDE DEF left, waits
      <4>2. Inside(left, waits, j) = Inside(left, mx, j)
        BY <4>1 DEF Inside
      <4> QED  BY <3>0, <3>3, <4>2
    <3> QED  BY <3>1, <3>2, <3>3
  <2>3. /\ Bit(now, InSection(j)) \in {0, 1}
        /\ Bit(now, InSection(j)) = 1 <=> j \in Departs(now)
        /\ Bit(task, InSection(j)) \in {0, 1}
        /\ Bit(task, InSection(j)) = 1 <=> j \in Departs(task)
    BY <1>2, SectionBits DEF Departs
  <2>4. /\ Inside(ts, mx, j) = Held(mx, j) /\ Held(mx, j) \in {0, 1}
        /\ mx[j].holder = "none" => mx[j].waiters = <<>>
    BY DEF Open, Held
  <2>5. add = Bit(now, InSection(j))
    <3>1. CASE m = "heartbeat"
      <4>1. j \in Departs(now) <=> j \in Departs(task) /\ j # "heartbeat"
        BY <3>1
      <4> HIDE DEF now
      <4>2. CASE j = "status"
        BY <2>3, <3>1, <4>1, <4>2
      <4>3. CASE j = "heartbeat"
        BY <2>3, <3>1, <4>1, <4>3
      <4> QED  BY <4>2, <4>3 DEF Mutexes
    <3>2. CASE m # "heartbeat"
      BY <2>3, <3>2
    <3> QED  BY <3>1, <3>2
  <2>6. Held(waits, j) = Held(mx, j)
        /\ (waits[j].holder = "none" => waits[j].waiters = <<>>)
    <3>1. CASE j = m
      BY <1>3, <3>1 DEF Held
    <3>2. CASE j # m
      BY <1>3, <2>4, <3>2 DEF Held
    <3> QED  BY <3>1, <3>2
  <2> HIDE DEF left, waits, now, add
  <2>7. Inside(left, waits, j) = Held(waits, j)
    BY <2>1, <2>2, <2>3, <2>4, <2>5, <2>6
  <2> QED  BY <2>6, <2>7
<1> QED  BY <1>5 DEF Open

-----------------------------------------------------------------------------
(* Every shape of step keeps the count of both locks.                      *)
LEMMA PlacesDepart ==
  ASSUME NEW t
  PROVE  /\ t.at \in {"start", "create", "send", "answer"} => Departs(t) = {}
         /\ t.at \in {"lookup", "record", "insert", "pop", "copy", "clear"}
              => Departs(t) = {"status"}
         /\ t.at \in {"watch", "forget"} => Departs(t) = {"status", "heartbeat"}
         /\ t.at \in {"refresh", "check"} => Departs(t) = {"heartbeat"}
<1> DEFINE a == t.at
<1>1. /\ "status" \in Departs(t) <=> a \in {"lookup", "insert", "watch", "record",
                                          "pop", "forget", "copy", "clear"}
      /\ "heartbeat" \in Departs(t) <=> a \in {"watch", "forget", "refresh", "check"}
  BY Sections DEF Departs, Mutexes
<1>2. Departs(t) \subseteq {"status", "heartbeat"}
  BY DEF Departs, Mutexes
<1> HIDE DEF a
<1>3. /\ a \in {"start", "create", "send", "answer"} => Departs(t) = {}
      /\ a \in {"lookup", "record", "insert", "pop", "copy", "clear"}
           => Departs(t) = {"status"}
      /\ a \in {"watch", "forget"} => Departs(t) = {"status", "heartbeat"}
      /\ a \in {"refresh", "check"} => Departs(t) = {"heartbeat"}
  BY <1>1, <1>2
<1> QED  BY <1>3 DEF a

LEMMA LeaveCloses ==
  ASSUME QueuesTyped, LocksInv, NEW thr \in Threads, Runs(thr), NEW m \in Mutexes,
         Departs(Now(thr)) = {m}
  PROVE  Open(Woken(Done(tasks, thr), m), Released(mutex, m), {})
<1>1. TasksTyped(tasks) /\ MutexTyped(mutex) /\ tasks[thr] # <<>>
  BY DEF QueuesTyped, Runs
<1>2. Open(Done(tasks, thr), mutex, {m})
  BY <1>1, DoneOpens DEF LocksInv, Now
<1>3. TasksTyped(Done(tasks, thr))
  BY <1>1, DoneEffect
<1>4. Open(Woken(Done(tasks, thr), m), Released(mutex, m), {m} \ {m})
  BY <1>1, <1>2, <1>3, ReleaseCloses
<1>5. {m} \ {m} = {}
  OBVIOUS
<1> QED  BY <1>4, <1>5

LEMMA RaiseCloses ==
  ASSUME QueuesTyped, LocksInv, NEW thr \in Threads, Runs(thr),
         NEW held \in Mutexes \cup {"none"}, Raise(thr, held),
         Departs(Now(thr)) = IF held = "none" THEN {} ELSE {held}
  PROVE  LocksInv'
<1>1. CASE held = "none"
  <2>1. tasks' = Done(tasks, thr) /\ mutex' = mutex
    BY <1>1 DEF Raise
  <2>2. Open(Done(tasks, thr), mutex, {})
    BY <1>1, DoneOpens DEF LocksInv, Now, QueuesTyped, Runs
  <2> QED  BY <2>1, <2>2 DEF LocksInv
<1>2. CASE held # "none"
  <2>1. /\ tasks' = Woken(Done(tasks, thr), held) /\ mutex' = Released(mutex, held)
    BY <1>2 DEF Raise
  <2>2. Open(Woken(Done(tasks, thr), held), Released(mutex, held), {})
    BY <1>2, LeaveCloses
  <2> QED  BY <2>1, <2>2 DEF LocksInv
<1> QED  BY <1>1, <1>2

LEMMA AcquireCloses ==
  ASSUME QueuesTyped, LocksInv, NEW thr \in Threads, Runs(thr), NEW m \in Mutexes,
         NEW task \in Waiter(m), NEW held \in Mutexes \cup {"none"},
         Departs(Now(thr)) = IF held = "none" THEN {} ELSE {held},
         m \notin Departs(Now(thr)), m = "status" => Departs(Now(thr)) = {},
         Departs(task) = Departs(Now(thr)) \cup {m},
         Acquire(thr, m, task, held)
  PROVE  LocksInv'
<1>0. TasksTyped(tasks) /\ MutexTyped(mutex) /\ tasks[thr] # <<>> /\ task \in GoodTask
  BY DEF QueuesTyped, Runs, Waiter
<1>1. CASE mutex[m].holder # "none" /\ ~MayWait(thr, m)
  <2>1. Raise(thr, held)
    BY <1>1 DEF Acquire
  <2> QED  BY <2>1, RaiseCloses
<1>2. CASE mutex[m].holder = "none"
  <2>1. /\ tasks' = Goto(tasks, thr, task)
        /\ mutex' = [mutex EXCEPT ![m].holder = thr]
    BY <1>2 DEF Acquire
  <2>2. Open(Goto(tasks, thr, task), [mutex EXCEPT ![m].holder = thr], {})
    BY <1>0, <1>2, TakeCloses DEF LocksInv, Now
  <2> QED  BY <2>1, <2>2 DEF LocksInv
<1>3. CASE mutex[m].holder # "none" /\ MayWait(thr, m)
  <2>1. tasks' = Done(tasks, thr) /\ mutex' = Enqueued(mutex, m, thr, task)
    BY <1>3 DEF Acquire, Enqueued
  <2>2. mutex[m].loop \in {"none", thr}
    BY <1>3 DEF MayWait
  <2>3. Departs(Now(thr)) = IF m = "heartbeat" THEN Departs(task) \ {m} ELSE {}
    BY DEF Mutexes
  <2>4. Open(Done(tasks, thr), Enqueued(mutex, m, thr, task), {})
    BY <1>0, <1>3, <2>2, <2>3, WaitCloses DEF LocksInv, Now
  <2> QED  BY <2>1, <2>4 DEF LocksInv
<1> QED  BY <1>1, <1>2, <1>3

-----------------------------------------------------------------------------
(* What a step does to the coroutines of one thread.                       *)
Ending(k) == \/ \E m \in Mutexes : \E task : Enters(k, m, task)
             \/ \E task : EntersInner(k, task)
             \/ \E m \in Mutexes : Leaves(k, m)
             \/ Fails(k) \/ Finishes(k)

Going(k, task) == \/ \E m \in Mutexes : Enters(k, m, task) \/ LeavesFor(k, m, task)
                  \/ EntersInner(k, task)
                  \/ k = "main" /\ \E m \in Mutexes : LeavesCreating(m, task)
                  \/ task = ListTask /\ LeavesBoth(k)

Beginning(k, task) == \/ k = "main" /\ Created(task)
                      \/ k = "receiver" /\ Commanded(task)

LEMMA StepOwns ==
  ASSUME QueuesTyped, Moves, NEW k \in Threads, NEW S
  PROVE  LET old == Own(tasks, mutex, k, S)
             new == Own(tasks', mutex', k, S)
         IN  /\ QueuesTyped' /\ old \in Nat /\ new \in Nat
             /\ \/ new = old
                \/ Runs(k) /\ Ending(k) /\ new = old - Bit(Now(k), S)
                \/ Runs(k) /\ \E task : /\ Going(k, task)
                                       /\ new = old - Bit(Now(k), S) + Bit(task, S)
                \/ \E task : Beginning(k, task) /\ new = old + Bit(task, S)
                \/ /\ k = "receiver" /\ Clears
                   /\ new = old - Count(tasks[k], S)
                              + Bit(ListTask, S) + Bit(AnswerTask, S)
                \/ k = "receiver" /\ Cancels /\ new <= old - Bit(Now(k), S)
<1> DEFINE old == Own(tasks, mutex, k, S)
           new == Own(tasks', mutex', k, S)
           Shape == \/ new = old
                    \/ Runs(k) /\ Ending(k) /\ new = old - Bit(Now(k), S)
                    \/ Runs(k) /\ \E task : /\ Going(k, task)
                                           /\ new = old - Bit(Now(k), S) + Bit(task, S)
                    \/ \E task : Beginning(k, task) /\ new = old + Bit(task, S)
                    \/ /\ k = "receiver" /\ Clears
                       /\ new = old - Count(tasks[k], S)
                                  + Bit(ListTask, S) + Bit(AnswerTask, S)
                    \/ k = "receiver" /\ Cancels /\ new <= old - Bit(Now(k), S)
<1>0. /\ "main" \in Threads /\ "receiver" \in Threads
      /\ "status" \in Mutexes /\ "heartbeat" \in Mutexes
      /\ "none" \in Mutexes \cup {"none"} /\ "status" \in Mutexes \cup {"none"}
  BY DEF Threads, Mutexes
<1>t. old \in Nat
  BY OwnTyped DEF QueuesTyped
<1>1. ASSUME NEW thr \in Threads, Runs(thr), QueuesTyped', Ends(thr, S), Ending(thr)
      PROVE  QueuesTyped' /\ Shape
  <2>1. new = old - On(k, thr, Now(thr), S)
    BY <1>1 DEF Ends
  <2> HIDE DEF old, new
  <2>2. CASE k = thr
    <3>1. new = old - Bit(Now(k), S)
      BY <2>1, <2>2 DEF On
    <3> QED  BY <1>1, <2>2, <3>1
  <2>3. CASE k # thr
    <3>1. new = old
      BY <1>t, <2>1, <2>3 DEF On
    <3> QED  BY <1>1, <3>1
  <2> QED  BY <2>2, <2>3
<1>2. ASSUME NEW thr \in Threads, NEW task, Runs(thr), QueuesTyped',
             GoesOn(thr, task, S), Going(thr, task)
      PROVE  QueuesTyped' /\ Shape
  <2>1. new = old - On(k, thr, Now(thr), S) + On(k, thr, task, S)
    BY <1>2 DEF GoesOn
  <2> HIDE DEF old, new
  <2>2. CASE k = thr
    <3>1. new = old - Bit(Now(k), S) + Bit(task, S)
      BY <2>1, <2>2 DEF On
    <3> QED  BY <1>2, <2>2, <3>1
  <2>3. CASE k # thr
    <3>1. new = old
      BY <1>t, <2>1, <2>3 DEF On
    <3> QED  BY <1>2, <3>1
  <2> QED  BY <2>2, <2>3
<1>3. ASSUME NEW thr \in Threads, NEW task, QueuesTyped', Begins(thr, task, S),
             Beginning(thr, task)
      PROVE  QueuesTyped' /\ Shape
  <2>1. new = old + On(k, thr, task, S)
    BY <1>3 DEF Begins
  <2> HIDE DEF old, new
  <2>2. CASE k = thr
    <3>1. new = old + Bit(task, S)
      BY <2>1, <2>2 DEF On
    <3> QED  BY <1>3, <2>2, <3>1
  <2>3. CASE k # thr
    <3>1. new = old
      BY <1>t, <2>1, <2>3 DEF On
    <3> QED  BY <1>3, <3>1
  <2> QED  BY <2>2, <2>3
<1>4. ASSUME NEW thr \in Threads, NEW m \in Mutexes, NEW task, Enters(thr, m, task)
      PROVE  QueuesTyped' /\ Shape
  <2>1. /\ Runs(thr) /\ task \in Waiter(m) /\ Acquire(thr, m, task, "none")
    BY <1>4 DEF Enters
  <2>2. QueuesTyped' /\ (Ends(thr, S) \/ GoesOn(thr, task, S))
    BY <1>0, <2>1, AcquireMoves
  <2>3. Ending(thr) /\ Going(thr, task)
    BY <1>4 DEF Ending, Going
  <2> HIDE DEF Shape
  <2> QED  BY <1>1, <1>2, <2>1, <2>2, <2>3
<1>5. ASSUME NEW thr \in Threads, NEW task, EntersInner(thr, task)
      PROVE  QueuesTyped' /\ Shape
  <2>1. /\ Runs(thr) /\ task \in Waiter("heartbeat")
        /\ Acquire(thr, "heartbeat", task, "status")
    BY <1>5 DEF EntersInner
  <2>2. QueuesTyped' /\ (Ends(thr, S) \/ GoesOn(thr, task, S))
    BY <1>0, <2>1, AcquireMoves
  <2>3. Ending(thr) /\ Going(thr, task)
    BY <1>5 DEF Ending, Going
  <2> HIDE DEF Shape
  <2> QED  BY <1>1, <1>2, <2>1, <2>2, <2>3
<1>6. ASSUME NEW thr \in Threads, Fails(thr)
      PROVE  QueuesTyped' /\ Shape
  <2>1. Runs(thr) /\ QueuesTyped' /\ Ends(thr, S) /\ Ending(thr)
    BY <1>0, <1>6, RaiseMoves DEF Fails, Ending
  <2> QED  BY <1>1, <2>1
<1>7. ASSUME NEW thr \in Threads, NEW m \in Mutexes, Leaves(thr, m)
      PROVE  QueuesTyped' /\ Shape
  <2>1. Runs(thr) /\ QueuesTyped' /\ Ends(thr, S) /\ Ending(thr)
    BY <1>7, LeaveMoves DEF Leaves, Ending
  <2> QED  BY <1>1, <2>1
<1>8. ASSUME NEW thr \in Threads, NEW m \in Mutexes, NEW task, LeavesFor(thr, m, task)
      PROVE  QueuesTyped' /\ Shape
  <2>1. Runs(thr) /\ QueuesTyped' /\ GoesOn(thr, task, S)
    BY <1>8, LeaveGoesOn DEF LeavesFor
  <2>2. Going(thr, task)
    BY <1>8 DEF Going
  <2> HIDE DEF Shape
  <2> QED  BY <1>2, <2>1, <2>2
<1>9. ASSUME NEW m \in Mutexes, NEW task, LeavesCreating(m, task)
      PROVE  QueuesTyped' /\ Shape
  <2>1. Runs("main") /\ QueuesTyped' /\ GoesOn("main", task, S)
    BY <1>0, <1>9, LeaveCreates DEF LeavesCreating
  <2>2. Going("main", task)
    BY <1>9 DEF Going
  <2> HIDE DEF Shape
  <2> QED  BY <1>0, <1>2, <2>1, <2>2
<1>10. ASSUME NEW thr \in Threads, LeavesBoth(thr)
       PROVE  QueuesTyped' /\ Shape
  <2>1. Runs(thr) /\ QueuesTyped' /\ GoesOn(thr, ListTask, S)
    BY <1>10, NewTasks, LeaveBothCreates DEF LeavesBoth
  <2>2. Going(thr, ListTask)
    BY <1>10 DEF Going
  <2> HIDE DEF Shape
  <2> QED  BY <1>2, <2>1, <2>2
<1>11. ASSUME NEW thr \in Threads, Finishes(thr)
       PROVE  QueuesTyped' /\ Shape
  <2>1. Runs(thr) /\ QueuesTyped' /\ Ends(thr, S) /\ Ending(thr)
    BY <1>11, DoneMoves DEF Finishes, Ending
  <2> QED  BY <1>1, <2>1
<1>12. ASSUME NEW task, Created(task)
       PROVE  QueuesTyped' /\ Shape
  <2>1. QueuesTyped' /\ Begins("main", task, S)
    BY <1>0, <1>12, CreateMoves DEF Created
  <2>2. Beginning("main", task)
    BY <1>12 DEF Beginning
  <2> HIDE DEF Shape
  <2> QED  BY <1>0, <1>3, <2>1, <2>2
<1>13. ASSUME NEW task, Commanded(task)
       PROVE  QueuesTyped' /\ Shape
  <2>1. QueuesTyped' /\ Begins("receiver", task, S)
    BY <1>13, CommandMoves DEF Commanded
  <2>2. Beginning("receiver", task)
    BY <1>13 DEF Beginning
  <2> HIDE DEF Shape
  <2> QED  BY <1>0, <1>3, <2>1, <2>2
<1>14. ASSUME Clears
       PROVE  QueuesTyped' /\ Shape
  <2>1. /\ QueuesTyped'
        /\ Own(tasks', mutex', "main", S) = Own(tasks, mutex, "main", S)
        /\ Own(tasks', mutex', "receiver", S) = Own(tasks, mutex, "receiver", S)
             - Count(tasks["receiver"], S) + Bit(ListTask, S) + Bit(AnswerTask, S)
    BY <1>14, ClearsMoves
  <2>2. k = "main" \/ k = "receiver"
    BY DEF Threads
  <2> QED  BY <1>14, <2>1, <2>2
<1>15. ASSUME Cancels
       PROVE  QueuesTyped' /\ Shape
  <2>1. /\ QueuesTyped'
        /\ Own(tasks', mutex', "main", S) = Own(tasks, mutex, "main", S)
        /\ Own(tasks', mutex', "receiver", S)
             <= Own(tasks, mutex, "receiver", S) - Bit(Now("receiver"), S)
    BY <1>0, <1>15, CancelMoves DEF Cancels
  <2>2. k = "main" \/ k = "receiver"
    BY DEF Threads
  <2> QED  BY <1>15, <2>1, <2>2
<1>16. ASSUME Rests
       PROVE  QueuesTyped' /\ Shape
  BY <1>16 DEF Rests, QueuesTyped
<1>17. QueuesTyped' /\ Shape
  <2> HIDE DEF Shape
  <2> QED
    BY <1>4, <1>5, <1>6, <1>7, <1>8, <1>9, <1>10, <1>11, <1>12, <1>13, <1>14,
       <1>15, <1>16 DEF Moves
<1>18. new \in Nat
  BY <1>17, OwnTyped DEF QueuesTyped
<1> QED  BY <1>t, <1>17, <1>18

-----------------------------------------------------------------------------
(* The receiver runs one command at a time: one coroutine of it is at work *)
(* on a command or lists, next to a reset that waits for its answer.       *)
Working == {t \in Task : \/ t.op \in {"list", "remove"}
                         \/ t.op = "reset" /\ t.at # "answer"}
Foreign == {t \in Task : t.op \notin {"list", "remove", "reset"}}

OneCommand == /\ Own(tasks, mutex, "receiver", Working) <= 1
              /\ Own(tasks, mutex, "receiver", Foreign) = 0

LEMMA HeadCounts ==
  ASSUME QueuesTyped, NEW k \in Threads, Runs(k), NEW S
  PROVE  /\ Bit(Now(k), S) <= Count(tasks[k], S)
         /\ Count(tasks[k], S) <= Own(tasks, mutex, k, S)
         /\ Bit(Now(k), S) \in {0, 1} /\ Count(tasks[k], S) \in Nat
         /\ Own(tasks, mutex, k, S) \in Nat
<1>1. /\ Count(tasks[k], S) \in Nat /\ Own(tasks, mutex, k, S) \in Nat
      /\ Bound(mutex, "status", k, S) \in Nat /\ Bound(mutex, "heartbeat", k, S) \in Nat
  BY ReadyTyped, OwnTyped DEF QueuesTyped
<1>2. tasks[k] \in Seq(GoodTask) /\ tasks[k] # <<>>
  BY DEF QueuesTyped, TasksTyped, Runs
<1>3. Count(tasks[k], S) = Bit(Now(k), S) + Count(Tail(tasks[k]), S)
  BY <1>2, CountTail DEF Now
<1>4. Count(Tail(tasks[k]), S) \in Nat
  BY <1>2, HeadTailProperties, PositionsFinite
<1>5. Bit(Now(k), S) \in {0, 1}
  BY DEF Bit
<1> QED  BY <1>1, <1>3, <1>4, <1>5 DEF Own

LEMMA GoingWorks ==
  ASSUME NEW task, Going("receiver", task), Now("receiver") \notin Foreign
  PROVE  /\ task \in Working => Now("receiver") \in Working
         /\ task \in Foreign => Now("receiver") \in Foreign
<1> DEFINE now == Now("receiver")
<1>1. ASSUME NEW m \in Mutexes, Enters("receiver", m, task)
      PROVE  now \in Task /\ task.op = now.op /\ now.at # "answer"
  BY <1>1 DEF Enters, GoodTask
<1>2. ASSUME NEW m \in Mutexes, LeavesFor("receiver", m, task)
      PROVE  now \in Task /\ task.op = now.op /\ now.at # "answer"
  BY <1>2 DEF LeavesFor, GoodTask
<1>3. ASSUME EntersInner("receiver", task)
      PROVE  now \in Task /\ task.op = now.op /\ now.at # "answer"
  BY <1>3 DEF EntersInner, GoodTask
<1>4. ASSUME task = ListTask, LeavesBoth("receiver")
      PROVE  now \in Working /\ task \notin Foreign
  <2>1. now \in Task /\ (now.op = "register" \/ now.op = "remove")
    BY <1>4 DEF LeavesBoth, GoodTask
  <2>2. now.op # "register"
    BY <2>1 DEF Foreign
  <2>3. task.op = "list"
    BY <1>4 DEF ListTask
  <2> QED  BY <2>1, <2>2, <2>3 DEF Working, Foreign
<1>5. \/ now \in Task /\ task.op = now.op /\ now.at # "answer"
      \/ now \in Working /\ task \notin Foreign
  <2> HIDE DEF now
  <2> QED  BY <1>1, <1>2, <1>3, <1>4 DEF Going
<1> HIDE DEF now
<1>6. /\ task \in Working => now \in Working
      /\ task \in Foreign => now \in Foreign
  BY <1>5 DEF Working, Foreign
<1> QED  BY <1>6 DEF now

LEMMA OneCommandStep ==
  ASSUME QueuesTyped, OneCommand, Moves
  PROVE  OneCommand'
<1>0. "receiver" \in Threads
  BY DEF Threads
<1>1. ASSUME Runs("receiver") PROVE Now("receiver") \notin Foreign
  <2>1. /\ Bit(Now("receiver"), Foreign) <= Count(tasks["receiver"], Foreign)
        /\ Count(tasks["receiver"], Foreign) <= Own(tasks, mutex, "receiver", Foreign)
        /\ Bit(Now("receiver"), Foreign) \in {0, 1}
        /\ Count(tasks["receiver"], Foreign) \in Nat
    BY <1>0, <1>1, HeadCounts
  <2>2. Bit(Now("receiver"), Foreign) = 0
    BY <2>1 DEF OneCommand
  <2> QED  BY <2>2 DEF Bit
<1>2. /\ ListTask.op = "list" /\ AnswerTask.op = "reset" /\ AnswerTask.at = "answer"
      /\ ListTask \in Working /\ AnswerTask \notin Working
      /\ ListTask \notin Foreign /\ AnswerTask \notin Foreign
  <2>1. ListTask \in Task
    BY NewTasks DEF GoodTask
  <2>2. ListTask.op = "list" /\ AnswerTask.op = "reset" /\ AnswerTask.at = "answer"
    BY DEF ListTask, AnswerTask
  <2> QED  BY <2>1, <2>2 DEF Working, Foreign
<1>3. ASSUME NEW S, S = Working \/ S = Foreign
      PROVE  Own(tasks', mutex', "receiver", S)
               <= IF S = Working THEN 1 ELSE 0
  <2> DEFINE old == Own(tasks, mutex, "receiver", S)
             new == Own(tasks', mutex', "receiver", S)
             now == Now("receiver")
             limit == IF S = Working THEN 1 ELSE 0
  <2>1. old \in Nat /\ old <= limit
    BY <1>0, <1>3, OwnTyped DEF OneCommand, QueuesTyped
  <2>2. /\ new \in Nat
        /\ \/ new = old
           \/ Runs("receiver") /\ Ending("receiver") /\ new = old - Bit(now, S)
           \/ Runs("receiver") /\ \E task : /\ Going("receiver", task)
                                           /\ new = old - Bit(now, S) + Bit(task, S)
           \/ \E task : Beginning("receiver", task) /\ new = old + Bit(task, S)
           \/ Clears /\ new = old - Count(tasks["receiver"], S)
                                  + Bit(ListTask, S) + Bit(AnswerTask, S)
           \/ Cancels /\ new <= old - Bit(now, S)
    BY <1>0, StepOwns
  <2>3. \A t : /\ Bit(t, S) \in {0, 1}
               /\ Bit(t, S) = 1 <=> t \in S
    BY BitBounds
  <2>4. /\ limit \in {0, 1}
        /\ S = Working => limit = 1
    OBVIOUS
  <2>n. new \in Nat /\ Bit(now, S) \in {0, 1}
    BY <2>2, <2>3
  <2>s. \A task : Going("receiver", task) /\ Runs("receiver")
                    => Bit(task, S) <= Bit(now, S)
    <3>1. ASSUME NEW task, Going("receiver", task), Runs("receiver")
          PROVE  task \in S => now \in S
      BY <1>1, <1>3, <3>1, GoingWorks
    <3> HIDE DEF now
    <3> QED  BY <2>3, <3>1
  <2>f. S # Working => limit = 0
    OBVIOUS
  <2> HIDE DEF new, old, now, limit
  <2>5. new = old => new <= limit
    BY <2>1
  <2>6. new = old - Bit(now, S) => new <= limit
    BY <2>1, <2>n, <2>4
  <2>7. ASSUME NEW task, Going("receiver", task), Runs("receiver"),
               new = old - Bit(now, S) + Bit(task, S)
        PROVE  new <= limit
    <3>1. Bit(task, S) <= Bit(now, S)
      BY <2>7, <2>s
    <3> QED  BY <2>1, <2>3, <2>4, <2>7, <3>1
  <2>8. ASSUME NEW task, Beginning("receiver", task), new = old + Bit(task, S)
        PROVE  new <= limit
    <3>1. Commanded(task)
      BY <2>8 DEF Beginning
    <3>2. old = 0
      BY <3>1, IdleOwns DEF Commanded, old
    <3>3. task.op \in {"remove", "reset"}
      BY <3>1 DEF Commanded
    <3>4. S = Foreign => task \notin S
      BY <3>3 DEF Foreign
    <3>5. Bit(task, S) <= limit
      BY <1>3, <2>3, <2>4, <2>f, <3>4
    <3> QED  BY <2>3, <2>4, <2>8, <3>2, <3>5
  <2>9. ASSUME Clears, new = old - Count(tasks["receiver"], S)
                               + Bit(ListTask, S) + Bit(AnswerTask, S)
        PROVE  new <= limit
    <3>1. Runs("receiver") /\ now \in Task /\ now.op = "reset" /\ now.at = "clear"
      BY <2>9 DEF Clears, GoodTask, now
    <3>2. /\ Bit(now, S) <= Count(tasks["receiver"], S)
          /\ Count(tasks["receiver"], S) <= old
          /\ Count(tasks["receiver"], S) \in Nat
      BY <1>0, <3>1, HeadCounts DEF now, old
    <3>3. Bit(AnswerTask, S) = 0 /\ Bit(ListTask, S) = limit
      <4>1. AnswerTask \notin S /\ (S = Working => ListTask \in S)
            /\ (S # Working => ListTask \notin S)
        BY <1>2, <1>3
      <4>2. Bit(AnswerTask, S) = 0 /\ (S = Working => Bit(ListTask, S) = 1)
            /\ (S # Working => Bit(ListTask, S) = 0)
        BY <2>3, <4>1
      <4> QED  BY <2>4, <2>f, <4>2
    <3>4. S = Working => Bit(now, S) = 1
      BY <2>3, <3>1 DEF Working
    <3>5. limit <= Bit(now, S)
      BY <2>4, <2>f, <2>n, <3>4
    <3> QED  BY <2>1, <2>n, <2>4, <2>9, <3>2, <3>3, <3>5
  <2>10. new <= old - Bit(now, S) => new <= limit
    BY <2>1, <2>n, <2>4
  <2>11. new <= limit
    BY <2>2, <2>5, <2>6, <2>7, <2>8, <2>9, <2>10
  <2> QED  BY <2>11 DEF new, limit
<1>4. Working # Foreign
  BY <1>2
<1>5. Own(tasks', mutex', "receiver", Working) <= 1
  BY <1>3
<1>6. Own(tasks', mutex', "receiver", Foreign) <= 0
  BY <1>3, <1>4
<1>7. Own(tasks', mutex', "receiver", Foreign) \in Nat
  BY <1>0, StepOwns
<1> QED  BY <1>5, <1>6, <1>7 DEF OneCommand

-----------------------------------------------------------------------------
LEMMA LeavesBothCloses ==
  ASSUME QueuesTyped, LocksInv, NEW thr \in Threads, LeavesBoth(thr)
  PROVE  LocksInv'
<1> DEFINE left == Done(tasks, thr)
           woken == Woken(left, "heartbeat")
           freed == Released(mutex, "heartbeat")
<1>0. /\ "status" \in Mutexes /\ "heartbeat" \in Mutexes
      /\ ListTask \in GoodTask /\ Departs(ListTask) = {}
      /\ TasksTyped(tasks) /\ MutexTyped(mutex) /\ tasks[thr] # <<>>
  BY NewTasks, PlacesDepart DEF Mutexes, ListTask, QueuesTyped, LeavesBoth, Runs
<1>1. Departs(Now(thr)) = {"status", "heartbeat"}
  BY PlacesDepart DEF LeavesBoth
<1>2. Open(left, mutex, {"status", "heartbeat"}) /\ TasksTyped(left)
  BY <1>0, <1>1, DoneOpens, DoneEffect DEF LocksInv, Now
<1>3. /\ Open(woken, freed, {"status", "heartbeat"} \ {"heartbeat"})
      /\ TasksTyped(woken) /\ MutexTyped(freed) /\ freed["status"] = mutex["status"]
  <2> HIDE DEF left
  <2>1. Open(woken, freed, {"status", "heartbeat"} \ {"heartbeat"})
    BY <1>0, <1>2, ReleaseCloses
  <2>2. TasksTyped(woken) /\ MutexTyped(freed)
        /\ \A j \in Mutexes \ {"heartbeat"} : freed[j] = mutex[j]
    BY <1>0, <1>2, HandOver
  <2> QED  BY <1>0, <2>1, <2>2
<1>4. {"status", "heartbeat"} \ {"heartbeat"} = {"status"} /\ {"status"} \ {"status"} = {}
  OBVIOUS
<1> HIDE DEF left, woken, freed
<1>5. CASE tasks' = Woken(create_task(woken, thr, ListTask), "status")
  <2> DEFINE made == create_task(woken, thr, ListTask)
  <2>1. Open(made, freed, {"status"})
    BY <1>0, <1>3, <1>4, CreateOpens
  <2>2. TasksTyped(made)
    BY <1>0, <1>3, CreateEffect
  <2> HIDE DEF made
  <2>3. Open(Woken(made, "status"), Released(freed, "status"), {"status"} \ {"status"})
    BY <1>0, <1>3, <2>1, <2>2, ReleaseCloses
  <2>4. tasks' = Woken(made, "status") /\ mutex' = Released(freed, "status")
    BY <1>5 DEF LeavesBoth, made, freed
  <2> QED  BY <1>4, <2>3, <2>4 DEF LocksInv
<1>6. CASE tasks' = create_task(Woken(woken, "status"), thr, ListTask)
  <2> DEFINE back == Woken(woken, "status")
             free == Released(freed, "status")
  <2>1. Open(back, free, {"status"} \ {"status"})
    BY <1>0, <1>3, <1>4, ReleaseCloses
  <2>2. TasksTyped(back) /\ MutexTyped(free)
    BY <1>0, <1>3, HandOver
  <2> HIDE DEF back, free
  <2>3. Open(create_task(back, thr, ListTask), free, {})
    BY <1>0, <1>4, <2>1, <2>2, CreateOpens
  <2>4. tasks' = create_task(back, thr, ListTask) /\ mutex' = free
    BY <1>6 DEF LeavesBoth, back, free, freed
  <2> QED  BY <2>3, <2>4 DEF LocksInv
<1> QED  BY <1>5, <1>6 DEF LeavesBoth, left, woken

(* A reset that clears is all its thread has ready.                        *)
LEMMA ClearsAlone ==
  ASSUME QueuesTyped, OneCommand, Clears, NEW S,
         \A t \in S : t \in Working \/ t \in Foreign
  PROVE  Count(tasks["receiver"], S) = Bit(Now("receiver"), S)
<1> DEFINE queue == tasks["receiver"]
<1>0. "receiver" \in Threads /\ TasksTyped(tasks)
  BY DEF QueuesTyped, Threads
<1>2. Runs("receiver") /\ Now("receiver") \in Task
      /\ Now("receiver").op = "reset" /\ Now("receiver").at = "clear"
  BY DEF Clears, GoodTask
<1>5. queue \in Seq(GoodTask) /\ queue # <<>> /\ Head(queue) = Now("receiver")
      /\ Tail(queue) \in Seq(GoodTask)
  BY <1>0, <1>2, HeadTailProperties DEF TasksTyped, Runs, Now
<1>6. Count(Tail(queue), Working) = 0 /\ Count(Tail(queue), Foreign) = 0
  <2>1. /\ Count(queue, Working) <= Own(tasks, mutex, "receiver", Working)
        /\ Count(queue, Foreign) <= Own(tasks, mutex, "receiver", Foreign)
        /\ Own(tasks, mutex, "receiver", Working) \in Nat
    BY <1>0, <1>2, HeadCounts
  <2>2. Count(queue, Working) <= 1 /\ Count(queue, Foreign) <= 0
        /\ Count(queue, Working) \in Nat /\ Count(queue, Foreign) \in Nat
    BY <1>0, <2>1, ReadyTyped DEF OneCommand
  <2>3. Bit(Now("receiver"), Working) = 1
    BY <1>2 DEF Bit, Working
  <2>4. /\ Count(queue, Working) = Bit(Now("receiver"), Working)
                                     + Count(Tail(queue), Working)
        /\ Count(queue, Foreign) = Bit(Now("receiver"), Foreign)
                                     + Count(Tail(queue), Foreign)
    BY <1>5, CountTail
  <2>5. /\ Count(Tail(queue), Working) \in Nat /\ Count(Tail(queue), Foreign) \in Nat
        /\ Bit(Now("receiver"), Foreign) \in Nat
    BY <1>5, PositionsFinite DEF Bit
  <2> HIDE DEF queue
  <2> QED  BY <2>2, <2>3, <2>4, <2>5
<1>7. Count(Tail(queue), S) = 0
  <2>1. ~(Count(Tail(queue), Working) > 0) /\ ~(Count(Tail(queue), Foreign) > 0)
    BY <1>6
  <2>2. \A i \in DOMAIN Tail(queue) :
          Tail(queue)[i] \notin Working /\ Tail(queue)[i] \notin Foreign
    BY <1>5, <2>1, CountPositive
  <2>3. ~(Count(Tail(queue), S) > 0)
    BY <1>5, <2>2, CountPositive
  <2>4. Count(Tail(queue), S) \in Nat
    BY <1>5, PositionsFinite
  <2> QED  BY <2>3, <2>4
<1>8. Count(queue, S) = Bit(Now("receiver"), S) + Count(Tail(queue), S)
  BY <1>5, CountTail
<1>9. Bit(Now("receiver"), S) \in Nat
  BY DEF Bit
<1> QED  BY <1>7, <1>8, <1>9

(* A reset drops what its thread had ready: nobody but itself is inside.   *)
LEMMA ClearsCloses ==
  ASSUME QueuesTyped, OneCommand, LocksInv, Clears
  PROVE  LocksInv'
<1> DEFINE ts == [tasks EXCEPT !["receiver"] = <<ListTask, AnswerTask>>]
           queue == tasks["receiver"]
<1>0. /\ "status" \in Mutexes /\ "heartbeat" \in Mutexes
      /\ "main" \in Threads /\ "receiver" \in Threads
      /\ ListTask \in GoodTask /\ AnswerTask \in GoodTask
      /\ TasksTyped(tasks) /\ MutexTyped(mutex)
  BY NewTasks DEF Mutexes, QueuesTyped, Threads
<1>1. Departs(ListTask) = {} /\ Departs(AnswerTask) = {}
  BY PlacesDepart DEF ListTask, AnswerTask
<1>2. Runs("receiver") /\ Now("receiver") \in Task
      /\ Now("receiver").op = "reset" /\ Now("receiver").at = "clear"
  BY DEF Clears, GoodTask
<1>3. Departs(Now("receiver")) = {"status"}
  BY <1>2, PlacesDepart
<1>4. TasksTyped(ts)
  BY <1>0 DEF TasksTyped, Threads
<1>8. ASSUME NEW m \in Mutexes
      PROVE  Inside(ts, mutex, m) = Inside(tasks, mutex, m)
                                      - Bit(Now("receiver"), InSection(m))
  <2> DEFINE S == InSection(m)
             rest == IF m = "status"
                     THEN Count(mutex["heartbeat"].waiters, InSection("status")) ELSE 0
  <2>1. ts["receiver"] = <<ListTask, AnswerTask>> /\ ts["main"] = tasks["main"]
    BY <1>0 DEF TasksTyped, Threads
  <2>2. Count(ts["receiver"], S) = 0
    <3>1. Bit(ListTask, S) = 0 /\ Bit(AnswerTask, S) = 0
      BY <1>0, <1>1, SectionBits DEF Departs, GoodTask
    <3> HIDE DEF S
    <3>2. Count(<<ListTask, AnswerTask>>, S) = Bit(ListTask, S) + Bit(AnswerTask, S)
      BY <1>0, CountPair
    <3> QED  BY <2>1, <3>1, <3>2
  <2>3. Count(queue, S) = Bit(Now("receiver"), S)
    <3>1. \A t \in S : t \in Working \/ t \in Foreign
      <4>1. ASSUME NEW t \in S PROVE t \in Working \/ t \in Foreign
        <5>1. t \in Task /\ t.at # "answer"
          BY <4>1, Sections DEF InSection, Mutexes
        <5> QED  BY <5>1 DEF Working, Foreign
      <4> QED  BY <4>1
    <3> HIDE DEF S
    <3> QED  BY <3>1, ClearsAlone DEF queue
  <2>4. Count(tasks["main"], S) \in Nat /\ rest \in Nat /\ Bit(Now("receiver"), S) \in Nat
    BY <1>0, InsideTyped DEF Bit
  <2>5. /\ Inside(ts, mutex, m) = Count(ts["main"], S) + Count(ts["receiver"], S) + rest
        /\ Inside(tasks, mutex, m) = Count(tasks["main"], S) + Count(queue, S) + rest
    BY DEF Inside
  <2> HIDE DEF S, rest, ts, queue
  <2>6. Inside(ts, mutex, m) = Inside(tasks, mutex, m) - Bit(Now("receiver"), S)
    BY <2>1, <2>2, <2>3, <2>4, <2>5
  <2> QED  BY <2>6 DEF S
<1> HIDE DEF ts, queue
<1>9. Open(ts, mutex, {"status"})
  <2>1. ASSUME NEW m \in Mutexes
        PROVE  /\ Inside(ts, mutex, m) = IF m \in {"status"} THEN 0 ELSE Held(mutex, m)
               /\ m \notin {"status"} /\ mutex[m].holder = "none"
                    => mutex[m].waiters = <<>>
    <3>1. /\ Inside(tasks, mutex, m) = Held(mutex, m) /\ Held(mutex, m) \in {0, 1}
          /\ mutex[m].holder = "none" => mutex[m].waiters = <<>>
      BY DEF LocksInv, Open, Held
    <3>2. Inside(ts, mutex, m) \in Nat
      BY <1>0, <1>4, InsideTyped
    <3>3. /\ Bit(Now("receiver"), InSection(m)) \in {0, 1}
          /\ Bit(Now("receiver"), InSection(m)) = 1 <=> m \in {"status"}
      BY <1>2, <1>3, SectionBits DEF Departs
    <3>4. Inside(ts, mutex, m)
            = Inside(tasks, mutex, m) - Bit(Now("receiver"), InSection(m))
      BY <1>8
    <3> QED  BY <3>1, <3>2, <3>3, <3>4
  <2> QED  BY <2>1 DEF Open
<1>10. Open(Woken(ts, "status"), Released(mutex, "status"), {"status"} \ {"status"})
  BY <1>0, <1>4, <1>9, ReleaseCloses
<1>11. {"status"} \ {"status"} = {}
  OBVIOUS
<1>12. tasks' = Woken(ts, "status") /\ mutex' = Released(mutex, "status")
  BY DEF Clears, ts
<1> QED  BY <1>10, <1>11, <1>12 DEF LocksInv

LEMMA CancelsCloses ==
  ASSUME QueuesTyped, LocksInv, Cancels
  PROVE  LocksInv'
<1>0. /\ "status" \in Mutexes /\ "heartbeat" \in Mutexes /\ "receiver" \in Threads
      /\ TasksTyped(tasks) /\ MutexTyped(mutex) /\ tasks["receiver"] # <<>>
  BY DEF Mutexes, Threads, QueuesTyped, Cancels, Runs
<1>1. PICK l \in Lock : /\ l.holder = mutex["status"].holder /\ l.waiters = <<>>
                        /\ mutex' = [mutex EXCEPT !["status"] = l]
  BY DEF Cancels
<1>2. Departs(Now("receiver")) = {}
  BY PlacesDepart DEF Cancels
<1>3. Open(Done(tasks, "receiver"), mutex, {})
  BY <1>0, <1>2, DoneOpens DEF LocksInv, Now
<1>4. /\ mutex'["status"] = l /\ mutex'["heartbeat"] = mutex["heartbeat"]
      /\ tasks' = Done(tasks, "receiver")
  BY <1>0, <1>1 DEF MutexTyped, Cancels
<1>5. ASSUME NEW m \in Mutexes
      PROVE  /\ Inside(tasks', mutex', m) = Held(mutex', m)
             /\ mutex'[m].holder = "none" => mutex'[m].waiters = <<>>
  <2>1. Inside(tasks', mutex', m) = Inside(tasks', mutex, m)
    BY <1>4 DEF Inside
  <2>2. /\ Inside(tasks', mutex, m) = Held(mutex, m)
        /\ mutex[m].holder = "none" => mutex[m].waiters = <<>>
    BY <1>3, <1>4 DEF Open
  <2>3. mutex'[m].holder = mutex[m].holder
    BY <1>1, <1>4 DEF Mutexes
  <2>4. m = "status" \/ mutex'[m] = mutex[m]
    BY <1>4 DEF Mutexes
  <2> QED  BY <1>1, <1>4, <2>1, <2>2, <2>3, <2>4 DEF Held
<1> QED  BY <1>5 DEF LocksInv, Open

LEMMA LocksStep ==
  ASSUME QueuesTyped, OneCommand, LocksInv, Moves
  PROVE  LocksInv'
<1>0. /\ "main" \in Threads /\ "receiver" \in Threads
      /\ "status" \in Mutexes /\ "heartbeat" \in Mutexes
      /\ "none" \in Mutexes \cup {"none"} /\ "status" \in Mutexes \cup {"none"}
      /\ TasksTyped(tasks) /\ MutexTyped(mutex)
  BY DEF Threads, Mutexes, QueuesTyped
<1>1. ASSUME NEW thr \in Threads, NEW m \in Mutexes, NEW task, Enters(thr, m, task)
      PROVE  LocksInv'
  <2>1. Departs(Now(thr)) = {}
    BY <1>1, PlacesDepart DEF Enters
  <2>2. Departs(task) = {m}
    <3>1. /\ task.at \in WaitPlaces(m) /\ task.at \notin {"watch", "forget"}
      BY <1>1 DEF Enters, Waiter
    <3>2. CASE m = "status"
      BY <3>1, <3>2, PlacesDepart DEF WaitPlaces
    <3>3. CASE m = "heartbeat"
      BY <3>1, <3>3, PlacesDepart DEF WaitPlaces
    <3> QED  BY <3>2, <3>3 DEF Mutexes
  <2>3. /\ Runs(thr) /\ task \in Waiter(m) /\ Acquire(thr, m, task, "none")
    BY <1>1 DEF Enters
  <2>4. /\ Departs(Now(thr)) = IF "none" = "none" THEN {} ELSE {"none"}
        /\ m \notin Departs(Now(thr)) /\ (m = "status" => Departs(Now(thr)) = {})
        /\ Departs(task) = Departs(Now(thr)) \cup {m}
    BY <2>1, <2>2
  <2> QED  BY <1>0, <2>3, <2>4, AcquireCloses
<1>2. ASSUME NEW thr \in Threads, NEW task, EntersInner(thr, task)
      PROVE  LocksInv'
  <2>1. Departs(Now(thr)) = {"status"}
    BY <1>2, PlacesDepart DEF EntersInner
  <2>2. Departs(task) = {"status", "heartbeat"}
    BY <1>2, PlacesDepart DEF EntersInner
  <2>3. /\ Runs(thr) /\ task \in Waiter("heartbeat")
        /\ Acquire(thr, "heartbeat", task, "status")
    BY <1>2 DEF EntersInner
  <2>4. /\ Departs(Now(thr)) = IF "status" = "none" THEN {} ELSE {"status"}
        /\ "heartbeat" \notin Departs(Now(thr))
        /\ ("heartbeat" = "status" => Departs(Now(thr)) = {})
        /\ Departs(task) = Departs(Now(thr)) \cup {"heartbeat"}
    BY <2>1, <2>2
  <2> QED  BY <1>0, <2>3, <2>4, AcquireCloses
<1>3. ASSUME NEW thr \in Threads, Fails(thr)
      PROVE  LocksInv'
  <2>1. Departs(Now(thr)) = {"status"} /\ Runs(thr) /\ Raise(thr, "status")
    BY <1>3, PlacesDepart DEF Fails
  <2>2. Departs(Now(thr)) = IF "status" = "none" THEN {} ELSE {"status"}
    BY <2>1
  <2> QED  BY <1>0, <2>1, <2>2, RaiseCloses
<1>4. ASSUME NEW thr \in Threads, NEW m \in Mutexes, Leaves(thr, m)
      PROVE  LocksInv'
  <2>1. Departs(Now(thr)) = {m}
    <3>1. CASE m = "status"
      BY <1>4, <3>1, PlacesDepart DEF Leaves
    <3>2. CASE m = "heartbeat"
      BY <1>4, <3>2, PlacesDepart DEF Leaves
    <3> QED  BY <3>1, <3>2 DEF Mutexes
  <2>2. Open(Woken(Done(tasks, thr), m), Released(mutex, m), {})
    BY <1>4, <2>1, LeaveCloses DEF Leaves
  <2>3. tasks' = Woken(Done(tasks, thr), m) /\ mutex' = Released(mutex, m)
    BY <1>4 DEF Leaves, Leave
  <2> QED  BY <2>2, <2>3 DEF LocksInv
<1>5. ASSUME NEW thr \in Threads, NEW m \in Mutexes, NEW task, LeavesFor(thr, m, task)
      PROVE  LocksInv'
  <2>1. Runs(thr) /\ tasks[thr] # <<>> /\ task \in GoodTask
        /\ tasks' = Woken(Goto(tasks, thr, task), m) /\ mutex' = Released(mutex, m)
    BY <1>5 DEF LeavesFor, Runs
  <2>2. /\ Departs(task) \subseteq Departs(Now(thr))
        /\ Departs(Now(thr)) \ Departs(task) = {m}
    <3>1. CASE m = "status"
      <4>1. \/ Now(thr).at = "lookup" /\ task.at = "create"
            \/ Now(thr).at = "copy" /\ task.at = "send"
        BY <1>5, <3>1 DEF LeavesFor
      <4>2. Departs(Now(thr)) = {"status"} /\ Departs(task) = {}
        BY <4>1, PlacesDepart
      <4> QED  BY <3>1, <4>2
    <3>2. CASE m = "heartbeat"
      <4>1. Now(thr).at = "forget" /\ task.at = "pop"
        BY <1>5, <3>2 DEF LeavesFor
      <4>2. Departs(Now(thr)) = {"status", "heartbeat"} /\ Departs(task) = {"status"}
        BY <4>1, PlacesDepart
      <4> QED  BY <3>2, <4>2
    <3> QED  BY <3>1, <3>2 DEF Mutexes
  <2> DEFINE ts == Goto(tasks, thr, task)
  <2>3. Open(ts, mutex, {m})
    <3>1. Departs(task) \subseteq Departs(Head(tasks[thr]))
      BY <2>2 DEF Now
    <3>2. Open(ts, mutex, Departs(Head(tasks[thr])) \ Departs(task))
      BY <1>0, <2>1, <3>1, GotoOpens DEF LocksInv
    <3> QED  BY <2>2, <3>2 DEF Now
  <2>4. TasksTyped(ts)
    BY <1>0, <2>1, GotoEffect
  <2> HIDE DEF ts
  <2>5. Open(Woken(ts, m), Released(mutex, m), {m} \ {m})
    BY <1>0, <2>3, <2>4, ReleaseCloses
  <2>6. {m} \ {m} = {}
    OBVIOUS
  <2> QED  BY <2>1, <2>5, <2>6 DEF LocksInv, ts
<1>6. ASSUME NEW m \in Mutexes, NEW task, LeavesCreating(m, task)
      PROVE  LocksInv'
  <2>1. /\ Runs("main") /\ tasks["main"] # <<>> /\ task \in GoodTask
        /\ tasks' = create_task(Woken(Done(tasks, "main"), m), "main", task)
        /\ mutex' = Released(mutex, m)
    BY <1>6 DEF LeavesCreating, Runs
  <2>2. Departs(Now("main")) = {m} /\ Departs(task) = {}
    <3>1. CASE m = "status"
      BY <1>6, <3>1, PlacesDepart DEF LeavesCreating
    <3>2. CASE m = "heartbeat"
      BY <1>6, <3>2, PlacesDepart DEF LeavesCreating
    <3> QED  BY <3>1, <3>2 DEF Mutexes
  <2> DEFINE ts == Woken(Done(tasks, "main"), m)
             mx == Released(mutex, m)
  <2>3. Open(ts, mx, {})
    BY <1>0, <2>1, <2>2, LeaveCloses
  <2>4. TasksTyped(ts) /\ MutexTyped(mx)
    <3>1. TasksTyped(Done(tasks, "main"))
      BY <1>0, <2>1, DoneEffect
    <3> QED  BY <1>0, <3>1, HandOver
  <2> HIDE DEF ts, mx
  <2>5. Open(create_task(ts, "main", task), mx, {})
    BY <1>0, <2>1, <2>2, <2>3, <2>4, CreateOpens
  <2> QED  BY <2>1, <2>5 DEF LocksInv, ts, mx
<1>7. ASSUME NEW thr \in Threads, Finishes(thr)
      PROVE  LocksInv'
  <2>1. Departs(Now(thr)) = {}
    BY <1>7, PlacesDepart DEF Finishes
  <2>2. tasks' = Done(tasks, thr) /\ mutex' = mutex /\ tasks[thr] # <<>>
    BY <1>7 DEF Finishes, Runs
  <2>3. Open(Done(tasks, thr), mutex, {})
    BY <1>0, <2>1, <2>2, DoneOpens DEF LocksInv, Now
  <2> QED  BY <2>2, <2>3 DEF LocksInv
<1>8. ASSUME NEW task, Created(task)
      PROVE  LocksInv'
  <2>1. Departs(task) = {} /\ task \in GoodTask
    BY <1>8, PlacesDepart DEF Created
  <2>2. tasks' = create_task(tasks, "main", task) /\ mutex' = mutex
    BY <1>8 DEF Created
  <2>3. Open(create_task(tasks, "main", task), mutex, {})
    BY <1>0, <2>1, CreateOpens DEF LocksInv
  <2> QED  BY <2>2, <2>3 DEF LocksInv
<1>9. ASSUME NEW task, Commanded(task)
      PROVE  LocksInv'
  <2>1. /\ Departs(task) = {} /\ task \in GoodTask /\ tasks["receiver"] = <<>>
        /\ mutex' = mutex
    BY <1>9, PlacesDepart DEF Commanded, ReceiverIdle
  <2>2. tasks' = create_task(tasks, "receiver", task)
    <3>1. Append(tasks["receiver"], task) = <<task>>
      BY <2>1
    <3>2. tasks' = [tasks EXCEPT !["receiver"] = <<task>>]
      BY <1>9 DEF Commanded
    <3> QED  BY <3>1, <3>2 DEF create_task
  <2>3. Open(create_task(tasks, "receiver", task), mutex, {})
    BY <1>0, <2>1, CreateOpens DEF LocksInv
  <2> QED  BY <2>1, <2>2, <2>3 DEF LocksInv
<1>10. ASSUME Rests PROVE LocksInv'
  BY <1>10 DEF Rests, LocksInv
<1> QED
  BY <1>1, <1>2, <1>3, <1>4, <1>5, <1>6, <1>7, <1>8, <1>9, <1>10,
     LeavesBothCloses, ClearsCloses, CancelsCloses DEF Moves

-----------------------------------------------------------------------------
LockInv == TypeInv /\ OneCommand /\ LocksInv

LEMMA LockInit == Init => LockInv
<1> SUFFICES ASSUME Init PROVE LockInv
  OBVIOUS
<1>0. /\ "main" \in Threads /\ "receiver" \in Threads
      /\ MonitorTask \in GoodTask /\ ListTask \in GoodTask
  BY NewTasks DEF Threads
<1>1. TypeInv
  BY TypeInit
<1>2. /\ tasks["main"] = <<MonitorTask, ListTask>> /\ tasks["receiver"] = <<>>
      /\ \A m \in Mutexes : /\ mutex[m].waiters = <<>> /\ mutex[m].holder = "none"
                            /\ mutex[m].loop = "none"
  BY DEF Init
<1>3. ReceiverIdle
  BY <1>2 DEF ReceiverIdle, Waiting
<1>4. OneCommand
  BY <1>3, IdleOwns DEF OneCommand
<1>5. Departs(MonitorTask) = {} /\ Departs(ListTask) = {}
  BY PlacesDepart DEF MonitorTask, ListTask
<1>6. ASSUME NEW m \in Mutexes
      PROVE  /\ Inside(tasks, mutex, m) = Held(mutex, m)
             /\ mutex[m].holder = "none" => mutex[m].waiters = <<>>
  <2>1. Count(<<MonitorTask, ListTask>>, InSection(m))
          = Bit(MonitorTask, InSection(m)) + Bit(ListTask, InSection(m))
    BY <1>0, CountPair
  <2>2. Bit(MonitorTask, InSection(m)) = 0 /\ Bit(ListTask, InSection(m)) = 0
    BY <1>0, <1>5, SectionBits DEF Departs, GoodTask
  <2>3. \A S : Count(<<>>, S) = 0
    BY CountNone
  <2>4. Inside(tasks, mutex, m) = 0
    BY <1>2, <2>1, <2>2, <2>3 DEF Inside, Mutexes
  <2> QED  BY <1>2, <2>4 DEF Held
<1>7. LocksInv
  BY <1>6 DEF LocksInv, Open
<1> QED  BY <1>1, <1>4, <1>7 DEF LockInv

LEMMA LockStep ==
  LockInv /\ [Next]_vars => LockInv'
<1> SUFFICES ASSUME LockInv, [Next]_vars PROVE LockInv'
  OBVIOUS
<1>1. TypeInv /\ QueuesTyped /\ OneCommand /\ LocksInv
  BY DEF LockInv, TypeInv
<1>2. TypeInv'
  BY <1>1, TypeStep
<1>3. Moves
  BY <1>1, StepMoves
<1>4. OneCommand' /\ LocksInv'
  BY <1>1, <1>3, OneCommandStep, LocksStep
<1> QED  BY <1>2, <1>4 DEF LockInv

LEMMA LockInvOwned ==
  ASSUME LockInv
  PROVE  MutexOwned
<1>1. TasksTyped(tasks) /\ MutexTyped(mutex) /\ LocksInv
  BY DEF LockInv, TypeInv, QueuesTyped
<1>2. /\ tasks["main"] \in Seq(GoodTask) /\ tasks["receiver"] \in Seq(GoodTask)
  BY <1>1 DEF TasksTyped, Threads
<1> SUFFICES ASSUME NEW m \in Mutexes
             PROVE  IF mutex[m].holder = "none"
                      THEN Holding(m) = {} /\ mutex[m].waiters = <<>>
                      ELSE Cardinality(Holding(m)) = 1
  BY DEF MutexOwned
<1> DEFINE S == InSection(m)
           rest == IF m = "status" THEN mutex["heartbeat"].waiters ELSE <<>>
           held == tasks["main"] \o tasks["receiver"] \o rest
<1>3. rest \in Seq(GoodTask)
  <2>1. mutex["heartbeat"].waiters \in Seq(GoodTask)
    BY <1>1 DEF MutexTyped, Lock, Mutexes
  <2> QED  BY <2>1
<1>4. Count(rest, S) = IF m = "status"
                       THEN Count(mutex["heartbeat"].waiters, InSection("status")) ELSE 0
  BY CountNone
<1>t. Count(rest, S) \in Nat /\ Count(tasks["main"], S) \in Nat
      /\ Count(tasks["receiver"], S) \in Nat
  BY <1>2, <1>3, PositionsFinite
<1> HIDE DEF rest
<1>5. held \in Seq(GoodTask)
  BY <1>2, <1>3
<1>6. Count(held, S) = Count(tasks["main"], S) + Count(tasks["receiver"], S)
                         + Count(rest, S)
  <2>1. tasks["main"] \o tasks["receiver"] \in Seq(GoodTask)
    BY <1>2
  <2> HIDE DEF S
  <2>2. Count(tasks["main"] \o tasks["receiver"], S)
          = Count(tasks["main"], S) + Count(tasks["receiver"], S)
    BY <1>2, CountConcat
  <2>3. Count(held, S)
          = Count(tasks["main"] \o tasks["receiver"], S) + Count(rest, S)
    BY <1>3, <2>1, CountConcat
  <2> QED  BY <2>2, <2>3
<1>7. Count(held, S) = Inside(tasks, mutex, m)
  BY <1>4, <1>6 DEF Inside
<1>8. Holding(m) = {i \in DOMAIN held : held[i].at \in Section(m)}
  BY DEF Holding, rest
<1> HIDE DEF held
<1>9. Holding(m) = Positions(held, S)
  <2>1. \A i \in DOMAIN held : held[i] \in GoodTask
    BY <1>5, LenProperties, ElementOfSeq
  <2>2. \A i \in DOMAIN held : held[i] \in S <=> held[i].at \in Section(m)
    BY <2>1 DEF GoodTask, InSection
  <2> QED  BY <1>8, <2>2 DEF Positions
<1>10. /\ Cardinality(Holding(m)) = Held(mutex, m) /\ IsFiniteSet(Holding(m))
       /\ mutex[m].holder = "none" => mutex[m].waiters = <<>>
  BY <1>1, <1>5, <1>7, <1>9, PositionsFinite DEF Count, LocksInv, Open
<1>11. Cardinality(Holding(m)) = 0 => Holding(m) = {}
  BY <1>10, FS_EmptySet
<1> QED  BY <1>10, <1>11 DEF Held

(* The two maps are only ever touched under their locks, and no lock leaks *)
(* or is passed to two coroutines, whatever raises in between              *)
(* (gameshow_server.py: every async with of the two locks).                *)
THEOREM LocksAreOwned == Spec => []MutexOwned
<1>1. Init => LockInv
  BY LockInit
<1>2. LockInv /\ [Next]_vars => LockInv'
  BY LockStep
<1>3. LockInv => MutexOwned
  BY LockInvOwned
<1> QED  BY <1>1, <1>2, <1>3, PTL DEF Spec
=============================================================================
