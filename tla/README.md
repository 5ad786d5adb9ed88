# TLA+ models of the game-show buzzers

Battery-powered buttons (RIOT firmware), a server that keeps track of them and a
web page for the quizmaster. The models in this directory follow the source file
by file and are checked with TLC; the safety properties of the firmware, of the two
backends, of a round played between them and of the lab client are also proved with
TLAPS, for every size. `PROJECT.json` maps every definition to the lines it stands for.

## The system

| part | source | state | operations |
|------|--------|-------|------------|
| buzzer firmware | `buzzer_system/` | mode flags (paired, locked, pairing, not connected), LED, main's message queue, outstanding CoAP requests, long-press timer | main loop over mode messages, pairing / heartbeat / blink threads, CoAP response handlers, reset resource, button and timer interrupts |
| buzzer backend | `pycoapapp/gameshow_server.py` | registry of buzzers, heartbeat table, pairing flag, name counter | register, pressed, heartbeat resources; heartbeat monitor; commands reset, pairing, remove from the UI backend; list to the UI |
| UI backend | `project/backend/game-websocket.py` | start of the round, smallest press time | forwards commands, maps buzzer lists to delays |
| game frontend | `project/frontend/app/game/` | buzzers shown, pairing dialogue, question counter | reset, remove, pairing switch, ranking |
| lab node | `lab3/` | client: last URI, proxy, observation, open requests; server: SAUL devices | command line of a CoAP client, board resources, resource directory |
| LED demo | `pycoapapp/pycoapapp.py` | endpoints, LED colour | observes and broadcasts |
| shell of the frontend, zeromq scripts | `project/frontend/{components,config,...}`, `pycoapapp/test_*.py` | none of the game | layout; manual tests |

A buzzer registers, sends heartbeats every 3 s and a press request per press, all
as CoAP requests to the backend, and takes one request itself, the reset, sent as
a multicast. The two backends exchange text messages over zeromq (commands one
way, the whole buzzer list the other way); the UI backend and the browser exchange
socket events. Inside the buzzer the threads share plain variables and talk to
the main thread through its message queue. Inside the buzzer backend the event
loop and the command thread share the two maps.

What is hard here:

* firmware: six threads and two interrupts on shared flags, priorities instead of
  locks, a bounded queue that drops in interrupts and blocks in threads, sleeping
  for a handler that another thread must be free to run, requests that time out,
  are answered late, or are refused by the library;
* buzzer backend: a map that two event loops of two threads use through asyncio
  locks, tasks created now that run later, exceptions between the two maps;
* between the parts: a press acknowledged before it is recorded and sent twice, a
  reset that is one unacknowledged multicast, lists that overtake each other.

What makes each part correct:

* firmware: nobody sleeps for a response that will not come; a paired buzzer is
  watched and leaves a dead server; pairing mode ends with the pairing; the LED
  agrees with the lock; a long press pairs; a reset never blocks the buzzer;
* buzzer backend: locks are neither leaked nor shared; every registered buzzer is
  watched; the first press stands and is shown; dead buzzers leave; commands keep
  being processed; the list in the UI is current;
* UI backend and page: delays are taken against the present round, the ranking is
  by press time, a reset is visible;
* the whole: buzzers and registry agree who is in;
* lab client: a blockwise transfer goes on with its own URI, there is at most one
  observation; lab server: a colour is taken, and its numbers are those sent.

## Modules

### Buzzer.tla

One buzzer. A step is what a thread does between two points where another one can
see or disturb it.

| state | code |
|-------|------|
| `main` | program counter of `main_routine` (main.c): booting, in `msg_receive`, between `enable_connected` and `locked_mode`, in the delay, asleep and woken in `send_buzzer_pressed` |
| `gcoap` | the CoAP thread, "posting" while the reset handler blocks in `msg_send` |
| `pairing`, `heartbeat` | those threads; "failed"/"succeeded" while they block in their last `msg_send` |
| `blinking` | blink threads alive |
| `rcv_queue` | messages for main, those handed directly to a waiting main included |
| `memos`, `refused` | requests gcoap remembers, and the sleepers whose request it did not take |
| flags | the variables of the same names in gameshow_buzzer.c and buzzer_communication.c |

The actions carry the names of the handlers and of the cases of `main_routine`.
Modelled from use, as external: RIOT's message queue (an interrupt drops, a thread
blocks, the receiver admits the blocked sender of the highest priority), its
priorities, and gcoap's memo table. The network and the server are the outcomes a
request can have (`PairOutcomes`, answered or not, alive or not). Left out: the
contents of requests, clock values, logging, `EVENT_ENABLE_LOCKED` (nothing sends
it), the shell. `gcoap_req_send` is refused only for a full memo table.

The second press request passes the address of a local variable of a function that
has returned (gameshow_buzzer.c:188). What the handler then reads is undefined:
the model lets it name main, no thread, or, when `StalePidMayBePairing`, the
pairing thread. A stray wakeup of the heartbeat thread is an early `HeartbeatWakes`.
Two properties hold only without a stray wakeup of the pairing thread, and say so.

### GameshowServer.tla

The buzzer backend. `tasks` holds per thread the coroutines that can run, in the
order of its event loop; `at` is where a coroutine stands. Steps end at every point
where the other thread can interleave: a lock taken, a map changed, a list copied,
a list sent. `mutex` models `asyncio.Lock` of Python 3.10 and later: a
lock is bound to the loop of its first contended acquire, waits only there, and
raises in any other loop; every command of the receiver runs in a new loop.
A released lock is handed to its first waiter, since later comers queue behind it.
`device_heartbeat_map` keeps the age of the last heartbeat in checks of the
monitor: `last_heartbeat` is set 4 s ahead and the monitor runs every 4 s, so a
buzzer expires at the third check after its heartbeat, at the second one if the
checks drift, and at once if the heartbeat came after `start_time` of a check that
waits for the lock (`abs`). The field `locked` is left out (nothing reads it), as
are `send_reset_to_buzzer` (nothing calls it) and the resource directory. Requests
may come with any name: a buzzer keeps its name over a restart of the server. The
event loop is assumed not to stall for seconds.

### RoundBuzzer.tla and Registry.tla

What the two programs promise each other. `RoundBuzzer` is one buzzer as the game
sees it: paired or not, locked or not, an inbox, a press taken, sent, waited for
and locked, a reset that opens. It has no threads, memos, LED or heartbeats; a
message of any of those arrives in the inbox as if from nowhere. `Registry` is the
buzzer backend with atomic operations: at most one press for a buzzer, cleared for
all at once, and lists that are each the registry at one moment.

`Buzzer!ImplementsRoundBuzzer` and `GameshowServer!ImplementsRegistry` state that
the programs implement them; the mappings are the `INSTANCE ... WITH` before them.
A step of `RoundBuzzer` is a member of a set of successor records instead of an
action, so that a module can have many buzzers in one function.

### GameRound.tla

Buzzers that keep `RoundBuzzer`, a backend that keeps `Registry`, and CoAP over UDP
between them: requests and answers delayed, reordered and lost, a press sent a
second time when its answer is late, the acknowledgement before the record
(`tasks`), the reset as an unacknowledged multicast whose first answer the receiver
waits for, perhaps for good. The steps of the programs are the operators of the two
contracts, joined by the network. Buzzers start registered and just told so, in
the window of main.c:139-141 in which they are paired and not locked yet.

Presses are named by the moment they are stamped. A reset handler whose `msg_send`
finds the inbox full waits (`held`) and answers when main receives; that answer may
be the one the receiver is waiting for, or come too late for it. `clean` is history:
the buzzers that were at rest when the present round was clicked (idle, no press of
theirs on its way or unrecorded, no reset coming), lost no request and no reset of
it, and were not pressed before its reset came. The rest of the game may do what it
likes meanwhile. `CleanRoundAgrees` is about those buzzers. Of a buzzer that is not
clean the code promises less, and this is what the model shows it to do:

* a buzzer whose press is in flight ignores the reset (gameshow_buzzer.c:500) and
  locks afterwards, in a round in which nobody counts it;
* the second request of a press, or one the backend had acknowledged and not
  recorded, is recorded after the reset, as a press of the new round;
* a buzzer that missed the multicast stays locked.

The next reset that finds such a buzzer at rest and reaches it repairs all three,
which is a part of what `CleanRoundAgrees` says. Left to the other modules: pairing,
heartbeats and boot (`Buzzer`), listings and contended locks (`GameshowServer`), the
page.

### GamePage.tla

The UI backend's websocket handler and subscriber thread, which share
`current_timestamp` and `smallest_timestamp`, over a backend that keeps `Registry`,
up to the list the page shows. The handler is cut between the time of the reset and
its publication, the mapping of a list between `calc_smallest_timestamp`, the delays
with the test of `smallest_timestamp`, and its use: a reset in between makes the use
raise and the list is lost. Both threads of the buzzer backend make listings.
`get_iso8601_time` adds the offset to the hour without a carry, which `strptime`
refuses from 22:00 UTC on: the time of such a press is in `late`, the press is
recorded, and no list with it is ever mapped. Hours pass at any moment. The clocks of
buzzers and UI backend are taken to be synchronised (both follow NTP). A list is
mapped in steps for all of its objects at once. zeromq keeps its order.

The page is promised nothing while lists are queued, so `PageShowsRound` waits for
that: when every list sent has been mapped and no reset is under way (`Settled`), the
page shows the list sent last (`shown`), with delays since the last click (`clicked`,
history) and gaps to the earliest press of that list. Whether that list is the
registry as it is now is another question, which `GameshowServer!UiListCurrent`
answers with no.

### LabClient.tla and LabServer.tla

`LabClient` is the command line of lab 3 (commented out in lab3/main.c:65): the shell
thread starts requests, sets and unsets the proxy and has one observation, gcoap's
thread preempts it and asks for further blocks with the URI of the last request.
`_uristr2remote` is cut where the name is resolved: the buffer holds the bare host
there, and keeps it if the name does not resolve. `Spec` has a user who does what the
shell lets him, and the theorems are about it. `CarefulSpec` has one who follows the
rule of coap_client.c:49-51 ("with a new path") even for requests still unanswered,
which may turn out to be the first block of many; the violation run `lab_blocks`
shows that this is not enough. Seen in the model and claimed by no property:
`observing` stays set for good after a registration that timed out or went through a
proxy (the memo is looked for at the server of the URI); a proxy that does not
resolve stays set as the bare host.

`LabServer` is the PUT of a digit or a colour to the board. A payload is its
characters, since the numbers are found by the computed lengths of the ones before;
`left` is what an earlier payload left behind it in the packet buffer, which the text
is not terminated against (coap_server.c:239): its digits become a part of the third
number, which `ColoursTaken` says. All three numbers are checked and only the first
is written to the device (line 256). A payload of length 0 or 11 is refused (line
222); a longer one overruns the copy of line 225, after which the model lets the
board go on or crash.

`MCLabNode` has both. They share nothing, so each runs while the other is in its
initial state, and the server gets one request.

### Proofs and instances

The TLAPS proofs stand beside the models they are about:

| module | about | extends |
|--------|-------|---------|
| `BuzzerProofs` | the invariants of `Buzzer`; `Buzzer` implements `RoundBuzzer` | `Buzzer` |
| `SequenceCounts` | how many elements of a sequence lie in a set | |
| `GameshowServerTypes` | types; what each step does to the counts of coroutines | `GameshowServer`, `SequenceCounts` |
| `GameshowServerLocks` | who holds the two locks | `GameshowServerTypes` |
| `GameshowServerRegistry` | presses, names, `GameshowServer` implements `Registry`; the heartbeat monitor watches every buzzer; removals find their keys | `GameshowServerLocks` |
| `GameRoundProofs` | rounds of any number of buzzers over the network | `GameRound` |
| `GamePageProofs` | the page tells the truth about the list sent last | `GamePage` |
| `LabClientProofs` | the invariants of `LabClient` | `LabClient` |

The `MC` modules give TLC a module to instantiate, and `MCGameRound` the symmetry of
buzzers; the constants are in the `.cfg` files.

## Runs

`CHECK_DEADLOCK FALSE` everywhere: an idle buzzer may be left alone, and both
programs have states in which they are stuck, which are what the violation runs
and the exceptions of the liveness properties are about.

| run | bounds | shows |
|-----|--------|-------|
| `buzzer_strays` | queue 1, memos 2, SNTP tries 2, stray wakeups | `TypeOK`, `NoLostWakeup`, `MonitoredWhilePaired`, `ImplementsRoundBuzzer` |
| `buzzer_live` | queue 1, memos 1, no stray wakeups | `PairingModeOwned`, `LedShowsLock`, `SleepersWake`, `SilentServerUnpairs` |
| `server_live` | 1 name, 1 endpoint, 2 press times, 1 request and 1 removal at a time besides the server's own tasks | `TypeOK`, `MutexOwned`, `StatusWatched`, `FirstPressKept`, `PressShown`, `DeadRemoved`, `ImplementsRegistry` |
| `game_round` | 2 buzzers, symmetric, queue 1, 2 resets, 2 presses | `TypeOK`, `CleanRoundAgrees` |
| `game_page` | 2 buzzers, 2 resets, 2 presses, one hour that parses and one that does not | `TypeOK`, `PageShowsRound`, `RoundOpens` |
| `lab_node` | client: 2 URIs, memo table of 2 (gcoap's default); server: numbers 0, 7, 10, 99, 100, 255, 256 | `TypeOK`, `OneObservation`, `ColoursTaken` |

The real queue holds 8 messages; what matters is that it fills while senders
block, which a queue of one reaches within a few steps, also in `game_round`, where
it makes reset handlers wait; the theorems hold for every size. One memo is enough
for refusals, two for a repeated register or press request to be outstanding twice;
`PairingModeOwned` and `LedShowsLock` with two of them are left to the theorems
`PairingModeCorrect` and `LedCorrect`. Two SNTP tries separate success, success at
the last try, and failure. One name in `server_live` meets every lock, registration,
removal, reset and listing of the two threads; that batches of the monitor with
several names and registrations under several names do no harm is what the theorems
about `GameshowServer` say, which hold for any number. With one request at a time the
event loop still holds that request, the monitor, a removal and listings at once.
`MaxRequests` and `MaxRemovals` guard arrivals only: the server's own steps are never
cut.

Two rounds are enough for the properties of `game_round` and `game_page` to fail: one
that goes wrong in any way and the one after it; two presses let the first buzzer's
late second request, or its stale list, meet the other's press. Nothing tells one
buzzer from another in `GameRound`. A third reset or press, and a memo table of three
in `lab_node`, are beyond five minutes of TLC; the safety properties of these runs
but `ColoursTaken` are proved for any number of them. `MaxResets`, `MaxEdges` and
`MaxPresses` stand in the guards of the showmaster's click and of the press only.
The boundary values of `lab_node` are every length of a number and both sides of 255.

Six runs show where the code and what is written about it differ:

* `buzzer_reset`: an edge in the window between `enable_connected` and `locked_mode`
  is taken by a main that has locked, which sleeps for the answer; resets fill the
  queue with ENABLE_NORMAL, one in the run and 8 in the code, and the next one blocks
  the thread that would deliver the answer (gameshow_buzzer.c:504).
* `buzzer_long_press`: the release that follows a long press is ignored during
  pairing; after a failed pairing the next press and hold does nothing
  (gameshow_buzzer.c:399).
* `server_receiver`: removing a buzzer twice ends the receiver thread
  (gameshow_server.py:123). The multicast of a reset can end or block it too: it
  may raise, and nothing bounds the wait for its answer (line 283).
* `server_list`: two threads send lists out of order (gameshow_server.py:88).
* `lab_blocks`: while a request with the same path is resolved, which the rule of
  coap_client.c:49-51 allows, the next block of the one before is asked for from the
  bare host (line 203). The command is not registered in main.c:65, so this is about
  the function, not about the node as it is built.
* `lab_colours`: a colour of eleven characters is refused (coap_server.c:222) although
  lines 79 and 224 name "255,255,255" as the longest.

## Fairness

`Buzzer!FairSpec`: RIOT runs main whenever it can run (weak). gcoap runs whenever
main blocks, and every memo is answered or times out; since main and gcoap take
turns the handlers are enabled again and again but not continuously (strong). The
heartbeat and long-press timers fire if they are not set anew (weak). Nothing is
assumed of the button, the resets and the blink threads.

`GameshowServer!FairSpec`: the event loop runs what is ready, the monitor's timer
fires, the interpreter schedules the receiver (weak). A coroutine of the receiver
that waited for a lock is excepted: the main thread makes it ready without waking
the receiver's selector. Neither requests, commands nor the answer to a reset are
assumed to come.

`GamePage!FairSpec`: the subscriber maps the lists it is sent (weak): its loop has no
end and catches every exception. Nothing is assumed of the buzzer backend, whose
receiver may wait for the answer to a multicast for good (gameshow_server.py:283),
whose threads may fail to get a lock, nor of presses, clicks and the handler.

## Proofs and instances

The TLAPS proofs stand beside the models they are about:

| module | about | extends |
|--------|-------|---------|
| `BuzzerProofs` | the invariants of `Buzzer`; `Buzzer` implements `RoundBuzzer` | `Buzzer` |
| `SequenceCounts` | how many elements of a sequence lie in a set | |
| `GameshowServerTypes` | types; what each step does to the counts of coroutines | `GameshowServer`, `SequenceCounts` |
| `GameshowServerLocks` | who holds the two locks | `GameshowServerTypes` |
| `GameshowServerRegistry` | presses, names, `GameshowServer` implements `Registry`; the heartbeat monitor watches every buzzer; removals find their keys | `GameshowServerLocks` |
| `GameRoundProofs` | rounds of any number of buzzers over the network | `GameRound` |
| `GamePageProofs` | the page tells the truth about the list sent last | `GamePage` |
| `LabClientProofs` | the invariants of `LabClient` | `LabClient` |

The `MC` modules give TLC a module to instantiate, and `MCGameRound` the symmetry of
buzzers; the constants are in the `.cfg` files.

## Runs

`CHECK_DEADLOCK FALSE` everywhere: an idle buzzer may be left alone, and both
programs have states in which they are stuck, which are what the violation runs
and the exceptions of the liveness properties are about.

| run | bounds | shows |
|-----|--------|-------|
| `buzzer_strays` | queue 1, memos 2, SNTP tries 2, stray wakeups | `TypeOK`, `NoLostWakeup`, `MonitoredWhilePaired`, `ImplementsRoundBuzzer` |
| `buzzer_live` | queue 1, memos 1, no stray wakeups | `PairingModeOwned`, `LedShowsLock`, `SleepersWake`, `SilentServerUnpairs` |
| `server_live` | 1 name, 1 endpoint, 2 press times, 1 request and 1 removal at a time besides the server's own tasks | `TypeOK`, `MutexOwned`, `StatusWatched`, `FirstPressKept`, `PressShown`, `DeadRemoved`, `ImplementsRegistry` |
| `game_round` | 2 buzzers, symmetric, queue 1, 2 resets, 2 presses | `TypeOK`, `CleanRoundAgrees` |
| `game_page` | 2 buzzers, 2 resets, 2 presses, one hour that parses and one that does not | `TypeOK`, `PageShowsRound`, `RoundOpens` |
| `lab_node` | client: 2 URIs, memo table of 2 (gcoap's default); server: numbers 0, 7, 10, 99, 100, 255, 256 | `TypeOK`, `OneObservation`, `ColoursTaken` |

The real queue holds 8 messages; what matters is that it fills while senders
block, which a queue of one reaches within a few steps, also in `game_round`, where
it makes reset handlers wait; the theorems hold for every size. One memo is enough
for refusals, two for a repeated register or press request to be outstanding twice;
`PairingModeOwned` and `LedShowsLock` with two of them are left to the theorems
`PairingModeCorrect` and `LedCorrect`. Two SNTP tries separate success, success at
the last try, and failure. One name in `server_live` meets every lock, registration,
removal, reset and listing of the two threads; that batches of the monitor with
several names and registrations under several names do no harm is what the theorems
about `GameshowServer` say, which hold for any number. With one request at a time the
event loop still holds that request, the monitor, a removal and listings at once.
`MaxRequests` and `MaxRemovals` guard arrivals only: the server's own steps are never
cut.

Two rounds are enough for the properties of `game_round` and `game_page` to fail: one
that goes wrong in any way and the one after it; two presses let the first buzzer's
late second request, or its stale list, meet the other's press. Nothing tells one
buzzer from another in `GameRound`. A third reset or press, and a memo table of three
in `lab_node`, are beyond five minutes of TLC; the safety properties of these runs
but `ColoursTaken` are proved for any number of them. `MaxResets`, `MaxEdges` and
`MaxPresses` stand in the guards of the showmaster's click and of the press only.
The boundary values of `lab_node` are every length of a number and both sides of 255.

Six runs show where the code and what is written about it differ:

* `buzzer_reset`: an edge in the window between `enable_connected` and `locked_mode`
  is taken by a main that has locked, which sleeps for the answer; resets fill the
  queue with ENABLE_NORMAL, one in the run and 8 in the code, and the next one blocks
  the thread that would deliver the answer (gameshow_buzzer.c:504).
* `buzzer_long_press`: the release that follows a long press is ignored during
  pairing; after a failed pairing the next press and hold does nothing
  (gameshow_buzzer.c:399).
* `server_receiver`: removing a buzzer twice ends the receiver thread
  (gameshow_server.py:123). The multicast of a reset can end or block it too: it
  may raise, and nothing bounds the wait for its answer (line 283).
* `server_list`: two threads send lists out of order (gameshow_server.py:88).
* `lab_blocks`: while a request with the same path is resolved, which the rule of
  coap_client.c:49-51 allows, the next block of the one before is asked for from the
  bare host (line 203). The command is not registered in main.c:65, so this is about
  the function, not about the node as it is built.
* `lab_colours`: a colour of eleven characters is refused (coap_server.c:222) although
  lines 79 and 224 name "255,255,255" as the longest.

## Fairness

`Buzzer!FairSpec`: RIOT runs main whenever it can run (weak). gcoap runs whenever
main blocks, and every memo is answered or times out; since main and gcoap take
turns the handlers are enabled again and again but not continuously (strong). The
heartbeat and long-press timers fire if they are not set anew (weak). Nothing is
assumed of the button, the resets and the blink threads.

`GameshowServer!FairSpec`: the event loop runs what is ready, the monitor's timer
fires, the interpreter schedules the receiver (weak). A coroutine of the receiver
that waited for a lock is excepted: the main thread makes it ready without waking
the receiver's selector. Neither requests, commands nor the answer to a reset are
assumed to come.

`GamePage!FairSpec`: the threads of the buzzer backend make the listings they owe,
its receiver takes the next command, the websocket handler finishes and the
subscriber maps (weak, each thread by itself). That the receiver may wait for the
answer to a multicast for good is `GameRound`'s matter and left out here. Presses
and clicks are not assumed.

## Proofs

From the assumptions that queue, memo table and number of SNTP tries are positive
and `StalePidMayBePairing` is a Boolean:

* `TypeCorrect`: `TypeOK` is inductive. Its four parts (queue, memos, threads,
  flags) are kept apart, and one lemma per kind of queue operation says what it
  returns.
* `WakeupsCorrect`: `NoLostWakeup` is inductive together with `TypeOK`: a thread
  falls asleep in the step that adds its memo, and the only step that takes the
  last memo of a kind away wakes the sleeper.
* `MonitoredCorrect`: `MonitoredWhilePaired` with `TypeOK`: the NOT_CONNECTED
  message stays queued until main takes it and unpairs in the same step.
* `PairingModeCorrect`: `PairingModeOwned` with `TypeOK`.
* `LedCorrect`: `LedShowsLock` speaks of a buzzer at rest and is not inductive. The
  strengthening `LedInv` says what must be true before: which message still in the
  queue, blinking thread or unfinished step of main will set the LED right
  (`LedSettled`), that pairing mode has its blink thread (`PairingBlinks`), and that
  a thread blocks in `msg_send` only while the queue is full
  (`BlockedOnlyWhenFull`), so that an empty queue means nothing is pending.

* `RoundContractKept`: the firmware implements `RoundBuzzer`. `BootsUnpaired` (while
  main boots, nothing has paired or locked the buzzer) is inductive and says why the
  contract need not know of the boot; `StepImplements` takes the actions one at a time,
  each a step of the contract or a stutter. The interesting ones are those that move
  several parts of the contract at once: main's `msg_receive` wakes a blocked gcoap,
  and an answer posts to a queue that may be full.

`GameshowServer` assumes only that the three bounds are numbers and that `None` is
neither a number nor a time. Its queues
are of any length, so the invariants *count*: `Own(tasks, mutex, k, S)` is how many
coroutines of thread `k` are in the set `S`, ready or waiting for a lock bound to
`k`'s loop, and `Total` adds the threads. `GameshowServerTypes` proves once for
every way a coroutine goes on (it ends, is let into a lock, waits, fails because the
lock belongs to the other loop, leaves one lock or both and wakes a waiter, is
forgotten by a reset) what becomes of these counts, for any `S`; every later
invariant chooses its `S`.

* `ServerTypeCorrect`: `TypeOK` is not inductive. A registration gets its name two
  locks after the check of the bound (gameshow_server.py:129-161), so `NamesLeft`
  counts the registrations still without a name together with the names given out;
  the waiters of each lock must be typed by where they wait.
* `LocksAreOwned`: `MutexOwned` from `LocksInv`: as many coroutines are inside a
  lock's section as hold it (none or one), and a free lock has no waiters. A reset
  takes its thread's ready coroutines away without releasing anything, which is
  harmless only because of `OneCommand`: the receiver has one coroutine at work, and
  it is the reset.
* `FirstPressStands`: `FreshNames` says that a name the counter has passed is in the
  registry or on its way to it at most once. An insertion thus never replaces an
  entry, and the press in it; the rest is what each action does to the map.
* `RegistryContractKept`: the backend implements `Registry`, mapped to the
  registry's content and the set of copies under way. Copies are made under the
  lock, so each is the registry at one moment; a coroutine that ends or is forgotten
  with a copy is the contract's lost listing.
* `RegistryIsWatched`: `StatusWatched` from four more parts. `WatchInv`: a buzzer
  that is in the registry and not watched has its registration under way, in the
  main thread. `ForgetInv`: a removal that waits for the heartbeat lock is for a
  buzzer that has left the registry, so it takes nobody's watch away. `PoppedInv`: the
  heartbeat map still has that buzzer, so the pop of line 314 never raises. `HeadInv`:
  while the heartbeat lock is not bound to main's loop, nothing behind the running
  coroutine of main is inside it. That is what keeps a registration from failing
  between its two maps: it would need the lock bound to the receiver's loop and held
  by a coroutine of main that is not running.

`LabClient` assumes of `MEMOS_MAX` that it is a number, even 0. One invariant,
`ClientInv`, gives its two theorems:

* `ClientTypeCorrect`, with the table counted, since an answer in blocks to an
  observation keeps its memo and adds one.
* `ObservationIsOne`: from `TokensInv` (no two memos have one token, and none has the
  token about to be sent; `FreshTokenFresh` counts the tokens in use) and
  `ObservationInv` (a registration is under way only while nothing is observed). The
  deregistration thus removes the registration and not another memo.

These theorems are about `LabClient!Spec`; the run `lab_node` checks the same
properties of the client together with the server, with which it shares nothing.

`GameRound` assumes of the queue that it holds a message or more, of the bounds that
they are numbers, and that `None` is none. Its proofs unfold the steps of the two
contracts; that the programs keep these is `RoundContractKept` and
`RegistryContractKept`.

* `RoundTypeCorrect`: `TypeOK` is not inductive: main stamps a press long after the
  edge whose guard looked at the clock. `EdgesInv` counts the presses queued in all
  inboxes with the times given out; the lemmas behind it say what taking, posting and
  reordering messages does to that set. `BuzzerInv` (a reset handler waits only while
  messages are queued, a press under way has a time) and `ResetsInv` (a reset that is
  handled was published, an answer is only taken while one is waited for) are the rest.
* `RoundAgrees`: `CleanRoundAgrees` speaks of a buzzer at rest. `RoundInv` says of every
  clean buzzer where it is, whatever the others do: untouched before the reset reaches
  it (`BeforeReset`), told to open but not there yet (`Opening`), or playing
  (`Playing`), and then it is locked or about to lock exactly if a press of it is in
  the registry, on the network or with the event loop (`Reported`). A first request
  makes `Reported` true in the step in which main falls asleep; request, acknowledged
  press and entry follow one another without a gap, and the second request of a press
  finds it reported already. A lost request or reset ends the buzzer's cleanness; a
  lost or misplaced answer does not. `OneReset` keeps a clean buzzer from being opened
  twice in a round, and therefore its reset handler from waiting.

`GamePage` assumes of the hours and bounds that they are numbers and that `None` is
none.

* `PageTypeCorrect`: `TypeOK` with `CountsInv` (presses on their way and listings owed
  are paid for by times that were read) and `ListingsInv` (a thread holds a copy only
  for a listing it owes). Delays are within `Spans` because both times are.
* `PageIsTrue`: `PageShowsRound` from `PageInv`. `LastList`: the last list that is
  queued, or the one being mapped, is the list sent last. `LastMapped`, when nothing is
  queued and no reset is under way: the list being mapped has its own smallest time in
  `smallest_timestamp`, since no reset can clear it any more, and if none is, the page
  is what the mapping makes of the list sent last, if that parses (`Mapped`). Nothing
  can be said of the lists before it: a reset may have cleared the time they are
  mapped with. A reset under way owes a listing, so whatever it damaged is replaced.

Each of these inductive invariants was first checked with TLC on small instances.

Model-checked only:

* the liveness properties (`SleepersWake`, `SilentServerUnpairs`, `PressShown`,
  `DeadRemoved`, `RoundOpens`): fairness and ENABLED are beyond the prover;
* `ColoursTaken` of the lab server: `atoi` and the text of a colour are folds over
  characters, and what a fold computes for every text needs induction over data,
  which the installed provers cannot do. `lab_node` takes every length of a number
  and both sides of each boundary instead.

## Plan

The plan is done: every component with state of the game is modelled, and every
invariant and refinement but `ColoursTaken` is a theorem. With a prover for
liveness, `DeadRemoved` and `SilentServerUnpairs` would be the next two to prove:
they are what the heartbeats are for.

## Not modelled

* `lab3/rd_registration.c`: looks the border router up once and triggers a library
  registration periodically whatever its outcome; the state is the library's.
* Of the lab server, the registration of resources (once, before anything runs; with
  more than `MAX_RESOURCES` devices it would report more resources than it has), the
  formatting of readings, and notifications (`notify_observers` sends nothing). Of
  the lab client, `_get_tl`, the request counter and payloads.
* Of the frontend, the question counter, dialogues and file upload: state of one
  component each, changed by one click at a time. The ranking is in `GamePage`; the
  commands are inputs of `GameshowServer`.
* `pycoapapp.py`: observes endpoints and broadcasts a colour, not part of the game.
* The frontend's shell and the zeromq test scripts: no state of the game.
* Of the modelled parts: payload text, real time, radio and CoAP below a request's
  outcome, logging. zeromq is taken to deliver in order, one command at a time.
