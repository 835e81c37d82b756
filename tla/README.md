# TLA+ specification of Demi

Demi is a hosted coding-agent product (`docs/overview.md`). A backend owns the
conversations and runs the agents; runners on users' devices, or in a user's
Cloud sandbox, execute file, process and shell operations for it. This directory
holds TLA+ modules translated from the Rust source, the TLC configurations that
check them on small instances, and TLAPS proofs for every instance. Paths below
are relative to the repository.

## The system and its components

| Component | State | Operations | What makes it correct | Here |
| --- | --- | --- | --- | --- |
| Link session (`runner-protocol/src/wire/session.rs`) | numbers written, confirmed, received, read; kept messages; resend cursor; what is owed | stamp, handled, read, resume, next_resend, ack_frame | each message handled once, in order, over any number of connections | `Session` |
| Runner end of the link (`runner/src/connection/`, `runner/src/registration.rs`) | the session, its number, the backlog, ended sessions; one connection's phase and inbox | reconnect, hello, welcome, read, route, write, acknowledge, close | nothing read and dropped is lost; calls hear first that their session ended | `Link` |
| Backend end of the link (`backend-http/src/runner_socket.rs`, `backend-user-shard/src/shard/adoption.rs`, `runner-client/src/session.rs`, `link.rs`) | the device's session, the held link, hellos that wait | adopt, give way, refuse, read, write, end | one link of a device at a time; a session resumes or ends whole | `Link` |
| Activity gate (`shared-gates/src/activity.rs`) | semaphore, published counts | enter, try_enter, reserve, try_reserve, drops | a reservation is alone and nobody starves | `ActivityGate` |
| Turns by key (`shared-gates/src/serial.rs`) | a semaphore for each key in use | acquire, try_acquire, drop | one holder a key; keys are independent | `KeyedSerialGate` |
| Idle watch (`backend-idle-watch`, `backend-user-shard/src/lifecycle/conversations.rs`) | idle_since, deadline, the idle-released | check, reserve, retire, track | retires only what was idle a whole window; what is used is on the clock | `IdleWatch` |
| Rate window (`shared-gates/src/rate.rs`) | attempts by key | attempt | at most so many a window | planned |
| Cloud lifecycle (`backend-cloud/src/machine.rs`, `reset.rs`, `maintenance.rs`, `uses.rs`) | the machine's phase and transition, its gate, the running reset, stored resets | admit, boot, recover, save, stop when idle or at the cap, reset, a death, close, recovery at a start | one transition at a time; nothing stopped in use; a ready reset was announced; every transition ends unless the manager is silent | `Cloud` |
| Machine manager (`machine-manager`) | a device's committed and working images, its Simple tree, stages, the worker and its guest | wake, hibernate, checkpoint, reset, move between runtimes, reconcile, recover, hand over | a device runs on what it last held, alone; no home is lost; a reset happens once | `MachineStorage` |
| Device access (`backend-device-access`) | file gates, waits for a device | admit, transition, transfer, release | no operation across a transition | partly, in `IdleWatch` |
| Pipes, lanes, relay (`runner-client/src/pipes.rs`, `relay.rs`, `shared-lanes`) | byte positions, credits, lanes | open, resume, write, close | bytes once and in order; control before bulk | planned |
| Device jobs (`runner-client/src/device_jobs.rs`, `runner/src/connection/kept.rs`) | jobs that outlast connections | start, attach, settle | a job's result is reported once | planned |
| Agent session, server, store (`agent-*`) | turns, queue of input, transcript, tree | send, cancel, retry, compact, report | every sent message answered or given back; a cancelled turn stops | planned |
| Page synchronization (`backend-page-sync`), permissions (`backend-permissions`) | revisions, questions | mark, publish, ask, answer | a page ends at the backend's state; a call waits for its answer | planned |
| Supervision and updates (`server/src/supervise.rs`, `moving.rs`, `journal.rs`) | installed releases, a journal | prepare, switch, roll back | a crash between steps is recovered | planned |
| Database, blobs, accounts, providers, runner execution, plugins, live view, web application | | | | not modelled: SQL and file I/O, vendor formats, system calls, media, presentation |

**How they interact.** A runner connects out to the backend and greets; the
user's shard adopts the connection and drives the device's link. Device
operations of conversations enter the conversation's file gate (an activity
gate), which starts the conversation's idle clock, and go over the link as calls.
The idle clock reserves the same gate to release the conversation's hold on its
devices; transitions between devices reserve it too. Turns by key serialize, for
example, installations of one command package.

A user's Cloud is one more device, whose runner lives in a sandbox. The shard
(`Cloud`) decides when it boots, is saved and is reset, and asks the machine
manager, another process, to do it; the manager (`MachineStorage`) owns the disks
and outlives or is outlived by the backend, the sandbox by both. What one side
knows of the other arrives as answers that may be lost, as reports of deaths that
arrive late, and as records on disk that a restarted process reads. The two
modules share no variable: in `Cloud` the manager is its hibernate and reset, with
a failure before or after the effect or no answer at all, and in `MachineStorage` the backend is a
sequence of requests, repeated ones included.

**What is hard.** A connection may drop at any byte, be replaced while the backend
still serves the one before, and be greeted for by a hello that waits for
another's teardown. Reading, routing and writing at the runner are separate
tasks. Timers outlive the connection they were set on. Gates are shared by tasks
of several threads, whose futures may be dropped while they wait. Decisions are
read before an `await` and used after it. Either process of the Cloud may end
between any two of its steps on disk or in the database. `PROJECT.json` lists each hazard at its
line with the properties that guard against it.

## Modules

* `Session` – one end's numbers, one operator per method, from the old session to
  the new one. `owed_since`, an instant, is the Boolean `owed`; the counters are
  `u64` and modelled as naturals, since 2^64 messages are out of reach. A message
  is a record; `Nothing` is the body of a frame that only says a scoped message's
  number.
* `Link` – two sessions, the connections that carry them and the adoption of
  hellos. The runner's `phase` is the writer's phase (`greeting`, `waiting`,
  `open`) with the two moments between (`answered`: the reader read the welcome
  and the writer did not see it; `resending`: the loop that writes again). `inbox`
  is the channel from the reader to the owner, so reading and routing are two
  steps; at the backend they are one, since nothing awaits between. `up` and
  `down` are the frames in flight, which TCP keeps in order and loses only with
  the connection. `hist` and `log` are history variables: what was written and
  what was handled, by session.
* `LinkInvariant` – the inductive invariant `IInv` of the link, in named parts:
  what every frame, arrival, hello and welcome under way may claim of its session.
* `Delivery` – what the link promises its ends, with no connection in it: two
  queues and a session that ends whole. `LinkRefinement` – the mapping: while both
  ends are in one session, a queue is what its writer keeps beyond the other end's
  count, wherever those messages are. A step of Delivery handles the front of a
  queue, or nothing in the turn of a message that was to end with its connection.
* `MCLink` – bounds for TLC. `LinkProofs` – lemmas on the session's operators and
  the link's type correctness. `LinkWrites` and `LinkSteps` – every step keeps
  `IInv`, one lemma per action. `LinkSafety` – the link's safety theorems and the
  refinement.
* `ActivityGate` – the gate; tokio's first-in, first-out
  semaphore is modelled by who stands ahead of whom. Taking a permit and
  publishing it are two steps, as are publishing the end and releasing.
* `IdleWatch` – extends `ActivityGate` with the watch's loop, the conversation's
  policy, admissions, transitions and watched streams, and a clock of ticks.
  `IdleWatchProofs` – the theorems of the gate alone and of the clock over it.
* `KeyedSerialGate`, `KeyedSerialGateProofs` – the map of semaphores with the
  handles on each (`Arc` counts).
* `Cloud` – one user's Cloud in its shard. The shard is one thread, so a step runs
  from one await to the next. A transition's task is in one of two slots, so that a
  second one could be seen; those that wait for it are in `on`. The reset is a
  sequence of steps, `reset`, and shares the boot's steps with the transitions.
  Abstractions: the gate keeps no line, so whoever may enter next is anyone, and
  who stands in line is idle (more behaviours than the code's, for the safety
  properties); one idle or cap stop at a time, as the code has one watch and one
  maintenance loop; the crash-loop count and the capacity of other users are a
  choice to refuse. A request for a reset is two steps, what it reads before it
  awaits the manager (`RequestReset`) and the phase change after its last check
  (`ResetCloud`): `requested` is what was read as not ready and may be out of date.
  `unanswered` holds the tasks whose call to the manager gets no answer; they do
  nothing until the backend ends.
  `CloudProofs` – its safety theorems.
* `MachineStorage` – one device's storage in the manager. The worker and recovery
  each run a queue of programs, and a program is the list of steps an operation
  takes on disk (`Script`, `Move`, `Recovery`), one change a step, so that a crash
  falls between any two. A volume's content is the number of the last write to it;
  `live` and `moments` are ghosts: what the volumes last held and every pair they
  held at one moment. A failed step ends its program, and the next one starts. `IO` lists
  the steps that may fail, and `Failing` those that do. Looking up the base (`reset`)
  is one, and a worker that looks where the device should be (`Settle`) may find
  that the chosen runtime cannot run. `MachineStorageProofs` – the
  theorems of its type correctness and of every property the `store` run checks.

`PROJECT.json` maps every definition that models code to its lines. Operators
named as mutants (`ReleasedUnderflows`, `TryTakeByState`, ...) are plausible bugs
of the definition that follows them; no specification uses them. Each is put in
place of its definition to show that the property it belongs to would notice.

## Runs

| Run | Bounds | Checks |
| --- | --- | --- |
| `link` | 1 runner and 2 backend messages a session, 3 connections, 2 sessions, 1 fault | `TypeOK`, `ExactlyOnce`, `ScopedOnItsConnection`, `BacklogOfSession`, `WelcomeAccepted`, `NothingLost`, `EndedFirst`, `IInv`, `InStep`, and that the link implements Delivery (`Delivers`) |
| `link_live` | 1 message each way, 4 connections, 3 sessions, 1 fault, fair | `EventuallyConfirmed` |
| `idle` | 2 users, window 2, poll 1, 5 ticks, 2 uses, 1 failure, fair | `IdleTypeOK`, `ReservedAlone`, `ReservedSeenAlone`, `ReleasedAlone`, `UsedIsTracked`, `RetiresOnlyIdle`, `EventuallyReleased`, `EventuallyAdmitted` |
| `serial` | 3 callers, 2 keys, 3 semaphores, fair | `OneHolder`, `EventuallyHolds` |
| `cloud` | 1 client, 1 reset operation, 1 fault, fair | `TypeOK`, `TransitionShown`, `StopsUnused`, `ReadyTold`, `Settles` |
| `store` | 2 writes, 1 reset, crashes anywhere; every step may fail but `clear`, `dropCurrent` and the three removals that end a move; no exit is handled during a reconcile | `TypeOK`, `RunsLatest`, `OneWriter`, `HomeKept`, `Paired`, `ResetOnce`, `Undisturbed` |
| `link_early_ack`, `idle_stream`, `store_working`, `store_reset`, `store_reconcile`, `cloud_recovery` | the smallest that show it | the disagreements below |

**Why the bounds are enough for the cases meant.** Three connections allow a first
session, a drop or a replacement of a connection the backend still serves, and a
resumption; two messages of one end make a prefix that arrived and a suffix that
did not, so a confirmation can pass the resend cursor, and the ends' numbers only
meet in acknowledgements, so it is enough that one end has two. The theorems below
hold for every number of messages, connections, sessions and faults. Three callers are a holder, a
waiter and one that comes or gives up. A window of two polls lets demand come and
go between the deadline and the second reading.

In `Cloud`, `MaxFaults` bounds the reported deaths, the ends of the backend and
the calls that are never answered; a runner that is lost and a sandbox that stops
unreported are not bounded, and neither is the end of a backend that waits for an
answer. One client is enough for needs that meet, because the boot it began goes on
when it is dropped: it asks again and finds its own boot, save or recovery under
way, or uses the machine while the stops, the reset and the restarted backend's
recovery work. The theorems hold for every set of clients. Two clients and two
faults, with the clients taken by symmetry, were checked for the first three of the
run's invariants (2.9 million states), and two clients with one fault for all of its
properties (0.9 million states).
In `MachineStorage` one write makes the
volumes differ from the committed pair and a second one makes a pair of two
moments; one reset is asked for any number of times. `Failing` names the steps
whose I/O may fail. `store` leaves out the three removals `dropGenerations`,
`dropRecord` and `dropTree`, because each alone violates `RunsLatest` (see below),
and `clear` and `dropCurrent` for the size of the run: with these two added it
still passes, with 6.0 million states. `Overlap` says whether the exit of a guest is handled while a
reconcile runs: it is off in `store`, because `store_reconcile` shows what it
breaks and every property about the disk falls with it.

`CHECK_DEADLOCK FALSE` is set where the bounded model comes to rest: a link whose
connections and messages are spent, a clock at its last tick. The others are
checked for deadlock.

**Fairness.** Every task that can go on is polled (tokio wakes it for its socket,
timer, queue or permit), so reads, writes, routing, reconnecting and the watch's
steps are weakly fair. A hello waits for the device to settle, which others may
unsettle in between, so its adoption is strongly fair for each connection. Work
admitted by a gate is taken to end. New traffic, new calls and faults are never
forced. A run into a bound would break a liveness property, not hide its
violation; the bounds on connections and sessions exceed what the faults can use
up. In `Cloud` the transition's task and the reset's are weakly fair, and nothing
else: `Settles` must hold for clients that never let go, a sandbox that never
starts and a runner that never connects. Their waits have limits: the runner's
connection, the operations that hold the machine and the conversations that hold
it each time out, which may happen at any moment. The wait for the manager has
none: `backend-cloud/src/client.rs:223` awaits the answer without a timeout, and an
unreadable reply is dropped and leaves its call pending (`client.rs:380`) until the
connection is lost, which fails the call (`client.rs:468`). So no answer is assumed.
`Unanswered` is a step that any call to the manager may take instead of ending,
with its effect or without; the task is then out of the fair action, and `Settles`
excepts the runs with such a call: the Cloud does stay booting, saving or resetting
in them, and every admission behind it. The answers of the backend's own database,
in its process, are assumed. `MachineStorage` states no fairness and is
checked for safety only. In `EventuallyReleased` a window that ends after the model's last tick is
excepted.

## What the source and its documents disagree about

* `OnlyHelloBeforeAnswer` – the acknowledgement owed since an earlier connection
  goes to the new one before its hello (`runner/src/connection/transport.rs:314`),
  and the backend closes that connection. The next attempt owes nothing, so it
  costs one retry.
* `WatchedIsTracked` – a stream watched again while the watch retires is left
  without one (`backend-user-shard/src/lifecycle/conversations.rs:110`).
* `WorkingUsable` – a manager that ends while a saved working pair is removed
  leaves a directory without its manifest, which nothing removes and over which no
  later wake can stage (`machine-manager/src/storage/working.rs:101`).
* `SystemKept` – one that ends between the two renames of a Simple Isolation reset
  leaves both systems under names that recovery removes
  (`machine-manager/src/runtime/simple.rs:982`).
* `HomeKept`, in `store_reconcile` – a guest's exit is handled outside the
  admission gate; when the device moves to the other isolation beside a reconcile,
  the reconcile detaches what the move copies from
  (`machine-manager/src/recovery.rs:70`).
* `RebuiltUnused` – a restarted backend serves before its recovery ran: the machine
  is admitted and booted, and the unfinished reset then replaces its system
  (`backend-cloud/src/reset.rs:298`).

Known and without a run, first of all a move whose removal of the old storage fails
after the new one is in place (`machine-manager/src/manager/device.rs:256`): the log
says that the Cloud "stays where it was", and the worker does boot the old runtime,
although the newer storage is the moved one. On gVisor `ImageStore::remove` drops
`current.json` before the generations, so when those fail the next wake makes an
empty first generation and boots it; it is newer than the tree, which the next
worker's settle drops, with the home. `runtime/moves.rs:1` says that a move "keeps
everything: its home, and its system with what its user installed". With
`Failing = {"dropGenerations"}`, one write and no reset, TLC finds `RunsLatest` and
`HomeKept` violated; with `dropRecord` or `dropTree`, the same removal on Simple
Isolation, `RunsLatest`, and with `dropRecord` also `OneWriter`: the worker boots
the tree that is now the older one, the manager ends before it wrote
`process.json`, and the next worker drops the tree and boots the images beside the
proot no record names. Then: a hello of a connection already lost can be adopted after
a later one and ends the session both ends hold
(`backend-user-shard/src/shard/adoption.rs:190`); a dropped wait can leave a key's
entry in the map (`shared-gates/src/serial.rs:82`), and exclusion is not affected; a
reset that fails before it has the gate, at its first record
(`backend-cloud/src/reset.rs:194`) or because the operations did not let go
(`reset.rs:208`), holds no reservation, and `run_reset` saves and stops the machine
all the same (`reset.rs:163`), beside the transition it did not join and the clients
that use it. The model has this path (`ReserveGate` and `Stopping` failing, then
`Abort`); it is why `StopsUnused` speaks of a reset's steps from its reservation on
and `TransitionShown` of a reset that has it. A machine that `take_over_cloud` found
no capacity for is saved and stopped although it may have been admitted meanwhile
(`machine.rs:923`, `Evict`); a death routed late turns off a machine that has booted
again (`machine.rs:779`); a ready reset asked for by a request that read it earlier
runs again (`reset.rs:73`).

Two more of a reset's records. The conversations are told in a step of its own after
the manager's disk step (`reset.rs:224`); when that fails, the reset is recorded as
failed, no recovery announces it, and the next admission works on a fresh system no
agent was told of, although `reset.rs:33` says that "each agent node sees the reset in
its next persisted context". `ReadyTold` holds: what is recorded as ready was
announced. With no fault at all, TLC finds a client that uses a machine whose
`marker` is not in `told`. And recovery redoes every unfinished reset in order while the manager
knows the last id only: one reset is cut by a crash, a second one is run by the
restarted backend before its recovery reads the records, the first is redone, and
then the second, announced already, replaces the system again, although
`reset.rs:273` calls the step "idempotent by its id". With two operations and one
fault, TLC finds a step that sets `marker` to a reset in `told`.

## Proofs

`tlapm` checks these theorems and their lemmas. Each holds for every value of the
constants that satisfies the named assumptions. None assumes fairness or a
schedule; six of the manager's storage assume in addition that some steps are never
taken, as an action formula beside `Spec` (`Removes`, `Completes`), which their
statements show.

The link, from `LinkBounds` (the bounds are numbers):

* `TypeCorrect` (`LinkProofs`) – `Spec => []TypeOK`. It is inductive as it stands.
  The lemmas on the session (`ReleasedFacts`, `ResumedFacts`, `AfterReadFacts`,
  ...) say what each operation does to a typed session; they carry the content,
  since a release subtracts and takes a suffix, which is typed only for a number
  the session accepts.
* `Invariance` (`LinkSafety`) – `Spec => []IInv`. None of the link's promises is
  inductive alone: `ExactlyOnce` speaks of what was handled, and whether the next
  message handled is the right one depends on what the frame that carries it, the
  numbers of the two sessions and the arrivals not yet routed say. `IInv` ties
  each of these to the histories of one session: `Ends` (a session's kept messages
  are the unconfirmed ones of what its end wrote, and its count is what it
  handled), `Wires` and `Inboxes` (a frame or an arrival stands for the message
  its number says, on the connection it may run on), `Hellos` and `Welcomes` (what
  a greeting under way counts, and that a welcome names the runner's session or
  one it never had), `Connections` and `Numbers` (a hello's connection is the
  runner's or one it lost, a drawn number is new) and `Logs`. The argument of each
  step: histories only grow (`Grows`), and what a frame or an arrival claims stays
  true of a longer history (`CarriedGrows`), so a step needs a proof only for what
  it adds.
* `EachOnceInOrder` (`ExactlyOnce`), `ScopedStays` (`ScopedOnItsConnection`),
  `KeptUntilHandled` (`NothingLost`) and `AnswersAccepted` (`WelcomeAccepted`)
  follow from `IInv` alone.
* `BacklogEnds` (`BacklogOfSession`) adds that what waits in an end's backlog was
  put there in the session the end is in (`Born`); `EndHeardFirst` (`EndedFirst`)
  that while calls have not heard of their session's end, the welcome that tells
  them is the first arrival not routed (`EndWaits`), which needs of `IInv` that a
  connection starts with an empty inbox.
* `ConnectionInStep` – `Spec => []InStep`. `IInv` says what a frame stands for and
  not what comes before it, so this needs a second invariant, `Flows`: the frames on
  a wire go from the number its reader expects to the one its writer writes next
  (`Flow`; `Position`), and none confirms less than one before it. A wire behind a
  welcome is read in the session the welcome names (`Downs`); a hello and its welcome
  say what their ends still are at, and nothing goes up between them (`Greetings`).
  The step that could break it is a confirmation read while the loop writes again:
  `release` saturates the cursor, which would skip numbers if a confirmation were of
  more than the connection was written. It is not, because the other end handled no
  more than its place in the flow (`FlowBounds`). TLC checked `Flows` on `link`'s
  instance (1.3 million states) before it was proved.
* `LinkDelivers` – `Spec => Delivers`: the link implements `Delivery`. `IInv` gives
  the queues their shape (`QueueOfSession`): in a session both ends are in, a queue
  is what its writer wrote without as many as the other end handled, which is a
  fact of the histories and not of the wires. So a step that changes neither a
  history nor a session number is a stutter (`QuietRefines`), and the others are
  four: a message numbered (`StampRefines`), one handled (`HandleRefines`; `IInv`
  says that it is the front's), and a session entered or left (`NumberRefines`;
  `Welcomes` says that the runner enters only a session in which it did nothing).

The gate and the idle clock (`IdleWatchProofs`), from the assumptions of
`ActivityGate` and `IdleWatch`:

* `GateExclusion`, `GateShownAlone` – `GateSpec => []ReservedAlone` and
  `GateSpec => []ReservedSeenAlone`. `GateInv` adds that tasks in line are ordered
  (`GateLines`) and that who is inside has its permits (`Permitted`): of two tasks
  inside one is ahead of the other, and a reservation has nobody ahead and bars who
  is behind. `Counted` says that the published counts are the cardinalities of the
  sets of holders, which is what keeps a count from going below zero.
* `IdleTyped` (`IdleTypeOK`), `IdleGateAlone` (both gate properties under the
  clock), `ReleaseIsAlone` (`ReleasedAlone`), `UseIsTracked` (`UsedIsTracked`) and
  the action property `RetirementIsIdle` (`RetiresOnlyIdle`). `IdleInv` adds where
  the clock stands with the gate in each state of the watch (`ClockStage`), that an
  admission that told the clock holds its lease (`TrackedHolds`), and that the last
  use is no later than the published end of demand and a reserving watch has waited
  its window (`WindowPassed`).

Turns by key (`KeyedSerialGateProofs`), from `SemaphoreAssumption`:

* `SerialExclusion`, `SerialIndependence` – `Spec => []OneHolder`,
  `Spec => []OwnKeyOnly`, the second without a run of its own. `SerialInv` adds that a caller's handle is on the
  semaphore its key has now, which no other key has (`Handles`): an entry removed
  under a caller would break it.

The Cloud (`CloudProofs`), from `CloudAssumption` (the names of the tasks that wait
beside the clients, `"stop"` and `"reset"`, are no client's):

* `CloudTyped` (`TypeOK`), `OneTransition` (`TransitionShown`), `StoppedUnused`
  (`StopsUnused`) and `ReadyAnnounced` (`ReadyTold`). `CloudInv` adds where each
  task can be (`Steps`), that whoever waits for a transition waits for the
  registered one, so that its end wakes everybody (`Registered`), who may not start
  one (`Shown`: a stop that found the machine at rest and a reset past its joining
  find none until they are done), that the gate's reservation keeps everyone out and
  is the reset's exactly in its steps on the disks (`Excluded`), and that a reset
  past its announcement was announced, in the shard and in recovery (`Announced`).

The manager's storage (`MachineStorageProofs`), from `StorageAssumption` (the bounds
are numbers, `Failing` is any set of steps and `Overlap` is either value):

* `StorageTyped` (`TypeOK`) – `Spec => []TypeOK`. `TypeOK` speaks of what is on the
  disk; to keep it, `Typed` adds that the queues hold programs of known steps and
  `Queued` in which order they may stand: `After(step)` is the set of steps that may
  follow a step in one program. A program is thereby seen as the set of the steps
  ahead (`Ahead`), and the lemmas `WorkerGoesOn`, `WorkerDone`, `WorkerEnds`,
  `WorkerTurns` and their like for recovery say what each kind of step does to it.
* `StorageOneWriter` – `Spec /\ [][Removes]_vars => []OneWriter`, with any step
  failing or not, as long as none is a failed `dropRecord` (`Removes`, without which
  it is false: see the disagreements). `OneWriter` says
  nothing of the disk, and whether a second guest can start depends on it: on what
  the next worker will find and what recovery can name. `WriterInv` adds what the
  processes may do in each state of the manager (`Phases`), which steps belong to one
  program and on which runtime (`Shapes`), which are still to come while another is
  (`Orders`), where a guest may run (`Running`: a sandbox only with its boot record
  and under its handle, or with recovery's fence ahead; a proot only beside no
  working pair and no newer images), and what is on the disk at each place of a
  program (`Places`). It was checked by TLC with every step but `dropRecord` failing
  and with `Overlap`, where the home may be lost and the writer stays one.

* `StorageUndisturbed` – `Spec /\ [][Removes]_vars => Undisturbed`, with `Overlap` too.
  It needs in addition only that a manager that drained works no more (`Halted`);
  the rest is in `Running`: while a guest runs, no step ahead touches what it uses.
* `StorageRunsLatest` (`RunsLatest`), `StorageHomeKept` (`HomeKept`), `StoragePaired`
  (`Paired`) and the action property `StorageResetOnce` (`ResetOnce`), each for
  `Spec /\ [][Completes]_vars`: the constants are free, any step may fail, and the
  behaviours left out are those with a step that is a failed removal at a move's end
  (`dropGenerations`, `dropRecord`, `dropTree`) or an exit of a guest handled beside a
  reconcile. The code has both, and they are among the disagreements above. The
  theorems say nothing of a device after the first such step; with a removal failing TLC finds
  all four violated (`ResetOnce` because the older storage has the older id), with
  `Overlap` `RunsLatest`, `HomeKept` and `Paired`. `ResetOnce` with `Overlap` held at
  one write and one reset, but its proof shares `LatestInv`, which does not. What these properties say of the
  disk depends on what the processes did and are about to do, so `LatestInv` says at
  every place of a program which copy is the live one. `Stored`: a working pair
  with its manifest is the latest; where there is none, or it is saved and being
  cleared, the committed pair is, or the tree when the device is on Simple Isolation and no newer
  pair was published. `Used`: a guest and the worker are where that copy is. `Found`: what a wake, a checkpoint and a reset read
  at their start still holds when they act on it, and a reset past its work has its
  id in the storage. `Moves`: what a move has copied so far equals what it copies
  from, and the old storage goes only after the new one is in place. `Moments`: the
  committed pair, and a checkpoint's between its capture and its publication, are of
  one moment. Volumes and ids are compared by equality and order alone, so nothing
  depends on the number of writes or resets. `LatestInv` was checked by TLC as an
  invariant of `store`'s instance, with one write and every step but the three
  removals failing, before it was proved.

Proving the manager's storage corrected its model once: the cases of `Script`
overlapped, of which TLC takes the first and TLA+ any; they are disjoint now.

**Only model-checked.** Liveness and fairness, which are out of this prover's
reach; the disagreements.

## Not modelled

* Link: what the messages say, calls over the link, pings and their intervals
  (they are the reasons of `RunnerNotices`, `BackendNotices`, `RunnerLoses`,
  `BackendLoses`), a frame that either end cannot decode, which it refuses by ending
  the connection (a `RunnerLoses` or `BackendLoses` before the frame is read), the update and removal paths, an unpaired runner's claim (its
  welcome is that of a hello without a session), revocation of a device. A runner
  stopped while its hello waits drains its queues and its process ends; a stop in
  the open phases is `OwnerFails` then `RunnerRestarts`.
* Gate: running out of permits.
* Idle watch: deletion and archive, which end the watch with the conversation; a
  retirement that panics; the agent tree's admission gate, which is read and
  reserved together with the file gate and is folded into it. A retirement's end
  and the return of its watch are one step: the watch is woken before an admission
  that the released gate lets in has passed its reads.
* Cloud: the machine that signs in to Claude Code (the same code, without a reset),
  the statuses pages show, the connection to the manager, whose loss fails the calls
  under way as the manager may.
* Machine manager: bases and their import, sizes, quotas and the fallback
  generation, networks, cgroups and namespaces, the socket and its framing. What a
  system call does (mount, rename, sync) is taken as its contract; a directory is
  removed entry by entry, in any order.
* The components listed as planned or not modelled above.

## Plan

Done: the link, the gates and the idle clock; the abstract link and its
refinement, the Cloud's lifecycle and the manager's storage; the theorems above. Next, in this order:

1. `RateWindow`; device jobs and `kept.rs` over the link; resumed pipes, which use
   `Session` a second time.
2. The agent session's turn loop: cancellation, retry, queued input, persistence
   across a restart. Then the tree's reports, permissions and page
   synchronization.
3. Supervision: updates cut between two steps and recovered from the journal.
