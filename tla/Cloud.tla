------------------------------- MODULE Cloud -------------------------------
(***************************************************************************)
(* One user's Cloud in its shard: the phase of the machine, the            *)
(* transitions that change it, the admissions that wake and hold it, its   *)
(* idle stop and lifetime cap, a reset with its records, the deaths the    *)
(* machine manager reports, and the recovery a restarted backend runs      *)
(* while it serves.                                                        *)
(*                                                                         *)
(* A shard runs on one thread: a step goes from one await to the next, and *)
(* an admission may be dropped at any await.  A call to the manager takes  *)
(* effect in one step and may fail before or after it did, or never be     *)
(* answered, as nothing limits the wait for it; a timeout may run out at   *)
(* any time.  MachineStorage models the manager's side, and ActivityGate   *)
(* the gate the admissions and the stops share: here the gate keeps no     *)
(* line, so whoever may enter it next is anyone.                           *)
(***************************************************************************)
EXTENDS Naturals, FiniteSets

CONSTANTS Clients,   \* who asks for the machine
          Ops,       \* the reset operations' ids
          NoOp,      \* no reset
          MaxFaults  \* bound: reported deaths, ends of the backend and calls to
                     \* the manager that are never answered

ASSUME CloudAssumption ==
    /\ NoOp \notin Ops /\ MaxFaults \in Nat
    /\ "stop" \notin Clients /\ "reset" \notin Clients

VARIABLES
    phase,     \* Machine.phase; every phase but "off" holds a capacity permit
    resetting, \* the operation of Phase::Resetting
    trans,     \* Machine.transition: the slot of its task, or "none"
    task,      \* each slot's transition task: what it does and where it is
    client,    \* each client: where its admission is
    on,        \* the transition each waiter joined
    reserved,  \* who holds the gate's reservation: "none", "stop" or "reset"
    stop,      \* the step of the idle stop or the stop at the lifetime cap
    reset,     \* the step of the running reset
    requested, \* the resets a request read as not ready, and may still start
    unanswered,\* whose call to the manager is never answered: slots, "reset"
    recovery,  \* recover_clouds: its step, the resets it redoes, which is the
               \* last, the one it is at, and whether the machine ran
    closed,    \* the shard closes
    up,        \* the sandbox runs
    online,    \* the device has a runner connection
    deaths,    \* deaths reported and not yet routed to the shard
    faults,    \* reported deaths, ends and unanswered calls so far
    db,        \* the stored phase of each reset
    marker,    \* the manager's record of the last reset it published
    told       \* the resets announced to the conversations

machine == <<phase, resetting, trans, task>>
asking == <<client, on>>
gate == <<reserved, stop>>
backend == <<recovery, closed, requested, unanswered>>
sandbox == <<up, online, deaths, faults>>
stored == <<db, marker, told>>
vars == <<machine, asking, gate, reset, backend, sandbox, stored>>

Slots == {"first", "second"}
Joiners == Clients \cup {"stop", "reset"}
NoTask == [does |-> "nothing", at |-> "none"]
BootSteps == {"wake", "connect", "record", "undo"}

\* The steps of a reset that has the machine to itself.
DiskSteps == {"save", "rebuild", "announce"} \cup BootSteps

-----------------------------------------------------------------------------
(* The gate, the phases and the transitions. *)

\* No admission, no operation and no checkpoint holds a lease of the gate.
Unused == \A c \in Clients : client[c] \notin {"ensure", "join", "using"}

\* The idle watch and the maintenance loop end, and with them a stop that is
\* not yet a task of its own, which lets its reservation go.
EndSchedules ==
    IF stop \in {"hold", "wait"}
      THEN /\ stop' = "none"
           /\ reserved' = IF reserved = "stop" THEN "none" ELSE reserved
      ELSE UNCHANGED <<stop, reserved>>

\* The phase becomes p; the schedules belong to the running phase.
To(p) ==
    /\ phase' = p
    /\ IF phase = "running" /\ p # "running" THEN EndSchedules
                                             ELSE UNCHANGED <<stop, reserved>>

Free == CHOOSE s \in Slots : task[s] = NoTask

\* spawn_transition: the task is registered in the step that spawns it.
Spawn(does, step) ==
    /\ task' = [task EXCEPT ![Free] = [does |-> does, at |-> step]]
    /\ trans' = Free

\* The task in slot s ends, the registration with it, and its joiners go on:
\* an admission looks again, or fails as the transition did; a stop looks at
\* the machine, or is done and lets the gate go; a reset takes over.
EndTransition(s, ok) ==
    /\ task' = [task EXCEPT ![s] = NoTask]
    /\ trans' = "none"
    /\ on' = [j \in Joiners |-> IF on[j] = s THEN "none" ELSE on[j]]
    /\ client' = [c \in Clients |-> IF on[c] # s THEN client[c]
                                    ELSE IF ok THEN "ensure" ELSE "idle"]
    /\ IF on["stop"] = s
         THEN IF stop = "join"
                THEN stop' = "halt" /\ UNCHANGED reserved
                ELSE stop' = "none" /\ reserved' = "none"
         ELSE UNCHANGED <<stop, reserved>>
    /\ reset' = IF on["reset"] = s THEN "hold" ELSE reset
    /\ UNCHANGED <<resetting, backend, stored>>

-----------------------------------------------------------------------------
(* A boot, run by a transition or by the reset. *)

At(b, step) == IF b = "reset" THEN reset = step ELSE task[b].at = step
Go(b, step) ==
    IF b = "reset"
      THEN reset' = step /\ UNCHANGED task
      ELSE task' = [task EXCEPT ![b].at = step] /\ UNCHANGED reset

around == <<phase, resetting, trans, asking, gate, backend, stored>>

\* The manager's hibernate (external), which may fail before or after it
\* stopped the sandbox; the runner is let go once it answered.
ManagerHibernate(ok) ==
    /\ up' \in IF ok THEN {FALSE} ELSE {up, FALSE}
    /\ online' = FALSE
    /\ UNCHANGED <<deaths, faults>>

\* A token is minted and the manager starts the machine, unless it runs.
Wake(b) ==
    /\ At(b, "wake")
    /\ \/ Go(b, "connect") /\ up' = TRUE
       \/ Go(b, "undo") /\ up' \in {up, TRUE}
    /\ UNCHANGED <<around, online, deaths, faults>>

\* The runner connects in time, or the shard closes or the time runs out.
Connect(b) ==
    /\ At(b, "connect")
    /\ \/ online /\ ~closed /\ Go(b, "record")
       \/ Go(b, "undo")
    /\ UNCHANGED <<around, sandbox>>

\* finish_boot: a reset that took the machine over meanwhile sets its phase.
FinishBoot(s, ok) ==
    /\ phase' = IF phase # "booting" THEN phase
                ELSE IF ok THEN "running" ELSE "off"
    /\ EndTransition(s, ok)

\* The boot is recorded, which ends it.
RecordBoot(s) ==
    /\ task[s].at = "record"
    /\ \/ FinishBoot(s, TRUE)
       \/ Go(s, "undo") /\ UNCHANGED around
    /\ UNCHANGED sandbox

\* A failed boot saves what the sandbox wrote, best effort.
UndoBoot(s) ==
    /\ task[s].at = "undo"
    /\ FinishBoot(s, FALSE)
    /\ ManagerHibernate(FALSE)

-----------------------------------------------------------------------------
(* The other transitions. *)

\* recover: a sandbox that runs gets the time to reconnect; one that stopped
\* boots again if the machine is still the running one.
Recover(s) ==
    /\ task[s] = [does |-> "recover", at |-> "state"]
    /\ \/ EndTransition(s, FALSE) /\ UNCHANGED phase
       \/ up /\ Go(s, "reconnect") /\ UNCHANGED around
       \/ /\ ~up /\ phase = "running"
          /\ To("booting") /\ Go(s, "wake")
          /\ UNCHANGED <<resetting, trans, asking, backend, stored>>
       \/ ~up /\ phase # "running" /\ EndTransition(s, TRUE) /\ UNCHANGED phase
    /\ UNCHANGED sandbox

Reconnected(s) ==
    /\ task[s].at = "reconnect"
    /\ \/ online /\ EndTransition(s, TRUE)
       \/ EndTransition(s, FALSE)
    /\ UNCHANGED <<phase, sandbox>>

\* save, under a stop's reservation: the machine is off, whether or not the
\* manager saved and stopped it.
Save(s) ==
    /\ task[s].at = "save"
    /\ \E ok \in BOOLEAN : EndTransition(s, ok) /\ ManagerHibernate(ok)
    /\ phase' = IF phase = "saving" THEN "off" ELSE phase

-----------------------------------------------------------------------------
(* Admissions. *)

quiet == <<reset, backend, sandbox, stored>>

\* The head of admit_cloud's loop: a reset is waited for, holding nothing.
Ask(c) ==
    /\ client[c] = "idle"
    /\ ~closed /\ phase = "resetting"
    /\ client' = [client EXCEPT ![c] = "reset"]
    /\ UNCHANGED <<machine, on, gate, quiet>>

\* An admission that asked, now or before the phase became what it is, gets
\* its lease of the gate: in line for it, it holds nothing.
Enter(c) ==
    /\ client[c] = "idle"
    /\ reserved = "none"
    /\ client' = [client EXCEPT ![c] = "ensure"]
    /\ UNCHANGED <<machine, on, gate, quiet>>

\* The client goes to `where`, and a lease it held is let go.
Leave(c, where) ==
    /\ client' = [client EXCEPT ![c] = where]
    /\ on' = [on EXCEPT ![c] = "none"]

\* The client waits for the transition in slot s, its lease held.
Join(c, s) ==
    /\ client' = [client EXCEPT ![c] = "join"]
    /\ on' = [on EXCEPT ![c] = s]

\* ensure_running, for a client that holds a lease: it joins the transition
\* under way, waits for a reset without the lease, boots a stopped machine or
\* recovers one whose runner is gone.
Ensure(c) ==
    /\ client[c] = "ensure"
    /\ IF closed THEN Leave(c, "idle") /\ UNCHANGED <<phase, trans, task>>
       ELSE IF trans # "none"
         THEN Join(c, trans) /\ UNCHANGED <<phase, trans, task>>
       ELSE CASE phase = "resetting" ->
                   Leave(c, "reset") /\ UNCHANGED <<phase, trans, task>>
              [] phase = "running" /\ online ->
                   Leave(c, "using") /\ UNCHANGED <<phase, trans, task>>
              [] phase = "running" /\ ~online ->
                   /\ Spawn("recover", "state") /\ Join(c, Free)
                   /\ UNCHANGED phase
              [] phase \in {"booting", "saving"} ->
                   Leave(c, "idle") /\ UNCHANGED <<phase, trans, task>>
              [] phase = "off" ->
                   \/ /\ phase' = "booting"
                      /\ Spawn("boot", "wake") /\ Join(c, Free)
                   \* A crash loop, or no capacity beside the other users'.
                   \/ Leave(c, "idle") /\ UNCHANGED <<phase, trans, task>>
    /\ UNCHANGED <<resetting, gate, quiet>>

\* The admission is released, or its future dropped at an await.
Release(c) ==
    /\ client[c] # "idle"
    /\ Leave(c, "idle")
    /\ UNCHANGED <<machine, gate, quiet>>

\* Machine::admit and maintain_cloud: one operation of a handle an admission
\* made, or a checkpoint, holds the machine while it runs.
Operate(c) ==
    /\ client[c] = "idle"
    /\ phase = "running" /\ reserved = "none"
    /\ client' = [client EXCEPT ![c] = "using"]
    /\ UNCHANGED <<machine, on, gate, quiet>>

-----------------------------------------------------------------------------
(* The idle stop and the stop at the lifetime cap of a running machine. *)

\* CloudIdle::reserve: the gate now, then the conversations, or nothing.
IdleReserve ==
    /\ phase = "running" /\ ~closed
    /\ stop = "none" /\ reserved = "none" /\ Unused
    /\ reserved' = "stop" /\ stop' = "hold"
    /\ UNCHANGED <<machine, asking, quiet>>

IdleHold ==
    /\ stop = "hold"
    /\ \/ stop' = "hibernate" /\ UNCHANGED reserved
       \/ stop' = "none" /\ reserved' = "none"
    /\ UNCHANGED <<machine, asking, quiet>>

\* maintain_cloud at the lifetime cap: the gate is reserved now, or once the
\* jobs that hold it ended with their runner.  It looked for a transition
\* before it read the conversations, so one may have started since.
CapReached ==
    /\ phase = "running" /\ ~closed
    /\ stop = "none"
    /\ IF reserved = "none" /\ Unused
         THEN stop' = "hibernate" /\ reserved' = "stop" /\ UNCHANGED online
         ELSE stop' = "wait" /\ online' = FALSE /\ UNCHANGED reserved
    /\ UNCHANGED <<machine, asking, reset, backend, up, deaths,
                   faults, stored>>

\* The jobs let go in time, or not; a conversation that is changing puts the
\* stop off.
CapReserve ==
    /\ stop = "wait"
    /\ \/ /\ reserved = "none" /\ Unused
          /\ stop' = "hibernate" /\ reserved' = "stop"
       \/ stop' = "none" /\ UNCHANGED reserved
    /\ UNCHANGED <<machine, asking, quiet>>

\* hibernate_reserved, a task of its own: a transition under way is joined.
JoinForStop ==
    /\ stop = "hibernate" /\ trans # "none"
    /\ stop' = "join"
    /\ on' = [on EXCEPT !["stop"] = trans]
    /\ UNCHANGED <<machine, client, reserved, quiet>>

\* Mutant: the stop does not look for a transition under way.
HaltAtOnce ==
    /\ stop \in {"hibernate", "halt"}
    /\ IF phase = "running"
         THEN /\ phase' = "saving" /\ Spawn("save", "save")
              /\ stop' = "save" /\ on' = [on EXCEPT !["stop"] = Free]
              /\ UNCHANGED reserved
         ELSE /\ stop' = "none" /\ reserved' = "none"
              /\ UNCHANGED <<phase, trans, task, on>>
    /\ UNCHANGED <<resetting, client, quiet>>

\* Then a running machine is saved; one that changed meanwhile is left.
Halt ==
    /\ stop = "halt" \/ (stop = "hibernate" /\ trans = "none")
    /\ IF phase = "running"
         THEN /\ phase' = "saving" /\ Spawn("save", "save")
              /\ stop' = "save" /\ on' = [on EXCEPT !["stop"] = Free]
              /\ UNCHANGED reserved
         ELSE /\ stop' = "none" /\ reserved' = "none"
              /\ UNCHANGED <<phase, trans, task, on>>
    /\ UNCHANGED <<resetting, client, quiet>>

-----------------------------------------------------------------------------
(* A reset. *)

\* reset_cloud reads the reset: one that is ready is answered.  Another asks
\* the manager for its base before it goes on.
RequestReset(o) ==
    /\ ~closed
    /\ db[o] # "ready"
    /\ requested' = requested \cup {o}
    /\ UNCHANGED <<machine, asking, gate, reset, recovery, closed, unanswered,
                   sandbox, stored>>

\* Then a reset that runs is answered, and nothing awaits from that check to
\* the phase.  What was read of the reset is not read again, and any number of
\* requests may have read it.  A machine that is not stopped keeps its permit.
ResetCloud(o) ==
    /\ o \in requested
    /\ ~closed /\ resetting = NoOp
    /\ To("resetting")
    /\ resetting' = o /\ reset' = "stopping"
    /\ UNCHANGED <<trans, task, asking, backend, sandbox, stored>>

running == <<machine, asking, stop, backend>>

\* reset_steps fails: what it holds goes.
FailReset ==
    /\ reset' = "abort"
    /\ reserved' = IF reserved = "reset" THEN "none" ELSE reserved

\* The reset is recorded as under way, and a boot or a save is joined.
Stopping ==
    /\ reset = "stopping"
    /\ \/ /\ db' = [db EXCEPT ![resetting] = "unfinished"]
          /\ reset' = IF trans = "none" THEN "hold" ELSE "join"
          /\ on' = [on EXCEPT !["reset"] = trans]
          /\ UNCHANGED reserved
       \/ FailReset /\ UNCHANGED <<on, db>>
    /\ UNCHANGED <<machine, client, stop, backend, sandbox, marker,
                   told>>

\* The conversations are held and the runner goes, or one does not let go.
HoldUses ==
    /\ reset = "hold"
    /\ \/ reset' = "reserve" /\ online' = FALSE /\ UNCHANGED reserved
       \/ FailReset /\ UNCHANGED online
    /\ UNCHANGED <<running, up, deaths, faults, stored>>

\* Mutant: the reset goes on when the operations did not let go in time.
ReserveGateAnyway ==
    /\ reset = "reserve"
    /\ reserved' = "reset" /\ reset' = "save"
    /\ UNCHANGED <<running, sandbox, stored>>

\* Mutant: the operations are waited for without a limit.
ReserveGateForever ==
    /\ reset = "reserve"
    /\ reserved = "none" /\ Unused
    /\ reserved' = "reset" /\ reset' = "save"
    /\ UNCHANGED <<running, sandbox, stored>>

\* The operations that hold the machine let go in time, or the reset fails.
ReserveGate ==
    /\ reset = "reserve"
    /\ \/ reserved = "none" /\ Unused /\ reserved' = "reset" /\ reset' = "save"
       \/ FailReset
    /\ UNCHANGED <<running, sandbox, stored>>

\* Saving, rebuilding and booting are recorded before they run, and fail when
\* the record does.  The manager saves and stops the sandbox.
SaveForReset ==
    /\ reset = "save"
    /\ \/ reset' = "rebuild" /\ ManagerHibernate(TRUE) /\ UNCHANGED reserved
       \/ FailReset /\ (ManagerHibernate(FALSE) \/ UNCHANGED sandbox)
    /\ UNCHANGED <<running, stored>>

\* The manager's reset (external): it stops the sandbox, and publishes a fresh
\* system unless the operation is the last one it published.
ManagerReset(o) == up' = FALSE /\ marker' = o

Rebuild ==
    /\ reset = "rebuild"
    /\ \/ ManagerReset(resetting) /\ reset' = "announce" /\ UNCHANGED reserved
       \/ FailReset /\ (ManagerReset(resetting) \/ UNCHANGED <<up, marker>>)
    /\ UNCHANGED <<running, online, deaths, faults, db, told>>

\* Mutant: the reset goes on when the announcement fails.
AnnounceBestEffort ==
    /\ reset = "announce"
    /\ told' \in {told, told \cup {resetting}}
    /\ reset' = "wake"
    /\ UNCHANGED <<running, reserved, sandbox, db, marker>>

\* The conversations learn of the reset.
Announce ==
    /\ reset = "announce"
    /\ \/ /\ told' = told \cup {resetting}
          /\ reset' = "wake" /\ UNCHANGED reserved
       \/ FailReset /\ told' \in {told, told \cup {resetting}}
    /\ UNCHANGED <<running, sandbox, db, marker>>

\* The reset's own boot ends, and with it what the reset holds.
ResetBooted ==
    /\ \/ /\ reset = "record"
          /\ \/ reset' = "ready" /\ reserved' = "none"
             \/ reset' = "undo" /\ UNCHANGED reserved
          /\ UNCHANGED sandbox
       \/ reset = "undo" /\ FailReset /\ ManagerHibernate(FALSE)
    /\ UNCHANGED <<running, stored>>

\* A failed reset saves the machine, best effort, and without the gate: a
\* reset that failed before it had the gate does so beside the operations that
\* did not let go and beside the transition it did not join.
Abort ==
    /\ reset = "abort"
    /\ reset' = "failed"
    /\ ManagerHibernate(FALSE)
    /\ UNCHANGED <<running, reserved, stored>>

\* run_reset's end: the outcome is recorded, if it can be, and in the step
\* that shows it the machine runs or is off.  The admissions that waited ask
\* again, or fail as the reset did.
EndReset ==
    /\ reset \in {"ready", "failed"}
    /\ db' \in {db, [db EXCEPT ![resetting] = reset]}
    /\ client' = [c \in Clients |-> IF client[c] = "reset" THEN "idle"
                                                           ELSE client[c]]
    /\ phase' = IF reset = "ready" THEN "running" ELSE "off"
    /\ resetting' = NoOp /\ reset' = "none"
    /\ UNCHANGED <<trans, task, on, gate, backend, sandbox, marker, told>>

-----------------------------------------------------------------------------
(* A call to the manager that is never answered. *)

Fault == faults < MaxFaults /\ faults' = faults + 1

\* The manager works on and on, or its reply was unreadable and is dropped: the
\* call took effect or not, and its task waits for as long as the connection to
\* the manager lasts.
Unanswered(b) ==
    /\ b \notin unanswered /\ Fault
    /\ unanswered' = unanswered \cup {b}
    /\ \/ At(b, "wake") /\ up' \in {up, TRUE} /\ UNCHANGED marker
       \/ At(b, "undo") /\ up' \in {up, FALSE} /\ UNCHANGED marker
       \/ At(b, "save") /\ up' \in {up, FALSE} /\ UNCHANGED marker
       \/ b \in Slots /\ At(b, "state") /\ UNCHANGED <<up, marker>>
       \/ b = "reset" /\ reset = "abort" /\ up' \in {up, FALSE} /\ UNCHANGED marker
       \/ /\ b = "reset" /\ reset = "rebuild"
          /\ ManagerReset(resetting) \/ UNCHANGED <<up, marker>>
    /\ UNCHANGED <<machine, asking, gate, reset, recovery, closed, requested,
                   online, deaths, db, told>>

-----------------------------------------------------------------------------
(* The sandbox and its runner. *)

apart == <<resetting, trans, task, asking, reset, backend, stored>>

\* The sandbox exits by itself, and the manager reports it.
Exits ==
    /\ up /\ Fault
    /\ up' = FALSE /\ deaths' = deaths + 1
    /\ UNCHANGED <<apart, phase, reserved, stop, online>>

\* A manager that stops and starts again says nothing of it.
StopsSilently ==
    /\ up
    /\ up' = FALSE
    /\ UNCHANGED <<apart, phase, reserved, stop, online, deaths, faults>>

RunnerConnects ==
    /\ up /\ ~online
    /\ online' = TRUE
    /\ UNCHANGED <<apart, phase, reserved, stop, up, deaths, faults>>

RunnerLost ==
    /\ online
    /\ online' = FALSE
    /\ UNCHANGED <<apart, phase, reserved, stop, up, deaths, faults>>

\* Mutant: a late report ends whatever phase the machine is in.
CloudDiedAnyPhase ==
    /\ deaths > 0
    /\ deaths' = deaths - 1
    /\ To("off") /\ online' = FALSE
    /\ UNCHANGED <<apart, up, faults>>

\* cloud_died, whenever the report is routed: a running machine is off.  A
\* death while the backend boots, saves or resets it changes no phase.
CloudDied ==
    /\ deaths > 0
    /\ deaths' = deaths - 1
    /\ IF phase = "running" THEN To("off") /\ online' = FALSE
                            ELSE UNCHANGED <<phase, stop, reserved, online>>
    /\ UNCHANGED <<apart, up, faults>>

-----------------------------------------------------------------------------
(* The backend's start and end. *)

Recovery(at, redo, op, found) ==
    [at |-> at, redo |-> redo, last |-> NoOp, op |-> op, found |-> found]
Over == Recovery("over", {}, NoOp, FALSE)

\* A backend starts: nothing of the shard is left, and recovery runs in the
\* background once it serves.
Starts ==
    /\ phase' = "off" /\ resetting' = NoOp
    /\ trans' = "none" /\ task' = [s \in Slots |-> NoTask]
    /\ client' = [c \in Clients |-> "idle"]
    /\ on' = [j \in Joiners |-> "none"]
    /\ reserved' = "none" /\ stop' = "none"
    /\ reset' = "none"
    /\ recovery' = Recovery("reconcile", {}, NoOp, FALSE)
    /\ closed' = FALSE /\ requested' = {} /\ unanswered' = {}
    /\ online' = FALSE /\ deaths' = 0
    /\ UNCHANGED <<up, stored>>

\* The end of a backend is a fault of its own, unless a call to the manager is
\* never answered: nothing else ends that wait.
Crash ==
    /\ Starts
    /\ IF unanswered = {} THEN Fault ELSE UNCHANGED faults

\* Nothing is admitted from here on, and the schedules end.
Close ==
    /\ ~closed /\ Fault
    /\ closed' = TRUE
    /\ EndSchedules
    /\ UNCHANGED <<machine, asking, reset, recovery, requested, unanswered, up,
                   online, deaths, stored>>

\* close_cloud waited for the reset and the transition, and the shard for its
\* tasks; a running machine keeps running.
Exit ==
    /\ closed
    /\ reset = "none" /\ stop = "none"
    /\ \A s \in Slots : task[s] = NoTask
    /\ Starts /\ UNCHANGED faults

recovering == <<resetting, trans, task, asking, gate, reset, closed, requested,
                unanswered, online, deaths, faults>>

\* recover_clouds asks for the machines that run, then for the resets left
\* unfinished.  An unreachable manager is asked until it answers; another
\* failure ends the recovery.
Reconcile ==
    /\ recovery.at = "reconcile"
    /\ recovery' \in {Recovery("list", {}, NoOp, up), Over}
    /\ UNCHANGED <<recovering, phase, up, stored>>

List ==
    /\ recovery.at = "list"
    /\ LET unfinished == {o \in Ops : db[o] = "unfinished"}
       IN recovery' = IF unfinished = {}
                        THEN [recovery EXCEPT !.at = "take"]
                        ELSE [recovery EXCEPT !.at = "reset",
                                              !.redo = unfinished,
                                              !.last = resetting]
    /\ UNCHANGED <<recovering, phase, up, stored>>

\* The manager finishes the disk step of an unfinished reset, or fails before
\* or after it.  They come in the order their phases were recorded, so the one
\* that ran when they were read comes last.
RedoReset(o) ==
    /\ recovery.at = "reset" /\ o \in recovery.redo
    /\ o = recovery.last => recovery.redo = {o}
    /\ \/ /\ ManagerReset(o)
          /\ recovery' = [recovery EXCEPT !.at = "announce", !.op = o,
                                          !.redo = @ \ {o}]
       \/ /\ recovery' \in {Over, Recovery("reconcile", {}, NoOp, FALSE)}
          /\ ManagerReset(o) \/ UNCHANGED <<up, marker>>
    /\ UNCHANGED <<recovering, phase, db, told>>

\* It is announced, and then recorded as failed so that a retry boots.
RedoAnnounce ==
    /\ recovery.at = "announce"
    /\ \/ /\ told' = told \cup {recovery.op}
          /\ recovery' = [recovery EXCEPT !.at = "fail"]
       \/ recovery' = Over /\ UNCHANGED told
    /\ UNCHANGED <<recovering, phase, up, db, marker>>

RedoFailed ==
    /\ recovery.at = "fail"
    /\ \/ /\ db' = [db EXCEPT ![recovery.op] = "failed"]
          /\ recovery' = IF recovery.redo = {} THEN Over
                         ELSE [recovery EXCEPT !.at = "reset"]
       \/ recovery' = Over /\ UNCHANGED db
    /\ UNCHANGED <<recovering, phase, up, marker, told>>

\* take_over_cloud: a machine that ran runs on, unless it was admitted
\* meanwhile.
TakeOver ==
    /\ recovery.at = "take"
    /\ IF recovery.found /\ phase = "off"
         THEN \/ phase' = "running" /\ recovery' = Over
              \/ UNCHANGED phase /\ recovery' = [recovery EXCEPT !.at = "evict"]
         ELSE UNCHANGED phase /\ recovery' = Over
    /\ UNCHANGED <<recovering, up, stored>>

\* One that found no capacity is saved and stopped, whatever its phase by then.
Evict ==
    /\ recovery.at = "evict"
    /\ recovery' = Over
    /\ up' \in {up, FALSE}
    /\ UNCHANGED <<recovering, phase, stored>>

-----------------------------------------------------------------------------

Init ==
    /\ phase = "off" /\ resetting = NoOp
    /\ trans = "none" /\ task = [s \in Slots |-> NoTask]
    /\ client = [c \in Clients |-> "idle"]
    /\ on = [j \in Joiners |-> "none"]
    /\ reserved = "none" /\ stop = "none"
    /\ reset = "none"
    /\ recovery = Over /\ closed = FALSE /\ requested = {} /\ unanswered = {}
    /\ up = FALSE /\ online = FALSE /\ deaths = 0 /\ faults = 0
    /\ db = [o \in Ops |-> "none"] /\ marker = NoOp /\ told = {}

\* A task whose call gets no answer does nothing more.
Transition == \E s \in Slots \ unanswered :
                               \/ Wake(s) \/ Connect(s)
                               \/ RecordBoot(s) \/ UndoBoot(s)
                               \/ Recover(s) \/ Reconnected(s) \/ Save(s)
Admission == \E c \in Clients : \/ Ask(c) \/ Enter(c) \/ Ensure(c)
                                \/ Release(c) \/ Operate(c)
Schedule == \/ IdleReserve \/ IdleHold \/ CapReached \/ CapReserve
            \/ JoinForStop \/ Halt
ResetTask ==
    /\ "reset" \notin unanswered
    /\ \/ Stopping \/ HoldUses \/ ReserveGate \/ SaveForReset \/ Rebuild
       \/ Announce \/ Wake("reset") \/ Connect("reset") \/ ResetBooted
       \/ Abort \/ EndReset
Sandbox == Exits \/ StopsSilently \/ RunnerConnects \/ RunnerLost \/ CloudDied
Backend == \/ Crash \/ Close \/ Exit
           \/ Reconcile \/ List \/ (\E o \in Ops : RedoReset(o))
           \/ RedoAnnounce \/ RedoFailed \/ TakeOver \/ Evict

Next == \/ Transition \/ Admission \/ Schedule
        \/ (\E o \in Ops : RequestReset(o) \/ ResetCloud(o)) \/ ResetTask
        \/ (\E b \in Slots \cup {"reset"} : Unanswered(b))
        \/ Sandbox \/ Backend

\* The shard's tasks go on: the transition and the reset.  Their waits for a
\* runner, for operations and for conversations have limits, the database of
\* the backend answers or fails, and a call to the manager ends, or is one that
\* is never answered: nothing is assumed of the manager, whose silence is the
\* step Unanswered.  The clients and the sandbox may stay as they are.
Fairness == WF_vars(Transition) /\ WF_vars(ResetTask)

Spec == Init /\ [][Next]_vars /\ Fairness

-----------------------------------------------------------------------------
(* Properties. *)

\* Type correctness: the phase, the reset's task and the operation it runs for
\* agree, a waiter waits for a transition, and a stop past its first wait holds
\* the reservation.
TypeOK ==
    /\ phase \in {"off", "booting", "running", "saving", "resetting"}
    /\ resetting \in Ops \cup {NoOp}
    /\ (phase = "resetting") = (resetting # NoOp)
    /\ (phase = "resetting") = (reset # "none")
    /\ trans \in Slots \cup {"none"}
    /\ on \in [Joiners -> Slots \cup {"none"}]
    /\ \A c \in Clients : (client[c] = "join") = (on[c] # "none")
    /\ reserved \in {"none", "stop", "reset"}
    /\ (reserved = "stop") = (stop \notin {"none", "wait"})
    /\ deaths \in 0..faults /\ faults \in 0..MaxFaults
    /\ db \in [Ops -> {"none", "unfinished", "ready", "failed"}]
    /\ told \subseteq Ops /\ requested \subseteq Ops
    /\ unanswered \subseteq Slots \cup {"reset"}

\* A machine has at most one transition, the registered one: two first needs,
\* a stop and a late death never start a boot beside a save.  A machine that
\* shows a boot or a save has the task that ends it, and a reset that took the
\* disks over has none beside it (machine.rs spawn_transition, reset.rs
\* reset_steps).
TransitionShown ==
    /\ {s \in Slots : task[s] # NoTask} = {trans} \ {"none"}
    /\ phase = "booting" => trans # "none" /\ task[trans].at \in BootSteps
    /\ phase = "saving" => trans # "none" /\ task[trans].does = "save"
    /\ reserved = "reset" => trans = "none"

\* While the idle stop or the lifetime cap saves and stops the machine, and
\* while a reset saves it, replaces its system and boots it, no admission,
\* operation or checkpoint holds it (hibernate_reserved; reset_steps from its
\* reservation on).  The save of a reset that failed is none of these: run_reset
\* makes it without the gate, also when operations did not let go.
StopsUnused == phase = "saving" \/ reset \in DiskSteps => Unused

\* A reset that is stored as ready was announced to the conversations, through
\* every crash and failed record between the disk step and the end (reset.rs
\* reset_steps, recover_clouds).
ReadyTold == \A o \in Ops : db[o] = "ready" => o \in told

\* A boot, a save and a reset come to an end, whatever the admissions that
\* hold the machine, the sandbox and its runner do, unless a call to the
\* manager is never answered: each other wait has its limit, and each failure
\* a phase it leads to (reset_steps, start_sandbox, finish_boot, run_reset).
Settles == phase \in {"booting", "saving", "resetting"}
             ~> phase \in {"off", "running"} \/ unanswered # {}

\* "Admission stays held until an authoritative state is established"
\* (reset.rs): the manager publishes a fresh system only while nobody uses the
\* machine.  The recovery that runs while a restarted backend serves breaks it.
RebuiltUnused ==
    [][marker' # marker => \A c \in Clients : client[c] # "using"]_vars
=============================================================================
