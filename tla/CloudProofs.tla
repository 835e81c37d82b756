----------------------------- MODULE CloudProofs -----------------------------
(***************************************************************************)
(* The safety of one user's Cloud for every set of clients and of resets   *)
(* and for every number of deaths, ends of the backend and calls to the    *)
(* manager that are never answered.                                        *)
(***************************************************************************)
EXTENDS Cloud, TLAPS

(* The inductive invariant, in named parts. *)

\* The recovery after a start: the reset it works on and those it has left.
RecoveryOK ==
    /\ recovery = [at |-> recovery.at, redo |-> recovery.redo, last |-> recovery.last,
                   op |-> recovery.op, found |-> recovery.found]
    /\ recovery.redo \in SUBSET Ops
    /\ recovery.op \in Ops \cup {NoOp}
    /\ recovery.at \in {"announce", "fail"} => recovery.op \in Ops

\* Where the shard's tasks and the recovery can be.
Steps ==
    /\ task \in [Slots -> [does : {"nothing", "boot", "recover", "save"},
                           at : {"none", "state", "reconnect", "save"} \cup BootSteps]]
    /\ \A s \in Slots : /\ task[s] = NoTask <=> task[s].at = "none"
                        /\ task[s].does = "save" <=> task[s].at = "save"
    /\ client \in [Clients -> {"idle", "reset", "ensure", "join", "using"}]
    /\ stop \in {"none", "hold", "wait", "hibernate", "join", "halt", "save"}
    /\ reset \in {"none", "stopping", "join", "hold", "reserve", "save", "rebuild",
                  "announce", "abort", "ready", "failed"} \cup BootSteps
    /\ RecoveryOK

\* The registered transition is the only task, and whoever waits for one waits
\* for it.
Registered ==
    /\ \A s \in Slots : task[s].at # "none" <=> trans = s
    /\ \A j \in Joiners : on[j] \in {"none", trans}
    /\ on["stop"] # "none" <=> stop \in {"join", "save"}
    /\ on["reset"] # "none" <=> reset = "join"

\* What the phase says of the transition, and who may not start one: a stop
\* that found the machine at rest and a reset past its joining are alone.
Shown ==
    /\ phase = "booting" => trans # "none" /\ task[trans].at \in BootSteps
    /\ phase = "saving" => /\ trans # "none" /\ task[trans].does = "save"
                           /\ on["stop"] = trans /\ stop = "save"
    /\ stop = "halt" => trans = "none"
    /\ reset \in {"hold", "reserve", "save", "rebuild", "announce"} \cup BootSteps
         => trans = "none"

\* The reservation keeps everyone out, and the reset's belongs to its steps.
Excluded ==
    /\ reserved # "none" => Unused
    /\ reserved = "reset" <=> reset \in {"save", "rebuild", "announce"} \cup BootSteps

\* A reset past its announcement was announced.
Announced ==
    /\ reset \in BootSteps \cup {"ready"} => resetting \in told
    /\ ReadyTold

\* The conjunction, which every step of the shard, the manager, the sandbox and
\* a restart keeps.
CloudInv ==
    TypeOK /\ Steps /\ Registered /\ Shown /\ Excluded /\ Announced
-----------------------------------------------------------------------------

USE CloudAssumption

\* A backend that never ran satisfies the invariant.
LEMMA CloudStart == Init => CloudInv
  <1> SUFFICES ASSUME Init PROVE CloudInv
    OBVIOUS
  <1>1. TypeOK
    BY DEF Init, TypeOK, Joiners
  <1>2. Steps
    BY DEF Init, Steps, RecoveryOK, NoTask, Over, Recovery
  <1>3. Registered /\ Shown /\ Excluded /\ Announced
    BY DEF Init, Registered, Shown, Excluded, Announced, ReadyTold, Joiners, Slots,
       BootSteps, NoTask
  <1> QED
    BY <1>1, <1>2, <1>3 DEF CloudInv

\* A free slot is free.
LEMMA FreeSlot ==
  ASSUME trans = "none", Registered, Steps PROVE Free \in Slots /\ task[Free] = NoTask
  BY DEF Registered, Steps, Free, Slots

\* A transition's task goes on to another step of a boot, or of its recovery.
LEMMA GoFacts ==
  ASSUME Steps, Registered, NEW s \in Slots, task[s].at \notin {"none", "save"},
         NEW step \in BootSteps \cup {"reconnect"}, task' = [task EXCEPT ![s].at = step]
  PROVE  /\ task' \in [Slots -> [does : {"nothing", "boot", "recover", "save"},
                           at : {"none", "state", "reconnect", "save"} \cup BootSteps]]
         /\ task'[s].at = step /\ task'[s].does = task[s].does /\ task'[s].does # "save"
         /\ task'[s] # NoTask
         /\ \A r \in Slots : r # s => task'[r] = task[r]
         /\ trans = s
  <1>1. task'[s] = [task[s] EXCEPT !.at = step]
    BY DEF Steps
  <1>2. task'[s].at = step
    BY <1>1 DEF Steps
  <1> QED
    BY <1>1, <1>2 DEF Steps, Registered, BootSteps, NoTask

\* A transition goes on with the next step of a boot, or waits for the runner.
LEMMA TransitionGoesOn ==
  ASSUME CloudInv, NEW s \in Slots, task[s].at \notin {"none", "save"},
         NEW step \in BootSteps \cup {"reconnect"}, task' = [task EXCEPT ![s].at = step],
         phase = "booting" => step \in BootSteps,
         UNCHANGED <<around, reset, deaths, faults>>
  PROVE  CloudInv'
  <1> USE DEF CloudInv, around, asking, gate, backend, stored
  <1>0. /\ task' \in [Slots -> [does : {"nothing", "boot", "recover", "save"},
                           at : {"none", "state", "reconnect", "save"} \cup BootSteps]]
        /\ task'[s].at = step /\ task'[s].does = task[s].does /\ task'[s].does # "save"
        /\ task'[s] # NoTask
        /\ \A r \in Slots : r # s => task'[r] = task[r]
        /\ trans = s
    BY GoFacts
  <1>1. TypeOK'
    BY <1>0 DEF TypeOK, Joiners, Slots
  <1>2. Steps'
    BY <1>0 DEF Steps, RecoveryOK, BootSteps
  <1>3. Registered'
    BY <1>0 DEF Registered, Joiners, Slots, BootSteps
  <1>4. Shown'
    BY <1>0 DEF Shown, BootSteps
  <1>5. Excluded'
    BY <1>0 DEF Excluded, Unused, BootSteps
  <1>6. Announced'
    BY <1>0 DEF Announced, ReadyTold, BootSteps
  <1> QED
    BY <1>1, <1>2, <1>3, <1>4, <1>5, <1>6

\* The transition in slot s ends, whichever way, and its machine runs or is off
\* unless something else took it over.
LEMMA TransitionEnds ==
  ASSUME CloudInv, NEW s \in Slots, task[s].at # "none", NEW ok \in BOOLEAN,
         EndTransition(s, ok), UNCHANGED <<deaths, faults>>,
         \/ phase' = phase /\ phase \notin {"booting", "saving"}
         \/ phase \in {"booting", "saving"} /\ phase' \in {"running", "off"}
  PROVE  CloudInv'
  <1> USE DEF CloudInv, EndTransition, backend, stored
  <1>0. /\ trans = s
        /\ task'[s] = NoTask
        /\ \A r \in Slots : r # s => task'[r] = task[r]
    BY DEF Steps, Registered
  <1>1. TypeOK'
    BY <1>0 DEF TypeOK, Joiners, Slots, Registered, Steps
  <1>2. Steps'
    BY <1>0 DEF Steps, RecoveryOK, BootSteps, NoTask
  <1>3. Registered'
    BY <1>0 DEF Registered, Joiners, Slots, Steps, NoTask
  <1>4. Shown'
    BY <1>0 DEF Shown, BootSteps, Registered, Steps
  <1>5. Excluded'
    BY <1>0 DEF Excluded, Unused, BootSteps, TypeOK, Registered, Joiners, Slots
  <1>6. Announced'
    BY <1>0 DEF Announced, ReadyTold, BootSteps
  <1> QED
    BY <1>1, <1>2, <1>3, <1>4, <1>5, <1>6

\* The manager, the sandbox and its runner, without the shard.
LEMMA SandboxKeeps ==
  ASSUME CloudInv, UNCHANGED <<apart, phase, reserved, stop>>,
         faults' \in 0 .. MaxFaults, deaths' \in 0 .. faults'
  PROVE  CloudInv'
  <1> USE DEF CloudInv, apart, asking, backend, stored
  <1>1. TypeOK'
    BY DEF TypeOK, Joiners, Slots
  <1>2. Steps'
    BY DEF Steps, RecoveryOK, BootSteps
  <1>3. Registered'
    BY DEF Registered, Joiners, Slots
  <1>4. Shown'
    BY DEF Shown, BootSteps
  <1>5. Excluded'
    BY DEF Excluded, Unused, BootSteps
  <1>6. Announced'
    BY DEF Announced, ReadyTold, BootSteps
  <1> QED
    BY <1>1, <1>2, <1>3, <1>4, <1>5, <1>6
\* A recovery that finds the sandbox stopped becomes a boot, and the stop that
\* was being prepared ends with the running phase.
LEMMA RebootKeeps ==
  ASSUME CloudInv, NEW s \in Slots, task[s].at = "state", phase = "running",
         To("booting"), task' = [task EXCEPT ![s].at = "wake"],
         UNCHANGED <<reset, resetting, trans, asking, backend, stored, deaths, faults>>
  PROVE  CloudInv'
  <1> USE DEF CloudInv, asking, backend, stored, To, EndSchedules
  <1>0. /\ task' \in [Slots -> [does : {"nothing", "boot", "recover", "save"},
                           at : {"none", "state", "reconnect", "save"} \cup BootSteps]]
        /\ task'[s].at = "wake" /\ task'[s].does = task[s].does /\ task'[s].does # "save"
        /\ task'[s] # NoTask
        /\ \A r \in Slots : r # s => task'[r] = task[r]
        /\ trans = s
    BY GoFacts DEF BootSteps
  <1>1. TypeOK'
    BY <1>0 DEF TypeOK, Slots
  <1>2. Steps'
    BY <1>0 DEF Steps, RecoveryOK
  <1>3. Registered'
    BY <1>0 DEF Registered, Slots
  <1>4. Shown'
    BY <1>0 DEF Shown, BootSteps, Slots
  <1>5. Excluded'
    BY <1>0 DEF Excluded, Unused, TypeOK
  <1>6. Announced'
    BY <1>0 DEF Announced, ReadyTold
  <1> QED
    BY <1>1, <1>2, <1>3, <1>4, <1>5, <1>6

\* Every step of a transition's task keeps the invariant: a boot's, a
\* recovery's and a save's.
LEMMA TransitionKeeps == ASSUME CloudInv, Transition PROVE CloudInv'
  <1> PICK s \in Slots : \/ Wake(s) \/ Connect(s) \/ RecordBoot(s) \/ UndoBoot(s)
                         \/ Recover(s) \/ Reconnected(s) \/ Save(s)
    BY DEF Transition
  <1>0. s # "reset"
    BY DEF Slots
  <1>1. phase \in {"booting", "saving"} /\ task[s].at # "none" =>
          IF phase = "booting" THEN task[s].at \in BootSteps ELSE task[s].at = "save"
    BY DEF CloudInv, Shown, Registered, Steps
  <1>2. CASE Wake(s)
    <2>1. PICK step \in BootSteps : task' = [task EXCEPT ![s].at = step]
      BY <1>0, <1>2 DEF Wake, At, Go, BootSteps
    <2>2. task[s].at = "wake" /\ UNCHANGED <<around, reset, deaths, faults>>
      BY <1>0, <1>2 DEF Wake, At, Go
    <2> QED
      BY <2>1, <2>2, TransitionGoesOn
  <1>3. CASE Connect(s)
    <2>1. PICK step \in BootSteps : task' = [task EXCEPT ![s].at = step]
      BY <1>0, <1>3 DEF Connect, At, Go, BootSteps
    <2>2. task[s].at = "connect" /\ UNCHANGED <<around, reset, deaths, faults>>
      BY <1>0, <1>3 DEF Connect, At, Go, sandbox
    <2> QED
      BY <2>1, <2>2, TransitionGoesOn
  <1>4. CASE RecordBoot(s)
    <2>0. task[s].at = "record" /\ UNCHANGED <<deaths, faults>>
      BY <1>4 DEF RecordBoot, sandbox
    <2>1. CASE FinishBoot(s, TRUE)
      BY <1>1, <2>0, <2>1, TransitionEnds DEF FinishBoot
    <2>2. CASE Go(s, "undo") /\ UNCHANGED around
      BY <1>0, <2>0, <2>2, TransitionGoesOn DEF Go, BootSteps
    <2> QED
      BY <1>4, <2>1, <2>2 DEF RecordBoot
  <1>5. CASE UndoBoot(s)
    <2>0. task[s].at = "undo" /\ UNCHANGED <<deaths, faults>> /\ FinishBoot(s, FALSE)
      BY <1>5 DEF UndoBoot, ManagerHibernate
    <2> QED
      BY <1>1, <2>0, TransitionEnds DEF FinishBoot
  <1>6. CASE Recover(s)
    <2>0. task[s].at = "state" /\ UNCHANGED <<deaths, faults>>
      BY <1>6 DEF Recover, sandbox
    <2>a. phase \notin {"booting", "saving"}
      BY <1>1, <2>0 DEF BootSteps
    <2>1. ASSUME NEW ok \in BOOLEAN, EndTransition(s, ok), UNCHANGED phase PROVE CloudInv'
      BY <2>0, <2>a, <2>1, TransitionEnds
    <2>2. CASE Go(s, "reconnect") /\ UNCHANGED around
      BY <1>0, <2>0, <2>a, <2>2, TransitionGoesOn DEF Go
    <2>3. CASE /\ phase = "running" /\ To("booting") /\ Go(s, "wake")
               /\ UNCHANGED <<resetting, trans, asking, backend, stored>>
      BY <1>0, <2>0, <2>3, RebootKeeps DEF Go
    <2> QED
      BY <1>6, <2>1, <2>2, <2>3 DEF Recover
  <1>7. CASE Reconnected(s)
    <2>0. task[s].at = "reconnect" /\ UNCHANGED <<phase, deaths, faults>>
      BY <1>7 DEF Reconnected, sandbox
    <2>1. PICK ok \in BOOLEAN : EndTransition(s, ok)
      BY <1>7 DEF Reconnected
    <2> QED
      BY <1>1, <2>0, <2>1, TransitionEnds DEF BootSteps
  <1>8. CASE Save(s)
    <2>1. PICK ok \in BOOLEAN : EndTransition(s, ok) /\ ManagerHibernate(ok)
      BY <1>8 DEF Save
    <2>2. /\ task[s].at = "save" /\ UNCHANGED <<deaths, faults>>
          /\ phase' = IF phase = "saving" THEN "off" ELSE phase
      BY <1>8, <2>1 DEF Save, ManagerHibernate
    <2> QED
      BY <1>1, <2>1, <2>2, TransitionEnds DEF BootSteps
  <1> QED
    BY <1>2, <1>3, <1>4, <1>5, <1>6, <1>7, <1>8

\* An admission asks, enters the gate or operates: only when nobody reserved it.
LEMMA AskKeeps == ASSUME CloudInv, NEW c \in Clients, Ask(c) \/ Enter(c) \/ Operate(c) PROVE CloudInv'
  <1> USE DEF CloudInv, machine, asking, gate, backend, sandbox, stored, quiet, Ask, Enter,
      Operate
  <1>0. \A d \in Clients : (client'[d] = "join") = (client[d] = "join")
    BY DEF Steps
  <1>1. TypeOK'
    BY <1>0 DEF TypeOK
  <1>2. Steps'
    BY DEF Steps, RecoveryOK
  <1>3. Registered'
    BY DEF Registered
  <1>4. Shown'
    BY DEF Shown
  <1>5. Excluded'
    BY DEF Excluded, Unused, TypeOK, Steps
  <1>6. Announced'
    BY DEF Announced, ReadyTold
  <1> QED
    BY <1>1, <1>2, <1>3, <1>4, <1>5, <1>6

\* An admission that holds its lease joins, starts or leaves the transition.
LEMMA EnsureKeeps == ASSUME CloudInv, NEW c \in Clients, Ensure(c) PROVE CloudInv'
  <1> USE DEF CloudInv, quiet, gate, backend, sandbox, stored
  <1>0. /\ client[c] = "ensure" /\ reserved = "none" /\ UNCHANGED <<resetting, gate, quiet>>
    BY DEF Ensure, Excluded, Unused
  <1>1. CASE \/ \E where \in {"idle", "reset", "using"} :
                  Leave(c, where) /\ UNCHANGED <<phase, trans, task>>
             \/ trans # "none" /\ Join(c, trans) /\ UNCHANGED <<phase, trans, task>>
    <2> USE <1>0, <1>1 DEF Leave, Join
    <2>1. TypeOK'
      BY DEF TypeOK, Slots, Joiners, Steps
    <2>2. Steps'
      BY DEF Steps, RecoveryOK
    <2>3. Registered'
      BY DEF Registered, TypeOK, Slots, Joiners
    <2>4. Shown'
      BY DEF Shown, Registered, TypeOK, Joiners
    <2>5. Excluded'
      BY DEF Excluded, Unused, TypeOK
    <2>6. Announced'
      BY DEF Announced, ReadyTold
    <2> QED
      BY <2>1, <2>2, <2>3, <2>4, <2>5, <2>6
  <1>2. CASE /\ trans = "none" /\ Join(c, Free)
             /\ \/ phase = "running" /\ Spawn("recover", "state") /\ UNCHANGED phase
                \/ phase = "off" /\ phase' = "booting" /\ Spawn("boot", "wake")
    <2>0. Free \in Slots /\ task[Free] = NoTask
      BY <1>2, FreeSlot
    <2> DEFINE f == Free
    <2> HIDE DEF f
    <2>a. PICK new \in {[does |-> "recover", at |-> "state"], [does |-> "boot", at |-> "wake"]} :
            /\ task' = [task EXCEPT ![f] = new] /\ trans' = f
            /\ phase' = "booting" => new.at = "wake"
            /\ phase = "off" \/ phase' = phase
            /\ phase \in {"running", "off"} /\ phase' \in {"running", "booting"}
      BY <1>2 DEF Spawn, f
    <2>b. f \in Slots /\ task[f].at = "none"
      BY <2>0 DEF f, NoTask
    <2>c. client' = [client EXCEPT ![c] = "join"] /\ on' = [on EXCEPT ![c] = f]
      BY <1>2 DEF Join, f
    <2>d. /\ task'[f] = new /\ new # NoTask /\ \A r \in Slots : r # f => task'[r] = task[r]
          /\ new.at \in {"state", "wake"} /\ new.does \in {"recover", "boot"}
      BY <2>a, <2>b DEF Steps, NoTask
    <2>e. trans = "none" /\ \A j \in Joiners : on[j] = "none"
      BY <1>2 DEF Registered
    <2> USE <1>0, <2>a, <2>b, <2>c, <2>d, <2>e
    <2>1. TypeOK'
      BY DEF TypeOK, Slots, Joiners, Steps
    <2>2. Steps'
      BY DEF Steps, RecoveryOK, BootSteps
    <2>3. Registered'
      BY DEF Registered, TypeOK, Slots, Joiners
    <2>4. Shown'
      BY DEF Shown, BootSteps, Registered, TypeOK, Slots, Joiners, Excluded, Unused
    <2>5. Excluded'
      BY DEF Excluded, Unused, TypeOK
    <2>6. Announced'
      BY DEF Announced, ReadyTold
    <2> QED
      BY <2>1, <2>2, <2>3, <2>4, <2>5, <2>6
  <1> QED
    BY <1>1, <1>2 DEF Ensure, TypeOK, Slots

\* An admission goes, at whichever await.
LEMMA ReleaseKeeps == ASSUME CloudInv, NEW c \in Clients, Release(c) PROVE CloudInv'
  <1> USE DEF CloudInv, machine, asking, gate, backend, sandbox, stored, quiet, Release,
      Leave
  <1>1. TypeOK'
    BY DEF TypeOK, Slots, Joiners, Steps
  <1>2. Steps'
    BY DEF Steps, RecoveryOK
  <1>3. Registered'
    BY DEF Registered, TypeOK, Slots, Joiners
  <1>4. Shown'
    BY DEF Shown, Registered, TypeOK, Joiners
  <1>5. Excluded'
    BY DEF Excluded, Unused, TypeOK, Steps
  <1>6. Announced'
    BY DEF Announced, ReadyTold
  <1> QED
    BY <1>1, <1>2, <1>3, <1>4, <1>5, <1>6

(* The idle stop and the stop at the lifetime cap. *)

\* A stop reserves the gate, waits for it or gives up.
LEMMA StopKeeps == ASSUME CloudInv, IdleReserve \/ IdleHold \/ CapReached \/ CapReserve PROVE CloudInv'
  <1> USE DEF CloudInv, machine, asking, gate, backend, sandbox, stored, quiet,
      IdleReserve, IdleHold, CapReached, CapReserve
  <1>1. TypeOK'
    BY DEF TypeOK, Steps
  <1>2. Steps'
    BY DEF Steps, RecoveryOK
  <1>3. Registered'
    BY DEF Registered
  <1>4. Shown'
    BY DEF Shown, Registered
  <1>5. Excluded'
    BY DEF Excluded, Unused, TypeOK
  <1>6. Announced'
    BY DEF Announced, ReadyTold
  <1> QED
    BY <1>1, <1>2, <1>3, <1>4, <1>5, <1>6

\* A stop joins the transition under way.
LEMMA JoinForStopKeeps == ASSUME CloudInv, JoinForStop PROVE CloudInv'
  <1> USE DEF CloudInv, machine, asking, gate, backend, sandbox, stored, quiet, JoinForStop
  <1>1. TypeOK'
    BY DEF TypeOK, Steps, Joiners, Slots
  <1>2. Steps'
    BY DEF Steps, RecoveryOK
  <1>3. Registered'
    BY DEF Registered, TypeOK, Joiners, Slots
  <1>4. Shown'
    BY DEF Shown, Registered, TypeOK, Joiners
  <1>5. Excluded'
    BY DEF Excluded, Unused, TypeOK
  <1>6. Announced'
    BY DEF Announced, ReadyTold
  <1> QED
    BY <1>1, <1>2, <1>3, <1>4, <1>5, <1>6

\* A stop that found no transition saves a running machine, whose gate it holds.
LEMMA HaltKeeps == ASSUME CloudInv, Halt PROVE CloudInv'
  <1> USE DEF CloudInv, quiet, backend, sandbox, stored
  <1>0. /\ trans = "none" /\ reserved = "stop" /\ stop \in {"halt", "hibernate"}
        /\ UNCHANGED <<resetting, client, quiet>>
    BY DEF Halt, Shown, TypeOK
  <1>1. CASE /\ phase # "running" /\ stop' = "none" /\ reserved' = "none"
             /\ UNCHANGED <<phase, trans, task, on>>
    <2> USE <1>0, <1>1
    <2>1. TypeOK'
      BY DEF TypeOK
    <2>2. Steps'
      BY DEF Steps, RecoveryOK
    <2>3. Registered'
      BY DEF Registered
    <2>4. Shown'
      BY DEF Shown
    <2>5. Excluded'
      BY DEF Excluded, Unused
    <2>6. Announced'
      BY DEF Announced, ReadyTold
    <2> QED
      BY <2>1, <2>2, <2>3, <2>4, <2>5, <2>6
  <1>2. CASE /\ phase = "running" /\ phase' = "saving" /\ Spawn("save", "save")
             /\ stop' = "save" /\ on' = [on EXCEPT !["stop"] = Free] /\ UNCHANGED reserved
    <2> DEFINE f == Free
               new == [does |-> "save", at |-> "save"]
    <2>0. Free \in Slots /\ task[Free] = NoTask
      BY <1>0, FreeSlot
    <2> HIDE DEF f
    <2>1. f \in Slots /\ task[f].at = "none"
      BY <2>0 DEF f, NoTask
    <2>2. task' = [task EXCEPT ![f] = new] /\ trans' = f /\ on' = [on EXCEPT !["stop"] = f]
      BY <1>2 DEF Spawn, f
    <2>3. /\ task'[f] = new /\ \A r \in Slots : r # f => task'[r] = task[r]
          /\ new # NoTask /\ new.at = "save" /\ new.does = "save"
      BY <2>1, <2>2 DEF Steps, NoTask
    <2>4. \A j \in Joiners : on[j] = "none"
      BY <1>0 DEF Registered
    <2>5. reset = "none"
      BY <1>2 DEF TypeOK
    <2> HIDE DEF new
    <2>6. new \in [does : {"nothing", "boot", "recover", "save"},
                   at : {"none", "state", "reconnect", "save"} \cup BootSteps]
      BY DEF new
    <2> USE <1>0, <1>2, <2>1, <2>2, <2>3, <2>4, <2>5, <2>6
    <2>7. TypeOK'
      BY DEF TypeOK, Steps, Joiners, Slots
    <2>8. Steps'
      BY DEF Steps, RecoveryOK
    <2>9. Registered'
      BY DEF Registered, TypeOK, Joiners, Slots
    <2>10. Shown'
      BY DEF Shown, TypeOK, Joiners, Slots, BootSteps
    <2>11. Excluded'
      BY DEF Excluded, Unused
    <2>12. Announced'
      BY DEF Announced, ReadyTold, BootSteps
    <2> QED
      BY <2>7, <2>8, <2>9, <2>10, <2>11, <2>12
  <1> QED
    BY <1>1, <1>2 DEF Halt

(* A reset. *)

\* A request reads its reset, and nothing else changes.
LEMMA RequestResetKeeps == ASSUME CloudInv, NEW o \in Ops, RequestReset(o) PROVE CloudInv'
  <1> USE DEF CloudInv, machine, asking, gate, sandbox, stored, RequestReset
  <1>1. TypeOK'
    BY DEF TypeOK
  <1>2. Steps'
    BY DEF Steps, RecoveryOK
  <1>3. Registered'
    BY DEF Registered
  <1>4. Shown'
    BY DEF Shown
  <1>5. Excluded'
    BY DEF Excluded, Unused
  <1>6. Announced'
    BY DEF Announced, ReadyTold
  <1> QED
    BY <1>1, <1>2, <1>3, <1>4, <1>5, <1>6

\* A reset begins, and the schedules of a running machine end.
LEMMA ResetCloudKeeps == ASSUME CloudInv, NEW o \in Ops, ResetCloud(o) PROVE CloudInv'
  <1> USE DEF CloudInv, machine, running, asking, gate, backend, sandbox, stored,
      FailReset, ManagerHibernate, ManagerReset, BootSteps, ResetCloud, To, EndSchedules
  <1>1. TypeOK'
    BY DEF TypeOK
  <1>2. Steps'
    BY DEF Steps, RecoveryOK
  <1>3. Registered'
    BY DEF Registered, TypeOK, Joiners
  <1>4. Shown'
    BY DEF Shown, TypeOK
  <1>5. Excluded'
    BY DEF Excluded, Unused, TypeOK
  <1>6. Announced'
    BY DEF Announced, ReadyTold, TypeOK
  <1> QED
    BY <1>1, <1>2, <1>3, <1>4, <1>5, <1>6

\* A reset is recorded and joins the transition under way.
LEMMA StoppingKeeps == ASSUME CloudInv, Stopping PROVE CloudInv'
  <1> USE DEF CloudInv, machine, running, asking, gate, backend, sandbox, stored,
      FailReset, ManagerHibernate, ManagerReset, BootSteps, Stopping
  <1>1. TypeOK'
    BY DEF TypeOK, Steps, Joiners, Slots
  <1>2. Steps'
    BY DEF Steps, RecoveryOK
  <1>3. Registered'
    BY DEF Registered, TypeOK, Joiners, Slots
  <1>4. Shown'
    BY DEF Shown, Registered, TypeOK, Joiners, Slots
  <1>5. Excluded'
    BY DEF Excluded, Unused, TypeOK
  <1>6. Announced'
    BY DEF Announced, ReadyTold, TypeOK
  <1> QED
    BY <1>1, <1>2, <1>3, <1>4, <1>5, <1>6

\* A reset holds the conversations and lets the runner go.
LEMMA HoldUsesKeeps == ASSUME CloudInv, HoldUses PROVE CloudInv'
  <1> USE DEF CloudInv, machine, running, asking, gate, backend, sandbox, stored,
      FailReset, ManagerHibernate, ManagerReset, BootSteps, HoldUses
  <1>1. TypeOK'
    BY DEF TypeOK, Steps, Excluded
  <1>2. Steps'
    BY DEF Steps, RecoveryOK
  <1>3. Registered'
    BY DEF Registered
  <1>4. Shown'
    BY DEF Shown, TypeOK
  <1>5. Excluded'
    BY DEF Excluded, Unused, TypeOK
  <1>6. Announced'
    BY DEF Announced, ReadyTold, TypeOK
  <1> QED
    BY <1>1, <1>2, <1>3, <1>4, <1>5, <1>6

\* A reset has the gate to itself, or fails.
LEMMA ReserveGateKeeps == ASSUME CloudInv, ReserveGate PROVE CloudInv'
  <1> USE DEF CloudInv, machine, running, asking, gate, backend, sandbox, stored,
      FailReset, ManagerHibernate, ManagerReset, BootSteps, ReserveGate
  <1>1. TypeOK'
    BY DEF TypeOK, Steps, Excluded
  <1>2. Steps'
    BY DEF Steps, RecoveryOK
  <1>3. Registered'
    BY DEF Registered
  <1>4. Shown'
    BY DEF Shown, TypeOK
  <1>5. Excluded'
    BY DEF Excluded, Unused, TypeOK
  <1>6. Announced'
    BY DEF Announced, ReadyTold, TypeOK
  <1> QED
    BY <1>1, <1>2, <1>3, <1>4, <1>5, <1>6

\* A reset saves the machine, under the gate.
LEMMA SaveForResetKeeps == ASSUME CloudInv, SaveForReset PROVE CloudInv'
  <1> USE DEF CloudInv, machine, running, asking, gate, backend, sandbox, stored,
      FailReset, ManagerHibernate, ManagerReset, BootSteps, SaveForReset
  <1>0. /\ reset # "none" /\ reset' # "none" /\ reserved = "reset" /\ reserved' \in {"none", "reset"}
        /\ UNCHANGED <<machine, asking, stop, requested, unanswered, deaths, faults, db, told>>
    BY DEF Excluded
  <1>1. TypeOK'
    BY ONLY TypeOK, <1>0 DEF TypeOK, machine, asking
  <1>2. Steps'
    BY DEF Steps, RecoveryOK
  <1>3. Registered'
    BY DEF Registered
  <1>4. Shown'
    BY DEF Shown, TypeOK
  <1>5. Excluded'
    BY DEF Excluded, Unused, TypeOK
  <1>6. Announced'
    BY DEF Announced, ReadyTold, TypeOK
  <1> QED
    BY <1>1, <1>2, <1>3, <1>4, <1>5, <1>6

\* A reset has the system rebuilt, under the gate.
LEMMA RebuildKeeps == ASSUME CloudInv, Rebuild PROVE CloudInv'
  <1> USE DEF CloudInv, machine, running, asking, gate, backend, sandbox, stored,
      FailReset, ManagerHibernate, ManagerReset, BootSteps, Rebuild
  <1>1. TypeOK'
    BY DEF TypeOK, Steps, Excluded
  <1>2. Steps'
    BY DEF Steps, RecoveryOK
  <1>3. Registered'
    BY DEF Registered
  <1>4. Shown'
    BY DEF Shown, TypeOK
  <1>5. Excluded'
    BY DEF Excluded, Unused, TypeOK
  <1>6. Announced'
    BY DEF Announced, ReadyTold, TypeOK
  <1> QED
    BY <1>1, <1>2, <1>3, <1>4, <1>5, <1>6

\* A reset is announced, or fails.
LEMMA AnnounceKeeps == ASSUME CloudInv, Announce PROVE CloudInv'
  <1> USE DEF CloudInv, machine, running, asking, gate, backend, sandbox, stored,
      FailReset, ManagerHibernate, ManagerReset, BootSteps, Announce
  <1>1. TypeOK'
    BY DEF TypeOK, Steps, Excluded
  <1>2. Steps'
    BY DEF Steps, RecoveryOK
  <1>3. Registered'
    BY DEF Registered
  <1>4. Shown'
    BY DEF Shown, TypeOK
  <1>5. Excluded'
    BY DEF Excluded, Unused, TypeOK
  <1>6. Announced'
    BY DEF Announced, ReadyTold, TypeOK
  <1> QED
    BY <1>1, <1>2, <1>3, <1>4, <1>5, <1>6

\* A reset boots the machine.
LEMMA ResetBootsKeeps == ASSUME CloudInv, Wake("reset") \/ Connect("reset") PROVE CloudInv'
  <1>0. /\ reset \in BootSteps /\ reset' \in BootSteps
        /\ UNCHANGED <<around, task, deaths, faults>>
    BY DEF Wake, Connect, At, Go, BootSteps, sandbox
  <1> USE <1>0 DEF CloudInv, around, asking, gate, backend, stored, BootSteps
  <1>1. TypeOK'
    BY DEF TypeOK, Steps, Excluded
  <1>2. Steps'
    BY DEF Steps, RecoveryOK
  <1>3. Registered'
    BY DEF Registered
  <1>4. Shown'
    BY DEF Shown, TypeOK
  <1>5. Excluded'
    BY DEF Excluded, Unused, TypeOK
  <1>6. Announced'
    BY DEF Announced, ReadyTold, TypeOK
  <1> QED
    BY <1>1, <1>2, <1>3, <1>4, <1>5, <1>6

\* A reset's boot ends, and lets the gate go.
LEMMA ResetBootedKeeps == ASSUME CloudInv, ResetBooted PROVE CloudInv'
  <1> USE DEF CloudInv, machine, running, asking, gate, backend, sandbox, stored,
      FailReset, ManagerHibernate, ManagerReset, BootSteps, ResetBooted
  <1>0. /\ reset # "none" /\ reset' # "none" /\ reserved = "reset" /\ reserved' \in {"none", "reset"}
        /\ UNCHANGED <<machine, asking, stop, requested, unanswered, deaths, faults, db, told>>
    BY DEF Excluded
  <1>1. TypeOK'
    BY ONLY TypeOK, <1>0 DEF TypeOK, machine, asking
  <1>2. Steps'
    BY DEF Steps, RecoveryOK
  <1>3. Registered'
    BY DEF Registered
  <1>4. Shown'
    BY DEF Shown, TypeOK
  <1>5. Excluded'
    BY DEF Excluded, Unused, TypeOK
  <1>6. Announced'
    BY DEF Announced, ReadyTold, TypeOK
  <1> QED
    BY <1>1, <1>2, <1>3, <1>4, <1>5, <1>6

\* A failed reset saves the machine.
LEMMA AbortKeeps == ASSUME CloudInv, Abort PROVE CloudInv'
  <1> USE DEF CloudInv, machine, running, asking, gate, backend, sandbox, stored,
      FailReset, ManagerHibernate, ManagerReset, BootSteps, Abort
  <1>1. TypeOK'
    BY DEF TypeOK, Steps, Excluded
  <1>2. Steps'
    BY DEF Steps, RecoveryOK
  <1>3. Registered'
    BY DEF Registered
  <1>4. Shown'
    BY DEF Shown, TypeOK
  <1>5. Excluded'
    BY DEF Excluded, Unused, TypeOK
  <1>6. Announced'
    BY DEF Announced, ReadyTold, TypeOK
  <1> QED
    BY <1>1, <1>2, <1>3, <1>4, <1>5, <1>6

\* A reset ends, and with it the phase.
LEMMA EndResetKeeps == ASSUME CloudInv, EndReset PROVE CloudInv'
  <1> USE DEF CloudInv, machine, running, asking, gate, backend, sandbox, stored,
      FailReset, ManagerHibernate, ManagerReset, BootSteps, EndReset
  <1>1. TypeOK'
    BY DEF TypeOK, Steps, Excluded
  <1>2. Steps'
    BY DEF Steps, RecoveryOK
  <1>3. Registered'
    BY DEF Registered
  <1>4. Shown'
    BY DEF Shown, TypeOK
  <1>5. Excluded'
    BY DEF Excluded, Unused, TypeOK
  <1>6. Announced'
    BY DEF Announced, ReadyTold, TypeOK
  <1> QED
    BY <1>1, <1>2, <1>3, <1>4, <1>5, <1>6

\* A call that is never answered changes the sandbox and the manager's record.
LEMMA UnansweredKeeps ==
  ASSUME CloudInv, NEW b \in Slots \cup {"reset"}, Unanswered(b) PROVE CloudInv'
  <1> USE DEF CloudInv, machine, asking, gate, Unanswered, Fault
  <1>1. TypeOK'
    BY DEF TypeOK
  <1>2. Steps'
    BY DEF Steps, RecoveryOK
  <1>3. Registered'
    BY DEF Registered
  <1>4. Shown'
    BY DEF Shown
  <1>5. Excluded'
    BY DEF Excluded, Unused
  <1>6. Announced'
    BY DEF Announced, ReadyTold
  <1> QED
    BY <1>1, <1>2, <1>3, <1>4, <1>5, <1>6

(* The sandbox and the backend's start and end. *)

\* The sandbox, its runner and a report of its death change no transition.
LEMMA SandboxStepKeeps == ASSUME CloudInv, Sandbox PROVE CloudInv'
  <1>0. deaths \in 0 .. faults /\ faults \in 0 .. MaxFaults
    BY DEF CloudInv, TypeOK
  <1>1. CASE Exits \/ StopsSilently \/ RunnerConnects \/ RunnerLost
    <2>1. UNCHANGED <<apart, phase, reserved, stop>>
      BY <1>1 DEF Exits, StopsSilently, RunnerConnects, RunnerLost
    <2>2. \/ faults < MaxFaults /\ faults' = faults + 1 /\ deaths' = deaths + 1
          \/ UNCHANGED <<deaths, faults>>
      BY <1>1 DEF Exits, StopsSilently, RunnerConnects, RunnerLost, Fault
    <2> QED
      BY <1>0, <2>1, <2>2, SandboxKeeps
  <1>2. CASE CloudDied /\ phase # "running"
    <2>1. UNCHANGED <<apart, phase, reserved, stop, faults>> /\ deaths > 0 /\ deaths' = deaths - 1
      BY <1>2 DEF CloudDied
    <2> QED
      BY <1>0, <2>1, SandboxKeeps
  <1>3. CASE CloudDied /\ phase = "running"
    <2>1. /\ UNCHANGED <<apart, faults>> /\ deaths' \in 0 .. faults
          /\ phase = "running" /\ phase' = "off" /\ EndSchedules
      BY <1>0, <1>3 DEF CloudDied, To
    <2> USE <2>1 DEF CloudInv, apart, asking, backend, stored, EndSchedules
    <2>2. TypeOK'
      BY DEF TypeOK
    <2>3. Steps'
      BY DEF Steps, RecoveryOK
    <2>4. Registered'
      BY DEF Registered
    <2>5. Shown'
      BY DEF Shown
    <2>6. Excluded'
      BY DEF Excluded, Unused, TypeOK
    <2>7. Announced'
      BY DEF Announced, ReadyTold
    <2> QED
      BY <2>2, <2>3, <2>4, <2>5, <2>6, <2>7
  <1> QED
    BY <1>1, <1>2, <1>3 DEF Sandbox

\* A backend that starts has nothing of the shard, and knows what is stored.
LEMMA StartsKeeps ==
  ASSUME CloudInv, Starts, faults' \in 0 .. MaxFaults PROVE CloudInv'
  <1> USE DEF CloudInv, Starts, stored
  <1>1. TypeOK'
    BY DEF TypeOK, Joiners
  <1>2. Steps'
    BY DEF Steps, RecoveryOK, Recovery, NoTask
  <1>3. Registered'
    BY DEF Registered, NoTask, Slots, Joiners
  <1>4. Shown'
    BY DEF Shown, BootSteps
  <1>5. Excluded'
    BY DEF Excluded, Unused, BootSteps
  <1>6. Announced'
    BY DEF Announced, ReadyTold, BootSteps
  <1> QED
    BY <1>1, <1>2, <1>3, <1>4, <1>5, <1>6

\* A close ends the schedules and leaves the tasks.
LEMMA CloseKeeps == ASSUME CloudInv, Close PROVE CloudInv'
  <1> USE DEF CloudInv, Close, EndSchedules, Fault, machine, asking, stored
  <1>1. TypeOK'
    BY DEF TypeOK, Steps
  <1>2. Steps'
    BY DEF Steps, RecoveryOK
  <1>3. Registered'
    BY DEF Registered
  <1>4. Shown'
    BY DEF Shown
  <1>5. Excluded'
    BY DEF Excluded, Unused, TypeOK
  <1>6. Announced'
    BY DEF Announced, ReadyTold
  <1> QED
    BY <1>1, <1>2, <1>3, <1>4, <1>5, <1>6

\* The recovery records only failures, announces only resets, and takes over
\* only a machine that is off.
LEMMA RecoveryKeeps ==
  ASSUME CloudInv, UNCHANGED recovering, RecoveryOK',
         phase' = phase \/ (phase = "off" /\ phase' = "running"),
         told \subseteq told', told' \subseteq Ops,
         db' = db \/ \E o \in Ops : db' = [db EXCEPT ![o] = "failed"]
  PROVE  CloudInv'
  <1> USE DEF CloudInv, recovering, asking, gate
  <1>1. TypeOK'
    BY DEF TypeOK
  <1>2. Steps'
    BY DEF Steps
  <1>3. Registered'
    BY DEF Registered
  <1>4. Shown'
    BY DEF Shown
  <1>5. Excluded'
    BY DEF Excluded, Unused
  <1>6. Announced'
    BY DEF Announced, ReadyTold, TypeOK
  <1> QED
    BY <1>1, <1>2, <1>3, <1>4, <1>5, <1>6

\* Every step of the recovery is such a step.
LEMMA RecoveryStepKeeps ==
  ASSUME CloudInv,
         \/ Reconcile \/ List \/ (\E o \in Ops : RedoReset(o))
         \/ RedoAnnounce \/ RedoFailed \/ TakeOver \/ Evict
  PROVE  CloudInv'
  <1>0. RecoveryOK /\ told \subseteq Ops /\ resetting \in Ops \cup {NoOp}
    BY DEF CloudInv, Steps, TypeOK
  <1>a. ASSUME NEW at, NEW redo \in SUBSET Ops, NEW last, NEW op \in Ops \cup {NoOp},
               NEW found, at \in {"announce", "fail"} => op \in Ops,
               recovery' = [at |-> at, redo |-> redo, last |-> last, op |-> op,
                            found |-> found]
        PROVE  RecoveryOK'
    BY <1>a DEF RecoveryOK
  <1>b. ASSUME NEW at \in {"reconcile", "list", "over"}, NEW found,
               recovery' = Recovery(at, {}, NoOp, found)
        PROVE  RecoveryOK'
    BY <1>a, <1>b DEF Recovery
  <1>c. recovery' = Over => RecoveryOK'
    BY <1>b DEF Over
  <1>d. /\ recovery = [at |-> recovery.at, redo |-> recovery.redo, last |-> recovery.last,
                       op |-> recovery.op, found |-> recovery.found]
        /\ recovery.redo \in SUBSET Ops /\ recovery.op \in Ops \cup {NoOp}
    BY <1>0 DEF RecoveryOK
  <1>1. CASE Reconcile
    <2>1. RecoveryOK'
      BY <1>1, <1>b, <1>c DEF Reconcile
    <2> QED
      BY <1>0, <1>1, <2>1, RecoveryKeeps DEF Reconcile, stored
  <1>2. CASE List
    <2> DEFINE unfinished == {o \in Ops : db[o] = "unfinished"}
    <2>0. /\ unfinished \in SUBSET Ops
          /\ \/ recovery' = [recovery EXCEPT !.at = "take"]
             \/ recovery' = [recovery EXCEPT !.at = "reset", !.redo = unfinished,
                                            !.last = resetting]
      BY <1>2 DEF List
    <2> HIDE DEF unfinished
    <2>1. RecoveryOK'
      BY <2>0, <1>a, <1>d
    <2> QED
      BY <1>0, <1>2, <2>1, RecoveryKeeps DEF List, stored
  <1>3. ASSUME NEW o \in Ops, RedoReset(o) PROVE CloudInv'
    <2>1. RecoveryOK'
      BY <1>3, <1>a, <1>b, <1>c, <1>d DEF RedoReset
    <2> QED
      BY <1>0, <1>3, <2>1, RecoveryKeeps DEF RedoReset
  <1>4. CASE RedoAnnounce
    <2>0. recovery.op \in Ops
      BY <1>0, <1>4 DEF RedoAnnounce, RecoveryOK
    <2>1. RecoveryOK'
      BY <1>4, <1>a, <1>c, <1>d, <2>0 DEF RedoAnnounce
    <2>2. told \subseteq told' /\ told' \subseteq Ops
      BY <1>0, <1>4, <2>0 DEF RedoAnnounce
    <2> QED
      BY <1>4, <2>1, <2>2, RecoveryKeeps DEF RedoAnnounce
  <1>5. CASE RedoFailed
    <2>1. RecoveryOK'
      BY <1>5, <1>a, <1>c, <1>d DEF RedoFailed
    <2>2. db' = db \/ \E o \in Ops : db' = [db EXCEPT ![o] = "failed"]
      BY <1>0, <1>5 DEF RedoFailed, RecoveryOK
    <2> QED
      BY <1>0, <1>5, <2>1, <2>2, RecoveryKeeps DEF RedoFailed
  <1>6. CASE TakeOver \/ Evict
    <2>1. RecoveryOK'
      BY <1>0, <1>6, <1>a, <1>c, <1>d DEF TakeOver, Evict
    <2> QED
      BY <1>0, <1>6, <2>1, RecoveryKeeps DEF TakeOver, Evict, stored
  <1> QED
    BY <1>1, <1>2, <1>3, <1>4, <1>5, <1>6

-----------------------------------------------------------------------------

\* Every step keeps the invariant.
LEMMA CloudStep == CloudInv /\ [Next]_vars => CloudInv'
  <1> SUFFICES ASSUME CloudInv, [Next]_vars PROVE CloudInv'
    OBVIOUS
  <1>0. faults \in 0 .. MaxFaults
    BY DEF CloudInv, TypeOK
  <1>1. CASE Transition
    BY <1>1, TransitionKeeps
  <1>2. CASE Admission
    BY <1>2, AskKeeps, EnsureKeeps, ReleaseKeeps DEF Admission
  <1>3. CASE Schedule
    BY <1>3, StopKeeps, JoinForStopKeeps, HaltKeeps DEF Schedule
  <1>4. CASE \E o \in Ops : RequestReset(o) \/ ResetCloud(o)
    BY <1>4, RequestResetKeeps, ResetCloudKeeps
  <1>11. CASE \E b \in Slots \cup {"reset"} : Unanswered(b)
    BY <1>11, UnansweredKeeps
  <1>5. CASE ResetTask
    BY <1>5, StoppingKeeps, HoldUsesKeeps, ReserveGateKeeps, SaveForResetKeeps,
       RebuildKeeps,
       AnnounceKeeps, ResetBootsKeeps, ResetBootedKeeps, AbortKeeps, EndResetKeeps DEF ResetTask
  <1>6. CASE Sandbox
    BY <1>6, SandboxStepKeeps
  <1>7. CASE Crash \/ Exit
    <2>1. Starts /\ faults' \in 0 .. MaxFaults
      BY <1>0, <1>7 DEF Crash, Exit, Fault
    <2> QED
      BY <2>1, StartsKeeps
  <1>8. CASE Close
    BY <1>8, CloseKeeps
  <1>9. CASE Backend /\ ~(Crash \/ Exit \/ Close)
    BY <1>9, RecoveryStepKeeps DEF Backend
  <1>10. CASE UNCHANGED vars
    BY <1>0, <1>10, SandboxKeeps
       DEF vars, machine, asking, gate, backend, sandbox, stored, apart, CloudInv, TypeOK
  <1> QED
    BY <1>1, <1>2, <1>3, <1>4, <1>5, <1>6, <1>7, <1>8, <1>9, <1>10,
       <1>11 DEF Next, Backend

\* The invariant holds in every behaviour of the Cloud.
LEMMA CloudInvariance == Spec => []CloudInv
  BY CloudStart, CloudStep, PTL DEF Spec

\* The phase, the running reset, the stop and the gate agree in every state,
\* whatever dies, crashes, is dropped or is never answered while a call to the
\* manager runs.
THEOREM CloudTyped == Spec => []TypeOK
  <1>1. CloudInv => TypeOK
    BY DEF CloudInv
  <1> QED
    BY <1>1, CloudInvariance, PTL

\* A Cloud never has two transitions, and one that shows a boot or a save has
\* the task that ends it, for any number of clients, resets and faults.
THEOREM OneTransition == Spec => []TransitionShown
  <1>1. CloudInv => TransitionShown
    <2> SUFFICES ASSUME CloudInv PROVE TransitionShown
      OBVIOUS
    <2>1. \A s \in Slots : task[s] # NoTask <=> trans = s
      BY DEF CloudInv, Registered, Steps
    <2>2. trans \in Slots \cup {"none"} /\ "none" \notin Slots
      BY DEF CloudInv, TypeOK, Slots
    <2>3. {s \in Slots : task[s] # NoTask} = {trans} \ {"none"}
      BY <2>1, <2>2
    <2> QED
      BY <2>3 DEF TransitionShown, CloudInv, Shown, Excluded, BootSteps
  <1> QED
    BY <1>1, CloudInvariance, PTL

\* No admission, operation or checkpoint holds the machine while the idle stop or
\* the lifetime cap saves and stops it, nor from a reset's reservation to the end
\* of its boot.  Of the save that run_reset makes of a machine whose reset failed
\* it says nothing: that one asks for no reservation.
THEOREM StoppedUnused == Spec => []StopsUnused
  <1>1. CloudInv => StopsUnused
    BY DEF CloudInv, StopsUnused, DiskSteps, Shown, Excluded, TypeOK
  <1> QED
    BY <1>1, CloudInvariance, PTL

\* A reset stored as ready was announced, through every crash and failed record.
THEOREM ReadyAnnounced == Spec => []ReadyTold
  <1>1. CloudInv => ReadyTold
    BY DEF CloudInv, Announced
  <1> QED
    BY <1>1, CloudInvariance, PTL
=============================================================================
