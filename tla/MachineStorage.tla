--------------------------- MODULE MachineStorage ---------------------------
(***************************************************************************)
(* The Cloud manager's storage of one device, with the manager's crashes.  *)
(*                                                                         *)
(* A device's two volumes, system and home, are on one of two runtimes:    *)
(*   gVisor   a committed pair of images (current.json) and, while a       *)
(*            sandbox runs or after a crash, a working pair copied from it;*)
(*   Simple   a directory tree a proot runs in.                            *)
(* The device's worker runs one operation at a time and moves the stopped  *)
(* device to the isolation the master chose; recovery runs at the start    *)
(* and on reconcile, beside the worker.  Every change of the disk is one   *)
(* step and the manager's process may end between any two of them, while   *)
(* the device's guest runs on.                                             *)
(*                                                                         *)
(* A volume's content is the number of the last write to it (0: the base's *)
(* clean system, the skeleton's home).  A reset's id is a number too (0:   *)
(* never reset).                                                           *)
(***************************************************************************)
EXTENDS Integers, Sequences, FiniteSets

CONSTANTS MaxWrites,  \* bound: writes of the device's guests
          MaxResets,  \* bound: reset operations the backend asks for
          Failing,    \* the steps whose I/O may fail
          Overlap     \* whether a guest's exit is handled during a reconcile

\* The steps that do I/O, any of which may fail; "reset" looks its base up.
IO == {"reset", "pick", "move", "save", "clear", "first", "stage", "record", "start", "abort",
       "halt", "close", "capture", "publish", "wipe", "plant", "end", "unnote", "boot",
       "note", "out", "in", "pin", "discard", "mount", "copySystem", "copyHome", "raze",
       "build", "dropCurrent", "dropGenerations", "make", "dropRecord", "dropTree",
       "sweep", "unstage", "fenceSimple", "detach", "remove", "fence"}

ASSUME StorageAssumption ==
    /\ MaxWrites \in Nat /\ MaxResets \in Nat /\ Overlap \in BOOLEAN
    /\ Failing \subseteq IO

VARIABLES
    up,        \* the manager: "down", "starting" or "serving"
    ending,    \* "no", or what a signal asked for: "stop" or "leave"
    left,      \* LEFT_RECORD names the device's running guest
    todo,      \* what each process still runs: a queue of programs
    spared,    \* the runtimes a recovery skips: the device runs there
    runtime,   \* DeviceWorker.runtime; Nowhere before the worker is made
    handle,    \* "none", "up" (waited for) or "kept" (no longer waited for)
    op,        \* the reset the worker runs
    chosen,    \* Placement.chosen
    stage,     \* the operation's stage directory and its mounts
    staged,    \* the pair of volumes in it
    current,   \* current.json and its generation's images
    working,   \* the files of <data>/working/<device>
    tree,      \* the files of <data>/simple/<device>
    newer,     \* which of current.json and record.json was written last
    guests,    \* the runtimes on which the device's processes run
    writes,    \* writes so far
    live,      \* ghost: what each volume last held
    moments,   \* ghost: every pair the volumes held at one moment
    asked,     \* ghost: the last reset asked for
    answered   \* ghost: the last reset answered as done

process == <<up, ending, left, spared>>
memory == <<runtime, handle, op, chosen>>
making == <<stage, staged>>
disk == <<current, working, tree, newer>>
ghosts == <<writes, live, moments, asked, answered>>
vars == <<process, todo, memory, making, disk, guests, ghosts>>

-----------------------------------------------------------------------------
(* Storage. *)

Absent == -1
Lost == -2      \* an empty directory copied where a volume should have been
Nowhere == "nowhere"
Runtimes == {"gvisor", "simple"}
Other(r) == IF r = "gvisor" THEN "simple" ELSE "gvisor"

NoPair == [system |-> Absent, home |-> Absent, reset |-> Absent]
NoWorking == [manifest |-> Absent, system |-> Absent, home |-> Absent,
              boot |-> FALSE]
NoTree == [record |-> Absent, system |-> Absent, home |-> Absent,
           old |-> Absent, process |-> FALSE]

\* The working directory exists: on_gvisor and the rename that makes a stage
\* the working pair see a directory with anything in it.
HasWorking == working # NoWorking
Whole == working.manifest # Absent /\ working.system # Absent
                                   /\ working.home # Absent

OnGvisor == current # NoPair \/ HasWorking
OnSimple == tree.record # Absent

\* The volumes the guest of runtime r has mounted.
Mounted(r) == IF r = "gvisor" THEN <<working.system, working.home>>
                              ELSE <<tree.system, tree.home>>

-----------------------------------------------------------------------------
(* Programs.  Each process runs the first step of its first program; a     *)
(* failed step ends its program and the process goes on with the next one. *)

Processes == {"worker", "recovery"}
Nothing == [p \in Processes |-> <<>>]

At(p, step) == todo[p] # <<>> /\ Head(Head(todo[p])) = step

\* Mutant of Then: a program that ran out stays queued.
ThenQueued(p, more) ==
    todo' = [todo EXCEPT ![p] = <<more \o Tail(Head(todo[p]))>> \o Tail(@)]

\* The first step is done, and `more` comes before the rest of its program.
Then(p, more) ==
    LET rest == more \o Tail(Head(todo[p]))
    IN todo' = [todo EXCEPT ![p] = IF rest = <<>> THEN Tail(@)
                                                  ELSE <<rest>> \o Tail(@)]

\* The first program ends here, well.
Done(p) == todo' = [todo EXCEPT ![p] = Tail(@)]

\* The first program fails; a stage goes on every path.  Before the worker
\* is made the request itself fails.
Fail(p) ==
    /\ todo' = [todo EXCEPT ![p] = IF p = "worker" /\ runtime = Nowhere
                                     THEN <<>> ELSE Tail(@)]
    /\ IF p = "worker" THEN stage' = "none" /\ staged' = NoPair
                       ELSE UNCHANGED making

\* Mutant of Script: a wake stages the committed pair without saving what a
\* crash left.
ScriptUnsaved(what) ==
    IF runtime = Nowhere \/ (what = "wake" /\ handle # "none") THEN <<>>
      ELSE IF runtime = "gvisor"
        THEN CASE what = "wake" -> <<"clear", "first", "stage", "record", "start">>
               [] what = "hibernate" -> <<"halt", "close", "save">>
               [] OTHER -> <<>>
        ELSE CASE what = "wake" -> <<"plant", "end", "boot", "note">>
               [] what = "hibernate" -> <<"end", "unnote">>
               [] OTHER -> <<>>

\* What a device operation does on each runtime.
Script(what) ==
    IF runtime = Nowhere \/ (what = "wake" /\ handle # "none") THEN <<>>
      ELSE IF runtime = "gvisor"
        THEN CASE what = "wake" -> <<"save", "first", "stage", "record", "start">>
               [] what = "hibernate" -> <<"halt", "close", "save">>
               [] what = "checkpoint" ->
                    IF handle = "none" THEN <<>> ELSE <<"capture", "publish">>
               [] what = "reset" ->
                    <<"halt", "close", "save", "first", "wipe", "answer">>
        ELSE CASE what = "wake" -> <<"plant", "end", "boot", "note">>
               [] what = "hibernate" -> <<"end", "unnote">>
               [] what = "checkpoint" -> <<>>
               [] what = "reset" ->
                    <<"end", "unnote", "plant", "out", "in", "pin", "discard", "answer">>

Operations == {"wake", "hibernate", "checkpoint", "reset"}

Operate ==
    \E what \in Operations :
      /\ At("worker", what)
      /\ Then("worker", Script(what))
      /\ UNCHANGED <<process, memory, making, disk, guests, ghosts>>

\* DeviceWorker::settle: one turn of its loop.  The chosen runtime may be one
\* that this manager does not run.
Settle ==
    /\ At("worker", "settle")
    /\ \/ Done("worker")
       \/ /\ ending = "no" /\ runtime # chosen /\ handle = "none"
          /\ Then("worker", <<"hibernate", "move", "moved">>)
    /\ UNCHANGED <<process, memory, making, disk, guests, ghosts>>

\* Mutant of Move: the old storage goes before the new tree is in place.
MoveEarly ==
    /\ At("worker", "move")
    /\ Then("worker",
         CASE runtime = "gvisor" /\ current # NoPair ->
                <<"mount", "copySystem", "copyHome", "clear", "dropCurrent",
                  "dropGenerations", "raze", "build">>
           [] runtime = "simple" /\ OnSimple ->
                <<"make", "publish", "dropRecord", "dropTree">>
           [] OTHER -> <<>>)
    /\ UNCHANGED <<process, memory, making, disk, guests, ghosts>>

\* moves::to_simple and moves::to_gvisor.
Move ==
    /\ At("worker", "move")
    /\ Then("worker",
         CASE runtime = "gvisor" /\ current # NoPair ->
                <<"mount", "copySystem", "copyHome", "raze", "build",
                  "clear", "dropCurrent", "dropGenerations">>
           [] runtime = "simple" /\ OnSimple ->
                <<"make", "publish", "dropRecord", "dropTree">>
           [] OTHER -> <<>>)
    /\ UNCHANGED <<process, memory, making, disk, guests, ghosts>>

Moved ==
    /\ At("worker", "moved")
    /\ Then("worker", <<"settle">>)
    /\ runtime' = Other(runtime)
    /\ UNCHANGED <<process, handle, op, chosen, making, disk, guests, ghosts>>

-----------------------------------------------------------------------------
(* Steps on a gVisor device's storage. *)

\* WorkingPair::save up to the publication.  A device operation refuses while
\* it holds a sandbox; recovery skips a device that runs; without a manifest
\* there is nothing to save, and an image that is missing fails its check.
Save(p) ==
    LET refused == p = "worker" /\ handle # "none"
        skipped == \/ p = "recovery" /\ "gvisor" \in spared
                   \/ ~refused /\ working.manifest = Absent
    IN
    /\ At(p, "save")
    /\ \/ skipped /\ Then(p, <<>>) /\ UNCHANGED <<making, current, newer>>
       \/ ~skipped /\ (refused \/ ~Whole) /\ Fail(p) /\ UNCHANGED <<current, newer>>
       \/ /\ ~skipped /\ ~refused /\ Whole
          /\ current' = [system |-> working.system, home |-> working.home,
                         reset |-> working.manifest]
          /\ newer' = "gvisor"
          /\ Then(p, <<"clear">>)
          /\ UNCHANGED making
    /\ UNCHANGED <<process, memory, working, tree, guests, ghosts>>

\* remove_tree of the working directory, its entries in any order.
Clear(p) ==
    /\ At(p, "clear")
    /\ \/ \E file \in {"manifest", "system", "home"} :
            /\ working[file] # Absent
            /\ working' = [working EXCEPT ![file] = Absent]
            /\ UNCHANGED todo
       \/ /\ working.boot
          /\ working' = [working EXCEPT !.boot = FALSE]
          /\ UNCHANGED todo
       \/ ~HasWorking /\ Then(p, <<>>) /\ UNCHANGED working
    /\ UNCHANGED <<process, memory, making, current, tree, newer, guests, ghosts>>

\* Device::initialize on gVisor: the first generation, unless there is one.
First ==
    /\ At("worker", "first")
    /\ Then("worker", <<>>)
    /\ IF current = NoPair
         THEN /\ current' = [system |-> 0, home |-> 0, reset |-> 0]
              /\ newer' = "gvisor"
         ELSE UNCHANGED <<current, newer>>
    /\ UNCHANGED <<process, memory, making, working, tree, guests, ghosts>>

\* Device::stage_working: the rename fails over a directory that has entries.
StageWorking ==
    /\ At("worker", "stage")
    /\ IF HasWorking THEN Fail("worker") /\ UNCHANGED working
         ELSE /\ working' = [manifest |-> current.reset, system |-> current.system,
                             home |-> current.home, boot |-> FALSE]
              /\ Then("worker", <<>>)
              /\ UNCHANGED making
    /\ UNCHANGED <<process, memory, current, tree, newer, guests, ghosts>>

\* Sandbox::start records the boot before anything of it runs.
Record ==
    /\ At("worker", "record")
    /\ \/ /\ Then("worker", <<>>)
          /\ working' = [working EXCEPT !.boot = TRUE]
       \/ /\ "record" \in Failing
          /\ todo' = [todo EXCEPT !.worker[1] = <<"abort">>]
          /\ working' \in {working, [working EXCEPT !.boot = TRUE]}
    /\ UNCHANGED <<process, memory, making, current, tree, newer, guests, ghosts>>

Start ==
    /\ At("worker", "start")
    /\ \/ /\ Then("worker", <<>>)
          /\ guests' = guests \cup {"gvisor"}
          /\ handle' = "up"
       \/ /\ "start" \in Failing
          /\ todo' = [todo EXCEPT !.worker[1] = <<"abort">>]
          /\ guests' \in {guests, guests \cup {"gvisor"}}
          /\ UNCHANGED handle
    /\ UNCHANGED <<process, runtime, op, chosen, making, disk, ghosts>>

\* A start that failed closes its sandbox; a close that fails too keeps it.
Abort ==
    /\ At("worker", "abort")
    /\ \/ /\ guests' = guests \ {"gvisor"}
          /\ working' = [working EXCEPT !.boot = FALSE]
          /\ UNCHANGED handle
       \/ /\ "abort" \in Failing
          /\ handle' = "kept"
          /\ guests' \in {guests, guests \ {"gvisor"}}
          /\ UNCHANGED working
    /\ Fail("worker")
    /\ UNCHANGED <<process, runtime, op, chosen, current, tree, newer, ghosts>>

\* Device::stop on gVisor, Sandbox::close: the runtime, then its record.  A
\* close that fails keeps the sandbox, without its waiter once that was taken.
Halt ==
    /\ At("worker", "halt")
    /\ \/ /\ handle = "none"
          /\ Then("worker", <<>>)
          /\ UNCHANGED <<making, guests>>
       \/ /\ handle # "none"
          /\ guests' = guests \ {"gvisor"}
          /\ Then("worker", <<>>)
          /\ UNCHANGED making
       \/ /\ handle # "none" /\ "halt" \in Failing
          /\ Fail("worker")
          /\ UNCHANGED guests
    /\ UNCHANGED <<process, memory, disk, ghosts>>

Close ==
    /\ At("worker", "close")
    /\ \/ handle = "none" /\ Then("worker", <<>>) /\ UNCHANGED <<handle, making, working>>
       \/ /\ handle # "none"
          /\ handle' = "none"
          /\ working' = [working EXCEPT !.boot = FALSE]
          /\ Then("worker", <<>>)
          /\ UNCHANGED making
       \/ /\ handle # "none" /\ "close" \in Failing
          /\ handle' = "kept"
          /\ Fail("worker")
          /\ UNCHANGED working
    /\ UNCHANGED <<process, runtime, op, chosen, current, tree, newer, guests, ghosts>>

\* The frozen window of a checkpoint.  A pause or a copy that fails leaves
\* the sandbox running; a thaw or a resume that fails stops it.
Capture ==
    /\ At("worker", "capture")
    /\ \/ /\ working.manifest # Absent
          /\ staged' = [system |-> working.system, home |-> working.home,
                        reset |-> working.manifest]
          /\ stage' = "held"
          /\ Then("worker", <<>>)
       \/ working.manifest = Absent /\ Fail("worker")
       \/ "capture" \in Failing /\ Fail("worker")
       \/ /\ "capture" \in Failing
          /\ todo' = [todo EXCEPT !.worker[1] = <<"halt", "close">>]
          /\ UNCHANGED making
    /\ UNCHANGED <<process, memory, disk, guests, ghosts>>

\* Mutant of Publish: a checkpoint links the home as it is when it publishes.
PublishLate ==
    /\ At("worker", "publish")
    /\ stage = "held"
    /\ current' = [staged EXCEPT !.home = IF HasWorking THEN working.home ELSE @]
    /\ newer' = "gvisor"
    /\ stage' = "none" /\ staged' = NoPair
    /\ Then("worker", <<>>)
    /\ UNCHANGED <<process, memory, working, tree, guests, ghosts>>

\* ImageStore::publish of a stage's pair: a checkpoint's or a move's.
Publish ==
    /\ At("worker", "publish")
    /\ \/ /\ stage = "held"
          /\ current' = staged
          /\ newer' = "gvisor"
          /\ stage' = "none" /\ staged' = NoPair
          /\ Then("worker", <<>>)
       \/ /\ stage # "held"
          /\ Fail("worker")
          /\ UNCHANGED <<current, newer>>
    /\ UNCHANGED <<process, memory, working, tree, guests, ghosts>>

\* The ghost of a system replaced by a clean one.
WipeSystem ==
    /\ live' = [live EXCEPT !.system = 0]
    /\ moments' = moments \cup {[live EXCEPT !.system = 0]}
    /\ UNCHANGED <<writes, asked, answered>>

\* Device::reset on gVisor: once per operation, the saved home stays.
Wipe ==
    /\ At("worker", "wipe")
    /\ Then("worker", <<>>)
    /\ IF current.reset = op THEN UNCHANGED <<current, newer, ghosts>>
         ELSE /\ current' = [current EXCEPT !.system = 0, !.reset = op]
              /\ newer' = "gvisor"
              /\ WipeSystem
    /\ UNCHANGED <<process, memory, making, working, tree, guests>>

\* The reset's reply.
Answer ==
    /\ At("worker", "answer")
    /\ Then("worker", <<>>)
    /\ answered' = op
    /\ UNCHANGED <<process, memory, making, disk, guests, writes, live, moments, asked>>

-----------------------------------------------------------------------------
(* Steps on a Simple Isolation device's tree. *)

\* Simple::build of a new device's tree, unless there is one.
Plant ==
    /\ At("worker", "plant")
    /\ Then("worker", <<>>)
    /\ IF OnSimple THEN UNCHANGED <<tree, newer>>
         ELSE /\ tree' = [NoTree EXCEPT !.record = 0, !.system = 0, !.home = 0]
              /\ newer' = "simple"
    /\ UNCHANGED <<process, memory, making, current, working, guests, ghosts>>

\* Mutant of End: the fence only ends what a handle names.
EndHandled ==
    /\ At("worker", "end")
    /\ handle' = "none"
    /\ guests' = IF handle = "none" THEN guests ELSE guests \ {"simple"}
    /\ Then("worker", <<>>)
    /\ UNCHANGED <<process, runtime, op, chosen, making, disk, ghosts>>

\* Device::stop on Simple, and the fence a wake begins with.  The handle goes
\* once the record was read, so a fence that fails leaves processes no handle
\* names, and a record that cannot be read leaves the handle too.
End ==
    /\ At("worker", "end")
    /\ \/ /\ ~OnSimple
          /\ handle' = "none"
          /\ Then("worker", <<>>)
          /\ UNCHANGED <<making, guests>>
       \/ /\ OnSimple
          /\ handle' = "none"
          /\ guests' = guests \ {"simple"}
          /\ Then("worker", <<>>)
          /\ UNCHANGED making
       \/ /\ OnSimple /\ "end" \in Failing
          /\ Fail("worker")
          /\ \/ UNCHANGED <<handle, guests>>
             \/ handle' = "none" /\ guests' \in {guests, guests \ {"simple"}}
    /\ UNCHANGED <<process, runtime, op, chosen, disk, ghosts>>

Unnote ==
    /\ At("worker", "unnote")
    /\ Then("worker", <<>>)
    /\ tree' = IF OnSimple THEN [tree EXCEPT !.process = FALSE] ELSE tree
    /\ UNCHANGED <<process, memory, making, current, working, newer, guests, ghosts>>

\* The boot's files go into the system, which must be there; proot starts
\* and is the device's before process.json names it.
Boot ==
    /\ At("worker", "boot")
    /\ IF tree.system = Absent THEN Fail("worker") /\ UNCHANGED <<handle, guests>>
         ELSE /\ guests' = guests \cup {"simple"}
              /\ handle' = "up"
              /\ Then("worker", <<>>)
              /\ UNCHANGED making
    /\ UNCHANGED <<process, runtime, op, chosen, disk, ghosts>>

Note ==
    /\ At("worker", "note")
    /\ Then("worker", <<>>)
    /\ tree' = [tree EXCEPT !.process = TRUE]
    /\ UNCHANGED <<process, memory, making, current, working, newer, guests, ghosts>>

\* Device::reset on Simple: the old system out, the new one in, the record,
\* then the old one goes.
Out ==
    /\ At("worker", "out")
    /\ \/ /\ tree.record = op
          /\ todo' = [todo EXCEPT !.worker[1] = <<"answer">>]
          /\ UNCHANGED <<making, tree>>
       \/ tree.record # op /\ tree.system = Absent /\ Fail("worker") /\ UNCHANGED tree
       \/ /\ tree.record # op /\ tree.system # Absent
          /\ tree' = [tree EXCEPT !.old = tree.system, !.system = Absent]
          /\ Then("worker", <<>>)
          /\ UNCHANGED making
    /\ UNCHANGED <<process, memory, current, working, newer, guests, ghosts>>

In ==
    /\ At("worker", "in")
    /\ Then("worker", <<>>)
    /\ tree' = [tree EXCEPT !.system = 0]
    /\ WipeSystem
    /\ UNCHANGED <<process, memory, making, current, working, newer, guests>>

Pin ==
    /\ At("worker", "pin")
    /\ Then("worker", <<>>)
    /\ tree' = [tree EXCEPT !.record = op]
    /\ newer' = "simple"
    /\ UNCHANGED <<process, memory, making, current, working, guests, ghosts>>

Discard ==
    /\ At("worker", "discard")
    /\ Then("worker", <<>>)
    /\ tree' = [tree EXCEPT !.old = Absent]
    /\ UNCHANGED <<process, memory, making, current, working, newer, guests, ghosts>>

-----------------------------------------------------------------------------
(* A move between the runtimes.  `staged` is what the copies through the   *)
(* stage's mounts found: nothing where the mount was detached meanwhile.   *)

Mount ==
    /\ At("worker", "mount")
    /\ Then("worker", <<>>)
    /\ stage' = "held"
    /\ staged' = [NoPair EXCEPT !.reset = current.reset]
    /\ UNCHANGED <<process, memory, disk, guests, ghosts>>

CopyVolume(step, volume) ==
    /\ At("worker", step)
    /\ \/ /\ stage # "gone"
          /\ staged' = [staged EXCEPT ![volume] = IF stage = "held" THEN current[volume]
                                                                    ELSE Lost]
          /\ Then("worker", <<>>)
          /\ UNCHANGED stage
       \/ stage # "held" /\ Fail("worker")
    /\ UNCHANGED <<process, memory, disk, guests, ghosts>>

\* Simple::build of the moved volumes: a tree that is there goes, and the
\* new one comes whole, its record in it.
Raze ==
    /\ At("worker", "raze")
    /\ Then("worker", <<>>)
    /\ tree' = NoTree
    /\ UNCHANGED <<process, memory, making, current, working, newer, guests, ghosts>>

\* Mutant of Build: the moved tree's record forgets the last reset.
BuildUnreset ==
    /\ At("worker", "build")
    /\ Then("worker", <<>>)
    /\ tree' = [NoTree EXCEPT !.record = 0, !.system = staged.system, !.home = staged.home]
    /\ newer' = "simple"
    /\ stage' = "none" /\ staged' = NoPair
    /\ UNCHANGED <<process, memory, current, working, guests, ghosts>>

Build ==
    /\ At("worker", "build")
    /\ Then("worker", <<>>)
    /\ tree' = [NoTree EXCEPT !.record = staged.reset, !.system = staged.system,
                              !.home = staged.home]
    /\ newer' = "simple"
    /\ stage' = "none" /\ staged' = NoPair
    /\ UNCHANGED <<process, memory, current, working, guests, ghosts>>

\* ImageStore::remove: current.json first.
DropCurrent ==
    /\ At("worker", "dropCurrent")
    /\ Then("worker", <<>>)
    /\ current' = NoPair
    /\ UNCHANGED <<process, memory, making, working, tree, newer, guests, ghosts>>

DropGenerations ==
    /\ At("worker", "dropGenerations")
    /\ Then("worker", <<>>)
    /\ UNCHANGED <<process, memory, making, disk, guests, ghosts>>

\* moves::make_generation: images of the tree, which must have both volumes.
Make ==
    /\ At("worker", "make")
    /\ IF tree.system = Absent THEN Fail("worker")
         ELSE /\ stage' = "held"
              /\ staged' = [system |-> tree.system, home |-> tree.home,
                            reset |-> tree.record]
              /\ Then("worker", <<>>)
    /\ UNCHANGED <<process, memory, disk, guests, ghosts>>

\* Simple::remove: the record first.
DropRecord ==
    /\ At("worker", "dropRecord")
    /\ Then("worker", <<>>)
    /\ tree' = [tree EXCEPT !.record = Absent]
    /\ UNCHANGED <<process, memory, making, current, working, newer, guests, ghosts>>

DropTree ==
    /\ At("worker", "dropTree")
    /\ Then("worker", <<>>)
    /\ tree' = NoTree
    /\ UNCHANGED <<process, memory, making, current, working, newer, guests, ghosts>>

\* A copy ends early once the manager stops.
Interrupted ==
    /\ ending # "no"
    /\ \E step \in {"copySystem", "copyHome", "make"} : At("worker", step)
    /\ Fail("worker")
    /\ UNCHANGED <<process, memory, disk, guests, ghosts>>

\* Manager::worker: the worker is made on the runtime the storage is on.  On
\* both, which a move cut short leaves, moves::settle drops the older first.
Pick ==
    /\ At("worker", "pick")
    /\ IF runtime # Nowhere THEN Then("worker", <<>>) /\ UNCHANGED runtime
         ELSE IF OnGvisor /\ OnSimple
           THEN /\ Then("worker", IF newer = "simple"
                      THEN <<"clear", "dropCurrent", "dropGenerations", "pick">>
                      ELSE <<"dropRecord", "dropTree", "pick">>)
                /\ UNCHANGED runtime
           ELSE /\ runtime' = IF OnGvisor THEN "gvisor"
                                ELSE IF OnSimple THEN "simple" ELSE chosen
                /\ Then("worker", <<>>)
    /\ UNCHANGED <<process, handle, op, chosen, making, disk, guests, ghosts>>

-----------------------------------------------------------------------------
(* Recovery: at a start, before the manager serves, and on reconcile.      *)

\* handover::sweep: what no taken-over guest owns ends, under systemd.
Sweep ==
    /\ At("recovery", "sweep")
    /\ Then("recovery", <<>>)
    /\ guests' \in {guests, guests \cap spared}
    /\ UNCHANGED <<process, memory, making, disk, ghosts>>

\* Simple::recover: what a reset staged goes, then each recorded proot ends.
Unstage ==
    /\ At("recovery", "unstage")
    /\ Then("recovery", <<>>)
    /\ tree' = [tree EXCEPT !.old = Absent]
    /\ UNCHANGED <<process, memory, making, current, working, newer, guests, ghosts>>

FenceSimple ==
    /\ At("recovery", "fenceSimple")
    /\ Then("recovery", <<>>)
    /\ IF tree.process /\ "simple" \notin spared
         THEN /\ guests' = guests \ {"simple"}
              /\ tree' = [tree EXCEPT !.process = FALSE]
         ELSE UNCHANGED <<guests, tree>>
    /\ UNCHANGED <<process, memory, making, current, working, newer, ghosts>>

\* recovery::remove_stage: each mount in a stage is detached, then the stage
\* goes, whoever works in it.
DetachStages ==
    /\ At("recovery", "detach")
    /\ Then("recovery", <<"remove">>)
    /\ stage' = IF stage = "held" THEN "bare" ELSE stage
    /\ UNCHANGED <<process, memory, staged, disk, guests, ghosts>>

RemoveStages ==
    /\ At("recovery", "remove")
    /\ Then("recovery", <<>>)
    /\ stage' = IF stage = "bare" THEN "gone" ELSE stage
    /\ UNCHANGED <<process, memory, staged, disk, guests, ghosts>>

\* Mutant of Fence: the record goes and the sandbox it names runs on.
FenceRecord ==
    /\ At("recovery", "fence")
    /\ Then("recovery", <<>>)
    /\ working' = IF "gvisor" \in spared THEN working ELSE [working EXCEPT !.boot = FALSE]
    /\ UNCHANGED <<process, memory, making, current, tree, newer, guests, ghosts>>

\* recovery::fence_and_save closes the recorded sandbox before the save.
Fence ==
    /\ At("recovery", "fence")
    /\ Then("recovery", <<>>)
    /\ IF working.boot /\ "gvisor" \notin spared
         THEN /\ guests' = guests \ {"gvisor"}
              /\ working' = [working EXCEPT !.boot = FALSE]
         ELSE UNCHANGED <<guests, working>>
    /\ UNCHANGED <<process, memory, making, current, tree, newer, ghosts>>

Serve ==
    /\ At("recovery", "serve")
    /\ Then("recovery", <<>>)
    /\ up' = "serving"
    /\ left' = FALSE
    /\ UNCHANGED <<ending, spared, memory, making, disk, guests, ghosts>>

Recovery == <<"unstage", "fenceSimple", "detach", "fence", "save">>

-----------------------------------------------------------------------------
(* The manager. *)

Idle == todo = Nothing

\* Memory goes with the process; the disk and the guests stay.
Ends ==
    /\ up' = "down"
    /\ ending' = "no"
    /\ todo' = Nothing
    /\ spared' = {}
    /\ runtime' = Nowhere
    /\ handle' = "none"
    /\ op' = 0
    /\ chosen' = "gvisor"
    /\ stage' = "none" /\ staged' = NoPair

\* The manager's process ends: killed, or a start that failed.
Crash ==
    /\ up # "down"
    /\ Ends
    /\ UNCHANGED <<left, disk, guests, ghosts>>

\* The guest a manager before this one left: its record names it and it runs.
LeftRunning ==
    {r \in guests : /\ left
                    /\ IF r = "gvisor" THEN working.boot ELSE tree.process}

\* A start: what was left is taken over (a gVisor sandbox only from inside
\* the saved namespace), and the rest is recovered before the manager serves.
Launch ==
    /\ up = "down"
    /\ up' = "starting"
    /\ \E taken \in {{}} \cup {{r} : r \in LeftRunning} :
         /\ "simple" \in LeftRunning => taken # {}
         /\ spared' = taken
         /\ \/ /\ taken = {}
               /\ UNCHANGED <<runtime, handle>>
            \/ /\ runtime' \in taken
               /\ handle' = "up"
    /\ todo' = [todo EXCEPT !.recovery =
                  << <<"sweep">> \o Recovery \o <<"serve">> >>]
    /\ UNCHANGED <<ending, left, op, chosen, making, disk, guests, ghosts>>

\* A request the admission gate lets in, on the device's idle worker.
Admitted == up = "serving" /\ ending = "no" /\ Idle

Request(programs, reset) ==
    /\ Admitted
    /\ todo' = [todo EXCEPT !.worker = programs]
    /\ op' = reset
    /\ UNCHANGED <<process, runtime, handle, chosen, making, disk, guests,
                   writes, live, moments, answered>>

\* DeviceCommand::Run: a wake settles first, the others after.
Wake == Request(<< <<"pick", "settle">>, <<"wake">> >>, 0) /\ UNCHANGED asked

Hibernate == Request(<< <<"pick", "hibernate">>, <<"settle">> >>, 0) /\ UNCHANGED asked

Checkpoint == Request(<< <<"pick", "checkpoint">>, <<"settle">> >>, 0) /\ UNCHANGED asked

\* The backend asks for a new reset, or again for the last one.
Reset ==
    \E id \in {asked, asked + 1} \ {0} :
      /\ id <= MaxResets
      /\ Request(<< <<"pick", "reset">>, <<"settle">> >>, id)
      /\ asked' = id

\* Manager::move_stopped.
SettleStopped == Request(<< <<"pick", "settle">> >>, 0) /\ UNCHANGED asked

\* Placement::choose.
SetIsolation ==
    /\ up = "serving"
    /\ chosen' = Other(chosen)
    /\ UNCHANGED <<process, todo, runtime, handle, op, making, disk, guests, ghosts>>

\* Manager::reconcile: under the whole gate, sparing what runs.
Reconcile ==
    /\ Admitted
    /\ spared' = IF handle # "none" THEN Runtimes ELSE {}
    /\ todo' = [todo EXCEPT !.recovery = <<Recovery>>]
    /\ UNCHANGED <<up, ending, left, memory, making, disk, guests, ghosts>>

\* The worker hears its guest's exit, which no gate admits.
Exited ==
    /\ up = "serving"
    /\ todo.worker = <<>>
    /\ Overlap \/ todo.recovery = <<>>
    /\ handle = "up" /\ runtime \notin guests
    /\ handle' = "kept"
    /\ todo' = [todo EXCEPT !.worker = << <<"hibernate">>, <<"settle">> >>]
    /\ UNCHANGED <<process, runtime, op, chosen, making, disk, guests, ghosts>>

\* A signal: moves end now, the rest once the operations in flight did.
Signal(what) ==
    /\ up = "serving" /\ ending = "no"
    /\ ending' = what
    /\ UNCHANGED <<up, left, spared, todo, memory, making, disk, guests, ghosts>>

\* Manager::close: the drain hibernates the device, and the process ends.
Drain ==
    /\ up = "serving" /\ ending = "stop" /\ Idle
    /\ todo' = [todo EXCEPT !.worker = << <<"hibernate">>, <<"exit">> >>]
    /\ UNCHANGED <<process, memory, making, disk, guests, ghosts>>

Exit ==
    /\ At("worker", "exit")
    /\ Ends
    /\ UNCHANGED <<left, disk, guests, ghosts>>

\* Manager::leave and write_left: the guest runs on for the next manager.
Leave ==
    /\ up = "serving" /\ ending = "leave" /\ Idle
    /\ left' = (handle # "none")
    /\ Ends
    /\ UNCHANGED <<disk, guests, ghosts>>

\* A step whose I/O fails before it changed anything; the steps that change
\* something and then fail have a disjunct of their own.
StepFails(p) ==
    /\ \E step \in Failing \ {"record", "start", "abort", "halt", "close",
                              "capture", "end"} : At(p, step)
    /\ Fail(p)
    /\ UNCHANGED <<process, memory, disk, guests, ghosts>>

-----------------------------------------------------------------------------
(* The guest. *)

Write(r, volume) ==
    /\ r \in guests
    /\ writes < MaxWrites
    /\ writes' = writes + 1
    /\ live' = [live EXCEPT ![volume] = writes + 1]
    /\ moments' = moments \cup {[live EXCEPT ![volume] = writes + 1]}
    /\ IF r = "gvisor"
         THEN working' = [working EXCEPT ![volume] = writes + 1] /\ UNCHANGED tree
         ELSE tree' = [tree EXCEPT ![volume] = writes + 1] /\ UNCHANGED working
    /\ UNCHANGED <<process, todo, memory, making, current, newer, guests, asked, answered>>

\* A guest ends unasked, with its host too.
GuestExits(r) ==
    /\ r \in guests
    /\ guests' = guests \ {r}
    /\ UNCHANGED <<process, todo, memory, making, disk, ghosts>>

-----------------------------------------------------------------------------
Init ==
    /\ up = "down" /\ ending = "no" /\ left = FALSE /\ spared = {}
    /\ todo = Nothing
    /\ runtime = Nowhere /\ handle = "none" /\ op = 0 /\ chosen = "gvisor"
    /\ stage = "none" /\ staged = NoPair
    /\ current = NoPair /\ working = NoWorking /\ tree = NoTree
    /\ newer = "gvisor"
    /\ guests = {}
    /\ writes = 0 /\ live = [system |-> 0, home |-> 0]
    /\ moments = {[system |-> 0, home |-> 0]}
    /\ asked = 0 /\ answered = 0

Worker ==
    \/ Operate \/ Settle \/ Move \/ Moved \/ Pick \/ Interrupted
    \/ Save("worker") \/ Clear("worker") \/ First \/ StageWorking \/ Record
    \/ Start \/ Abort \/ Halt \/ Close \/ Capture \/ Publish \/ Wipe \/ Answer
    \/ Plant \/ End \/ Unnote \/ Boot \/ Note \/ Out \/ In \/ Pin \/ Discard
    \/ Mount \/ CopyVolume("copySystem", "system") \/ CopyVolume("copyHome", "home")
    \/ Raze \/ Build \/ DropCurrent \/ DropGenerations \/ Make \/ DropRecord
    \/ DropTree \/ StepFails("worker")

Recover ==
    \/ Sweep \/ Unstage \/ FenceSimple \/ DetachStages \/ RemoveStages \/ Fence
    \/ Save("recovery") \/ Clear("recovery") \/ Serve \/ StepFails("recovery")

Manage ==
    \/ Launch \/ Crash \/ Wake \/ Hibernate \/ Checkpoint \/ Reset
    \/ SettleStopped \/ SetIsolation \/ Reconcile \/ Exited
    \/ Signal("stop") \/ Signal("leave") \/ Drain \/ Exit \/ Leave

Next ==
    \/ Worker \/ Recover \/ Manage
    \/ \E r \in Runtimes : GuestExits(r) \/ \E v \in {"system", "home"} : Write(r, v)

Spec == Init /\ [][Next]_vars

-----------------------------------------------------------------------------
(* Properties. *)

Contents == {Lost, Absent} \cup 0 .. MaxWrites
Ids == {Absent} \cup 0 .. MaxResets

\* The types of the manager's state, of the files and of the ghosts.
TypeOK ==
    /\ up \in {"down", "starting", "serving"}
    /\ ending \in {"no", "stop", "leave"}
    /\ left \in BOOLEAN /\ spared \subseteq Runtimes
    /\ \A p \in Processes : \A i \in DOMAIN todo[p] : todo[p][i] # <<>>
    /\ runtime \in Runtimes \cup {Nowhere}
    /\ handle \in {"none", "up", "kept"}
    /\ op \in 0 .. MaxResets /\ chosen \in Runtimes
    /\ stage \in {"none", "held", "bare", "gone"}
    /\ \A pair \in {staged, current} :
         pair \in [system : Contents, home : Contents, reset : Ids]
    /\ working \in [manifest : Ids, system : Contents, home : Contents, boot : BOOLEAN]
    /\ tree \in [record : Ids, system : Contents, home : Contents, old : Contents,
                 process : BOOLEAN]
    /\ newer \in Runtimes /\ guests \subseteq Runtimes
    /\ writes \in 0 .. MaxWrites
    /\ live \in [system : 0 .. MaxWrites, home : 0 .. MaxWrites] /\ live \in moments
    /\ asked \in 0 .. MaxResets /\ answered \in 0 .. MaxResets

\* Whatever crashes, failed steps, moves and resets came before, a guest of
\* either runtime runs on what the device's volumes last held: wake saves a
\* crash's working pair before it stages one, and a worker made after a move
\* was cut short takes the storage the move published.
RunsLatest == \A r \in guests : Mounted(r) = <<live.system, live.home>>

\* The device never runs on both runtimes, nor does a new boot start beside
\* one that a crashed manager, a failed close or a handover left.
OneWriter == Cardinality(guests) <= 1

\* At every moment, crash points included, what was last written to the home
\* is in a place the next start reads: the committed pair, a working pair
\* with its manifest, or a tree with its record.
HomeKept ==
    \/ live.home = 0
    \/ current.home = live.home
    \/ working.manifest # Absent /\ working.home = live.home
    \/ OnSimple /\ tree.home = live.home

\* A generation and a working pair hold a system and a home the device had
\* at one moment: a checkpoint under a writing guest, a save after a crash
\* and a move never combine volumes of different moments.
Paired ==
    /\ current # NoPair => [system |-> current.system, home |-> current.home] \in moments
    /\ Whole => [system |-> working.system, home |-> working.home] \in moments

\* A reset is idempotent by its id, across restarts and moves: one that was
\* answered as done wipes the system no second time when it is asked again.
ResetOnce == [][live'.system = 0 /\ live.system # 0 => op # answered]_vars

\* Recovery and reconcile leave a guest that runs on alone: its volumes change
\* only by its own writes, and the pair published beside it is a checkpoint's.
Undisturbed ==
    [][\A r \in guests \cap guests' :
         /\ Mounted(r)' # Mounted(r) => writes' # writes
         /\ r = "gvisor" /\ current' # current => staged # NoPair]_vars

\* What a serving, idle manager finds in a device's working directory is a
\* whole pair: a save that stopped midway left the old state or the new one.
WorkingUsable == up = "serving" /\ Idle /\ HasWorking => Whole

\* A serving, idle manager has the system the device last had, or a clean one
\* a reset put in its place: a reset that stops midway leaves one of the two.
SystemKept ==
    up = "serving" /\ Idle =>
      \/ live.system = 0
      \/ current.system = live.system
      \/ working.manifest # Absent /\ working.system = live.system
      \/ OnSimple /\ tree.system = live.system
=============================================================================
