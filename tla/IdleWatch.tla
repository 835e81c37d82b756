------------------------------ MODULE IdleWatch ------------------------------
(***************************************************************************)
(* The idle clock of one conversation: the generic watch                   *)
(* (crates/backend-idle-watch/src/lib.rs) with the conversation's policy   *)
(* (crates/backend-user-shard/src/lifecycle/conversations.rs) over the     *)
(* conversation's file gate, which is the gate this module extends, and    *)
(* its stream gate, which nothing reserves.                                *)
(*                                                                         *)
(* The agent tree's admission gate is of the file gate's kind and is read, *)
(* reserved and dropped together with it, so one gate stands for both.     *)
(* Deletion and archive, which end the watch with the conversation, are    *)
(* left out, and so is a retirement that panics.                           *)
(***************************************************************************)
EXTENDS ActivityGate

CONSTANTS
  Clock,         \* the task of the watch, and of the retirement it spawns
  Window,        \* how long idle before the release
  Poll,          \* how often the activity is read
  MaxTime,       \* where the clock of the model stops
  MaxUses,       \* admissions, transitions and watched streams
  MaxFailures    \* reads, reservations and retirements that fail

ASSUME IdleBounds ==
  /\ Clock \in Tasks
  /\ Window \in Nat \ {0} /\ Poll \in Nat \ {0}
  /\ MaxTime \in Nat /\ MaxUses \in Nat /\ MaxFailures \in Nat

VARIABLES
  streams,    \* the published state of the stream gate
  watch,      \* where the watch is
  since,      \* idle_since
  wake,       \* when its sleep ends
  released,   \* the conversation is among the idle-released
  tracked,    \* the admissions that told the clock
  lastUse,    \* when a demand of either gate last ended
  uses,       \* uses so far
  failures    \* failures so far

watchVars == <<watch, since, wake, released>>
idleVars == <<gateVars, now, streams, watchVars, tracked, lastUse, uses, failures>>

Users == Tasks \ {Clock}
Unknown == 0            \* idle_since of a resource not known to be idle

IdleInit ==
  /\ GateInit /\ now = 1
  /\ streams = Quiet
  /\ watch = "none" /\ since = Unknown /\ wake = 1 /\ released = FALSE
  /\ tracked = {} /\ lastUse = Never /\ uses = 0 /\ failures = 0

Use == uses < MaxUses /\ uses' = uses + 1
Failure == failures < MaxFailures /\ failures' = failures + 1

Tick ==
  /\ now < MaxTime
  /\ now' = now + 1
  /\ UNCHANGED <<gateVars, streams, watchVars, tracked, lastUse, uses, failures>>

-----------------------------------------------------------------------------
(* The conversation's use.                                                 *)

\* tracks_idle: the watch's task has not finished.
Running == watch \notin {"none", "ended"}

\* Mutant of Started: the conversation stays among the released ones.
StartedReleased ==
  /\ watch' = "check" /\ since' = Unknown
  /\ UNCHANGED <<wake, released>>

\* A watch that starts knows nothing, and takes the conversation off the
\* released ones.
Started ==
  /\ watch' = "check" /\ since' = Unknown /\ released' = FALSE
  /\ UNCHANGED wake

TrackIdle == IF Running THEN UNCHANGED watchVars ELSE Started

\* An operation or a look (a lease) or a transition (a reservation) comes to
\* the file gate, waits, is admitted, gives up, and ends.
Asks(t, p) ==
  /\ Use
  /\ Ask(t, p)
  /\ UNCHANGED <<now, streams, watchVars, tracked, lastUse, failures>>

GoesOn(t) ==
  /\ Take(t) \/ Admit(t)
  /\ UNCHANGED <<now, streams, watchVars, tracked, lastUse, uses, failures>>

GivesUp(t) ==
  /\ GiveUp(t)
  /\ UNCHANGED <<now, streams, watchVars, tracked, lastUse, uses, failures>>

Ends(t) ==
  /\ Drop(t)
  /\ lastUse' = IF purpose[t] = "demand" THEN now ELSE lastUse
  /\ tracked' = tracked \ {t}
  /\ UNCHANGED <<now, streams, watchVars, uses, failures>>

Leaves(t) ==
  /\ Release(t)
  /\ UNCHANGED <<now, streams, watchVars, tracked, lastUse, uses, failures>>

\* An admission tells the clock while it holds its lease, after the reads of
\* the record and the device.
AdmissionTracks(t) ==
  /\ stage[t] = "holding" /\ purpose[t] \in Leases /\ t \notin tracked
  /\ TrackIdle
  /\ tracked' = tracked \cup {t}
  /\ UNCHANGED <<gateVars, now, streams, lastUse, uses, failures>>

\* A won target switch starts the watch again under its hold of the gate.
Switches(t) ==
  /\ stage[t] = "holding" /\ purpose[t] = "reservation"
  /\ Started
  /\ UNCHANGED <<gateVars, now, streams, tracked, lastUse, uses, failures>>

\* A page watches a stream: its lease comes at once, and tells the clock.
StreamWatched ==
  /\ Use
  /\ streams' = Began(streams, "demand")
  /\ TrackIdle
  /\ UNCHANGED <<gateVars, now, tracked, lastUse, failures>>

StreamUnwatched ==
  /\ streams.demand > 0
  /\ streams' = Ended(streams, "demand", now)
  /\ lastUse' = now
  /\ UNCHANGED <<gateVars, now, watchVars, tracked, uses, failures>>

-----------------------------------------------------------------------------
(* The watch.                                                              *)

Later(a, b) == IF a > b THEN a ELSE b

\* Activity of both gates together.
Busy == pub.demand > 0 \/ streams.demand > 0
LastDemandEnd == Later(pub.last_demand_end, streams.last_demand_end)

\* Never while busy, and never before the last demand ended.
IdleStart ==
  IF Busy THEN Unknown
  ELSE Later(IF since = Unknown THEN now ELSE since, LastDemandEnd)

SleepUntil(time) == watch' = "sleep" /\ wake' = time

Check ==
  LET deadline == IdleStart + Window
  IN  /\ watch = "check"
      /\ since' = IdleStart
      /\ IF IdleStart = Unknown THEN SleepUntil(now + Poll)
         ELSE IF now < deadline
           THEN SleepUntil(IF deadline < now + Poll THEN deadline ELSE now + Poll)
           ELSE watch' = "reserve" /\ wake' = wake
      /\ UNCHANGED <<gateVars, now, streams, released, tracked, lastUse, uses, failures>>

\* Mutant of Wakes: a gate found held is waited for without the poll.
WakesFromSleep ==
  /\ watch = "sleep" /\ now >= wake
  /\ watch' = "check"
  /\ UNCHANGED <<gateVars, now, streams, since, wake, released, tracked, lastUse, uses, failures>>

\* A sleep ends with its time, and the wait for a gate found held also with a
\* change of the gate.
Wakes ==
  /\ watch \in {"sleep", "held"} /\ now >= wake
  /\ watch' = "check"
  /\ UNCHANGED <<gateVars, now, streams, since, wake, released, tracked, lastUse, uses, failures>>

Changed ==
  /\ watch = "held"
  /\ watch' = "check"
  /\ UNCHANGED <<gateVars, now, streams, since, wake, released, tracked, lastUse, uses, failures>>

\* The deadline passed: the gate is reserved at once or found held.
Reserve ==
  /\ watch = "reserve"
  /\ TryTake(Clock, "reservation")
  /\ watch' = "reserving"
  /\ UNCHANGED <<now, streams, since, wake, released, tracked, lastUse, uses, failures>>

Reserved ==
  /\ watch = "reserving"
  /\ Admit(Clock)
  /\ watch' = "reserved"
  /\ UNCHANGED <<now, streams, since, wake, released, tracked, lastUse, uses, failures>>

FindsHeld ==
  /\ watch = "reserve"
  /\ ~Free("reservation")
  /\ watch' = "held" /\ wake' = now + Poll
  /\ UNCHANGED <<gateVars, now, streams, since, released, tracked, lastUse, uses, failures>>

\* Mutant of UsedSince: a demand that came and went is not seen.
UsedSinceNow == Busy

\* Read again under the reservation: a demand that came and went since
\* restarts the window; otherwise the retirement is spawned.  Nothing awaits
\* between the reading and the spawning.
UsedSince == Busy \/ LastDemandEnd > since

ReadAgain ==
  /\ watch = "reserved"
  /\ IF UsedSince
       THEN /\ Drop(Clock)
            /\ since' = IdleStart
            /\ watch' = "dropping" /\ wake' = now
       ELSE /\ watch' = "retiring"
            /\ UNCHANGED <<gateVars, since, wake>>
  /\ UNCHANGED <<now, streams, released, tracked, lastUse, uses, failures>>

\* The retirement told every device, and its reservation goes with it.
Retires ==
  /\ watch = "retiring"
  /\ Drop(Clock)
  /\ released' = TRUE
  /\ watch' = "retired"
  /\ UNCHANGED <<now, streams, since, wake, tracked, lastUse, uses, failures>>

\* The reservation's permits go.  The end of the retirement wakes the watch
\* before an admission it lets in is past its reads.
LetsGo ==
  /\ watch \in {"dropping", "retired"}
  /\ Release(Clock)
  /\ watch' = IF watch = "retired" THEN "ended" ELSE "sleep"
  /\ UNCHANGED <<now, streams, since, wake, released, tracked, lastUse, uses, failures>>

\* A failed reading, reservation or retirement is tried again a poll later.
Fails ==
  /\ Failure
  /\ \/ watch \in {"check", "reserve"} /\ SleepUntil(now + Poll) /\ UNCHANGED gateVars
     \/ watch \in {"reserved", "retiring"} /\ Drop(Clock)
          /\ watch' = "dropping" /\ wake' = now + Poll
  /\ UNCHANGED <<now, streams, since, released, tracked, lastUse, uses>>

-----------------------------------------------------------------------------
UserNext ==
  \/ \E t \in Users :
       \/ \E p \in Purpose : Asks(t, p)
       \/ GoesOn(t) \/ GivesUp(t) \/ Ends(t) \/ Leaves(t) \/ AdmissionTracks(t) \/ Switches(t)
  \/ StreamWatched \/ StreamUnwatched

WatchNext ==
  \/ Check \/ Wakes \/ Changed \/ Reserve \/ Reserved \/ FindsHeld
  \/ ReadAgain \/ Retires \/ LetsGo \/ Fails

IdleNext == Tick \/ UserNext \/ WatchNext

IdleSpec == IdleInit /\ [][IdleNext]_idleVars

\* The watch's task is polled, time passes, and what is admitted ends.
IdleFairness ==
  /\ WF_idleVars(Tick)
  /\ WF_idleVars(Check) /\ WF_idleVars(Wakes)
  /\ WF_idleVars(Reserve \/ FindsHeld) /\ WF_idleVars(Reserved)
  /\ WF_idleVars(ReadAgain) /\ WF_idleVars(Retires) /\ WF_idleVars(LetsGo)
  /\ WF_idleVars(StreamUnwatched)
  /\ \A t \in Users : WF_idleVars(GoesOn(t) \/ Ends(t) \/ Leaves(t))

FairIdleSpec == IdleSpec /\ IdleFairness

-----------------------------------------------------------------------------
\* Every variable of the gates and of the watch is in its domain.
IdleTypeOK ==
  /\ GateTypeOK /\ streams \in GateState
  /\ watch \in {"none", "check", "sleep", "reserve", "held", "reserving", "reserved",
                "dropping", "retiring", "retired", "ended"}
  /\ since \in Nat /\ wake \in Nat /\ released \in BOOLEAN
  /\ tracked \subseteq Users /\ lastUse \in Nat /\ uses \in Nat /\ failures \in Nat

\* A retirement starts only when nothing of either gate is in use and nothing
\* was for a whole window, whatever came and went while the gate was reserved.
RetiresOnlyIdle ==
  [][watch # "retiring" /\ watch' = "retiring" =>
       /\ \A t \in Users : stage[t] # "holding"
       /\ streams.demand = 0
       /\ now >= lastUse + Window]_idleVars

\* While the release is sent no operation of the conversation is admitted and
\* no transition holds it.
ReleasedAlone ==
  watch = "retiring" => Inside = {Clock}

\* A device admission's conversation is on the clock, and not among those its
\* devices let go of, for as long as the admission holds its lease.
UsedIsTracked == tracked # {} => Running /\ ~released

\* A page's watched stream keeps its conversation on the clock, as a device
\* admission does.
WatchedIsTracked == streams.demand > 0 => Running /\ ~released

\* A conversation on the clock whose use ended is released, unless the model's
\* time ends before its window does.
EventuallyReleased ==
  (Running /\ <>[](~Busy)) ~> (watch = "ended" \/ since + Window > MaxTime \/ wake > MaxTime)
=============================================================================
