--------------------------- MODULE IdleWatchProofs ---------------------------
(***************************************************************************)
(* A reservation is alone in its gate, and what the gate publishes agrees  *)
(* with who is inside, for any set of callers; and over it the idle clock  *)
(* retires only a conversation nobody uses, for any window and poll.       *)
(***************************************************************************)
EXTENDS IdleWatch, FiniteSetTheorems, TLAPS

(* The gate.                                                               *)

\* Who has published a hold of purpose p and not yet its end.
Holders(p) == {t \in Tasks : stage[t] = "holding" /\ purpose[t] = p}

\* The published state counts the leases held and shows the reservation.
Counted ==
  /\ pub \in GateState
  /\ IsFiniteSet(Holders("demand")) /\ pub.demand = Cardinality(Holders("demand"))
  /\ IsFiniteSet(Holders("maintenance")) /\ pub.maintenance = Cardinality(Holders("maintenance"))
  /\ pub.reserved <=> Holders("reservation") # {}

\* One operation of the gate by the task t.
Operation(t) ==
  \/ \E p \in Purpose : Ask(t, p) \/ TryTake(t, p)
  \/ Take(t) \/ GiveUp(t) \/ Admit(t) \/ Drop(t) \/ Release(t)

\* A gate nobody asked of satisfies the invariant.
LEMMA GateInitInv == GateInit => GateInv /\ Counted
  <1> SUFFICES ASSUME GateInit PROVE GateInv /\ Counted
    OBVIOUS
  <1>1. GateInv
    BY DEF GateInit, GateInv, GateLines, Permitted, Inside, InLine, HasPermits, Stage, Purpose
  <1>2. Holders("demand") = {} /\ Holders("maintenance") = {} /\ Holders("reservation") = {}
    BY DEF GateInit, Holders
  <1>3. Counted
    BY <1>2, FS_EmptySet DEF GateInit, Counted, Quiet, GateState, Never
  <1> QED
    BY <1>1, <1>3

\* Every operation of the gate keeps the lines, and the permits of who is
\* inside: who comes joins behind, and who leaves takes nobody's permits.
LEMMA GateKeepsLines == ASSUME GateInv, NEW t \in Tasks, Operation(t) PROVE GateInv'
  <1> USE DEF GateInv, GateLines, Permitted, Inside, InLine, HasPermits, Stage
  <1>1. ASSUME NEW p \in Purpose, Ask(t, p) PROVE GateInv'
    BY <1>1 DEF Ask, Join, Free
  <1>2. ASSUME NEW p \in Purpose, TryTake(t, p) PROVE GateInv'
    BY <1>2 DEF TryTake, Join, Free
  <1>3. CASE Take(t)
    BY <1>3 DEF Take
  <1>4. CASE GiveUp(t)
    BY <1>4 DEF GiveUp, Leave
  <1>5. CASE Admit(t)
    BY <1>5 DEF Admit
  <1>6. CASE Drop(t)
    BY <1>6 DEF Drop
  <1>7. CASE Release(t)
    BY <1>7 DEF Release, Leave
  <1> QED
    BY <1>1, <1>2, <1>3, <1>4, <1>5, <1>6, <1>7 DEF Operation

\* What the state shows once a hold began: one more of its purpose.
LEMMA BeganShows ==
  ASSUME NEW state \in GateState, NEW p \in Purpose
  PROVE  /\ Began(state, p) \in GateState
         /\ Began(state, p).demand = state.demand + (IF p = "demand" THEN 1 ELSE 0)
         /\ Began(state, p).maintenance = state.maintenance + (IF p = "maintenance" THEN 1 ELSE 0)
         /\ (Began(state, p).reserved <=> p = "reservation" \/ state.reserved)
         /\ Began(state, p).last_demand_end = state.last_demand_end
  <1>1. CASE p = "demand"
    BY <1>1 DEF Began, GateState
  <1>2. CASE p = "maintenance"
    BY <1>2 DEF Began, GateState
  <1>3. CASE p = "reservation"
    <2>1. Began(state, p)
            = [demand |-> state.demand, maintenance |-> state.maintenance,
               reserved |-> TRUE, last_demand_end |-> state.last_demand_end]
      BY <1>3 DEF Began, GateState
    <2>2. Began(state, p).reserved = TRUE
      BY <2>1
    <2>3. Began(state, p) \in GateState
      BY <2>1 DEF GateState
    <2> QED
      BY <1>3, <2>1, <2>2, <2>3 DEF GateState
  <1> QED
    BY <1>1, <1>2, <1>3 DEF Purpose

\* What it shows once a hold ended, which was counted: one less, and the time
\* of the last demand's end.
LEMMA EndedShows ==
  ASSUME NEW state \in GateState, NEW p \in Purpose, NEW time \in Nat,
         p = "demand" => state.demand > 0, p = "maintenance" => state.maintenance > 0
  PROVE  /\ Ended(state, p, time) \in GateState
         /\ Ended(state, p, time).demand = state.demand - (IF p = "demand" THEN 1 ELSE 0)
         /\ Ended(state, p, time).maintenance
              = state.maintenance - (IF p = "maintenance" THEN 1 ELSE 0)
         /\ (Ended(state, p, time).reserved <=> p # "reservation" /\ state.reserved)
         /\ Ended(state, p, time).last_demand_end
              = IF p = "demand" /\ state.demand = 1 THEN time ELSE state.last_demand_end
  <1>1. CASE p = "demand"
    <2>1. Ended(state, p, time)
            = [demand |-> state.demand - 1, maintenance |-> state.maintenance,
               reserved |-> state.reserved,
               last_demand_end |-> IF state.demand = 1 THEN time ELSE state.last_demand_end]
      BY <1>1 DEF Ended, GateState
    <2> QED
      BY <1>1, <2>1 DEF GateState
  <1>2. CASE p = "maintenance"
    <2>1. Ended(state, p, time)
            = [demand |-> state.demand, maintenance |-> state.maintenance - 1,
               reserved |-> state.reserved, last_demand_end |-> state.last_demand_end]
      BY <1>2 DEF Ended, GateState
    <2> QED
      BY <1>2, <2>1 DEF GateState
  <1>3. CASE p = "reservation"
    <2>1. Ended(state, p, time)
            = [demand |-> state.demand, maintenance |-> state.maintenance,
               reserved |-> FALSE, last_demand_end |-> state.last_demand_end]
      BY <1>3 DEF Ended, GateState
    <2>2. Ended(state, p, time).reserved = FALSE
      BY <2>1
    <2>3. Ended(state, p, time) \in GateState
      BY <2>1 DEF GateState
    <2> QED
      BY <1>3, <2>1, <2>2, <2>3 DEF GateState
  <1> QED
    BY <1>1, <1>2, <1>3 DEF Purpose

\* Of two tasks inside one is ahead of the other, so a reservation is alone.
LEMMA GateAlone == GateInv => ReservedAlone
  BY DEF GateInv, GateLines, Permitted, Inside, InLine, HasPermits, ReservedAlone

\* An operation that publishes nothing leaves who holds.
LEMMA QuietOperation ==
  ASSUME GateInv, Counted, NEW t \in Tasks, Operation(t), ~Admit(t), ~Drop(t)
  PROVE  Counted'
  <1>1. /\ pub' = pub
        /\ stage[t] # "holding" /\ stage'[t] # "holding"
        /\ \A u \in Tasks : u # t => stage'[u] = stage[u] /\ purpose'[u] = purpose[u]
    BY DEF Operation, Ask, TryTake, Take, GiveUp, Release, Join, GateInv
  <1>2. \A p : Holders(p)' = Holders(p)
    BY <1>1 DEF Holders
  <1> QED
    BY <1>1, <1>2 DEF Counted

\* Every operation of the gate keeps the count: a hold is published before it
\* can end, and ends once.
LEMMA GateKeepsCount ==
  ASSUME GateInv, Counted, now \in Nat, NEW t \in Tasks, Operation(t)
  PROVE  Counted'
  <1>0. PICK p \in Purpose : p = purpose[t]
    BY DEF GateInv
  <1>1. CASE Admit(t)
    <2>1. /\ Holders(p)' = Holders(p) \cup {t} /\ t \notin Holders(p)
          /\ \A q : q # p => Holders(q)' = Holders(q)
      BY <1>0, <1>1 DEF Admit, Holders, GateInv
    <2>2. /\ pub' \in GateState
          /\ pub'.demand = pub.demand + (IF p = "demand" THEN 1 ELSE 0)
          /\ pub'.maintenance = pub.maintenance + (IF p = "maintenance" THEN 1 ELSE 0)
          /\ pub'.reserved <=> p = "reservation" \/ pub.reserved
      BY <1>0, <1>1, BeganShows DEF Admit, Counted
    <2>3. CASE p = "demand"
      <3>1. Holders("maintenance")' = Holders("maintenance")
            /\ Holders("reservation")' = Holders("reservation")
        BY <2>1, <2>3
      <3>2. IsFiniteSet(Holders("demand")') /\ pub'.demand = Cardinality(Holders("demand")')
        BY <2>1, <2>2, <2>3, FS_AddElement DEF Counted
      <3>3. pub'.maintenance = pub.maintenance
        BY <2>2, <2>3 DEF Counted, GateState
      <3> QED
        BY <2>2, <2>3, <3>1, <3>2, <3>3 DEF Counted
    <2>4. CASE p = "maintenance"
      <3>1. Holders("demand")' = Holders("demand")
            /\ Holders("reservation")' = Holders("reservation")
        BY <2>1, <2>4
      <3>2. /\ IsFiniteSet(Holders("maintenance")')
            /\ pub'.maintenance = Cardinality(Holders("maintenance")')
        BY <2>1, <2>2, <2>4, FS_AddElement DEF Counted
      <3>3. pub'.demand = pub.demand
        BY <2>2, <2>4 DEF Counted, GateState
      <3> QED
        BY <2>2, <2>4, <3>1, <3>2, <3>3 DEF Counted
    <2>5. CASE p = "reservation"
      BY <2>1, <2>2, <2>5 DEF Counted, GateState
    <2> QED
      BY <2>3, <2>4, <2>5 DEF Purpose
  <1>2. CASE Drop(t)
    <2>1. /\ Holders(p)' = Holders(p) \ {t} /\ t \in Holders(p)
          /\ \A q : q # p => Holders(q)' = Holders(q)
      BY <1>0, <1>2 DEF Drop, Holders, GateInv
    <2>2. IsFiniteSet(Holders(p)) =>
            /\ IsFiniteSet(Holders(p)')
            /\ Cardinality(Holders(p)) \in Nat /\ Cardinality(Holders(p)) > 0
            /\ Cardinality(Holders(p)') = Cardinality(Holders(p)) - 1
      BY <2>1, FS_RemoveElement, FS_CardinalityType, FS_EmptySet
    <2>3. /\ pub' \in GateState
          /\ pub'.demand = pub.demand - (IF p = "demand" THEN 1 ELSE 0)
          /\ pub'.maintenance = pub.maintenance - (IF p = "maintenance" THEN 1 ELSE 0)
          /\ pub'.reserved <=> p # "reservation" /\ pub.reserved
      BY <1>0, <1>2, <2>2, EndedShows DEF Drop, Counted
    <2>4. CASE p = "demand"
      <3>1. Holders("maintenance")' = Holders("maintenance")
            /\ Holders("reservation")' = Holders("reservation")
        BY <2>1, <2>4
      <3>2. IsFiniteSet(Holders("demand")') /\ pub'.demand = Cardinality(Holders("demand")')
        BY <2>2, <2>3, <2>4 DEF Counted
      <3>3. pub'.maintenance = pub.maintenance
        BY <2>3, <2>4 DEF Counted, GateState
      <3> QED
        BY <2>3, <2>4, <3>1, <3>2, <3>3 DEF Counted
    <2>5. CASE p = "maintenance"
      <3>1. Holders("demand")' = Holders("demand")
            /\ Holders("reservation")' = Holders("reservation")
        BY <2>1, <2>5
      <3>2. IsFiniteSet(Holders("maintenance")') /\ pub'.maintenance = Cardinality(Holders("maintenance")')
        BY <2>2, <2>3, <2>5 DEF Counted
      <3>3. pub'.demand = pub.demand
        BY <2>3, <2>5 DEF Counted, GateState
      <3> QED
        BY <2>3, <2>5, <3>1, <3>2, <3>3 DEF Counted
    <2>6. CASE p = "reservation"
      <3>1. Holders(p) = {t}
        BY <1>0, <2>1, <2>6, GateAlone DEF ReservedAlone, Inside, Holders
      <3> QED
        BY <2>1, <2>3, <2>6, <3>1 DEF Counted, GateState
    <2> QED
      BY <2>4, <2>5, <2>6 DEF Purpose
  <1> QED
    BY <1>1, <1>2, QuietOperation

\* A hold that ends was counted.
LEMMA CountedHold ==
  ASSUME Counted, NEW t \in Tasks, stage[t] = "holding"
  PROVE  purpose[t] = "demand" => pub.demand > 0
  BY FS_EmptySet, FS_CardinalityType DEF Counted, Holders, GateState

\* A step that is none of the gate's leaves the gate.
LEMMA GateStays == ASSUME GateInv, Counted, UNCHANGED gateVars PROVE GateInv' /\ Counted'
  BY DEF gateVars, GateInv, GateLines, Permitted, Inside, InLine, HasPermits, Counted, Holders

\* The gate alone, in every behaviour.
LEMMA GateInvariance == GateSpec => [](GateInv /\ Counted /\ now \in Nat)
  <1>1. GateStart => GateInv /\ Counted /\ now \in Nat
    BY GateInitInv DEF GateStart
  <1>2. GateInv /\ Counted /\ now \in Nat /\ [GateNext]_<<gateVars, now>>
          => (GateInv /\ Counted /\ now \in Nat)'
    BY GateKeepsLines, GateKeepsCount, GateStays DEF GateNext, Operation
  <1> QED
    BY <1>1, <1>2, PTL DEF GateSpec

\* From the moment a reservation took the gate's permits until it released
\* them nobody else is inside, whoever asks, tries or gives up meanwhile.
THEOREM GateExclusion == GateSpec => []ReservedAlone
  BY GateInvariance, GateAlone, PTL

\* The reservation the gate shows is one that holds it, so no lease is counted.
LEMMA SeenAlone == GateInv /\ Counted => ReservedSeenAlone
  <1> SUFFICES ASSUME GateInv, Counted, pub.reserved
               PROVE  pub.demand = 0 /\ pub.maintenance = 0
    BY DEF ReservedSeenAlone
  <1>1. PICK t \in Tasks : stage[t] = "holding" /\ purpose[t] = "reservation"
    BY DEF Counted, Holders
  <1>2. Holders("demand") = {} /\ Holders("maintenance") = {}
    BY <1>1, GateAlone DEF ReservedAlone, Inside, Holders
  <1> QED
    BY <1>2, FS_EmptySet DEF Counted

\* Who sees the gate reserved sees no lease counted in it, though permits are
\* taken before they are published and published away before they are let go.
THEOREM GateShownAlone == GateSpec => []ReservedSeenAlone
  BY GateInvariance, SeenAlone, PTL
-----------------------------------------------------------------------------
(* The idle clock.                                                         *)

\* Where the clock is with the gate follows from where the watch is.
ClockStage ==
  /\ stage[Clock] = CASE watch = "reserving" -> "taken"
                      [] watch \in {"reserved", "retiring"} -> "holding"
                      [] watch \in {"dropping", "retired"} -> "leaving"
                      [] OTHER -> "out"
  /\ stage[Clock] # "out" => purpose[Clock] = "reservation"

\* The admissions that told the clock hold their leases, and the clock runs for
\* them; a conversation is released only by a retirement.
TrackedHolds ==
  /\ \A t \in tracked : stage[t] = "holding" /\ purpose[t] \in Leases
  /\ released => watch \in {"retired", "ended"}
  /\ UsedIsTracked

\* Two gates that show no demand show when the last one ended, and a watch
\* about to reserve has waited a window.
WindowPassed ==
  /\ lastUse <= now
  /\ ~Busy => lastUse <= LastDemandEnd
  /\ watch \in {"reserve", "reserving", "reserved"} => since + Window <= now

\* The conjunction, which every step of the users and of the watch keeps.
IdleInv ==
  IdleTypeOK /\ GateInv /\ Counted /\ ClockStage /\ TrackedHolds /\ WindowPassed

\* A task's operation is its own, and ends the hold it has.
LEMMA OperationFrame ==
  ASSUME GateInv, NEW t \in Tasks, Operation(t)
  PROVE  /\ \A u \in Tasks : u # t => stage'[u] = stage[u] /\ purpose'[u] = purpose[u]
         /\ stage[t] = "holding" => Drop(t)
  BY DEF Operation, Ask, TryTake, Take, GiveUp, Admit, Drop, Release, Join, GateInv

\* The published demand goes down only when a demand ends, and the last one
\* publishes its time.
LEMMA OperationShows ==
  ASSUME GateInv, Counted, now \in Nat, NEW t \in Tasks, Operation(t)
  PROVE  \/ pub'.demand >= pub.demand /\ pub'.last_demand_end = pub.last_demand_end
         \/ /\ Drop(t) /\ purpose[t] = "demand"
            /\ pub'.demand = 0 => pub'.last_demand_end = now
  <1>0. purpose[t] \in Purpose /\ pub \in GateState
    BY DEF GateInv, Counted
  <1>1. CASE Admit(t)
    BY <1>0, <1>1, BeganShows DEF Admit, GateState
  <1>2. CASE Drop(t)
    <2>1. purpose[t] = "maintenance" => pub.maintenance > 0
      BY <1>2, FS_EmptySet, FS_CardinalityType DEF Drop, Counted, Holders, GateState
    <2>2. purpose[t] = "demand" => pub.demand > 0
      BY <1>2, CountedHold DEF Drop
    <2>3. /\ pub'.demand = pub.demand - (IF purpose[t] = "demand" THEN 1 ELSE 0)
          /\ pub'.last_demand_end
               = IF purpose[t] = "demand" /\ pub.demand = 1 THEN now ELSE pub.last_demand_end
      BY <1>0, <1>2, <2>1, <2>2, EndedShows DEF Drop
    <2> QED
      BY <1>0, <1>2, <2>2, <2>3 DEF GateState
  <1>3. CASE ~Admit(t) /\ ~Drop(t)
    <2>1. pub' = pub
      BY <1>3 DEF Operation, Ask, TryTake, Take, GiveUp, Release
    <2> QED
      BY <1>0, <2>1 DEF GateState
  <1> QED
    BY <1>1, <1>2, <1>3

\* While the clock is inside nobody else is, so no admission is tracked.
LEMMA ClockAlone ==
  ASSUME IdleInv, stage[Clock] \in {"taken", "holding", "leaving"}
  PROVE  Inside = {Clock} /\ tracked = {}
  BY IdleBounds, GateAlone
     DEF IdleInv, IdleTypeOK, ClockStage, TrackedHolds, ReservedAlone, Inside, Users

\* When the last demand ended is known through a step that keeps the streams.
LEMMA LastUseKept ==
  ASSUME IdleInv, pub' \in GateState, UNCHANGED <<streams, now>>,
         \/ /\ pub'.demand >= pub.demand /\ pub'.last_demand_end = pub.last_demand_end
            /\ lastUse' = lastUse
         \/ (pub'.demand = 0 => pub'.last_demand_end = now) /\ lastUse' = now
  PROVE  lastUse' <= now' /\ (~Busy' => lastUse' <= LastDemandEnd')
  <1>1. /\ streams.last_demand_end \in Nat /\ pub.last_demand_end \in Nat
        /\ pub'.last_demand_end \in Nat /\ now \in Nat /\ lastUse \in Nat /\ lastUse <= now
        /\ streams.demand \in Nat /\ pub.demand \in Nat /\ pub'.demand \in Nat
        /\ ~Busy => lastUse <= LastDemandEnd
    BY DEF IdleInv, IdleTypeOK, GateTypeOK, GateState, WindowPassed
  <1> QED
    BY <1>1 DEF Busy, LastDemandEnd, Later

\* The types follow from the gate's invariant and the clock's own variables.
LEMMA IdleTypes ==
  ASSUME GateInv', Counted', now' \in Nat, streams' \in GateState,
         watch' \in {"none", "check", "sleep", "reserve", "held", "reserving", "reserved",
                     "dropping", "retiring", "retired", "ended"},
         since' \in Nat, wake' \in Nat, released' \in BOOLEAN, tracked' \subseteq Users,
         lastUse' \in Nat, uses' \in Nat, failures' \in Nat
  PROVE  IdleTypeOK'
  BY DEF IdleTypeOK, GateTypeOK, GateInv, Counted

\* A conversation nobody used satisfies the invariant.
LEMMA IdleStarts == IdleInit => IdleInv
  <1> SUFFICES ASSUME IdleInit PROVE IdleInv
    OBVIOUS
  <1>1. GateInv /\ Counted
    BY GateInitInv DEF IdleInit
  <1>2. IdleTypeOK
    BY <1>1 DEF IdleInit, IdleTypeOK, GateTypeOK, GateInv, Counted, Quiet, GateState, Never, Unknown
  <1>3. ClockStage
    BY IdleBounds DEF IdleInit, GateInit, ClockStage
  <1>4. TrackedHolds
    BY DEF IdleInit, TrackedHolds, UsedIsTracked
  <1>5. WindowPassed
    BY DEF IdleInit, GateInit, Quiet, WindowPassed, Busy, LastDemandEnd, Later, Never
  <1> QED
    BY <1>1, <1>2, <1>3, <1>4, <1>5 DEF IdleInv

\* A user's operation of the gate: its end takes the admission off the clock.
LEMMA UserOperation ==
  ASSUME IdleInv, NEW t \in Users, Operation(t),
         UNCHANGED <<now, streams, watchVars, failures>>, uses' \in Nat,
         \/ stage[t] # "holding" /\ tracked' = tracked /\ lastUse' = lastUse
         \/ /\ stage[t] = "holding" /\ tracked' = tracked \ {t}
            /\ lastUse' = IF purpose[t] = "demand" THEN now ELSE lastUse
  PROVE  IdleInv'
  <1>0. t \in Tasks /\ t # Clock /\ Clock \in Tasks
    BY IdleBounds DEF Users
  <1>1. GateInv' /\ Counted'
    BY <1>0, GateKeepsLines, GateKeepsCount DEF IdleInv, IdleTypeOK, GateTypeOK
  <1>2. /\ \A u \in Tasks : u # t => stage'[u] = stage[u] /\ purpose'[u] = purpose[u]
        /\ stage[t] = "holding" => Drop(t)
    BY <1>0, OperationFrame DEF IdleInv
  <1>3. IdleTypeOK'
    <2>1. /\ now \in Nat /\ streams \in GateState /\ since \in Nat /\ wake \in Nat
          /\ released \in BOOLEAN /\ tracked' \subseteq Users /\ lastUse' \in Nat
          /\ failures \in Nat
      BY DEF IdleInv, IdleTypeOK, GateTypeOK
    <2> QED
      BY <1>1, <2>1, IdleTypes DEF IdleInv, IdleTypeOK, watchVars
  <1>4. ClockStage'
    BY <1>0, <1>2 DEF IdleInv, ClockStage, watchVars
  <1>5. TrackedHolds'
    <2>1. \A u \in tracked' : u \in tracked /\ u # t /\ u \in Tasks
      BY DEF IdleInv, TrackedHolds, IdleTypeOK, Users
    <2> QED
      BY <1>2, <2>1 DEF IdleInv, TrackedHolds, UsedIsTracked, Running, watchVars
  <1>6. WindowPassed'
    <2>1. \/ /\ pub'.demand >= pub.demand /\ pub'.last_demand_end = pub.last_demand_end
             /\ purpose[t] = "demand" => stage[t] # "holding"
          \/ /\ Drop(t) /\ purpose[t] = "demand"
             /\ pub'.demand = 0 => pub'.last_demand_end = now
      <3>1. stage[t] = "holding" /\ purpose[t] = "demand"
              => pub'.demand = pub.demand - 1 /\ pub.demand \in Nat
        <4> SUFFICES ASSUME stage[t] = "holding", purpose[t] = "demand"
                     PROVE  pub'.demand = pub.demand - 1 /\ pub.demand \in Nat
          OBVIOUS
        <4>1. pub' = Ended(pub, "demand", now) /\ pub.demand > 0 /\ pub \in GateState /\ now \in Nat
          BY <1>0, <1>2, CountedHold DEF Drop, IdleInv, IdleTypeOK, GateTypeOK
        <4> QED
          BY <4>1, EndedShows DEF Purpose, GateState
      <3> QED
        BY <1>0, <3>1, OperationShows DEF IdleInv, IdleTypeOK, GateTypeOK
    <2>2. \/ /\ pub'.demand >= pub.demand /\ pub'.last_demand_end = pub.last_demand_end
             /\ lastUse' = lastUse
          \/ (pub'.demand = 0 => pub'.last_demand_end = now) /\ lastUse' = now
      BY <2>1 DEF Drop
    <2>3. lastUse' <= now' /\ (~Busy' => lastUse' <= LastDemandEnd')
      BY <1>1, <2>2, LastUseKept DEF Counted
    <2> QED
      BY <2>3 DEF IdleInv, WindowPassed, watchVars
  <1> QED
    BY <1>1, <1>3, <1>4, <1>5, <1>6 DEF IdleInv

\* A step beside the gate: what is left to show of it.
LEMMA Beside ==
  ASSUME IdleInv, UNCHANGED gateVars, now' \in Nat, streams' \in GateState,
         watch' \in {"none", "check", "sleep", "reserve", "held", "reserving", "reserved",
                     "dropping", "retiring", "retired", "ended"},
         since' \in Nat, wake' \in Nat, released' \in BOOLEAN, tracked' \subseteq Users,
         lastUse' \in Nat, uses' \in Nat, failures' \in Nat,
         ClockStage', TrackedHolds', WindowPassed'
  PROVE  IdleInv'
  BY GateStays, IdleTypes DEF IdleInv

\* The clock of the model ticks.
LEMMA TickKeeps == ASSUME IdleInv, Tick PROVE IdleInv'
  <1> USE DEF IdleInv, Tick, gateVars, watchVars
  <1>0. now' = now + 1 /\ now \in Nat /\ since \in Nat /\ Window \in Nat /\ lastUse \in Nat
    BY IdleBounds DEF IdleTypeOK, GateTypeOK
  <1>1. ClockStage'
    BY DEF ClockStage
  <1>2. TrackedHolds'
    BY DEF TrackedHolds, UsedIsTracked, Running
  <1>3. WindowPassed'
    <2>1. Busy' = Busy /\ LastDemandEnd' = LastDemandEnd
      BY DEF Busy, LastDemandEnd, Later
    <2>2. lastUse' <= now'
      BY <1>0 DEF WindowPassed
    <2>3. watch' \in {"reserve", "reserving", "reserved"} => since' + Window <= now'
      BY <1>0 DEF WindowPassed
    <2> QED
      BY <2>1, <2>2, <2>3 DEF WindowPassed
  <1> QED
    BY <1>0, <1>1, <1>2, <1>3, Beside DEF IdleTypeOK

\* An admission tells the clock, or a switch starts it again, under its hold:
\* the clock is not inside.
LEMMA TrackingKeeps ==
  ASSUME IdleInv, NEW t \in Users, AdmissionTracks(t) \/ Switches(t)
  PROVE  IdleInv'
  <1> USE DEF IdleInv
  <1>0. t \in Tasks /\ t # Clock /\ Clock \in Tasks /\ stage[t] = "holding"
    BY IdleBounds DEF Users, AdmissionTracks, Switches
  <1>1. stage[Clock] \notin {"taken", "holding", "leaving"}
    BY <1>0, ClockAlone DEF Inside
  <1>2. stage[Clock] = "out"
    BY <1>1 DEF ClockStage
  <1>3. /\ UNCHANGED <<gateVars, now, streams, wake, lastUse, uses, failures>>
        /\ \/ UNCHANGED <<watch, since, released>> /\ Running
           \/ watch' = "check" /\ since' = 0 /\ released' = FALSE
        /\ tracked' = tracked \/ (tracked' = tracked \cup {t} /\ purpose[t] \in Leases)
    BY DEF AdmissionTracks, Switches, TrackIdle, Started, watchVars, Unknown
  <1>4. ClockStage'
    BY <1>2, <1>3 DEF ClockStage, gateVars
  <1>5. TrackedHolds'
    <2>1. \A u \in tracked' : stage'[u] = "holding" /\ purpose'[u] \in Leases
      BY <1>0, <1>3 DEF TrackedHolds, gateVars
    <2>2. watch # "retired"
      BY <1>2 DEF ClockStage
    <2>3. Running' /\ ~released'
      <3>1. CASE UNCHANGED <<watch, since, released>> /\ Running
        BY <2>2, <3>1 DEF Running, TrackedHolds
      <3>2. CASE watch' = "check" /\ since' = 0 /\ released' = FALSE
        BY <3>2 DEF Running
      <3> QED
        BY <1>3, <3>1, <3>2
    <2> QED
      BY <2>1, <2>3 DEF TrackedHolds, UsedIsTracked
  <1>6. WindowPassed'
    <2>1. Busy' = Busy /\ LastDemandEnd' = LastDemandEnd
      BY <1>3 DEF Busy, LastDemandEnd, Later, gateVars
    <2> QED
      BY <1>3, <2>1 DEF WindowPassed, gateVars
  <1>7. tracked' \subseteq Users /\ since' \in Nat
    BY <1>3 DEF IdleTypeOK
  <1>8. released' \in BOOLEAN
    BY <1>3, Zenon DEF IdleTypeOK
  <1> QED
    BY <1>3, <1>4, <1>5, <1>6, <1>7, <1>8, Beside DEF IdleTypeOK, GateTypeOK

\* A page comes to watch a stream, which may start the clock, or leaves.
LEMMA StreamKeeps == ASSUME IdleInv, StreamWatched \/ StreamUnwatched PROVE IdleInv'
  <1> USE DEF IdleInv
  <1>0. /\ UNCHANGED <<gateVars, now, wake, tracked, failures>>
        /\ \/ UNCHANGED <<watch, since, released>>
           \/ ~Running /\ watch' = "check" /\ since' = 0 /\ released' = FALSE
    BY DEF StreamWatched, StreamUnwatched, TrackIdle, Started, watchVars, Unknown
  <1>1. /\ now \in Nat /\ lastUse \in Nat /\ pub \in GateState /\ streams \in GateState
        /\ uses \in Nat
    BY DEF IdleTypeOK, GateTypeOK
  <1>2. /\ streams' \in GateState /\ uses' \in Nat /\ lastUse' \in Nat
        /\ \/ /\ lastUse' = lastUse /\ streams'.demand > 0
           \/ /\ lastUse' = now
              /\ streams'.demand = 0 => streams'.last_demand_end = now
    <2>1. CASE StreamWatched
      <3>1. streams' = Began(streams, "demand") /\ "demand" \in Purpose
        BY <2>1 DEF StreamWatched, Purpose
      <3>2. streams' \in GateState /\ streams'.demand = streams.demand + 1
        BY <1>1, <3>1, BeganShows
      <3> QED
        BY <1>1, <2>1, <3>2 DEF StreamWatched, Use, GateState
    <2>2. CASE StreamUnwatched
      <3>1. streams' = Ended(streams, "demand", now) /\ streams.demand > 0 /\ "demand" \in Purpose
        BY <2>2 DEF StreamUnwatched, Purpose
      <3>2. /\ streams' \in GateState /\ streams'.demand = streams.demand - 1
            /\ streams'.last_demand_end
                 = IF streams.demand = 1 THEN now ELSE streams.last_demand_end
        BY <1>1, <3>1, EndedShows
      <3> QED
        BY <1>1, <2>2, <3>1, <3>2 DEF StreamUnwatched, GateState
    <2> QED
      BY <2>1, <2>2
  <1>3. ClockStage'
    BY <1>0 DEF ClockStage, Running, gateVars
  <1>4. TrackedHolds'
    BY <1>0 DEF TrackedHolds, UsedIsTracked, Running, gateVars
  <1>5. WindowPassed'
    <2>1. /\ pub.last_demand_end \in Nat /\ streams'.last_demand_end \in Nat
          /\ streams'.demand \in Nat
      BY <1>1, <1>2 DEF GateState
    <2>2. lastUse' <= now'
      BY <1>0, <1>1, <1>2 DEF WindowPassed
    <2>3. ~Busy' => lastUse' <= LastDemandEnd'
      BY <1>0, <1>1, <1>2, <2>1 DEF Busy, LastDemandEnd, Later, gateVars
    <2>4. watch' \in {"reserve", "reserving", "reserved"} => since' + Window <= now'
      BY <1>0 DEF WindowPassed
    <2> QED
      BY <2>2, <2>3, <2>4 DEF WindowPassed
  <1>6. since' \in Nat
    BY <1>0 DEF IdleTypeOK
  <1>7. released' \in BOOLEAN
    BY <1>0, Zenon DEF IdleTypeOK
  <1> QED
    BY <1>0, <1>1, <1>2, <1>3, <1>4, <1>5, <1>6, <1>7, Beside DEF IdleTypeOK

\* Where the window starts is a time.
LEMMA IdleStartType == ASSUME IdleTypeOK PROVE IdleStart \in Nat
  BY DEF IdleTypeOK, GateTypeOK, GateState, IdleStart, LastDemandEnd, Later, Unknown

\* The watch reads, sleeps, wakes and finds the gate held, without the gate: it
\* goes to reserve only a window after the idle time began.
LEMMA WaitKeeps ==
  ASSUME IdleInv, \/ Check \/ Wakes \/ Changed \/ FindsHeld
                  \/ Fails /\ watch \in {"check", "reserve"}
  PROVE  IdleInv'
  <1> USE DEF IdleInv, Unknown
  <1>0. /\ IdleStart \in Nat /\ now \in Nat /\ since \in Nat /\ wake \in Nat
        /\ Window \in Nat /\ Poll \in Nat /\ failures \in Nat
    BY IdleBounds, IdleStartType DEF IdleTypeOK, GateTypeOK
  <1>1. /\ UNCHANGED <<gateVars, now, streams, released, tracked, lastUse, uses>>
        /\ watch \in {"check", "sleep", "reserve", "held"}
        /\ watch' \in {"check", "sleep", "reserve", "held"}
        /\ since' \in Nat /\ wake' \in Nat /\ failures' \in Nat
        /\ watch' = "reserve" => since' + Window <= now
    <2>1. CASE Check
      <3>1. CASE IdleStart = 0
        BY <1>0, <2>1, <3>1 DEF Check, SleepUntil
      <3>2. CASE IdleStart # 0 /\ now < IdleStart + Window
        BY <1>0, <2>1, <3>2 DEF Check, SleepUntil
      <3>3. CASE IdleStart # 0 /\ ~(now < IdleStart + Window)
        BY <1>0, <2>1, <3>3 DEF Check
      <3> QED
        BY <3>1, <3>2, <3>3
    <2>2. CASE Wakes \/ Changed \/ FindsHeld
      BY <1>0, <2>2 DEF Wakes, Changed, FindsHeld
    <2>3. CASE Fails /\ watch \in {"check", "reserve"}
      BY <1>0, <2>3 DEF Fails, Failure, SleepUntil
    <2> QED
      BY <2>1, <2>2, <2>3
  <1>2. ClockStage'
    BY <1>1 DEF ClockStage, gateVars
  <1>3. TrackedHolds'
    <2>1. ~released /\ Running /\ Running'
      BY <1>1 DEF TrackedHolds, Running
    <2> QED
      BY <1>1, <2>1 DEF TrackedHolds, UsedIsTracked, gateVars
  <1>4. WindowPassed'
    <2>1. Busy' = Busy /\ LastDemandEnd' = LastDemandEnd
      BY <1>1 DEF Busy, LastDemandEnd, Later, gateVars
    <2> QED
      BY <1>1, <2>1 DEF WindowPassed
  <1> QED
    BY <1>0, <1>1, <1>2, <1>3, <1>4, Beside DEF IdleTypeOK

\* The clock's own operation of the gate, as a reservation: it publishes no
\* demand, and ends none.
LEMMA ClockOperation ==
  ASSUME IdleInv, Operation(Clock), purpose[Clock] = "reservation" \/ stage[Clock] # "holding",
         UNCHANGED <<now, streams, tracked, lastUse, uses>>,
         watch' \in {"none", "check", "sleep", "reserve", "held", "reserving", "reserved",
                     "dropping", "retiring", "retired", "ended"},
         since' \in Nat, wake' \in Nat, released' \in BOOLEAN, failures' \in Nat,
         ClockStage', released' => watch' \in {"retired", "ended"},
         tracked = {} \/ (watch' = "reserving" /\ ~released'),
         watch' \in {"reserving", "reserved"} => since' + Window <= now,
         watch' # "reserve"
  PROVE  IdleInv'
  <1> USE IdleBounds
  <1>1. GateInv' /\ Counted'
    BY GateKeepsLines, GateKeepsCount DEF IdleInv, IdleTypeOK, GateTypeOK
  <1>2. IdleTypeOK'
    BY <1>1, IdleTypes DEF IdleInv, IdleTypeOK, GateTypeOK
  <1>3. TrackedHolds'
    <2>1. \A u \in tracked : u \in Tasks /\ u # Clock
      BY DEF IdleInv, IdleTypeOK, Users
    <2>2. \A u \in tracked : stage'[u] = stage[u] /\ purpose'[u] = purpose[u]
      BY <2>1, OperationFrame DEF IdleInv
    <2> QED
      BY <2>2 DEF IdleInv, TrackedHolds, UsedIsTracked, Running
  <1>4. WindowPassed'
    <2>1. pub'.demand >= pub.demand /\ pub'.last_demand_end = pub.last_demand_end
      BY OperationShows DEF IdleInv, IdleTypeOK, GateTypeOK, Drop
    <2>2. lastUse' <= now' /\ (~Busy' => lastUse' <= LastDemandEnd')
      BY <1>1, <2>1, LastUseKept DEF Counted
    <2> QED
      BY <2>2 DEF WindowPassed
  <1> QED
    BY <1>1, <1>2, <1>3, <1>4 DEF IdleInv

\* The watch reserves the gate, reads again under the reservation, lets it go
\* or retires the conversation.
LEMMA HoldKeeps ==
  ASSUME IdleInv, \/ Reserve \/ Reserved \/ ReadAgain \/ Retires \/ LetsGo
                  \/ Fails /\ watch \in {"reserved", "retiring"}
  PROVE  IdleInv'
  <1> USE IdleBounds
  <1>0. /\ IdleStart \in Nat /\ now \in Nat /\ since \in Nat /\ wake \in Nat
        /\ Window \in Nat /\ Poll \in Nat /\ failures \in Nat /\ stage \in [Tasks -> Stage]
        /\ purpose \in [Tasks -> Purpose]
    BY IdleStartType DEF IdleInv, IdleTypeOK, GateTypeOK
  <1>1. CASE Reserve
    <2>1. Operation(Clock)
      BY <1>1 DEF Reserve, Operation, Purpose
    <2>2. /\ UNCHANGED <<now, streams, since, wake, released, tracked, lastUse, uses, failures>>
          /\ watch = "reserve" /\ watch' = "reserving"
          /\ stage[Clock] = "out" /\ stage'[Clock] = "taken" /\ purpose'[Clock] = "reservation"
      BY <1>0, <1>1 DEF Reserve, TryTake, Join
    <2>3. ~released /\ since + Window <= now
      BY <2>2 DEF IdleInv, TrackedHolds, WindowPassed
    <2>4. ClockStage'
      BY <2>2 DEF ClockStage
    <2> QED
      BY <1>0, <2>1, <2>2, <2>3, <2>4, ClockOperation DEF IdleInv, IdleTypeOK
  <1>2. CASE Reserved
    <2>1. Operation(Clock)
      BY <1>2 DEF Reserved, Operation
    <2>2. /\ UNCHANGED <<now, streams, since, wake, released, tracked, lastUse, uses, failures>>
          /\ watch = "reserving" /\ watch' = "reserved"
          /\ stage[Clock] = "taken" /\ stage'[Clock] = "holding"
          /\ purpose'[Clock] = purpose[Clock]
      BY <1>0, <1>2 DEF Reserved, Admit
    <2>3. ~released /\ since + Window <= now /\ purpose[Clock] = "reservation"
      BY <2>2 DEF IdleInv, TrackedHolds, WindowPassed, ClockStage
    <2>4. ClockStage' /\ tracked = {}
      BY <2>2, <2>3, ClockAlone DEF ClockStage
    <2> QED
      BY <1>0, <2>1, <2>2, <2>3, <2>4, ClockOperation DEF IdleInv, IdleTypeOK
  <1>3. CASE \/ ReadAgain /\ UsedSince
             \/ Fails /\ watch \in {"reserved", "retiring"}
    <2>1. Drop(Clock) /\ Operation(Clock)
      BY <1>3 DEF ReadAgain, Fails, Operation
    <2>2. /\ UNCHANGED <<now, streams, released, tracked, lastUse, uses>>
          /\ watch \in {"reserved", "retiring"} /\ watch' = "dropping"
          /\ since' \in Nat /\ wake' \in Nat /\ failures' \in Nat
          /\ stage[Clock] = "holding" /\ stage'[Clock] = "leaving"
          /\ purpose'[Clock] = purpose[Clock]
      BY <1>0, <1>3, <2>1 DEF ReadAgain, Fails, Failure, Drop
    <2>3. ~released /\ purpose[Clock] = "reservation"
      BY <2>2 DEF IdleInv, TrackedHolds, ClockStage
    <2>4. ClockStage' /\ tracked = {}
      BY <2>2, <2>3, ClockAlone DEF ClockStage
    <2> QED
      BY <1>0, <2>1, <2>2, <2>3, <2>4, ClockOperation DEF IdleInv, IdleTypeOK
  <1>4. CASE ReadAgain /\ ~UsedSince
    <2>1. /\ UNCHANGED <<gateVars, now, streams, released, tracked, lastUse, uses, failures,
                         since, wake>>
          /\ watch = "reserved" /\ watch' = "retiring"
      BY <1>4 DEF ReadAgain
    <2>2. ClockStage'
      BY <2>1 DEF IdleInv, ClockStage, gateVars
    <2>3. TrackedHolds'
      BY <2>1 DEF IdleInv, TrackedHolds, UsedIsTracked, Running, gateVars
    <2>4. WindowPassed'
      <3>1. Busy' = Busy /\ LastDemandEnd' = LastDemandEnd
        BY <2>1 DEF Busy, LastDemandEnd, Later, gateVars
      <3> QED
        BY <2>1, <3>1 DEF IdleInv, WindowPassed
    <2> QED
      BY <1>0, <2>1, <2>2, <2>3, <2>4, Beside DEF IdleInv, IdleTypeOK
  <1>5. CASE Retires
    <2>1. Operation(Clock)
      BY <1>5 DEF Retires, Operation
    <2>2. /\ UNCHANGED <<now, streams, since, wake, tracked, lastUse, uses, failures>>
          /\ watch = "retiring" /\ watch' = "retired" /\ released' \in BOOLEAN
          /\ stage[Clock] = "holding" /\ stage'[Clock] = "leaving"
          /\ purpose'[Clock] = purpose[Clock]
      BY <1>0, <1>5 DEF Retires, Drop
    <2>3. purpose[Clock] = "reservation"
      BY <2>2 DEF IdleInv, ClockStage
    <2>4. ClockStage' /\ tracked = {}
      BY <2>2, <2>3, ClockAlone DEF ClockStage
    <2> QED
      BY <1>0, <2>1, <2>2, <2>3, <2>4, ClockOperation DEF IdleInv, IdleTypeOK
  <1>6. CASE LetsGo
    <2>1. Operation(Clock)
      BY <1>6 DEF LetsGo, Operation
    <2>2. /\ UNCHANGED <<now, streams, since, wake, released, tracked, lastUse, uses, failures>>
          /\ \/ watch = "retired" /\ watch' = "ended"
             \/ watch = "dropping" /\ watch' = "sleep"
          /\ stage[Clock] = "leaving" /\ stage'[Clock] = "out"
      BY <1>0, <1>6 DEF LetsGo, Release
    <2>3. purpose[Clock] = "reservation" /\ (released => watch = "retired")
      BY <2>2 DEF IdleInv, ClockStage, TrackedHolds
    <2>4. ClockStage' /\ tracked = {}
      BY <2>2, <2>3, ClockAlone DEF ClockStage
    <2> QED
      BY <1>0, <2>1, <2>2, <2>3, <2>4, ClockOperation DEF IdleInv, IdleTypeOK
  <1> QED
    BY <1>1, <1>2, <1>3, <1>4, <1>5, <1>6

\* Every step keeps the invariant.
LEMMA IdleStep == IdleInv /\ [IdleNext]_idleVars => IdleInv'
  <1> SUFFICES ASSUME IdleInv, [IdleNext]_idleVars PROVE IdleInv'
    OBVIOUS
  <1>1. CASE Tick
    BY <1>1, TickKeeps
  <1>2. ASSUME NEW t \in Users,
               \/ \E p \in Purpose : Asks(t, p)
               \/ GoesOn(t) \/ GivesUp(t) \/ Leaves(t)
        PROVE  IdleInv'
    <2>1. /\ Operation(t) /\ stage[t] # "holding"
          /\ UNCHANGED <<now, streams, watchVars, failures, tracked, lastUse>>
      BY <1>2 DEF Asks, GoesOn, GivesUp, Leaves, Operation, Ask, Take, Admit, GiveUp, Release
    <2>2. uses' \in Nat
      BY <1>2 DEF Asks, GoesOn, GivesUp, Leaves, Use, IdleInv, IdleTypeOK
    <2> QED
      BY <2>1, <2>2, UserOperation
  <1>3. ASSUME NEW t \in Users, Ends(t) PROVE IdleInv'
    <2>1. /\ Operation(t) /\ stage[t] = "holding"
          /\ UNCHANGED <<now, streams, watchVars, failures>> /\ uses' \in Nat
          /\ tracked' = tracked \ {t}
          /\ lastUse' = IF purpose[t] = "demand" THEN now ELSE lastUse
      BY <1>3 DEF Ends, Operation, Drop, IdleInv, IdleTypeOK
    <2> QED
      BY <2>1, UserOperation
  <1>4. ASSUME NEW t \in Users, AdmissionTracks(t) \/ Switches(t) PROVE IdleInv'
    BY <1>4, TrackingKeeps
  <1>5. CASE StreamWatched \/ StreamUnwatched
    BY <1>5, StreamKeeps
  <1>6. CASE WatchNext
    BY <1>6, WaitKeeps, HoldKeeps DEF WatchNext, Fails
  <1>7. CASE UNCHANGED idleVars
    <2>1. ClockStage' /\ TrackedHolds'
      BY <1>7 DEF idleVars, gateVars, watchVars, IdleInv, ClockStage, TrackedHolds,
         UsedIsTracked, Running
    <2>2. WindowPassed'
      BY <1>7 DEF idleVars, gateVars, watchVars, IdleInv, WindowPassed, Busy, LastDemandEnd, Later
    <2> QED
      BY <1>7, <2>1, <2>2, Beside DEF idleVars, watchVars, IdleInv, IdleTypeOK, GateTypeOK
  <1> QED
    BY <1>1, <1>2, <1>3, <1>4, <1>5, <1>6, <1>7 DEF IdleNext, UserNext

\* The invariant holds in every behaviour of the conversation and its clock.
LEMMA IdleInvariance == IdleSpec => []IdleInv
  BY IdleStarts, IdleStep, PTL DEF IdleSpec

\* The gates and the clock stay in their domains: a hold that ends was counted,
\* whatever comes and goes, for any window, poll and number of uses.
THEOREM IdleTyped == IdleSpec => []IdleTypeOK
  <1>1. IdleInv => IdleTypeOK
    BY DEF IdleInv
  <1> QED
    BY <1>1, IdleInvariance, PTL

\* The clock's reservation and a transition's are alone in the conversation's
\* gate, in fact and as published.
THEOREM IdleGateAlone == IdleSpec => [](ReservedAlone /\ ReservedSeenAlone)
  <1>1. IdleInv => ReservedAlone /\ ReservedSeenAlone
    BY GateAlone, SeenAlone DEF IdleInv
  <1> QED
    BY <1>1, IdleInvariance, PTL

\* While the release is sent to the devices the clock is alone in the gate.
THEOREM ReleaseIsAlone == IdleSpec => []ReleasedAlone
  <1>1. IdleInv => ReleasedAlone
    BY ClockAlone DEF IdleInv, ReleasedAlone, ClockStage
  <1> QED
    BY <1>1, IdleInvariance, PTL

\* A conversation with a tracked admission is on the clock and not released.
THEOREM UseIsTracked == IdleSpec => []UsedIsTracked
  <1>1. IdleInv => UsedIsTracked
    BY DEF IdleInv, TrackedHolds
  <1> QED
    BY <1>1, IdleInvariance, PTL

\* A retirement starts only a whole window after the last use of either gate,
\* with nothing in use, however uses and the reservation interleave.
THEOREM RetirementIsIdle == IdleSpec => RetiresOnlyIdle
  <1>1. ASSUME IdleInv, [IdleNext]_idleVars, watch # "retiring", watch' = "retiring"
        PROVE  /\ \A t \in Users : stage[t] # "holding"
               /\ streams.demand = 0
               /\ now >= lastUse + Window
    <2>1. ReadAgain /\ ~UsedSince /\ watch = "reserved"
      BY <1>1 DEF IdleNext, UserNext, WatchNext, Tick, Asks, GoesOn, GivesUp, Ends, Leaves,
         AdmissionTracks, Switches, StreamWatched, StreamUnwatched, TrackIdle, Started, Check,
         Wakes, Changed, Reserve, Reserved, FindsHeld, ReadAgain, Retires, LetsGo, Fails,
         SleepUntil, idleVars, watchVars
    <2>2. stage[Clock] = "holding"
      BY <1>1, <2>1 DEF IdleInv, ClockStage
    <2>3. \A t \in Users : stage[t] # "holding"
      BY <1>1, <2>2, ClockAlone DEF Inside, Users
    <2>4. ~Busy /\ ~(LastDemandEnd > since) /\ since + Window <= now /\ lastUse <= LastDemandEnd
      BY <1>1, <2>1 DEF UsedSince, IdleInv, WindowPassed
    <2>5. /\ streams.demand \in Nat /\ LastDemandEnd \in Nat /\ since \in Nat /\ lastUse \in Nat
          /\ now \in Nat /\ Window \in Nat
      BY <1>1, IdleBounds DEF IdleInv, IdleTypeOK, GateTypeOK, GateState, LastDemandEnd, Later
    <2> QED
      BY <2>3, <2>4, <2>5 DEF Busy
  <1>2. IdleInv /\ [IdleNext]_idleVars
          => [watch # "retiring" /\ watch' = "retiring" =>
                /\ \A t \in Users : stage[t] # "holding"
                /\ streams.demand = 0
                /\ now >= lastUse + Window]_idleVars
    BY <1>1
  <1> QED
    BY <1>2, IdleInvariance, PTL DEF IdleSpec, RetiresOnlyIdle
=============================================================================
