---------------------------- MODULE ActivityGate ----------------------------
(***************************************************************************)
(* Admission to one resource (crates/shared-gates/src/activity.rs): many   *)
(* leases at once, or one reservation alone, over tokio's first-in,        *)
(* first-out semaphore, with a published state.                            *)
(*                                                                         *)
(* The semaphore is modelled by who is ahead of whom: a task that asked    *)
(* stands in line until it gives up or releases.  A lease is one permit    *)
(* and a reservation all of them, and a reservation that waits has taken   *)
(* the free ones, so a lease has its permit when no reservation is ahead   *)
(* of it and a reservation has its permits when nobody is.  PERMITS is     *)
(* taken to be above the leases held at once.  Tasks run on several        *)
(* threads: taking a permit and publishing it are two steps, and so are    *)
(* publishing the end and releasing.                                       *)
(***************************************************************************)
EXTENDS Naturals, FiniteSets

CONSTANT Tasks          \* the callers of the gate

VARIABLES
  stage,     \* where each task is with the gate
  purpose,   \* what it asked for
  ahead,     \* who stands in line ahead of it
  pub,       \* the published state (GateState)
  now        \* the clock

gateVars == <<stage, purpose, ahead, pub>>

Purpose == {"demand", "maintenance", "reservation"}
Leases == {"demand", "maintenance"}
Stage == {"out", "waiting", "taken", "holding", "leaving"}
Never == 0              \* last_demand_end before any demand ended

GateState == [demand : Nat, maintenance : Nat, reserved : BOOLEAN, last_demand_end : Nat]
Quiet == [demand |-> 0, maintenance |-> 0, reserved |-> FALSE, last_demand_end |-> Never]

GateInit ==
  /\ stage = [t \in Tasks |-> "out"]
  /\ purpose = [t \in Tasks |-> "demand"]
  /\ ahead = [t \in Tasks |-> {}]
  /\ pub = Quiet

InLine == {t \in Tasks : stage[t] # "out"}

\* Mutant of HasPermits: a lease passes a reservation that is ahead of it.
HasPermitsBarging(t) == purpose[t] = "reservation" => ahead[t] = {}

\* The semaphore gave t its permits.
HasPermits(t) ==
  IF purpose[t] = "reservation" THEN ahead[t] = {}
  ELSE \A u \in ahead[t] : purpose[u] # "reservation"

Join(t, p) ==
  /\ purpose' = [purpose EXCEPT ![t] = p]
  /\ ahead' = [ahead EXCEPT ![t] = InLine]

Leave(t) == ahead' = [u \in Tasks |-> IF u = t THEN {} ELSE ahead[u] \ {t}]

\* What the state shows once a hold of purpose p began and once it ended.
Began(state, p) ==
  IF p = "reservation" THEN [state EXCEPT !.reserved = TRUE]
  ELSE [state EXCEPT ![p] = @ + 1]

Ended(state, p, time) ==
  IF p = "reservation" THEN [state EXCEPT !.reserved = FALSE]
  ELSE [state EXCEPT ![p] = @ - 1,
                     !.last_demand_end =
                       IF p = "demand" /\ state.demand = 1 THEN time ELSE @]

-----------------------------------------------------------------------------
\* The permits a call of purpose p asks for are there, with nobody waiting.
Free(p) ==
  IF p = "reservation" THEN InLine = {} ELSE \A u \in InLine : purpose[u] # "reservation"

\* enter and reserve: at once, or the call waits in line.
Ask(t, p) ==
  /\ stage[t] = "out"
  /\ stage' = [stage EXCEPT ![t] = IF Free(p) THEN "taken" ELSE "waiting"]
  /\ Join(t, p)
  /\ UNCHANGED pub

\* Its future is polled once its permits are there.
Take(t) ==
  /\ stage[t] = "waiting" /\ HasPermits(t)
  /\ stage' = [stage EXCEPT ![t] = "taken"]
  /\ UNCHANGED <<purpose, ahead, pub>>

\* Mutant of TryTake: decides by the published state.
TryTakeByState(t, p) ==
  /\ stage[t] = "out" /\ ~pub.reserved
  /\ p = "reservation" => pub.demand = 0 /\ pub.maintenance = 0
  /\ stage' = [stage EXCEPT ![t] = "taken"]
  /\ Join(t, p)
  /\ UNCHANGED pub

\* try_enter and try_reserve: at once or not at all.
TryTake(t, p) ==
  /\ stage[t] = "out" /\ Free(p)
  /\ stage' = [stage EXCEPT ![t] = "taken"]
  /\ Join(t, p)
  /\ UNCHANGED pub

\* The call's future is dropped before it resolved: it gives up its place.
GiveUp(t) ==
  /\ stage[t] = "waiting"
  /\ stage' = [stage EXCEPT ![t] = "out"]
  /\ Leave(t)
  /\ UNCHANGED <<purpose, pub>>

\* Mutant of Admit: the hold is not published.
AdmitUnpublished(t) ==
  /\ stage[t] = "taken"
  /\ stage' = [stage EXCEPT ![t] = "holding"]
  /\ UNCHANGED <<purpose, ahead, pub>>

\* GateLease::admit and Reservation::hold publish the hold.
Admit(t) ==
  /\ stage[t] = "taken"
  /\ stage' = [stage EXCEPT ![t] = "holding"]
  /\ pub' = Began(pub, purpose[t])
  /\ UNCHANGED <<purpose, ahead>>

\* A drop publishes the end first, and then lets the permits go.
Drop(t) ==
  /\ stage[t] = "holding"
  /\ stage' = [stage EXCEPT ![t] = "leaving"]
  /\ pub' = Ended(pub, purpose[t], now)
  /\ UNCHANGED <<purpose, ahead>>

\* Mutant of Release: the permits are not handed on.
ReleaseInLine(t) ==
  /\ stage[t] = "leaving"
  /\ stage' = [stage EXCEPT ![t] = "out"]
  /\ UNCHANGED <<purpose, ahead, pub>>

Release(t) ==
  /\ stage[t] = "leaving"
  /\ stage' = [stage EXCEPT ![t] = "out"]
  /\ Leave(t)
  /\ UNCHANGED <<purpose, pub>>

-----------------------------------------------------------------------------
\* The gate alone, its clock standing still.
GateNext ==
  /\ \E t \in Tasks :
       \/ \E p \in Purpose : Ask(t, p) \/ TryTake(t, p)
       \/ Take(t) \/ GiveUp(t) \/ Admit(t) \/ Drop(t) \/ Release(t)
  /\ UNCHANGED now

GateStart == GateInit /\ now = 1

GateSpec == GateStart /\ [][GateNext]_<<gateVars, now>>

\* Every variable is in its domain: a hold that ends was published, so neither
\* count of the published state goes below zero (the subtractions of the drop).
GateTypeOK ==
  /\ stage \in [Tasks -> Stage] /\ purpose \in [Tasks -> Purpose]
  /\ ahead \in [Tasks -> SUBSET Tasks]
  /\ pub \in GateState /\ now \in Nat

\* The permits a task took are its own until it releases.
Inside == {t \in Tasks : stage[t] \in {"taken", "holding", "leaving"}}

\* Tasks in line stand one behind the other.
GateLines ==
  /\ \A t \in Tasks : ahead[t] \subseteq InLine \ {t}
  /\ \A t, u \in InLine : t # u => t \in ahead[u] \/ u \in ahead[t]

\* Who is inside has permits, and keeps them while others come and go.
Permitted == \A t \in Inside : HasPermits(t)

\* The inductive invariant behind a reservation's exclusion.
GateInv ==
  /\ stage \in [Tasks -> Stage] /\ purpose \in [Tasks -> Purpose]
  /\ ahead \in [Tasks -> SUBSET Tasks]
  /\ GateLines /\ Permitted

\* A reservation holds the gate alone: from the moment it took the permits
\* until it released them no lease and no other reservation is inside.
ReservedAlone ==
  \A t, u \in Inside : purpose[t] = "reservation" => u = t

\* Who observes the gate reserved sees no lease in it: the one that let the
\* reservation in is not counted any more.
ReservedSeenAlone == pub.reserved => pub.demand = 0 /\ pub.maintenance = 0

\* A caller that stays in line is let in, a reservation too, however many
\* leases come after it.
EventuallyAdmitted ==
  \A t \in Tasks : stage[t] = "waiting" ~> stage[t] # "waiting"
=============================================================================
