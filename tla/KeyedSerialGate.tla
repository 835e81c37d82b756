-------------------------- MODULE KeyedSerialGate --------------------------
(***************************************************************************)
(* Turns by key (crates/shared-gates/src/serial.rs): callers of one key    *)
(* hold their turn one at a time.  The map holds one semaphore of a key    *)
(* that is used, and callers hold handles on it; the permit's drop removes *)
(* the entry when the map's handle is the last.  The map's lock makes each *)
(* lookup and each drop one step; the wait for the semaphore is outside    *)
(* it, and so is the end of a call that is dropped while it waits.         *)
(*                                                                         *)
(* tokio's semaphore is modelled by who is ahead of whom: the caller with  *)
(* nobody ahead of it has the permit.                                      *)
(***************************************************************************)
EXTENDS Naturals, FiniteSets

CONSTANTS
  Callers,
  Keys,
  Semaphores,     \* the semaphores there can be
  NoSemaphore

ASSUME SemaphoreAssumption == NoSemaphore \notin Semaphores

VARIABLES
  gates,      \* the map: each key's semaphore
  stage,      \* where each caller is
  key,        \* the key it called for
  handle,     \* the semaphore it has a handle on
  ahead       \* the callers that came to its semaphore before it

vars == <<gates, stage, key, handle, ahead>>

Init ==
  /\ gates = [k \in Keys |-> NoSemaphore]
  /\ stage = [c \in Callers |-> "out"]
  /\ key \in [Callers -> Keys]
  /\ handle = [c \in Callers |-> NoSemaphore]
  /\ ahead = [c \in Callers |-> {}]

\* A semaphore nobody refers to: what a new one may be.
Unused(s) == (\A k \in Keys : gates[k] # s) /\ (\A c \in Callers : handle[c] # s)

\* Mutant of Entry: every lookup makes a semaphore.
EntryAnew(k, s) == s \in Semaphores /\ Unused(s)

\* The key's semaphore, made when the map has none.
Entry(k, s) ==
  IF gates[k] = NoSemaphore THEN s \in Semaphores /\ Unused(s) ELSE s = gates[k]

\* The callers that hold or wait for semaphore s.
InLine(s) == {c \in Callers : stage[c] \in {"waiting", "holding"} /\ handle[c] = s}

Lookup(c, k, s) ==
  /\ stage[c] = "out"
  /\ Entry(k, s)
  /\ gates' = [gates EXCEPT ![k] = s]
  /\ key' = [key EXCEPT ![c] = k]
  /\ handle' = [handle EXCEPT ![c] = s]

\* acquire: the lookup under the lock.
Acquire(c, k, s) ==
  /\ Lookup(c, k, s)
  /\ stage' = [stage EXCEPT ![c] = "asked"]
  /\ UNCHANGED ahead

\* The semaphore is asked once the lock is let go: it lets the caller in at
\* once, or the caller waits.
Wait(c) ==
  /\ stage[c] = "asked"
  /\ stage' = [stage EXCEPT ![c] = IF InLine(handle[c]) = {} THEN "holding" ELSE "waiting"]
  /\ ahead' = [ahead EXCEPT ![c] = InLine(handle[c])]
  /\ UNCHANGED <<gates, key, handle>>

\* The semaphore let the caller in.
Hold(c) ==
  /\ stage[c] = "waiting" /\ ahead[c] = {}
  /\ stage' = [stage EXCEPT ![c] = "holding"]
  /\ UNCHANGED <<gates, key, handle, ahead>>

\* try_acquire: the lookup and the try under one lock.  A refused caller
\* leaves everything as it was.
TryAcquire(c, k, s) ==
  /\ Lookup(c, k, s)
  /\ InLine(s) = {}
  /\ stage' = [stage EXCEPT ![c] = "holding"]
  /\ UNCHANGED ahead

\* Mutant of Gone: the caller stays ahead of the others.
GoneInLine(c) ==
  /\ stage' = [stage EXCEPT ![c] = "out"]
  /\ handle' = [handle EXCEPT ![c] = NoSemaphore]
  /\ UNCHANGED <<ahead, key>>

\* Caller c lets its handle and its place in line go.
Gone(c) ==
  /\ stage' = [stage EXCEPT ![c] = "out"]
  /\ handle' = [handle EXCEPT ![c] = NoSemaphore]
  /\ ahead' = [d \in Callers |-> IF d = c THEN {} ELSE ahead[d] \ {c}]
  /\ key' = key

\* The call is dropped while it waits: its handle goes, without the lock.
GiveUp(c) ==
  /\ stage[c] = "waiting"
  /\ Gone(c)
  /\ UNCHANGED gates

\* Mutant of LastHandle: only other holders count, not those that wait.
LastHandleOfHolders(c) ==
  \A d \in Callers \ {c} : stage[d] = "holding" => handle[d] # gates[key[c]]

\* Only the map has a handle on the semaphore of caller c's key, once c let
\* its own go.
LastHandle(c) == \A d \in Callers \ {c} : handle[d] # gates[key[c]]

\* The permit's drop.
Drop(c) ==
  /\ stage[c] = "holding"
  /\ Gone(c)
  /\ gates' = IF LastHandle(c) THEN [gates EXCEPT ![key[c]] = NoSemaphore] ELSE gates

Next ==
  \E c \in Callers :
    \/ \E k \in Keys, s \in Semaphores : Acquire(c, k, s) \/ TryAcquire(c, k, s)
    \/ Wait(c) \/ Hold(c) \/ GiveUp(c) \/ Drop(c)

Spec == Init /\ [][Next]_vars

\* A caller's future is polled, and turns end.
FairSpec == Spec /\ \A c \in Callers : WF_vars(Wait(c) \/ Hold(c) \/ Drop(c))

-----------------------------------------------------------------------------
\* Every variable is in its domain.
TypeOK ==
  /\ gates \in [Keys -> Semaphores \cup {NoSemaphore}]
  /\ stage \in [Callers -> {"out", "asked", "waiting", "holding"}]
  /\ key \in [Callers -> Keys]
  /\ handle \in [Callers -> Semaphores \cup {NoSemaphore}]
  /\ ahead \in [Callers -> SUBSET Callers]

\* A caller's handle is on its key's semaphore, which no other key has.
Handles ==
  /\ \A c \in Callers :
       IF stage[c] = "out" THEN handle[c] = NoSemaphore
       ELSE handle[c] = gates[key[c]] /\ handle[c] # NoSemaphore
  /\ \A k, l \in Keys : gates[k] = gates[l] /\ gates[k] # NoSemaphore => k = l

\* The callers of one semaphore are in line one behind the other.
Lines ==
  /\ \A c \in Callers : ahead[c] \subseteq InLine(handle[c]) \ {c}
  /\ \A c \in Callers : stage[c] # "waiting" => ahead[c] = {}
  /\ \A c, d \in Callers :
       (c # d /\ handle[c] = handle[d] /\ c \in InLine(handle[c]) /\ d \in InLine(handle[d]))
         => c \in ahead[d] \/ d \in ahead[c]

\* The inductive invariant: an entry is never removed, or made a second time,
\* under a caller that has a handle on it.
SerialInv == TypeOK /\ Handles /\ Lines

\* Two callers never hold the turn of one key, whichever semaphores their
\* handles are on: an entry removed too early would make a second one.
OneHolder ==
  \A c, d \in Callers :
    stage[c] = "holding" /\ stage[d] = "holding" /\ key[c] = key[d] => c = d

\* Keys do not wait for each other: who waits has only callers of its own key
\* ahead of it, each of which holds or waits.
OwnKeyOnly ==
  \A c \in Callers : \A d \in ahead[c] :
    key[d] = key[c] /\ stage[d] \in {"waiting", "holding"}

\* A caller that stays gets its turn.
EventuallyHolds ==
  \A c \in Callers : stage[c] \in {"asked", "waiting"} ~> stage[c] \in {"holding", "out"}
=============================================================================
