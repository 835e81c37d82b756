----------------------- MODULE KeyedSerialGateProofs -----------------------
(***************************************************************************)
(* One holder of a key at a time, for any callers, keys and semaphores.    *)
(***************************************************************************)
EXTENDS KeyedSerialGate, TLAPS

\* An empty map satisfies the invariant.
LEMMA SerialInit == Init => SerialInv
  BY DEF Init, SerialInv, TypeOK, Handles, Lines, InLine

\* A lookup that leaves the caller with a handle keeps the handles right.
LEMMA LookupHandles ==
  ASSUME SerialInv, NEW c \in Callers, NEW k \in Keys, NEW s \in Semaphores, Lookup(c, k, s),
         NEW w \in {"asked", "holding"}, stage' = [stage EXCEPT ![c] = w]
  PROVE  Handles' /\ gates' \in [Keys -> Semaphores \cup {NoSemaphore}]
         /\ key' \in [Callers -> Keys] /\ handle' \in [Callers -> Semaphores \cup {NoSemaphore}]
         /\ handle'[c] = s /\ s # NoSemaphore
         /\ \A d \in Callers \ {c} : handle'[d] = handle[d] /\ key'[d] = key[d]
  BY SemaphoreAssumption DEF SerialInv, TypeOK, Handles, Lookup, Entry, Unused

\* Every call, wait, give-up and drop keeps the handles and the lines.
LEMMA SerialStep == SerialInv /\ [Next]_vars => SerialInv'
  <1> SUFFICES ASSUME SerialInv, [Next]_vars PROVE SerialInv'
    OBVIOUS
  <1>1. ASSUME NEW c \in Callers, NEW k \in Keys, NEW s \in Semaphores, Acquire(c, k, s)
        PROVE  SerialInv'
    <2>1. Handles' /\ TypeOK' /\ handle'[c] = s
          /\ \A d \in Callers \ {c} : handle'[d] = handle[d]
      BY <1>1, LookupHandles DEF Acquire, SerialInv, TypeOK
    <2>2. stage[c] = "out" /\ stage' = [stage EXCEPT ![c] = "asked"] /\ ahead' = ahead
      BY <1>1 DEF Acquire, Lookup
    <2>3. Lines'
      BY <2>1, <2>2 DEF SerialInv, TypeOK, Lines, InLine
    <2> QED
      BY <2>1, <2>3 DEF SerialInv
  <1>2. ASSUME NEW c \in Callers, NEW k \in Keys, NEW s \in Semaphores, TryAcquire(c, k, s)
        PROVE  SerialInv'
    <2>1. Handles' /\ TypeOK' /\ handle'[c] = s
          /\ \A d \in Callers \ {c} : handle'[d] = handle[d]
      BY <1>2, LookupHandles DEF TryAcquire, SerialInv, TypeOK
    <2>2. /\ stage[c] = "out" /\ stage' = [stage EXCEPT ![c] = "holding"]
          /\ ahead' = ahead /\ InLine(s) = {}
      BY <1>2 DEF TryAcquire, Lookup
    <2>3. Lines'
      BY <2>1, <2>2 DEF SerialInv, TypeOK, Lines, InLine
    <2> QED
      BY <2>1, <2>3 DEF SerialInv
  <1>3. ASSUME NEW c \in Callers, Wait(c) PROVE SerialInv'
    BY <1>3 DEF SerialInv, TypeOK, Handles, Lines, InLine, Wait
  <1>4. ASSUME NEW c \in Callers, Hold(c) PROVE SerialInv'
    BY <1>4 DEF SerialInv, TypeOK, Handles, Lines, InLine, Hold
  <1>5. ASSUME NEW c \in Callers, GiveUp(c) PROVE SerialInv'
    BY <1>5 DEF SerialInv, TypeOK, Handles, Lines, InLine, GiveUp, Gone
  <1>6. ASSUME NEW c \in Callers, Drop(c) PROVE SerialInv'
    BY <1>6 DEF SerialInv, TypeOK, Handles, Lines, InLine, Drop, Gone, LastHandle
  <1>7. CASE UNCHANGED vars
    BY <1>7 DEF SerialInv, TypeOK, Handles, Lines, InLine, vars
  <1> QED
    BY <1>1, <1>2, <1>3, <1>4, <1>5, <1>6, <1>7 DEF Next

\* Holders of one key are in one line with nobody ahead, so they are one.
LEMMA SerialOneHolder == SerialInv => OneHolder
  BY DEF SerialInv, TypeOK, Handles, Lines, InLine, OneHolder

\* Who is ahead of a caller has its semaphore, and so its key.
LEMMA SerialOwnKey == SerialInv => OwnKeyOnly
  BY DEF SerialInv, TypeOK, Handles, Lines, InLine, OwnKeyOnly

\* Callers of one key hold its turn one at a time, however entries of the map
\* are made, removed and made again while calls come, give up and end.
THEOREM SerialExclusion == Spec => []OneHolder
  <1> QED
    BY SerialInit, SerialStep, SerialOneHolder, PTL DEF Spec

\* Callers of different keys do not wait for each other.
THEOREM SerialIndependence == Spec => []OwnKeyOnly
  <1> QED
    BY SerialInit, SerialStep, SerialOwnKey, PTL DEF Spec
=============================================================================
