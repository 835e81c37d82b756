------------------------------ MODULE Delivery ------------------------------
(***************************************************************************)
(* What the runner link promises its two ends, with no connection, number, *)
(* acknowledgement or retry in it: while both ends are in one session each *)
(* has a queue of the messages it wrote, the other handles them from the   *)
(* front, and the session ends as a whole.                                 *)
(***************************************************************************)
EXTENDS Naturals, Sequences

CONSTANTS Ends,      \* the two ends
          Opener,    \* the end that writes nothing before both are in a session
          Nothing    \* what is handled in the turn of a message that lapsed

VARIABLES session,   \* the session both ends are in, 0 when they are in none
          queue,     \* by end: the messages it wrote that are not handled yet
          given      \* by end: what it handled in the session, in order

vars == <<session, queue, given>>

Empty == [e \in Ends |-> <<>>]

Init == session = 0 /\ queue = Empty /\ given = Empty

\* The second end enters a session, in which the first may have written.
Join ==
    /\ session = 0
    /\ session' # 0
    /\ queue'[Opener] = <<>>
    /\ given' = Empty

\* The session ends with all that is in it.
Part == session # 0 /\ session' = 0 /\ queue' = Empty /\ given' = Empty

Write(e) ==
    /\ session # 0
    /\ Len(queue'[e]) = Len(queue[e]) + 1
    /\ queue' = [queue EXCEPT ![e] = Append(@, queue'[e][Len(queue[e]) + 1])]
    /\ UNCHANGED <<session, given>>

\* The other end handles e's oldest message, or nothing in its turn when the
\* message was to end with its connection.
Handle(e, other) ==
    LET m == Head(queue[e])
    IN  /\ queue[e] # <<>> /\ other # e
        /\ queue' = [queue EXCEPT ![e] = Tail(@)]
        /\ \E body \in {m} \cup (IF m.again THEN {} ELSE {Nothing}) :
             given' = [given EXCEPT ![other] = Append(@, body)]
        /\ UNCHANGED session

Next == Join \/ Part \/ \E e \in Ends : Write(e) \/ \E o \in Ends : Handle(e, o)

Spec == Init /\ [][Next]_vars
=============================================================================
