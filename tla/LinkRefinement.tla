--------------------------- MODULE LinkRefinement ---------------------------
(***************************************************************************)
(* The link implements Delivery.  A queue is what its writer keeps beyond  *)
(* the other end's count: what an end still has to write again, what is on *)
(* the wire and what waits in the inbox are all the same messages.         *)
(***************************************************************************)
EXTENDS LinkInvariant

Together == number["runner"] # None /\ number["runner"] = number["backend"]

Unhandled(e) ==
  LET s == sess[e]
  IN  SubSeq(s.kept, sess[Other(e)].received - s.confirmed + 1, Len(s.kept))

Bodies(entries) == [i \in 1 .. Len(entries) |-> entries[i].body]

\* What the two ends share: their session, and in it what each wrote that the
\* other has not handled and what each handled.
Shared == IF Together THEN number["runner"] ELSE None
Queue == [e \in End |-> IF Together THEN Unhandled(e) ELSE <<>>]
Given == [e \in End |-> IF Together THEN Bodies(log[number[e]][e]) ELSE <<>>]

D == INSTANCE Delivery WITH
       Ends <- End, Opener <- "runner",
       session <- Shared, queue <- Queue, given <- Given

\* Seen from the two ends, a session carried over lost, replaced, refused and
\* late connections is one queue in each direction: no step of the reader, the
\* writer, the owner, the adoption or a fault takes from it, repeats in it or
\* reorders it, other than the handling of its front and the session's end.
Delivers == D!Spec
=============================================================================
