------------------------------- MODULE MCLink -------------------------------
(***************************************************************************)
(* Instances of the link: one message of each end in a session, and one of *)
(* the runner against two of the backend.                                  *)
(***************************************************************************)
EXTENDS LinkRefinement

BothBound == [e \in End |-> 1]
DownBound == [e \in End |-> IF e = "runner" THEN 1 ELSE 2]
=============================================================================
