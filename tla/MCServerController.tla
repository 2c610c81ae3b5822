------------------------- MODULE MCServerController -------------------------
(* One or two endpoints, one server id, and the calls that race with each  *)
(* other.  The calls of start are alike, so the safety runs may permute    *)
(* them.                                                                   *)
EXTENDS ServerController, TLC

VisitSymmetry == Permutations(Visits)
=============================================================================
