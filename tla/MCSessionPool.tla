--------------------------- MODULE MCSessionPool ---------------------------
(* A pool with two opens, which may be local or for the one SSH endpoint,  *)
(* the deletion of that endpoint, and the callers that race with it.       *)
EXTENDS SessionPool
=============================================================================
