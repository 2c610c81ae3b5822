----------------------------- MODULE MCSession -----------------------------
(* A session with the handshake, ordinary and credential-bearing callers  *)
(* and one call of close.                                                  *)
EXTENDS Session
=============================================================================
