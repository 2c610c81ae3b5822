----------------------------- MODULE RpcChannel -----------------------------
(***************************************************************************)
(* What one RPC session promises its callers, whatever the core, the       *)
(* scheduler and the other callers do:                                     *)
(*   - protocol v1 is synchronous: a request line goes out only when no    *)
(*     other request is on the wire;                                       *)
(*   - nothing goes out once the channel is shut;                          *)
(*   - a request that was on the wire and got no reply shuts the channel;  *)
(*   - a credential-bearing request is the last one the channel carries.   *)
(* Session.tla is shown to implement this specification.                   *)
(***************************************************************************)
CONSTANTS
  Requests,      \* every request ever made on the channel
  Credentialed   \* those of them whose parameters carry a secret

VARIABLES
  status,   \* status[r]: "new", "sent", "replied" or "failed"
  live      \* FALSE once the channel is shut

vars == <<status, live>>

TypeOK ==
  /\ status \in [Requests -> {"new", "sent", "replied", "failed"}]
  /\ live \in BOOLEAN

Init ==
  /\ status = [r \in Requests |-> "new"]
  /\ live = TRUE

\* The secret of q has left on this channel.
Leaked(q) == q \in Credentialed /\ status[q] \in {"sent", "replied"}

Send(r) ==
  /\ live
  /\ status[r] = "new"
  /\ \A q \in Requests : status[q] # "sent" /\ ~Leaked(q)
  /\ status' = [status EXCEPT ![r] = "sent"]
  /\ UNCHANGED live

Reply(r) ==
  /\ status[r] = "sent"
  /\ status' = [status EXCEPT ![r] = "replied"]
  /\ UNCHANGED live

\* A request refused before it was sent leaves the channel as it was.
Refuse(r) ==
  /\ status[r] = "new"
  /\ status' = [status EXCEPT ![r] = "failed"]
  /\ UNCHANGED live \/ live' = FALSE

Lose(r) ==
  /\ status[r] = "sent"
  /\ status' = [status EXCEPT ![r] = "failed"]
  /\ live' = FALSE

Shut ==
  /\ live
  /\ live' = FALSE
  /\ UNCHANGED status

Next ==
  \/ \E r \in Requests : Send(r) \/ Reply(r) \/ Refuse(r) \/ Lose(r)
  \/ Shut

Spec == Init /\ [][Next]_vars
=============================================================================
