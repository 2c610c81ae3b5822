---------------------------- MODULE MCPoolClear ----------------------------
(* clear while sessions are being opened: the cores that ran when it began *)
(* are remembered.                                                         *)
EXTENDS SessionPool

VARIABLE before  \* before[x]: the opens whose core ran when clear x began

Alive == {o \in Opens : child[o] \in {"running", "signalled"}}

ClearInit == Init /\ before = [x \in Clears |-> {}]

ClearNext ==
  /\ Next
  /\ before' = [x \in Clears |->
       IF pc[x] = "idle" /\ pc'[x] # "idle" THEN Alive ELSE before[x]]

ClearSpec == ClearInit /\ [][ClearNext]_<<vars, before>>

(***************************************************************************)
(* What pool.rs and lib.rs say of clear: "drop every session, killing its  *)
(* core process", "kill every core child before the process exits".  Every *)
(* core that ran when clear began is then dead when it returns.            *)
(***************************************************************************)
ClearKillsEveryCore ==
  \A x \in Clears : pc[x] = "done" => \A o \in before[x] : child[o] = "closed"
=============================================================================
