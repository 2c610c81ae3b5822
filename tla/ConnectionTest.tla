---------------------------- MODULE ConnectionTest ----------------------------
(***************************************************************************)
(* The connection tests of an endpoint (endpointConnectionTest.ts, run by  *)
(* EndpointManager.tsx): a test opens a session, pings and closes it; the  *)
(* user may start another one, edit or delete the endpoint, or leave the   *)
(* page at any of its awaits.                                              *)
(***************************************************************************)
EXTENDS Naturals

CONSTANTS Tests, None

VARIABLES
  tests,    \* tests[t]: a run, and whether its signal was aborted
  current,  \* the run whose generation is the endpoint's
  shows     \* connectionStates of the endpoint

vars == <<tests, current, shows>>

Idle == [pc |-> "idle", aborted |-> FALSE]

TypeOK ==
  /\ tests \in [Tests -> [pc : {"idle", "opening", "pinging", "closing"}, aborted : BOOLEAN]]
  /\ current \in Tests \cup {None}
  /\ shows \in {"idle", "connecting", "connected", "error"}

Init == tests = [t \in Tests |-> Idle] /\ current = None /\ shows = "idle"

\* cancelTest: the controller of the run that is still listed is aborted.
CancelledSlip == tests
Cancelled == [t \in Tests |-> [tests[t] EXCEPT !.aborted = @ \/ t = current]]

Cancel == tests' = Cancelled /\ current' = None /\ shows' = "idle"

Run(t) ==
  /\ tests[t].pc = "idle"
  /\ tests' = [Cancelled EXCEPT ![t] = [pc |-> "opening", aborted |-> FALSE]]
  /\ current' = t /\ shows' = "connecting"

\* onState is heard only of the current run.
Publish(t, state) == shows' = IF current = t THEN state ELSE shows
Goes(t, pc) == tests' = [tests EXCEPT ![t].pc = pc]

Opened(t) ==
  /\ tests[t].pc = "opening"
  /\ IF tests[t].aborted THEN Goes(t, "closing") /\ Publish(t, "error")
     ELSE Goes(t, "pinging") /\ shows' = shows
  /\ UNCHANGED current

\* The opening or the ping fails, or the abort wins the race with the ping.
Fails(t) ==
  /\ tests[t].pc \in {"opening", "pinging"}
  /\ Goes(t, "closing") /\ Publish(t, "error") /\ UNCHANGED current
Pinged(t) ==
  /\ tests[t].pc = "pinging"
  /\ Goes(t, "closing") /\ Publish(t, "connected") /\ UNCHANGED current
Closed(t) ==
  /\ tests[t].pc = "closing" /\ tests' = [tests EXCEPT ![t] = Idle]
  /\ current' = IF current = t THEN None ELSE current
  /\ UNCHANGED shows

Next == Cancel \/ \E t \in Tests : Run(t) \/ Opened(t) \/ Fails(t) \/ Pinged(t) \/ Closed(t)

Spec == Init /\ [][Next]_vars

-----------------------------------------------------------------------------
(***************************************************************************)
(* "Connecting" is shown for a test that is under way, and no other one:   *)
(* of several tests of an endpoint all but the last are aborted, and none  *)
(* of them changes what is shown.                                          *)
(***************************************************************************)
OneTestShown ==
  /\ shows = "connecting" => current # None /\ tests[current].pc \in {"opening", "pinging"}
  /\ \A t \in Tests : tests[t].pc \in {"opening", "pinging"} => tests[t].aborted \/ t = current
=============================================================================
