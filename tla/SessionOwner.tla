----------------------------- MODULE SessionOwner -----------------------------
(***************************************************************************)
(* The control session of the server pages: SessionOwner                   *)
(* (sessionLifecycle.ts) in the hands of the ServersProvider               *)
(* (servers.tsx), which opens a session for the endpoint on the screen and *)
(* another one whenever that endpoint was changed.  The bridge reads the   *)
(* destination from the saved configuration when it opens the session; the *)
(* page learns of a change later than the file.                            *)
(***************************************************************************)
EXTENDS Naturals

CONSTANTS
  Opens,     \* calls of open
  MaxEdits,  \* bound on the changes of the endpoint
  None

VARIABLES
  saved,    \* version of the endpoint in the file
  shown,    \* version in the context
  opens,    \* opens[o]: a session from its open to its close
  current,  \* the open whose generation is the owner's, or None
  session,  \* SessionOwner.session, an open or None
  status    \* controlStatus

vars == <<saved, shown, opens, current, session, status>>

Idle == [pc |-> "idle", version |-> 0]

TypeOK ==
  /\ saved \in 0..MaxEdits /\ shown \in 0..MaxEdits
  /\ opens \in [Opens -> [pc : {"idle", "called", "connecting", "open", "closing"}, version : 0..MaxEdits]]
  /\ {current, session} \subseteq Opens \cup {None}
  /\ status \in {"starting", "ready", "error"}

Init ==
  /\ saved = 0 /\ shown = 0 /\ current = None /\ session = None /\ status = "error"
  /\ opens = [o \in Opens |-> Idle]

\* The transaction of the settings page has replaced the file.
Edit ==
  /\ saved < MaxEdits /\ saved' = saved + 1
  /\ UNCHANGED <<shown, opens, current, session, status>>

\* close: the opens under way are of an old generation, the session is closed.
Closed(s) == [o \in Opens |-> IF o = s THEN [opens[o] EXCEPT !.pc = "closing"] ELSE opens[o]]

\* The effect of the provider runs when it is mounted and when the endpoint
\* was published again: it closes, and opens anew.
Effect(o) ==
  /\ shown # saved \/ (current = None /\ session = None)
  /\ opens[o].pc = "idle" /\ o # session
  /\ shown' = saved /\ current' = o /\ session' = None /\ status' = "starting"
  /\ opens' = [Closed(session) EXCEPT ![o].pc = "called"]
  /\ UNCHANGED saved

ReadConfig(o) ==
  /\ opens[o].pc = "called"
  /\ opens' = [opens EXCEPT ![o] = [pc |-> "connecting", version |-> saved]]
  /\ UNCHANGED <<saved, shown, current, session, status>>

\* Cleaned up in the meantime: its error is nobody's.
Fails(o) ==
  /\ opens[o].pc \in {"called", "connecting"}
  /\ opens' = [opens EXCEPT ![o] = Idle]
  /\ status' = IF current = o THEN "error" ELSE status
  /\ UNCHANGED <<saved, shown, current, session>>

OwnsSlip(o) == TRUE
Owns(o) == current = o
Established(o) ==
  /\ opens[o].pc = "connecting"
  /\ IF Owns(o)
     THEN /\ session' = o /\ status' = "ready"
          /\ opens' = [Closed(session) EXCEPT ![o].pc = "open"]
     ELSE opens' = [opens EXCEPT ![o].pc = "closing"] /\ UNCHANGED <<session, status>>
  /\ UNCHANGED <<saved, shown, current>>

CloseEnds(o) ==
  /\ opens[o].pc = "closing" /\ opens' = [opens EXCEPT ![o] = Idle]
  /\ UNCHANGED <<saved, shown, current, session, status>>

Next == Edit \/ \E o \in Opens : Effect(o) \/ ReadConfig(o) \/ Fails(o) \/ Established(o) \/ CloseEnds(o)

Spec == Init /\ [][Next]_vars

-----------------------------------------------------------------------------
(***************************************************************************)
(* The session the pages use leads to the endpoint as it was last saved,   *)
(* once the page knows of it, also when it was changed while a session was *)
(* being opened; and no other session is left open.                        *)
(***************************************************************************)
SessionFollowsEdit ==
  /\ status = "ready" /\ shown = saved => session # None /\ opens[session].version = saved
  /\ \A o \in Opens : opens[o].pc = "open" => session = o
=============================================================================
