------------------------------- MODULE StoreGc -------------------------------
(***************************************************************************)
(* The cleanup of the artifact store (storeGc.ts, StoreGcSettings.tsx): a  *)
(* preview of what the settings on the screen would delete, a confirmation *)
(* by typing the directory, and the deletion, a new scan on a session of   *)
(* its own.  The settings may change, and the page be left, at any await.  *)
(***************************************************************************)
EXTENDS Naturals

CONSTANTS
  Scopes,  \* directory, age and the other settings, as one value
  Valid,   \* those of them with a directory and an age
  Runs,    \* calls of run
  None

VARIABLES
  scope,  \* what is configured
  gc,     \* the controller: its run while pending, its preview: the scope it is of
  runs    \* runs[r]: one run; live while its generation is current

vars == <<scope, gc, runs>>

Idle == [pc |-> "idle", dry |-> TRUE, scope |-> None, seen |-> None, live |-> FALSE]
Fresh == [pending |-> None, preview |-> None, shows |-> "nothing"]

TypeOK ==
  /\ scope \in Scopes
  /\ gc \in [pending : Runs \cup {None}, preview : Scopes \cup {None},
             shows : {"nothing", "result", "error"}]
  /\ runs \in [Runs -> [pc : {"idle", "opening", "scanning", "closing"}, dry : BOOLEAN,
                        scope : Scopes \cup {None}, seen : Scopes \cup {None}, live : BOOLEAN]]

Init == scope \in Scopes /\ gc = Fresh /\ runs = [r \in Runs |-> Idle]

\* generation++: no run is heard any more.
Overtaken == [r \in Runs |-> [runs[r] EXCEPT !.live = FALSE]]

ResetSlip == gc
Reset == [gc EXCEPT !.preview = None, !.shows = "nothing"]

\* A change of the settings, or of the age while nothing is pending.
Configure(s) ==
  /\ s # scope /\ scope' = s /\ gc' = Reset /\ runs' = Overtaken
CancelPreview ==
  /\ gc.preview # None /\ gc' = Reset /\ runs' = Overtaken /\ UNCHANGED scope

\* The page is left: dispose; the next one has a controller of its own.
Leave == gc' = Fresh /\ runs' = Overtaken /\ UNCHANGED scope

Begin(r, dry) ==
  /\ runs[r].pc = "idle" /\ gc.pending = None /\ scope \in Valid
  /\ dry \/ gc.preview # None
  /\ runs' = [Overtaken EXCEPT ![r] = [pc |-> "opening", dry |-> dry, scope |-> scope,
                                       seen |-> gc.preview, live |-> TRUE]]
  /\ gc' = [Reset EXCEPT !.pending = r, !.preview = None]
  /\ UNCHANGED scope

Opened(r) ==
  /\ runs[r].pc = "opening"
  /\ runs' = [runs EXCEPT ![r].pc = IF runs[r].live THEN "scanning" ELSE "closing"]
  /\ UNCHANGED <<scope, gc>>

\* resultFor takes a whole summary without errors, for what was asked.
Scanned(r) ==
  /\ runs[r].pc = "scanning" /\ runs' = [runs EXCEPT ![r].pc = "closing"]
  /\ gc' = IF ~runs[r].live THEN gc
           ELSE IF runs[r].dry THEN [gc EXCEPT !.preview = runs[r].scope] ELSE [gc EXCEPT !.shows = "result"]
  /\ UNCHANGED scope
Fails(r) ==
  /\ runs[r].pc \in {"opening", "scanning"} /\ runs' = [runs EXCEPT ![r].pc = "closing"]
  /\ gc' = IF runs[r].live THEN [gc EXCEPT !.shows = "error", !.preview = None] ELSE gc
  /\ UNCHANGED scope

\* Never tried again: what a failed deletion has deleted is not known.
Closed(r) ==
  /\ runs[r].pc = "closing" /\ runs' = [runs EXCEPT ![r] = Idle]
  /\ gc' = [gc EXCEPT !.pending = IF @ = r THEN None ELSE @]
  /\ UNCHANGED scope

Next ==
  \/ CancelPreview \/ Leave \/ \E s \in Scopes : Configure(s)
  \/ \E r \in Runs : \/ \E dry \in BOOLEAN : Begin(r, dry)
                     \/ Opened(r) \/ Scanned(r) \/ Fails(r) \/ Closed(r)

Spec == Init /\ [][Next]_vars

-----------------------------------------------------------------------------
(***************************************************************************)
(* What is deleted was previewed: a deletion is asked of the core for the  *)
(* directory, age and settings whose preview the user confirmed, and a     *)
(* preview that is shown is of the settings on the screen.                 *)
(***************************************************************************)
DeletesWhatWasPreviewed ==
  /\ gc.preview \in {None, scope}
  /\ \A r \in Runs : runs[r].pc = "scanning" /\ ~runs[r].dry => runs[r].seen = runs[r].scope
=============================================================================
