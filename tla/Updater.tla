------------------------------- MODULE Updater -------------------------------
(***************************************************************************)
(* The updater: the operations of the bridge (updater.rs), one at a time,  *)
(* the controller of the page (updates.ts) and the settings that ask for   *)
(* every step (UpdateSettings.tsx).  A page that was reloaded loses the    *)
(* controller; the operations it had started go on.                        *)
(***************************************************************************)
EXTENDS Naturals

CONSTANTS
  Versions,  \* what the channel may offer
  Calls,     \* invocations of updater_action
  None

VARIABLES
  native,  \* Inner: phase, version, update and bytes, and the lock `operation`
  calls,   \* calls[c]: one invocation
  page,    \* the controller: snapshot, pending, bridgeError; the confirmation
  read     \* the latest refresh, while it counts

vars == <<native, calls, page, read>>

Phases == {"unconfigured", "idle", "checking", "current", "available", "downloading",
           "downloaded", "installing", "installed", "error", "ended"}
Actions == {"check", "download", "install", "discard", "restart"}
Offers == Versions \cup {None}
Snapshots == [phase : Phases, version : Offers]

TypeOK ==
  /\ native \in [phase : Phases, version : Offers, update : Offers, bytes : Offers,
                 lock : Calls \cup {None}]
  /\ calls \in [Calls -> [pc : {"idle", "sent", "running", "answer"}, act : Actions,
                          seen : Offers, result : Snapshots \cup {None}]]
  /\ page \in [snapshot : Snapshots, pending : Calls \cup {None}, failed : BOOLEAN,
               asked : Actions \cup {None}, about : Snapshots]
  /\ read \in [pc : {"none", "asked", "ok", "failed"}, snapshot : Snapshots]

Unknown == [phase |-> "unconfigured", version |-> None]
Fresh == [snapshot |-> Unknown, pending |-> None, failed |-> FALSE, asked |-> None,
          about |-> Unknown]
NoRead == [pc |-> "none", snapshot |-> Unknown]
Idle == [pc |-> "idle", act |-> "check", seen |-> None, result |-> None]

\* compiled(): a build without the four variables has no updater.
Init ==
  /\ native \in [phase : {"idle", "unconfigured"}, version : {None}, update : {None},
                 bytes : {None}, lock : {None}]
  /\ calls = [c \in Calls |-> Idle] /\ page = Fresh /\ read = NoRead

\* allowed and canUpdate, the same table twice.
Allowed(phase, act) ==
  CASE act = "check"    -> phase \in {"idle", "current", "error"}
    [] act = "download" -> phase = "available"
    [] act = "install"  -> phase = "downloaded"
    [] act = "discard"  -> phase \in {"available", "downloaded", "error"}
    [] act = "restart"  -> phase = "installed"

-----------------------------------------------------------------------------
(* The bridge.                                                              *)

Snapshot(n) == [phase |-> n.phase, version |-> n.version]
Answer(c, result) == calls' = [calls EXCEPT ![c].pc = "answer", ![c].result = result]

Refused(c) ==
  /\ calls[c].pc = "sent"
  /\ native.lock # None \/ ~Allowed(native.phase, calls[c].act)
  /\ Answer(c, None)
  /\ UNCHANGED <<native, page, read>>

\* What an operation finds and leaves.
WithoutSlip(n, phase) == [n EXCEPT !.phase = phase, !.version = None, !.bytes = None]
Without(n, phase) == [n EXCEPT !.phase = phase, !.version = None, !.update = None, !.bytes = None]
Entered(act) ==
  CASE act = "check"    -> {[native EXCEPT !.update = None, !.bytes = None, !.phase = "checking"]}
    [] act = "download" -> {IF native.update = None THEN Without(native, "error")
                            ELSE [native EXCEPT !.phase = "downloading"]}
    [] act = "install"  -> {Without(native, "error")} \cup
                           (IF native.update = None \/ native.bytes = None THEN {}
                            ELSE {[native EXCEPT !.update = None, !.bytes = None, !.phase = "installing"]})
    [] act = "discard"  -> {Without(native, "idle")}
    [] act = "restart"  -> {[native EXCEPT !.phase = "ended"]}
Left(act) == {Without(native, "error")} \cup
  (CASE act = "check"    -> {[native EXCEPT !.phase = "current", !.version = None]} \cup
                            {[native EXCEPT !.phase = "available", !.version = v, !.update = v] : v \in Versions}
     [] act = "download" -> {[native EXCEPT !.phase = "downloaded", !.bytes = native.update]}
     [] act = "install"  -> {[native EXCEPT !.phase = "installed"], [native EXCEPT !.phase = "ended"]})

Long == {"checking", "downloading", "installing"}

\* Under the lock up to the first await, which an operation that ends at once
\* never reaches.  A restart ends the program, and an installer may.
Begin(c) == LET act == calls[c].act IN
  /\ calls[c].pc = "sent" /\ native.lock = None /\ Allowed(native.phase, act)
  /\ \E n \in Entered(act) :
       /\ native' = [n EXCEPT !.lock = IF n.phase \in Long THEN c ELSE None]
       /\ IF n.phase \in Long THEN calls' = [calls EXCEPT ![c].pc = "running"]
          ELSE Answer(c, Snapshot(n))
  /\ UNCHANGED <<page, read>>

End(c) ==
  /\ calls[c].pc = "running" /\ native.phase # "ended"
  /\ \E n \in Left(calls[c].act) : native' = [n EXCEPT !.lock = None] /\ Answer(c, Snapshot(n))
  /\ UNCHANGED <<page, read>>

-----------------------------------------------------------------------------
(* The page.                                                                *)

Shown(s) == page' = [page EXCEPT !.snapshot = s, !.failed = FALSE]

\* A newer refresh takes the place of an older one.
Refresh ==
  /\ read' = [NoRead EXCEPT !.pc = "asked"] /\ UNCHANGED <<native, calls, page>>
Status ==
  /\ read.pc = "asked"
  /\ read' \in {[pc |-> "ok", snapshot |-> Snapshot(native)], [NoRead EXCEPT !.pc = "failed"]}
  /\ UNCHANGED <<native, calls, page>>
Deliver ==
  /\ read.pc \in {"ok", "failed"} /\ read' = NoRead
  /\ IF read.pc = "failed" THEN page' = [page EXCEPT !.failed = TRUE] ELSE Shown(read.snapshot)
  /\ UNCHANGED <<native, calls>>

\* generation: an action makes the refreshes before it, and during it, void.
OvertakenSlip == read
Overtaken == NoRead

Busy == page.pending # None \/ page.snapshot.phase \in Long
Ask(act) ==
  /\ ~Busy /\ ~page.failed /\ Allowed(page.snapshot.phase, act) /\ act # "discard"
  /\ page' = [page EXCEPT !.asked = act, !.about = page.snapshot]
  /\ UNCHANGED <<native, calls, read>>

\* Confirmed for what the page shows: phase and version are the key.  An
\* invocation reaches the bridge before the user has confirmed another one.
Act(c, act) ==
  /\ \A d \in Calls : calls[d].pc # "sent"
  /\ calls[c].pc = "idle" /\ ~Busy /\ ~page.failed /\ Allowed(page.snapshot.phase, act)
  /\ act # "discard" => page.asked = act /\ page.about = page.snapshot
  /\ calls' = [calls EXCEPT ![c] = [pc |-> "sent", act |-> act, seen |-> page.snapshot.version, result |-> None]]
  /\ page' = [page EXCEPT !.pending = c, !.failed = FALSE, !.asked = None, !.about = Unknown]
  /\ read' = Overtaken /\ UNCHANGED native

\* The answer, or the bridge's refusal; a call of an earlier page has no listener.
Answered(c) == LET result == calls[c].result IN
  /\ calls[c].pc = "answer" /\ native.phase # "ended"
  /\ page' = IF page.pending # c THEN page
             ELSE [page EXCEPT !.pending = None, !.failed = result = None,
                               !.snapshot = IF result = None THEN @ ELSE result]
  /\ read' = IF page.pending = c THEN Overtaken ELSE read
  /\ calls' = [calls EXCEPT ![c] = Idle] /\ UNCHANGED native

Reload == page' = Fresh /\ read' = NoRead /\ UNCHANGED <<native, calls>>

Next ==
  \/ Refresh \/ Status \/ Deliver \/ Reload
  \/ \E act \in Actions : Ask(act)
  \/ \E c \in Calls : \/ Refused(c) \/ Begin(c) \/ End(c) \/ Answered(c)
                      \/ \E act \in Actions : Act(c, act)

Spec == Init /\ [][Next]_vars

-----------------------------------------------------------------------------
(***************************************************************************)
(* What the user confirmed is what happens: an installation installs the   *)
(* version that was on the screen, verified and complete, and every phase  *)
(* has what its next step needs and nothing left over from an earlier one, *)
(* whatever failed, was discarded, or was started by a page that is gone.  *)
(***************************************************************************)
ConfirmedIsDone ==
  /\ native.phase = "available" => native.update = native.version /\ native.update # None
  /\ native.phase = "downloaded" => {native.update, native.bytes} = {native.version}
  /\ native.phase \in {"idle", "current", "error", "installed"} => {native.update, native.bytes} = {None}
  /\ \A c \in Calls :
       /\ calls[c].pc = "running" => native.lock = c
       /\ calls[c].pc = "running" /\ calls[c].act \in {"download", "install"} => native.version = calls[c].seen
=============================================================================
