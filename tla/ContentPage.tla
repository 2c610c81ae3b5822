----------------------------- MODULE ContentPage -----------------------------
(***************************************************************************)
(* The mods, resource packs or shader packs of one instance: a panel of    *)
(* ContentManager.tsx on the launcher's shared session, and the installs   *)
(* its catalog dialog runs on a session of their own.                      *)
(*                                                                         *)
(* The shared session answers in order.  A change holds the instance's     *)
(* lease from its request to its answer; the panel keeps one pending file  *)
(* for all its changes, and reads the list again after a change that was   *)
(* done.  After one that failed, perhaps in part, it reads nothing; nor    *)
(* after an install whose dialog was unmounted because a list could not be *)
(* read meanwhile.                                                         *)
(***************************************************************************)
EXTENDS Naturals, Sequences

CONSTANTS
  Files,      \* files of the content's directory
  MaxChanges, \* bound: changes asked, here or elsewhere
  MaxLoads,   \* bound: requests of the shared session that are waiting
  None

VARIABLES
  core,    \* file -> "none", "on", "off", or "loose": there, but not registered
  panel,   \* what the panel shows
  queue,   \* the shared session's requests, oldest first
  install, \* the catalog's install: "none", "opening", "core"
  orphan,  \* the install of a dialog that was unmounted is at the core
  alive,   \* the shared session
  changes, \* changes asked
  untold   \* history: files changed after the last list, and the panel was not told

vars == <<core, panel, queue, install, orphan, alive, changes, untold>>

Entries == [Files -> {"none", "on", "off", "loose"}]
Ops == {"enable", "disable", "remove", "adopt"}
Requests == [kind : {"list"}, ends : BOOLEAN] \cup [kind : Ops, file : Files \cup {None}]

TypeOK ==
  /\ core \in Entries
  /\ panel \in [status : {"loading", "error", "ready"}, list : Entries \cup {None},
                pending : Files \cup {None}, confirm : Files \cup {None},
                adopting : BOOLEAN, search : BOOLEAN]
  /\ queue \in Seq(Requests)
  /\ install \in {"none", "opening", "core"}
  /\ orphan \in BOOLEAN /\ alive \in BOOLEAN /\ untold \in BOOLEAN
  /\ changes \in 0 .. MaxChanges

Load == [kind |-> "list", ends |-> FALSE]

Init ==
  /\ core \in Entries
  /\ panel = [status |-> "loading", list |-> None, pending |-> None, confirm |-> None,
              adopting |-> FALSE, search |-> FALSE]
  /\ queue = <<Load>>
  /\ install = "none" /\ orphan = FALSE
  /\ alive = TRUE
  /\ changes = 0 /\ untold = FALSE

Ready == panel.status = "ready"
Shows(f) == Ready /\ panel.list[f] \in {"on", "off"}

\* The instance's lease: held by a request of the panel or by an install.
Leased == install = "core" \/ orphan \/ \E k \in DOMAIN queue : queue[k].kind \in Ops

\* load, on Retry or after an install.
Loads ==
  IF alive THEN queue' = Append(queue, Load) /\ UNCHANGED panel
  ELSE panel' = [panel EXCEPT !.status = "error"] /\ UNCHANGED queue

Retry ==
  /\ panel.status = "error" /\ Len(queue) < MaxLoads /\ Loads
  /\ UNCHANGED <<core, install, orphan, alive, changes, untold>>

\* Ask whether the file may be removed, or not any more.
Confirm(f) ==
  /\ Ready /\ panel.confirm # f
  /\ f # None => Shows(f) /\ panel.pending # f
  /\ panel' = [panel EXCEPT !.confirm = f]
  /\ UNCHANGED <<core, queue, install, orphan, alive, changes, untold>>

\* mutate and adopt: a refused change clears what another one had marked.
Change(request, marked, cleared) ==
  /\ changes < MaxChanges /\ changes' = changes + 1
  /\ IF Leased \/ ~alive
     THEN panel' = cleared /\ UNCHANGED queue
     ELSE panel' = marked /\ queue' = Append(queue, request)
  /\ UNCHANGED <<core, install, orphan, alive, untold>>

Marked(f) == [panel EXCEPT !.pending = f, !.confirm = None]

\* The checkbox asks for the opposite of what it shows.
Toggle(f) ==
  /\ Shows(f) /\ panel.pending # f
  /\ Change([kind |-> IF panel.list[f] = "on" THEN "disable" ELSE "enable", file |-> f],
            Marked(f), Marked(None))

Remove(f) ==
  /\ Shows(f) /\ panel.confirm = f /\ panel.pending # f
  /\ Change([kind |-> "remove", file |-> f], Marked(f), Marked(None))

Adopt ==
  /\ Ready /\ ~panel.adopting /\ \E f \in Files : panel.list[f] = "loose"
  /\ Change([kind |-> "adopt", file |-> None], [panel EXCEPT !.adopting = TRUE], panel)

-----------------------------------------------------------------------------
\* The core: each call can be made again, and on a file that is gone it fails.
After(q) ==
  CASE q.kind = "enable" -> [core EXCEPT ![q.file] = "on"]
    [] q.kind = "disable" -> [core EXCEPT ![q.file] = "off"]
    [] q.kind = "remove" -> [core EXCEPT ![q.file] = "none"]
    [] q.kind = "adopt" -> [f \in Files |-> IF core[f] = "loose" THEN "on" ELSE core[f]]

Accepts(q) == q.kind \in Ops \ {"adopt"} => core[q.file] \in {"on", "off"}

\* What a change that failed may leave: each file as it was or was to be.
Partly(q) ==
  IF Accepts(q) THEN {c \in Entries : \A f \in Files : c[f] \in {core[f], After(q)[f]}}
  ELSE {core}

\* What an install may leave: files that were not there, and in place of
\* another one if it sets a version.
Adding(e) == {c \in Entries : \A f \in Files : c[f] = e[f] \/ (e[f] = "none" /\ c[f] = "on")}
Installed ==
  Adding(core) \cup UNION {Adding([core EXCEPT ![f] = "none"]) :
                          f \in {g \in Files : core[g] \in {"on", "off"}}}

\* The files were changed behind the panel's back, if they were changed.
Untold == untold' = (untold \/ core' # core)

\* Somebody else changes the files: the user, the game, an import.
Elsewhere ==
  /\ changes < MaxChanges /\ changes' = changes + 1
  /\ core' \in Entries /\ Untold
  /\ UNCHANGED <<panel, queue, install, orphan, alive>>

\* The marks a change's finally takes back.
Unmarked(q) ==
  IF q.kind = "adopt" THEN [panel EXCEPT !.adopting = FALSE]
  ELSE [panel EXCEPT !.pending = None]

\* Slip: what is shown is trusted after a toggle.
ThenReadSlip(q) ==
  IF q.kind \in {"enable", "disable"} THEN Tail(queue)
  ELSE Append(Tail(queue), [kind |-> "list", ends |-> TRUE])

\* A change that was done is followed by a read of the list.
ThenRead(q) == Append(Tail(queue), [kind |-> "list", ends |-> TRUE])

Changed ==
  /\ queue # <<>> /\ Head(queue).kind \in Ops
  /\ LET q == Head(queue)
     IN \/ Accepts(q) /\ core' = After(q) /\ queue' = ThenRead(q) /\ UNCHANGED <<panel, untold>>
        \/ queue' = Tail(queue) /\ panel' = Unmarked(q) /\ core' \in Partly(q) /\ Untold
  /\ UNCHANGED <<install, orphan, alive, changes>>

\* The finally of the change the read belongs to: the marks are cleared.
Ended(p) ==
  IF Head(queue).ends THEN [p EXCEPT !.pending = None, !.adopting = FALSE] ELSE p

\* The panel returns before its dialog, which is unmounted: an install at the
\* core goes on and tells nobody, one whose session is opened comes to nothing.
Unmounts == install' = "none" /\ orphan' = (orphan \/ install = "core")

Listed ==
  /\ queue # <<>> /\ Head(queue).kind = "list" /\ queue' = Tail(queue)
  /\ \/ /\ panel' = Ended([panel EXCEPT !.status = "ready", !.list = core])
        /\ untold' = FALSE /\ UNCHANGED <<install, orphan>>
     \/ panel' = Ended([panel EXCEPT !.status = "error"]) /\ Unmounts /\ UNCHANGED untold
  /\ UNCHANGED <<core, alive, changes>>

-----------------------------------------------------------------------------
\* The catalog dialog: it cannot be closed while it installs.
Search(open) ==
  /\ Ready /\ install = "none" /\ panel.search # open
  /\ panel' = [panel EXCEPT !.search = open]
  /\ UNCHANGED <<core, queue, install, orphan, alive, changes, untold>>

Install ==
  /\ Ready /\ panel.search /\ install = "none"
  /\ changes < MaxChanges /\ changes' = changes + 1
  /\ install' = "opening"
  /\ UNCHANGED <<core, panel, queue, orphan, alive, untold>>

\* Its session is open: the request goes, or the lease is another's.
InstallOpened ==
  /\ install = "opening"
  /\ install' = IF Leased THEN "none" ELSE "core"
  /\ UNCHANGED <<core, panel, queue, orphan, alive, changes, untold>>

\* Slip: the panel is not told.
ToldSlip == UNCHANGED <<panel, queue>>

\* onChanged: the panel reads its list.
Told == Loads

\* It succeeds, or fails, perhaps with some of its files installed.
InstallDone ==
  /\ install = "core" /\ install' = "none" /\ core' \in Installed
  /\ \/ Told /\ UNCHANGED untold
     \/ Untold /\ UNCHANGED <<panel, queue>>
  /\ UNCHANGED <<orphan, alive, changes>>

\* Whoever mounted the dialog again has not heard of this install.
OrphanDone ==
  /\ orphan /\ orphan' = FALSE /\ core' \in Installed /\ Untold
  /\ UNCHANGED <<panel, queue, install, alive, changes>>

\* The core of the shared session dies; a change at it was done or was not.
Die ==
  /\ alive /\ alive' = FALSE /\ queue' = <<>>
  /\ LET unread == \E k \in DOMAIN queue : queue[k].kind = "list"
     IN /\ panel' = [panel EXCEPT !.pending = None, !.adopting = FALSE,
                     !.status = IF unread THEN "error" ELSE @]
        /\ IF unread THEN Unmounts ELSE UNCHANGED <<install, orphan>>
  /\ core' \in IF queue # <<>> /\ Head(queue).kind \in Ops THEN Partly(Head(queue)) ELSE {core}
  /\ Untold /\ UNCHANGED changes

Next ==
  \/ Retry \/ Adopt \/ Changed \/ Listed \/ Install \/ InstallOpened \/ InstallDone
  \/ OrphanDone \/ Elsewhere \/ Die
  \/ \E f \in Files : Toggle(f) \/ Remove(f)
  \/ \E f \in Files \cup {None} : Confirm(f)
  \/ \E open \in BOOLEAN : Search(open)

Spec == Init /\ [][Next]_vars

-----------------------------------------------------------------------------
\* When no request waits on a live session, the panel shows an error or the
\* files as they are, whatever changes, installs and reads overlapped, unless a
\* failed change, an unmounted dialog's install or somebody else changed them.
PanelCatchesUp ==
  (queue = <<>> /\ alive /\ ~untold) =>
    panel.status = "error" \/ panel.list = core
=============================================================================
