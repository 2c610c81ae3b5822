------------------------------ MODULE WorldsPage ------------------------------
(***************************************************************************)
(* The saves of one instance, WorldsManager.tsx, on the launcher's shared  *)
(* session (launcher.tsx): the page's two lists and the icons, its dialogs *)
(* and the operations they start, each followed by a new read of the lists.*)
(*                                                                         *)
(* The session answers its requests in order.  An operation holds the      *)
(* instance's lease from its request to its answer, so a second one is     *)
(* refused at once; the page keeps one busy key for all of them.  After an *)
(* operation that failed, perhaps in part, nothing is read again.  A shared*)
(* session that died is never replaced: every later request fails.         *)
(***************************************************************************)
EXTENDS Naturals, FiniteSets, Sequences

CONSTANTS
  Names,     \* directory names of worlds
  Contents,  \* what a world may hold
  Iconed,    \* those contents that have an icon
  Files,     \* names of backup files, each given once
  MaxRuns,   \* bound: operations started, here or elsewhere
  MaxLoads,  \* bound: requests of the session that are waiting
  None

VARIABLES
  core,   \* the worlds and backups there are: name -> content or None
  page,   \* what the page shows
  dialog, \* the name or the confirm dialog
  queue,  \* the session's requests, oldest first
  alive,  \* the session
  runs,   \* operations started
  untold  \* history: worlds changed after the last lists, and the page was not told

vars == <<core, page, dialog, queue, alive, runs, untold>>

Subjects == Names \cup Files
Named == {"rename", "duplicate", "backup", "restore", "import"}
Confirmed == {"deleteWorld", "deleteBackup"}
Op == [op : Named \cup Confirmed \cup {"export"}, on : Subjects \cup {None},
       name : Names \cup {None}, replace : BOOLEAN]
Requests ==
  [kind : {"op"}, what : Op] \cup [kind : {"lists"}, ends : BOOLEAN]
    \cup [kind : {"icon"}, name : Names]

Lists == [worlds : [Names -> Contents \cup {None}], backups : [Files -> Contents \cup {None}]]

TypeOK ==
  /\ core \in Lists
  /\ page \in [lists : Lists \cup {None}, error : BOOLEAN,
               icons : [Names -> Contents \cup {None}], busy : Subjects \cup {"file", None}]
  /\ dialog \in [kind : Named \cup Confirmed, on : Subjects \cup {None}] \cup {None}
  /\ queue \in Seq(Requests)
  /\ alive \in BOOLEAN
  /\ runs \in 0 .. MaxRuns /\ untold \in BOOLEAN

NoIcons == [n \in Names |-> None]
Load == [kind |-> "lists", ends |-> FALSE]

\* The page mounts and loads.
Init ==
  /\ core \in [worlds : [Names -> Contents \cup {None}], backups : {[f \in Files |-> None]}]
  /\ page = [lists |-> None, error |-> FALSE, icons |-> NoIcons, busy |-> None]
  /\ dialog = None
  /\ queue = <<Load>>
  /\ alive = TRUE
  /\ runs = 0 /\ untold = FALSE

Shown == page.lists # None /\ ~page.error
ShownWorlds == {n \in Names : page.lists.worlds[n] # None}
ShownBackups == {f \in Files : page.lists.backups[f] # None}

\* The lease is held while the operation's request is unanswered.
Leased == \E k \in DOMAIN queue : queue[k].kind = "op"

-----------------------------------------------------------------------------
\* Refresh, and Retry where the lists could not be read.
Reload ==
  /\ Len(queue) < MaxLoads
  /\ IF alive THEN queue' = Append(queue, Load) /\ UNCHANGED page
     ELSE page' = [page EXCEPT !.error = TRUE] /\ UNCHANGED queue
  /\ UNCHANGED <<core, dialog, alive, runs, untold>>

\* A row's menu, a backup's buttons, the import button and its file chooser.
OpenDialog(kind, subject) ==
  /\ dialog = None
  /\ CASE kind = "import" -> subject = None /\ page.busy = None
       [] kind \in {"restore", "deleteBackup"} ->
            Shown /\ subject \in ShownBackups /\ page.busy # subject
       [] kind \in {"rename", "duplicate", "backup", "deleteWorld"} ->
            Shown /\ subject \in ShownWorlds /\ page.busy # subject
  /\ dialog' = [kind |-> kind, on |-> subject]
  /\ UNCHANGED <<core, page, queue, alive, runs, untold>>

Dismiss ==
  /\ dialog # None /\ dialog' = None
  /\ UNCHANGED <<core, page, queue, alive, runs, untold>>

\* run: a refused operation clears the busy key, its own or another's.
Run(what, subject) ==
  /\ runs < MaxRuns /\ runs' = runs + 1
  /\ IF Leased \/ ~alive
     THEN page' = [page EXCEPT !.busy = None] /\ UNCHANGED queue
     ELSE /\ page' = [page EXCEPT !.busy = subject]
          /\ queue' = Append(queue, [kind |-> "op", what |-> what])
  /\ UNCHANGED <<core, alive, untold>>

\* The name is free in the list as it is now, or the user ticked "replace",
\* which stays ticked when another name is typed afterwards.
CanSubmit(name, replace) ==
  /\ page.busy = None
  /\ dialog.kind # "backup" /\ page.lists # None /\ name \in ShownWorlds => replace
  /\ replace => dialog.kind \in {"restore", "import"}

SubmitName(name, replace) ==
  /\ dialog # None /\ dialog.kind \in Named
  /\ CanSubmit(name, replace)
  /\ Run([op |-> dialog.kind, on |-> dialog.on, name |-> name, replace |-> replace],
         IF dialog.kind = "import" THEN "file" ELSE dialog.on)
  /\ dialog' = None

SubmitConfirm ==
  /\ dialog # None /\ dialog.kind \in Confirmed
  /\ Run([op |-> dialog.kind, on |-> dialog.on, name |-> None, replace |-> FALSE], dialog.on)
  /\ dialog' = None

Export(n) ==
  /\ dialog = None /\ Shown /\ n \in ShownWorlds /\ page.busy # n
  /\ Run([op |-> "export", on |-> n, name |-> None, replace |-> FALSE], n)
  /\ UNCHANGED dialog

-----------------------------------------------------------------------------
\* What the core may make of an operation it does not refuse.
Put(n, c) == [core EXCEPT !.worlds[n] = c]

Results(w) ==
  CASE w.op = "rename" ->
         {[core EXCEPT !.worlds = [@ EXCEPT ![w.name] = core.worlds[w.on], ![w.on] = None]]}
    [] w.op = "duplicate" -> {Put(w.name, core.worlds[w.on])}
    [] w.op = "deleteWorld" -> {Put(w.on, None)}
    [] w.op = "export" -> {core}
    [] w.op = "import" -> {Put(w.name, c) : c \in Contents}
    [] w.op = "backup" ->
         {[core EXCEPT !.backups[f] = core.worlds[w.on]] : f \in {g \in Files : core.backups[g] = None}}
    [] w.op = "restore" -> {Put(w.name, core.backups[w.on])}
    [] w.op = "deleteBackup" -> {[core EXCEPT !.backups[w.on] = None]}

Accepts(w) ==
  /\ w.op \in {"rename", "duplicate", "deleteWorld", "export", "backup"} => core.worlds[w.on] # None
  /\ w.op \in {"restore", "deleteBackup"} => core.backups[w.on] # None
  /\ w.op \in {"rename", "duplicate", "import", "restore"}
       => core.worlds[w.name] = None \/ w.replace

\* What an operation that failed may leave: nothing, all of it, or a world that
\* was to be replaced gone.
Partly(w) ==
  {core} \cup (IF Accepts(w)
              THEN Results(w) \cup (IF w.replace THEN {Put(w.name, None)} ELSE {})
              ELSE {})

\* The worlds were changed behind the page's back, if they were changed.
Untold == untold' = (untold \/ core' # core)

\* The game or the user changes a world.
Elsewhere ==
  /\ runs < MaxRuns /\ runs' = runs + 1
  /\ \E n \in Names, c \in Contents \cup {None} : core' = Put(n, c)
  /\ Untold /\ UNCHANGED <<page, dialog, queue, alive>>

\* Slip: the lists are read only for the operations that name a world.
AfterRunSlip(w) ==
  IF w.op \in {"backup", "deleteBackup"} THEN Tail(queue)
  ELSE Append(Tail(queue), [kind |-> "lists", ends |-> TRUE])

\* The lists are read again after every operation that succeeded.
AfterRun(w) == Append(Tail(queue), [kind |-> "lists", ends |-> TRUE])

Done ==
  /\ queue # <<>> /\ Head(queue).kind = "op"
  /\ LET w == Head(queue).what
     IN \/ /\ Accepts(w) /\ core' \in Results(w)
           /\ queue' = AfterRun(w) /\ UNCHANGED <<page, untold>>
        \/ \* It fails: an error is shown and nothing is read.
           /\ queue' = Tail(queue)
           /\ page' = [page EXCEPT !.busy = None]
           /\ core' \in Partly(w) /\ Untold
  /\ UNCHANGED <<dialog, alive, runs>>

\* The worlds are asked for in some order.
IconRequests(ns) ==
  CHOOSE q \in [1 .. Cardinality(ns) -> [kind : {"icon"}, name : ns]] :
    \A n \in ns : \E k \in DOMAIN q : q[k].name = n

\* Slip: the icons are kept when the lists are read again.
RelistedSlip == [page EXCEPT !.lists = core, !.error = FALSE]

\* Both lists are shown at once, and the icons are forgotten.
Relisted == [page EXCEPT !.lists = core, !.error = FALSE, !.icons = NoIcons]

Listed ==
  /\ queue # <<>> /\ Head(queue).kind = "lists"
  /\ page' = [Relisted EXCEPT !.busy = IF Head(queue).ends THEN None ELSE @]
  /\ queue' = Tail(queue) \o IconRequests({n \in Names : core.worlds[n] \in Iconed})
  /\ untold' = FALSE /\ UNCHANGED <<core, dialog, alive, runs>>

ListFails ==
  /\ queue # <<>> /\ Head(queue).kind = "lists"
  /\ page' = [page EXCEPT !.error = TRUE, !.busy = IF Head(queue).ends THEN None ELSE @]
  /\ queue' = Tail(queue)
  /\ UNCHANGED <<core, dialog, alive, runs, untold>>

\* An icon comes for the name it was asked for, or not at all.
Icon ==
  /\ queue # <<>> /\ Head(queue).kind = "icon"
  /\ queue' = Tail(queue)
  /\ LET n == Head(queue).name
     IN page' = IF core.worlds[n] \in Iconed THEN [page EXCEPT !.icons[n] = core.worlds[n]] ELSE page
  /\ UNCHANGED <<core, dialog, alive, runs, untold>>

\* The core of the shared session dies: everything that waits fails, and the
\* operation at the core may have been done or not.
Die ==
  /\ alive /\ alive' = FALSE
  /\ queue' = <<>>
  /\ page' = [page EXCEPT !.busy = None,
                          !.error = @ \/ \E k \in DOMAIN queue : queue[k].kind = "lists"]
  /\ core' \in IF queue # <<>> /\ Head(queue).kind = "op" THEN Partly(Head(queue).what) ELSE {core}
  /\ Untold /\ UNCHANGED <<dialog, runs>>

Next ==
  \/ Reload \/ Dismiss \/ SubmitConfirm \/ Done \/ Listed \/ ListFails \/ Icon \/ Elsewhere \/ Die
  \/ \E kind \in Named \cup Confirmed, x \in Subjects \cup {None} : OpenDialog(kind, x)
  \/ \E n \in Names, r \in BOOLEAN : SubmitName(n, r)
  \/ \E n \in Names : Export(n)

Spec == Init /\ [][Next]_vars

-----------------------------------------------------------------------------
\* When no request waits on a live session, the page shows an error or exactly
\* the worlds, backups and icons there are, whatever operations and reads
\* overlapped, unless a failed operation or somebody else changed them.
ListsCatchUp ==
  (queue = <<>> /\ alive /\ ~untold) =>
    page.error \/ (/\ page.lists = core
                   /\ \A n \in Names : page.icons[n] \in {None, core.worlds[n]})
=============================================================================
