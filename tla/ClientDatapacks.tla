-------------------------- MODULE ClientDatapacks --------------------------
(***************************************************************************)
(* The data packs of one world of an instance: ClientDatapackController of *)
(* clientDatapacks.ts and the panel that shows it.  A run opens a session, *)
(* reads whether the game has the world open, changes the packs, reads     *)
(* them again, and closes the session.                                     *)
(*                                                                         *)
(* A run that is cancelled goes on to its end without being seen.  When    *)
(* the panel is left and entered again there is a new controller, and the  *)
(* run of the old one may still be at the core.                            *)
(***************************************************************************)
EXTENDS Naturals

CONSTANTS
  Files,        \* files the world may have as data packs
  Mounts,       \* bound: the panel is entered this often
  MaxElsewhere, \* bound: changes by other pages, and by the game
  None

VARIABLES
  core,      \* the world at the core: its packs, and whether it is locked
  view,      \* what the panel shows
  run,       \* mount -> the run of its controller
  live,      \* sessions that are open, <<mount, 1 or 2>>
  mount,     \* the mount that is shown
  elsewhere, \* changes by others so far
  touched    \* history: somebody else changed the packs since the panel's list

vars == <<core, view, run, live, mount, elsewhere, touched>>

Packs == [Files -> {"none", "on", "off", "loose"}]
Changes == [op : {"toggle", "remove"}, file : Files] \cup [op : {"adopt"}]
             \cup [op : {"install"}, fresh : BOOLEAN]
             \cup [op : {"set-version"}, file : Files, fresh : BOOLEAN]
Steps == {"none", "opening", "checking", "acting", "releasing", "reopening",
          "listing", "looking", "closing"}
NoRun == [step |-> "none", change |-> None, current |-> FALSE, session |-> 0]
Empty == [content |-> None, locked |-> None, pending |-> FALSE, error |-> FALSE, unread |-> FALSE]

TypeOK ==
  /\ core \in [packs : Packs, locked : BOOLEAN]
  /\ view \in [content : Packs \cup {None}, locked : BOOLEAN \cup {None},
               pending : BOOLEAN, error : BOOLEAN, unread : BOOLEAN]
  /\ run \in [1 .. Mounts -> [step : Steps, change : Changes \cup {None},
                              current : BOOLEAN, session : 0 .. 2]]
  /\ live \subseteq (1 .. Mounts) \X {1, 2}
  /\ mount \in 1 .. Mounts
  /\ elsewhere \in 0 .. MaxElsewhere
  /\ touched \in BOOLEAN

Init ==
  /\ core \in [packs : Packs, locked : BOOLEAN]
  /\ view = Empty
  /\ run = [c \in 1 .. Mounts |-> NoRun]
  /\ live = {} /\ mount = 1 /\ elsewhere = 0 /\ touched = FALSE

-----------------------------------------------------------------------------
\* run: refused, without a word, while the controller has a run, also one
\* that was cancelled.
Start(change) ==
  /\ run[mount].step = "none" /\ ~view.pending
  /\ run' = [run EXCEPT ![mount] = [step |-> "opening", change |-> change,
                                    current |-> TRUE, session |-> 0]]
  /\ view' = [view EXCEPT !.pending = TRUE, !.error = FALSE, !.unread = FALSE]
  /\ UNCHANGED <<core, live, mount, elsewhere, touched>>

\* The buttons that change: the world is not locked and its packs are shown.
Mutable == view.locked = FALSE /\ view.content # None /\ ~view.pending

Offered ==
  {x \in Changes :
    CASE x.op = "adopt" -> \E f \in Files : view.content[f] = "loose"
      [] x.op = "install" -> TRUE
      [] OTHER -> view.content[x.file] \in {"on", "off"}}

Load == Start(None)
Change(x) == Mutable /\ x \in Offered /\ Start(x)

Disowned(c) == [run EXCEPT ![c].current = FALSE]
Closed(c) == live \ {<<c, run[c].session>>}

\* cancel: the session of the run is closed, if it has one by now.
Cancel ==
  /\ run' = Disowned(mount) /\ live' = Closed(mount) /\ view' = Empty
  /\ UNCHANGED <<core, mount, elsewhere, touched>>

\* The panel is left, and entered again.
Remount ==
  /\ mount < Mounts /\ mount' = mount + 1
  /\ run' = Disowned(mount) /\ live' = Closed(mount) /\ view' = Empty
  /\ UNCHANGED <<core, elsewhere, touched>>

-----------------------------------------------------------------------------
\* What was asked is of no use once the core has answered.
Goes(c, step) ==
  run' = [run EXCEPT ![c].step = step, ![c].change = IF step = "acting" THEN @ ELSE None]

\* refresh begins: nothing is shown until it is read.
Refreshing(failed) ==
  [view EXCEPT !.content = None, !.locked = None, !.error = failed, !.unread = FALSE]

Fresh(x) == x.op \in {"install", "set-version"} /\ x.fresh

Fails(c) == IF run[c].current THEN [view EXCEPT !.error = TRUE] ELSE view

\* Slip: the packs are read again after a change that failed only.
FinallySlip(c, failed) ==
  IF ~run[c].current \/ ~failed THEN Goes(c, "closing") /\ UNCHANGED view
  ELSE IF Fresh(run[c].change) THEN Goes(c, "releasing") /\ view' = Fails(c)
  ELSE Goes(c, "listing") /\ view' = Refreshing(TRUE)

\* The finally of a change: the packs are read again, whether it was done or
\* failed, and after one from CurseForge on a session of its own.
Finally(c, failed) ==
  IF ~run[c].current THEN Goes(c, "closing") /\ UNCHANGED view
  ELSE IF Fresh(run[c].change)
  THEN Goes(c, "releasing") /\ view' = (IF failed THEN Fails(c) ELSE view)
  ELSE Goes(c, "listing") /\ view' = Refreshing(failed)

\* The session is open, or could not be opened.
Opened(c) ==
  /\ run[c].step = "opening"
  /\ LET Has(step) == run' = [run EXCEPT ![c].step = step, ![c].session = 1]
     IN \/ /\ live' = live \cup {<<c, 1>>}
           /\ IF ~run[c].current THEN Has("closing") /\ UNCHANGED view
              ELSE IF run[c].change = None THEN Has("listing") /\ view' = Refreshing(FALSE)
              ELSE Has("checking") /\ UNCHANGED view
        \/ Goes(c, "closing") /\ view' = Fails(c) /\ UNCHANGED live
  /\ UNCHANGED <<core, mount, elsewhere, touched>>

\* The lease of the instance, which the request that changes takes.
Leased == \E c \in 1 .. Mounts : run[c].step = "acting"

\* checkWorld before a change: a locked world is left alone.
Checked(c) ==
  /\ run[c].step = "checking"
  /\ \/ /\ run[c].current /\ ~core.locked /\ ~Leased
        /\ Goes(c, "acting") /\ view' = [view EXCEPT !.locked = FALSE]
     \/ Finally(c, TRUE)
  /\ UNCHANGED <<core, live, mount, elsewhere, touched>>

\* The packs after a change.  A version that is installed or set brings a file
\* of its own.
After(x) ==
  LET p == core.packs
  IN CASE x.op = "toggle" -> {[p EXCEPT ![x.file] = IF @ = "on" THEN "off" ELSE "on"]}
       [] x.op = "remove" -> {[p EXCEPT ![x.file] = "none"]}
       [] x.op = "adopt" -> {[f \in Files |-> IF p[f] = "loose" THEN "on" ELSE p[f]]}
       [] x.op = "install" -> {[p EXCEPT ![f] = "on"] : f \in {g \in Files : p[g] = "none"}}
       [] x.op = "set-version" -> {[p EXCEPT ![x.file] = "none", ![f] = "on"] :
                                     f \in {g \in Files : p[g] = "none" \/ g = x.file}}

\* The core did the change or did not; it looks at the lock once more.
Acted(c) ==
  /\ run[c].step = "acting"
  /\ \/ /\ ~core.locked
        /\ \E p \in After(run[c].change) : core' = [core EXCEPT !.packs = p]
        /\ touched' = (touched \/ ~run[c].current)
        /\ \E failed \in BOOLEAN : Finally(c, failed)
     \/ Finally(c, TRUE) /\ UNCHANGED <<core, touched>>
  /\ UNCHANGED <<live, mount, elsewhere>>

\* After a change from CurseForge the session is closed and another is opened.
Released(c) ==
  /\ run[c].step = "releasing"
  /\ live' = Closed(c)
  /\ Goes(c, IF run[c].current THEN "reopening" ELSE "closing")
  /\ UNCHANGED <<core, view, mount, elsewhere, touched>>

Reopened(c) ==
  /\ run[c].step = "reopening"
  /\ \/ /\ live' = live \cup {<<c, 2>>}
        /\ run' = [run EXCEPT ![c].session = 2,
                              ![c].step = IF run[c].current THEN "listing" ELSE "closing"]
        /\ view' = IF run[c].current THEN Refreshing(view.error) ELSE view
     \/ /\ Goes(c, "closing") /\ UNCHANGED live
        /\ view' = IF run[c].current THEN [view EXCEPT !.unread = TRUE] ELSE view
  /\ UNCHANGED <<core, mount, elsewhere, touched>>

Unread(c) ==
  /\ Goes(c, "closing")
  /\ view' = IF run[c].current THEN [view EXCEPT !.unread = TRUE] ELSE view

\* refresh: the list, then the lock; each may fail.
Listed(c) ==
  /\ run[c].step = "listing"
  /\ \/ /\ run[c].current /\ Goes(c, "looking")
        /\ view' = [view EXCEPT !.content = core.packs] /\ touched' = FALSE
     \/ Unread(c) /\ UNCHANGED touched
  /\ UNCHANGED <<core, live, mount, elsewhere>>

Looked(c) ==
  /\ run[c].step = "looking"
  /\ \/ run[c].current /\ Goes(c, "closing") /\ view' = [view EXCEPT !.locked = core.locked]
     \/ Unread(c)
  /\ UNCHANGED <<core, live, mount, elsewhere, touched>>

\* The last finally: the session is closed and the next run may start.
Ended(c) ==
  /\ run[c].step = "closing"
  /\ live' = Closed(c)
  /\ run' = [run EXCEPT ![c] = NoRun]
  /\ view' = IF run[c].current THEN [view EXCEPT !.pending = FALSE] ELSE view
  /\ UNCHANGED <<core, mount, elsewhere, touched>>

-----------------------------------------------------------------------------
\* The game opens or leaves the world, or another page changes its packs.
Elsewhere ==
  /\ elsewhere < MaxElsewhere /\ elsewhere' = elsewhere + 1
  /\ \/ core' = [core EXCEPT !.locked = ~@] /\ UNCHANGED touched
     \/ /\ ~Leased /\ ~core.locked /\ touched' = TRUE
        /\ \E p \in Packs \ {core.packs} : core' = [core EXCEPT !.packs = p]
  /\ UNCHANGED <<view, run, live, mount>>

Next ==
  \/ Load \/ Cancel \/ Remount \/ Elsewhere
  \/ \E x \in Changes : Change(x)
  \/ \E c \in 1 .. Mounts :
       Opened(c) \/ Checked(c) \/ Acted(c) \/ Released(c) \/ Reopened(c)
         \/ Listed(c) \/ Looked(c) \/ Ended(c)

Spec == Init /\ [][Next]_vars

-----------------------------------------------------------------------------
\* The packs shown at rest are those of the world, unless the panel says that
\* something failed or somebody else changed them since; a change that was
\* cancelled, and may still have been done, is somebody else's.
ShownAreThere ==
  (~view.pending /\ view.content # None /\ ~view.error /\ ~view.unread /\ ~touched)
    => view.content = core.packs

\* Whatever was cancelled at whatever point, a controller without a run has
\* left no session open.
NoSessionLeft ==
  \A c \in 1 .. Mounts : run[c].step = "none" => \A n \in {1, 2} : <<c, n>> \notin live
=============================================================================
