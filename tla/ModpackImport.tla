---------------------------- MODULE ModpackImport ----------------------------
(***************************************************************************)
(* Importing a modpack: the dialog (ModpackImportDialog.tsx), the registry *)
(* of imports that outlives it (modpackTasks.tsx) and the controller that  *)
(* runs one import (modpackImport.ts).                                     *)
(*                                                                         *)
(* An import submits its archive once.  What comes after it, reading the   *)
(* instance, installing and preparing the game, may be resumed when it     *)
(* failed with an error the program knows; an archive whose outcome is not *)
(* known is never submitted again.  The import holds the instance's lease, *)
(* and releases it between a failure and the user's resume: other          *)
(* operations of the program then may delete and make the instance again.  *)
(***************************************************************************)
EXTENDS Naturals

CONSTANTS
  Ids,        \* instance ids the user may enter
  Files,      \* archives the user may choose
  Keyed,      \* those of CurseForge: their session is spent by the archive
  Tasks,      \* imports that may be started, 1 .. n
  Manifests,  \* what instance.get may say of an instance: its identity
  None

VARIABLES
  task,   \* import -> its record
  dialog, \* the dialog: closed, or what it shows
  draft,  \* the registry's draft: archive, its preview, id
  pick,   \* the dialog's choice of an archive: step and archive
  lease,  \* instance -> the import that holds its lease, or 0
  core    \* instance -> its manifest, or None

vars == <<task, dialog, draft, pick, lease, core>>

Fresh == [id |-> None, file |-> None, phase |-> "none", step |-> "none", error |-> None,
          attempted |-> FALSE, confirmed |-> FALSE, installed |-> None, identity |-> None]

Steps == {"opening", "listing", "archive", "reopening", "manifest", "installing",
          "preparing", "closing"}
Phases == {"none", "idle", "checking", "archive", "manifest", "install", "prepare",
           "success", "error"}
Errors == {"known", "invalid", "unknown"}

\* The controller's flags: busy from the start of run to the end of its finally.
Busy(t) == task[t].step # "none"
Started(t) == task[t].id # None

CanResume(t) == task[t].phase = "error" /\ task[t].confirmed /\ task[t].error = "known"
CanEdit(t) == task[t].phase = "error" /\ ~task[t].confirmed /\ task[t].error = "known"

TypeOK ==
  /\ task \in [Tasks -> [id : Ids \cup {None}, file : Files \cup {None}, phase : Phases,
                         step : Steps \cup {"none"}, error : Errors \cup {None},
                         attempted : BOOLEAN, confirmed : BOOLEAN, installed : Manifests \cup {None},
                         identity : Manifests \cup {None}]]
  /\ dialog \in [open : BOOLEAN, shows : Tasks \cup {0}]
  /\ draft \in [file : Files \cup {None}, preview : Files \cup {None}, id : Ids \cup {None}]
  /\ pick \in [step : {"none", "choosing", "reading"}, file : Files \cup {None}]
  /\ lease \in [Ids -> Tasks \cup {0}]
  /\ core \in [Ids -> Manifests \cup {None}]

Init ==
  /\ task = [t \in Tasks |-> Fresh]
  /\ dialog = [open |-> FALSE, shows |-> 0]
  /\ draft = [file |-> None, preview |-> None, id |-> None]
  /\ pick = [step |-> "none", file |-> None]
  /\ lease = [i \in Ids |-> 0]
  /\ core \in [Ids -> Manifests \cup {None}]

-----------------------------------------------------------------------------
\* The dialog.

\* show and hide.  A dialog that goes away forgets the choice it was making.
Show(t) ==
  /\ t = 0 \/ (t \in Tasks /\ Started(t))
  /\ dialog' = [open |-> TRUE, shows |-> t]
  /\ pick' = [step |-> "none", file |-> None]
  /\ UNCHANGED <<task, draft, lease, core>>

Hide ==
  /\ dialog.open
  /\ dialog' = [dialog EXCEPT !.open = FALSE]
  /\ pick' = [step |-> "none", file |-> None]
  /\ UNCHANGED <<task, draft, lease, core>>

Drafting == dialog.open /\ dialog.shows = 0

Pick ==
  /\ Drafting /\ pick.step = "none"
  /\ pick' = [step |-> "choosing", file |-> None]
  /\ UNCHANGED <<task, dialog, draft, lease, core>>

\* Slip: the old preview stays until the new one has been read.
ChosenSlip(f) == draft' = [draft EXCEPT !.file = f]

\* The archive is shown without the preview of the one before it.
Chosen(f) == draft' = [draft EXCEPT !.file = f, !.preview = None]

Choose(f) ==
  /\ pick.step = "choosing"
  /\ \/ Chosen(f) /\ pick' = [step |-> "reading", file |-> f]
     \/ pick' = [step |-> "none", file |-> None] /\ UNCHANGED draft
  /\ UNCHANGED <<task, dialog, lease, core>>

\* The preview is read, or cannot be; an id is suggested if none was entered.
Preview(i) ==
  /\ pick.step = "reading"
  /\ \/ draft' = [file |-> pick.file, preview |-> pick.file,
                  id |-> IF draft.id = None THEN i ELSE draft.id]
     \/ UNCHANGED draft
  /\ pick' = [step |-> "none", file |-> None]
  /\ UNCHANGED <<task, dialog, lease, core>>

EnterId(i) ==
  /\ Drafting /\ pick.step = "none"
  /\ draft' = [draft EXCEPT !.id = i]
  /\ UNCHANGED <<task, dialog, pick, lease, core>>

-----------------------------------------------------------------------------
\* The registry.

\* Slip: only imports that can go on are looked for.
KeepsSlip(t) == Busy(t) \/ CanResume(t)

\* An import that has not come to a safe end keeps its instance.
Keeps(t) ==
  Busy(t) \/ CanResume(t) \/ task[t].error \in {"unknown", "invalid"}

Existing(i) == {t \in Tasks : Started(t) /\ task[t].id = i /\ Keeps(t)}

\* run begins: the lease is taken, or the import ends with an error at once.
Begin(record, t) ==
  IF lease[record.id] = 0
  THEN /\ lease' = [lease EXCEPT ![record.id] = t]
       /\ task' = [task EXCEPT ![t] = [record EXCEPT !.step = "opening", !.error = None]]
  ELSE /\ task' = [task EXCEPT ![t] = [record EXCEPT !.phase = "error", !.error = "known"]]
       /\ UNCHANGED lease

\* Confirm and install.
Start(t) ==
  /\ Drafting /\ pick.step = "none" /\ draft.preview # None /\ draft.id # None
  /\ IF Existing(draft.id) # {}
     THEN /\ dialog' = [dialog EXCEPT !.shows = CHOOSE u \in Existing(draft.id) : TRUE]
          /\ UNCHANGED <<task, lease>>
     ELSE /\ ~Started(t) /\ \A u \in Tasks : u < t => Started(u)
          /\ Begin([Fresh EXCEPT !.id = draft.id, !.file = draft.file, !.phase = "idle"], t)
          /\ dialog' = [dialog EXCEPT !.shows = t]
  /\ UNCHANGED <<draft, pick, core>>

\* Resume game setup.
Resume(t) ==
  /\ dialog.open /\ dialog.shows = t /\ CanResume(t) /\ ~Busy(t)
  /\ Begin(task[t], t)
  /\ UNCHANGED <<dialog, draft, pick, core>>

\* Edit selection and retry: an import that changed nothing is retired.
Edit(t) ==
  /\ dialog.open /\ dialog.shows = t /\ CanEdit(t) /\ ~Busy(t)
  /\ task' = [task EXCEPT ![t] = [Fresh EXCEPT !.id = task[t].id, !.phase = "success"]]
  /\ dialog' = [dialog EXCEPT !.shows = 0]
  /\ UNCHANGED <<draft, pick, lease, core>>

-----------------------------------------------------------------------------
\* One import, from one await to the next.

Goes(t, step, phase) ==
  task' = [task EXCEPT ![t].step = step, ![t].phase = phase]

\* The catch: the error is published, then the session is closed.
Fails(t, e) ==
  task' = [task EXCEPT ![t].step = "closing", ![t].phase = "error", ![t].error = e]

Opened(t) ==
  /\ task[t].step = "opening"
  /\ IF task[t].confirmed THEN Goes(t, "manifest", "manifest")
     ELSE Goes(t, "listing", "checking")
  /\ UNCHANGED <<dialog, draft, pick, lease, core>>

\* An instance of the name is never overwritten.
Listed(t) ==
  /\ task[t].step = "listing"
  /\ IF core[task[t].id] # None THEN Fails(t, "known")
     ELSE task' = [task EXCEPT ![t].step = "archive", ![t].phase = "archive",
                               ![t].attempted = TRUE]
  /\ UNCHANGED <<dialog, draft, pick, lease, core>>

\* The core has imported the archive.  Its summary may be one the program
\* cannot accept, which leaves a confirmed archive that is not resumed.
Imported(t, m) ==
  /\ task[t].step = "archive"
  /\ core' = [core EXCEPT ![task[t].id] = m]
  /\ LET done == [task[t] EXCEPT !.confirmed = TRUE]
     IN \/ task' = [task EXCEPT ![t] =
               IF done.file \in Keyed THEN [done EXCEPT !.step = "reopening"]
               ELSE [done EXCEPT !.step = "manifest", !.phase = "manifest"]]
        \/ task' = [task EXCEPT ![t] = [done EXCEPT !.step = "closing", !.phase = "error",
                                                    !.error = "invalid"]]
  /\ UNCHANGED <<dialog, draft, pick, lease>>

\* The answer is lost: the instance may be there or not.
ImportLost(t, m) ==
  /\ task[t].step = "archive"
  /\ core' = [core EXCEPT ![task[t].id] = m]
  /\ Fails(t, "unknown")
  /\ UNCHANGED <<dialog, draft, pick, lease>>

\* The session that carried the key is spent: a fresh one goes on.
Reopened(t) ==
  /\ task[t].step = "reopening" /\ Goes(t, "manifest", "manifest")
  /\ UNCHANGED <<dialog, draft, pick, lease, core>>

\* Slip: any instance of the name will do.
SameInstanceSlip(t) == core[task[t].id] # None

\* instance.get: the same instance as before, if one was read before.
SameInstance(t) ==
  /\ core[task[t].id] # None
  /\ task[t].identity \in {None, core[task[t].id]}

ManifestRead(t) ==
  /\ task[t].step = "manifest"
  /\ IF SameInstance(t)
     THEN task' = [task EXCEPT ![t] =
            [@ EXCEPT !.identity = core[task[t].id],
                      !.step = IF task[t].installed = None THEN "installing" ELSE "preparing",
                      !.phase = IF task[t].installed = None THEN "install" ELSE "prepare"]]
     ELSE Fails(t, IF core[task[t].id] = None THEN "known" ELSE "invalid")
  /\ UNCHANGED <<dialog, draft, pick, lease, core>>

\* The game is installed.  The program keeps a flag; the model keeps for which
\* instance, which the flag does not say.
Installed(t) ==
  /\ task[t].step = "installing"
  /\ task' = [task EXCEPT ![t].installed = core[task[t].id], ![t].step = "preparing",
                          ![t].phase = "prepare"]
  /\ UNCHANGED <<dialog, draft, pick, lease, core>>

Prepared(t) ==
  /\ task[t].step = "preparing" /\ Goes(t, "closing", "success")
  /\ UNCHANGED <<dialog, draft, pick, lease, core>>

\* Any await but the last may fail, with an error the program knows or not.
\* An archive refused with a known error has left no instance.
StepFails(t, e) ==
  /\ task[t].step \in Steps \ {"closing"}
  /\ task[t].step = "archive" => e = "known"
  /\ Fails(t, e)
  /\ UNCHANGED <<dialog, draft, pick, lease, core>>

\* The finally: the session is closed, the lease released.
Closed(t) ==
  /\ task[t].step = "closing"
  /\ task' = [task EXCEPT ![t].step = "none"]
  /\ lease' = [lease EXCEPT ![task[t].id] = 0]
  /\ UNCHANGED <<dialog, draft, pick, core>>

\* Another page deletes or creates the instance, under the same lease.
Other(i, m) ==
  /\ lease[i] = 0 /\ core[i] # m
  /\ core' = [core EXCEPT ![i] = m]
  /\ UNCHANGED <<task, dialog, draft, pick, lease>>

Next ==
  \/ Hide \/ Pick
  \/ \E t \in Tasks \cup {0} : Show(t)
  \/ \E f \in Files : Choose(f)
  \/ \E i \in Ids : Preview(i) \/ EnterId(i)
  \/ \E i \in Ids, m \in Manifests \cup {None} : Other(i, m)
  \/ \E t \in Tasks :
       \/ Start(t) \/ Resume(t) \/ Edit(t) \/ Opened(t) \/ Listed(t) \/ Reopened(t)
       \/ ManifestRead(t) \/ Installed(t) \/ Prepared(t) \/ Closed(t)
       \/ \E m \in Manifests : Imported(t, m)
       \/ \E m \in Manifests \cup {None} : ImportLost(t, m)
       \/ \E e \in {"known", "unknown"} : StepFails(t, e)

Spec == Init /\ [][Next]_vars

-----------------------------------------------------------------------------
\* An archive is submitted for an instance only when every earlier import of
\* it has come to a safe end: no second import is past the submission while
\* an earlier one is unfinished or its outcome unknown.
ArchiveOnce ==
  \A t, u \in Tasks :
    (t # u /\ task[t].attempted /\ task[u].attempted /\ task[t].id = task[u].id)
      => \E x \in {t, u} : ~Busy(x) /\ (task[x].phase = "success" \/ CanEdit(x))

\* A resumed import prepares the instance whose game it installed, not one of
\* the same name that was made since, and nothing else changes it meanwhile.
SetsUpItsOwn ==
  \A t \in Tasks :
    /\ task[t].step \in {"installing", "preparing"}
         => core[task[t].id] = task[t].identity /\ lease[task[t].id] = t
    /\ task[t].step = "preparing" => core[task[t].id] = task[t].installed

\* The dialog shows, and would submit, an archive with that archive's preview.
PreviewOfFile == draft.preview \in {None, draft.file}
=============================================================================
