--------------------------- MODULE PackActivation ---------------------------
(***************************************************************************)
(* Which resource packs and which shader an instance uses: the editors     *)
(* (PackActivation.tsx, ShaderActivation.tsx), the commands that read and  *)
(* rewrite the game's configuration (pack_activation.rs, windows.rs) and   *)
(* the lock that keeps them apart from the requests of the core (lib.rs).  *)
(*                                                                         *)
(* One instance.  A configuration is what the editor is about, a list of   *)
(* packs and a switch, and the rest of the file.  The game, started        *)
(* elsewhere, rewrites it whenever it likes and knows of no lock.  The     *)
(* leases of the GUI (InstanceTasks) are left out: requests of a page that *)
(* was reloaded have none, and the lock has to hold without them.          *)
(***************************************************************************)
EXTENDS Naturals, Sequences, FiniteSets

CONSTANTS
  Targets,      \* the files: options.txt, iris.properties, oculus.properties
  Shaders,      \* those of them that configure a shader
  Packs,        \* entries of the list, whether installed or not
  Lists,        \* the lists that occur: sequences over Packs
  Rests,        \* what else a file can say
  Calls,        \* invocations of the commands
  Requests,     \* core_request
  MaxSnapshots, \* 64 in the code
  MaxSequence,  \* bound on the revisions
  MaxEdits,     \* bound on the writes of others
  None

VARIABLES
  platform,   \* "unix" or "windows": two versions of `files`
  files,      \* files[t]: list, switch, rest and inode
  installed,  \* the packs in the folder
  readers,    \* shared guards of PackActivationState.requests
  writer,     \* the exclusive one: a call, or None
  snapshots,  \* the two tables, as one set of records
  sequence,   \* AtomicU64
  edits,      \* writes of others so far
  calls,      \* calls[c]: one invocation
  view        \* the mounted editor: its file, what it shows, the call it waits for

vars == <<platform, files, installed, readers, writer, snapshots, sequence, edits, calls, view>>

Contents == [list : Lists, on : BOOLEAN, rest : Rests]
ContentsOf(t) == {k \in Contents : IF t \in Shaders THEN Len(k.list) <= 1 ELSE ~k.on}
Saved == [revision : Nat, target : Targets, original : Contents]
Shown == [revision : Nat, content : Contents]

\* seen and raced are history: what the editor had loaded when it saved, and
\* whether somebody else wrote after the last comparison.
Invocations ==
  [pc : {"idle", "read", "write", "staged", "checked", "answer"},
   target : Targets, revision : Nat, list : Lists, on : BOOLEAN, seen : Contents,
   original : Contents, node : {0, 1}, result : Shown \cup {None}, raced : BOOLEAN]

Blank == CHOOSE k \in Contents : Len(k.list) = 1
Idle == [pc |-> "idle", target |-> CHOOSE t \in Targets : TRUE, revision |-> 0,
         list |-> Blank.list, on |-> FALSE, seen |-> Blank, original |-> Blank,
         node |-> 0, result |-> None, raced |-> FALSE]

Views == [target : Targets, shown : Shown \cup {None}, call : Calls \cup {None}]

TypeOK ==
  /\ platform \in {"unix", "windows"}
  /\ files \in [Targets -> [content : Contents, node : {0, 1}]]
  /\ installed \in SUBSET Packs
  /\ readers \in SUBSET Requests
  /\ writer \in Calls \cup {None}
  /\ snapshots \in SUBSET Saved
  /\ sequence \in Nat /\ edits \in Nat
  /\ calls \in [Calls -> Invocations]
  /\ view \in Views

Init ==
  /\ platform \in {"unix", "windows"}
  /\ \E on \in BOOLEAN : files = [t \in Targets |->
       [content |-> [Blank EXCEPT !.on = on /\ t \in Shaders], node |-> 0]]
  /\ calls = [c \in Calls |-> Idle]
  /\ installed = Packs
  /\ readers = {} /\ writer = None /\ snapshots = {} /\ sequence = 0 /\ edits = 0
  /\ view \in [target : Targets, shown : {None}, call : {None}]

-----------------------------------------------------------------------------
(* The editors, a tab each, so that one is mounted.  lock, request and      *)
(* alive of a mount are view.call: the call whose answer it waits for.      *)

Invoke(c, call) ==
  /\ calls[c].pc = "idle" /\ view.call = None
  /\ calls' = [calls EXCEPT ![c] = call]
  /\ UNCHANGED <<platform, files, installed, readers, writer, snapshots, sequence, edits>>

Load == \E c \in Calls :
  /\ Invoke(c, [Idle EXCEPT !.pc = "read", !.target = view.target])
  /\ view' = [view EXCEPT !.call = c, !.shown = IF view.target \in Shaders THEN None ELSE @]

\* The user's list and switch.  What the editor does not let her do, drop an
\* entry that was not installed when it was read, is left to the bridge to refuse.
Opaque(list, available) == SelectSeq(list, LAMBDA p : p \notin available)
Editable(list, on) == LET s == view.shown IN
  /\ s # None /\ <<list, on>> # <<s.content.list, s.content.on>>
  /\ view.target \notin Shaders => on = s.content.on
  /\ view.target \in Shaders => Len(list) <= 1 /\ (on => list # <<>>)

Save(list, on) == \E c \in Calls :
  /\ Editable(list, on)
  /\ Invoke(c, [Idle EXCEPT !.pc = "write", !.target = view.target,
       !.revision = view.shown.revision, !.list = list, !.on = on,
       !.seen = view.shown.content])
  /\ view' = [view EXCEPT !.call = c]

\* The answer counts if the mount that asked is still there.
Deliver(c) ==
  /\ calls[c].pc = "answer"
  /\ view' = IF view.call # c THEN view
             ELSE [view EXCEPT !.call = None, !.shown = calls[c].result]
  /\ calls' = [calls EXCEPT ![c] = Idle]
  /\ UNCHANGED <<platform, files, installed, readers, writer, snapshots, sequence, edits>>

\* Another tab or another instance and back, with calls under way; and, only
\* while none is, another runtime.
Mount(t) ==
  /\ view' = [target |-> t, shown |-> None, call |-> None]
  /\ UNCHANGED <<platform, files, installed, readers, writer, snapshots, sequence, edits, calls>>
Choose(t) == view.target \in Shaders /\ view.call = None /\ Mount(t)

-----------------------------------------------------------------------------
(* The commands.  A call takes the lock if it is free and never waits.      *)

Free == writer = None /\ readers = {}

Table(t) == {s \in snapshots : (s.target \in Shaders) <=> (t \in Shaders)}
Kept(t) == IF Cardinality(Table(t)) >= MaxSnapshots THEN snapshots \ Table(t) ELSE snapshots

\* An answer that no mount waits for any more is dropped.
Answer(c, result) == calls' = [calls EXCEPT ![c] =
  IF view.call = c THEN [Idle EXCEPT !.pc = "answer", !.result = result] ELSE Idle]

\* The snapshot of `content`, numbered and remembered.
Snapshot(c, content) == LET t == calls[c].target IN
  /\ sequence < MaxSequence
  /\ sequence' = sequence + 1
  /\ snapshots' = Kept(t) \cup {[revision |-> sequence, target |-> t, original |-> content]}
  /\ Answer(c, [revision |-> sequence, content |-> content])

Read(c) ==
  /\ calls[c].pc = "read" /\ Free
  /\ Snapshot(c, files[calls[c].target].content)
  /\ UNCHANGED <<platform, files, installed, readers, writer, edits, view>>

\* Busy; or a path that is no plain directory, a strange manifest, a missing
\* file, one that the parser refuses.
ReadFails(c) ==
  /\ calls[c].pc = "read"
  /\ Answer(c, None)
  /\ UNCHANGED <<platform, files, installed, readers, writer, snapshots, sequence, edits, view>>

WriteBusySlip(c) == calls[c].pc = "write" /\ writer # None
WriteBusy(c) == calls[c].pc = "write" /\ ~Free
Refuse(c) ==
  /\ WriteBusy(c)
  /\ Answer(c, None)
  /\ UNCHANGED <<platform, files, installed, readers, writer, snapshots, sequence, edits, view>>

ValidSelection(c, saved) ==
  Opaque(calls[c].list, installed) = Opaque(saved.list, installed)
ValidShader(c, saved) == LET l == calls[c].list IN
  /\ calls[c].on => l # <<>>
  /\ \A i \in DOMAIN l : l[i] \in installed \/ (~calls[c].on /\ l = saved.list)

\* The revision is used up; the file must be what it was then, twice: before the
\* selection is judged, and when its identity is taken.  The new content is in a
\* temporary file named by the next number.
Write(c) == \E s \in {s \in Table(calls[c].target) : s.revision = calls[c].revision} :
  /\ calls[c].pc = "write" /\ ~WriteBusy(c)
  /\ snapshots' = snapshots \ {s}
  /\ s.target = calls[c].target
  /\ files[s.target].content = s.original
  /\ IF s.target \in Shaders THEN ValidShader(c, s.original) ELSE ValidSelection(c, s.original)
  /\ writer' = c
  /\ sequence < MaxSequence /\ sequence' = sequence + 1
  /\ calls' = [calls EXCEPT ![c].pc = "staged", ![c].original = s.original,
                            ![c].node = files[s.target].node]
  /\ UNCHANGED <<platform, files, installed, readers, edits, view>>

\* The guard is dropped, the revision gone, if the call had got so far.
WriteFails(c) ==
  /\ calls[c].pc \in {"write", "staged", "checked"}
  /\ calls[c].pc = "write" => ~WriteBusy(c)
  /\ snapshots' = snapshots \ {s \in Table(calls[c].target) :
                     calls[c].pc = "write" /\ s.revision = calls[c].revision}
  /\ writer' = IF writer = c THEN None ELSE writer
  /\ Answer(c, None)
  /\ UNCHANGED <<platform, files, installed, readers, sequence, edits, view>>

\* Second comparison, on Unix of the file that has the name now, on Windows of
\* the handle, which others could not write to and which is closed hereafter.
CompareUnix(c) == files[calls[c].target] = [content |-> calls[c].original, node |-> calls[c].node]
CompareWindows(c) == files[calls[c].target].content = calls[c].original
Check(c) ==
  /\ calls[c].pc = "staged"
  /\ IF platform = "unix" THEN CompareUnix(c) ELSE CompareWindows(c)
  /\ calls' = [calls EXCEPT ![c].pc = "checked"]
  /\ UNCHANGED <<platform, files, installed, readers, writer, snapshots, sequence, edits, view>>

ReplaceOptions(c) == [calls[c].original EXCEPT !.list = calls[c].list]
ReplaceShader(c) == [calls[c].original EXCEPT !.list = calls[c].list, !.on = calls[c].on]
Replacement(c) == IF calls[c].target \in Shaders THEN ReplaceShader(c) ELSE ReplaceOptions(c)

Put(c) == files' = [files EXCEPT ![calls[c].target] =
                      [content |-> Replacement(c), node |-> 1 - @.node]]
Rename(c) ==
  /\ calls[c].pc = "checked"
  /\ Put(c) /\ Snapshot(c, Replacement(c))
  /\ writer' = None
  /\ UNCHANGED <<platform, installed, readers, edits, view>>
\* Replaced, and the directory's sync fails: an error all the same.
RenameUnsynced(c) ==
  /\ calls[c].pc = "checked" /\ platform = "unix"
  /\ Put(c) /\ Answer(c, None)
  /\ writer' = None
  /\ UNCHANGED <<platform, installed, readers, snapshots, sequence, edits, view>>

-----------------------------------------------------------------------------
(* Requests of the core, and the game.                                      *)

Begin(r) ==
  /\ r \notin readers /\ writer = None
  /\ readers' = readers \cup {r}
  /\ UNCHANGED <<platform, files, installed, writer, snapshots, sequence, edits, calls, view>>
End(r) ==
  /\ r \in readers /\ readers' = readers \ {r}
  /\ UNCHANGED <<platform, files, installed, writer, snapshots, sequence, edits, calls, view>>
\* A request under way installs or removes packs.
Works(r) ==
  /\ r \in readers
  /\ \E p \in Packs : installed' = (installed \ {p}) \cup ({p} \ installed)
  /\ UNCHANGED <<platform, files, readers, writer, snapshots, sequence, edits, calls, view>>

\* On Windows the file of a staged call is open and shared for reading alone.
Shared(t) == platform = "windows" =>
  \A c \in Calls : ~(calls[c].pc = "staged" /\ calls[c].target = t)
External(t) ==
  /\ edits < MaxEdits /\ edits' = edits + 1
  /\ Shared(t)
  /\ \E k \in ContentsOf(t), n \in {0, 1} :
       files' = [files EXCEPT ![t] = [content |-> k, node |-> n]]
  /\ calls' = [c \in Calls |->
       IF calls[c].pc = "checked" /\ calls[c].target = t
       THEN [calls[c] EXCEPT !.raced = TRUE] ELSE calls[c]]
  /\ UNCHANGED <<platform, installed, readers, writer, snapshots, sequence, view>>

CallStep(c) ==
  \/ Read(c) \/ ReadFails(c) \/ Refuse(c) \/ Write(c) \/ WriteFails(c)
  \/ Check(c) \/ Rename(c) \/ RenameUnsynced(c)
  \/ Deliver(c)

Next ==
  \/ Load \/ \E t \in Targets : Mount(t)
  \/ \E l \in Lists, on \in BOOLEAN : Save(l, on)
  \/ \E t \in Shaders : Choose(t)
  \/ \E c \in Calls : CallStep(c)
  \/ \E r \in Requests : Begin(r) \/ End(r) \/ Works(r)
  \/ \E t \in Targets : External(t)

Spec == Init /\ [][Next]_vars

-----------------------------------------------------------------------------
(***************************************************************************)
(* A save replaces the file that its editor had loaded, whole, and nothing *)
(* else: not one that the game, another editor or a request has changed in *)
(* the meantime, through a revision that was reused, or swapped.  In it    *)
(* the entries that are not installed stay, in their order, with the rest, *)
(* and a shader that is on is installed, at that moment and not only when  *)
(* it was looked up.  Excepted is a write between the last comparison and  *)
(* the rename, which no portable call could exclude.                       *)
(***************************************************************************)
Replaces(c) == calls[c].pc = "checked" /\ calls'[c].pc # "checked" /\ files' # files
KeepsUnknown == \A c \in Calls : Replaces(c) /\ ~calls[c].raced =>
  LET t == calls[c].target
      before == files[t].content
      after == files'[t].content
  IN /\ before = calls[c].seen /\ after.rest = before.rest
     /\ \A u \in Targets \ {t} : files'[u] = files[u]
     /\ IF t \in Shaders
        THEN after.on => after.list # <<>> /\ after.list[1] \in installed
        ELSE /\ after.on = before.on
             /\ Opaque(after.list, installed) = Opaque(before.list, installed)
SaveKeepsUnknown == [][KeepsUnknown]_vars
=============================================================================
