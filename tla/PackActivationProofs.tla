------------------------ MODULE PackActivationProofs ------------------------
(***************************************************************************)
(* A save of a pack or shader selection, proved for any number of files,   *)
(* packs, commands under way and requests.  The argument runs along the    *)
(* revision of a snapshot: whoever holds one, the table, the editor, a     *)
(* command or its answer, means the same content by it, so that a command  *)
(* that took the lock compares the file with what its editor had loaded.   *)
(* No request runs while it holds the lock, so what it found installed     *)
(* stays so, and what it compared last is what it replaces, unless others  *)
(* wrote in between.                                                       *)
(***************************************************************************)
EXTENDS PackActivation, TLAPS

\* There is a file, a list of one pack to begin with, and None is no call.
DataOK ==
  /\ Targets # {} /\ Shaders \subseteq Targets
  /\ Lists \subseteq Seq(Packs) /\ \E l \in Lists : Len(l) = 1
  /\ Rests # {}
  /\ None \notin Calls

Staged(c) == calls[c].pc \in {"staged", "checked"}

\* A content that somebody takes for that of a revision is that of its snapshot.
Agrees(k) ==
  /\ k.revision < sequence
  /\ \A s \in snapshots : s.revision = k.revision => s.original = k.content
Loaded(c) == [revision |-> calls[c].revision, content |-> calls[c].seen]

Valid(c) == IF calls[c].target \in Shaders THEN ValidShader(c, calls[c].original)
                                           ELSE ValidSelection(c, calls[c].original)

SnapshotInv == \A s \in snapshots : s.revision < sequence
LockInv == writer # None => readers = {}
ViewInv == view.shown # None => Agrees(view.shown)
CallOK(c) ==
  /\ calls[c].pc = "answer" /\ calls[c].result # None => Agrees(calls[c].result)
  /\ calls[c].pc = "write" => Agrees(Loaded(c))
  /\ Staged(c) => writer = c /\ calls[c].original = calls[c].seen /\ Valid(c)
  /\ calls[c].pc = "checked" /\ ~calls[c].raced =>
       files[calls[c].target].content = calls[c].original
CallInv == \A c \in Calls : CallOK(c)

IInv == TypeOK /\ SnapshotInv /\ LockInv /\ ViewInv /\ CallInv

-----------------------------------------------------------------------------
Nodes == [content : Contents, node : {0, 1}]

LEMMA BlankFacts == ASSUME DataOK PROVE Blank \in Contents /\ Len(Blank.list) = 1
<1>1. PICK l \in Lists, e \in Rests : Len(l) = 1
  BY DEF DataOK
<1>2. [list |-> l, on |-> FALSE, rest |-> e] \in Contents
  BY DEF Contents
<1>3. \E k \in Contents : Len(k.list) = 1
  BY <1>1, <1>2
<1> QED BY <1>3 DEF Blank

LEMMA IdleFacts == ASSUME DataOK PROVE Idle \in Invocations /\ Idle.pc = "idle" /\ ~Idle.raced
<1>1. Blank \in Contents /\ Blank.list \in Lists
  BY BlankFacts DEF Contents
<1>2. (CHOOSE t \in Targets : TRUE) \in Targets
  BY DEF DataOK
<1> QED BY <1>1, <1>2 DEF Idle, Invocations

LEMMA InitInv == ASSUME DataOK PROVE Init => IInv
<1> SUFFICES ASSUME Init PROVE IInv
  OBVIOUS
<1>1. PICK on \in BOOLEAN : files = [t \in Targets |->
        [content |-> [Blank EXCEPT !.on = on /\ t \in Shaders], node |-> 0]]
  BY DEF Init
<1>2. \A t \in Targets : [Blank EXCEPT !.on = on /\ t \in Shaders] \in Contents
  BY BlankFacts DEF Contents
<1>3. files \in [Targets -> Nodes]
  BY <1>1, <1>2 DEF Nodes
<1>4. calls \in [Calls -> Invocations] /\ \A c \in Calls : calls[c].pc = "idle"
  BY IdleFacts DEF Init
<1>5. view \in Views /\ view.shown = None
  BY DEF Init, Views
<1>6. platform \in {"unix", "windows"} /\ installed \in SUBSET Packs /\ readers \in SUBSET Requests
      /\ writer = None /\ snapshots = {} /\ sequence = 0 /\ edits = 0
  BY DEF Init
<1>7. TypeOK
  BY <1>3, <1>4, <1>5, <1>6 DEF TypeOK, Nodes
<1>8. SnapshotInv /\ LockInv /\ ViewInv
  BY <1>5, <1>6 DEF SnapshotInv, LockInv, ViewInv
<1>9. CallInv
  BY <1>4 DEF CallInv, CallOK, Staged
<1> QED BY <1>7, <1>8, <1>9 DEF IInv

-----------------------------------------------------------------------------
(* The revisions.                                                           *)

\* Snapshots go away, or one is added under the number that comes next.
Grows ==
  /\ sequence' \in Nat /\ sequence <= sequence'
  /\ snapshots' \in SUBSET Saved
  /\ \A s \in snapshots' : s \in snapshots \/ (s.revision = sequence /\ sequence < sequence')

LEMMA GrowsLess == ASSUME TypeOK, snapshots' \subseteq snapshots, sequence' \in {sequence, sequence + 1}
  PROVE Grows
BY DEF TypeOK, Grows

LEMMA SnapshotsStay == ASSUME TypeOK, SnapshotInv, Grows PROVE SnapshotInv'
<1> SUFFICES ASSUME NEW s \in snapshots' PROVE s.revision < sequence'
  BY DEF SnapshotInv
<1>1. s.revision \in Nat /\ sequence \in Nat /\ sequence' \in Nat /\ sequence <= sequence'
  BY DEF Grows, TypeOK, Saved
<1>2. CASE s \in snapshots
  BY <1>1, <1>2 DEF SnapshotInv
<1>3. CASE s.revision = sequence /\ sequence < sequence'
  BY <1>3
<1> QED BY <1>2, <1>3 DEF Grows

LEMMA AgreesStays ==
  ASSUME TypeOK, Grows, NEW k, k.revision \in Nat, Agrees(k) PROVE Agrees(k)'
<1>1. sequence \in Nat /\ sequence' \in Nat /\ sequence <= sequence' /\ k.revision < sequence
  BY DEF TypeOK, Grows, Agrees
<1>2. k.revision < sequence'
  BY <1>1
<1>3. ASSUME NEW s \in snapshots', s.revision = k.revision PROVE s.original = k.content
  <2>1. s \in snapshots
    BY <1>1, <1>3 DEF Grows
  <2> QED BY <2>1, <1>3 DEF Agrees
<1> QED BY <1>2, <1>3 DEF Agrees

LEMMA ViewStays == ASSUME TypeOK, ViewInv, Grows, view' = view PROVE ViewInv'
<1> SUFFICES ASSUME view.shown # None PROVE Agrees(view.shown)'
  BY DEF ViewInv
<1>1. PICK k : k = view.shown
  OBVIOUS
<1>2. k.revision \in Nat /\ Agrees(k)
  BY <1>1 DEF TypeOK, Views, Shown, ViewInv
<1>3. Agrees(k)'
  BY <1>2, AgreesStays
<1> QED BY <1>1, <1>3 DEF Agrees

LEMMA CallStays ==
  ASSUME TypeOK, Grows, NEW c \in Calls, CallOK(c), calls'[c] = calls[c],
         Staged(c) => UNCHANGED <<files, installed, writer>>
  PROVE  CallOK(c)'
<1>1. calls[c] \in Invocations
  BY DEF TypeOK
<1>2. ASSUME calls[c].pc = "answer", calls[c].result # None PROVE Agrees(calls[c].result)'
  <2>1. PICK k : k = calls[c].result
    OBVIOUS
  <2>2. k.revision \in Nat /\ Agrees(k)
    BY <1>1, <1>2, <2>1 DEF Invocations, Shown, CallOK
  <2>3. Agrees(k)'
    BY <2>2, AgreesStays
  <2> QED BY <2>1, <2>3 DEF Agrees
<1>3. ASSUME calls[c].pc = "write" PROVE Agrees(Loaded(c))'
  <2>1. PICK k : k = Loaded(c)
    OBVIOUS
  <2>2. k.revision \in Nat /\ Agrees(k)
    BY <1>1, <1>3, <2>1 DEF Invocations, Loaded, CallOK
  <2>3. Agrees(k)'
    BY <2>2, AgreesStays
  <2> QED BY <2>1, <2>3 DEF Agrees, Loaded
<1>4. Staged(c) => (writer = c /\ calls[c].original = calls[c].seen /\ Valid(c))'
  BY DEF CallOK, Staged, Valid, ValidShader, ValidSelection
<1>5. calls[c].pc = "checked" /\ ~calls[c].raced =>
        (files[calls[c].target].content = calls[c].original)'
  BY DEF CallOK, Staged
<1> QED BY <1>2, <1>3, <1>4, <1>5 DEF CallOK, Staged

\* One call moves.
LEMMA OneCall ==
  ASSUME TypeOK, CallInv, Grows, NEW c \in Calls, NEW r \in Invocations,
         calls' = [calls EXCEPT ![c] = r],
         \A d \in Calls \ {c} : Staged(d) => UNCHANGED <<files, installed, writer>>,
         CallOK(c)'
  PROVE  calls' \in [Calls -> Invocations] /\ CallInv'
<1>1. calls' \in [Calls -> Invocations] /\ \A d \in Calls \ {c} : calls'[d] = calls[d]
  BY DEF TypeOK
<1>2. ASSUME NEW d \in Calls \ {c} PROVE CallOK(d)'
  BY <1>1, CallStays DEF CallInv
<1> QED BY <1>1, <1>2 DEF CallInv

\* It answers.
LEMMA Answered ==
  ASSUME DataOK, TypeOK, CallInv, Grows, NEW c \in Calls, NEW result \in Shown \cup {None},
         Answer(c, result), result # None => Agrees(result)',
         \A d \in Calls \ {c} : Staged(d) => UNCHANGED <<files, installed, writer>>
  PROVE  /\ calls' \in [Calls -> Invocations] /\ CallInv'
         /\ calls'[c].pc \in {"idle", "answer"}
<1>1. PICK r : r = IF view.call = c THEN [Idle EXCEPT !.pc = "answer", !.result = result] ELSE Idle
  OBVIOUS
<1>2. calls' = [calls EXCEPT ![c] = r]
  BY <1>1 DEF Answer
<1>3. r \in Invocations /\ r.pc \in {"idle", "answer"} /\ (r.pc = "answer" => r.result = result)
  BY <1>1, IdleFacts DEF Invocations
<1>4. calls'[c] = r
  BY <1>2 DEF TypeOK
<1>5. CallOK(c)'
  BY <1>3, <1>4 DEF CallOK, Staged, Agrees
<1> QED BY <1>2, <1>3, <1>4, <1>5, OneCall

-----------------------------------------------------------------------------
(* The editor.                                                              *)

\* What the editor's steps and those of the game leave alone.
LEMMA Unmoved ==
  ASSUME TypeOK, UNCHANGED <<snapshots, sequence>> PROVE Grows
BY DEF TypeOK, Grows

LEMMA Invoked ==
  ASSUME IInv, NEW c \in Calls, NEW r \in Invocations, Invoke(c, r),
         r.pc = "read" \/ (r.pc = "write" /\ Agrees([revision |-> r.revision, content |-> r.seen]))
  PROVE  calls' \in [Calls -> Invocations] /\ CallInv' /\ Grows
<1>1. calls' = [calls EXCEPT ![c] = r]
      /\ UNCHANGED <<platform, files, installed, readers, writer, snapshots, sequence, edits>>
  BY DEF Invoke
<1>2. Grows
  BY <1>1, Unmoved DEF IInv
<1>3. calls'[c] = r
  BY <1>1 DEF IInv, TypeOK
<1>4. CallOK(c)'
  BY <1>1, <1>3 DEF CallOK, Staged, Agrees, Loaded
<1> QED BY <1>1, <1>2, <1>4, OneCall DEF IInv

LEMMA LoadStep == ASSUME DataOK, IInv, Load PROVE IInv'
<1>1. PICK c \in Calls : /\ Invoke(c, [Idle EXCEPT !.pc = "read", !.target = view.target])
        /\ view' = [view EXCEPT !.call = c, !.shown = IF view.target \in Shaders THEN None ELSE @]
  BY DEF Load
<1>2. PICK r : r = [Idle EXCEPT !.pc = "read", !.target = view.target]
  OBVIOUS
<1>3. r \in Invocations /\ r.pc = "read"
  BY <1>2, IdleFacts DEF Invocations, IInv, TypeOK, Views
<1>4. calls' \in [Calls -> Invocations] /\ CallInv' /\ Grows
  BY <1>1, <1>2, <1>3, Invoked
<1>5. UNCHANGED <<platform, files, installed, readers, writer, snapshots, sequence, edits>>
  BY <1>1 DEF Invoke
<1>6. view' \in Views /\ view'.shown \in {view.shown, None}
  BY <1>1 DEF IInv, TypeOK, Views
<1>7. TypeOK'
  BY <1>4, <1>5, <1>6 DEF IInv, TypeOK
<1>8. ViewInv'
  BY <1>5, <1>6 DEF IInv, ViewInv, Agrees
<1> QED BY <1>4, <1>5, <1>7, <1>8 DEF IInv, SnapshotInv, LockInv

LEMMA SaveStep ==
  ASSUME DataOK, IInv, NEW list \in Lists, NEW on \in BOOLEAN, Save(list, on) PROVE IInv'
<1>1. PICK r : r = [Idle EXCEPT !.pc = "write", !.target = view.target,
        !.revision = view.shown.revision, !.list = list, !.on = on, !.seen = view.shown.content]
  OBVIOUS
<1>2. PICK c \in Calls : Editable(list, on) /\ Invoke(c, r) /\ view' = [view EXCEPT !.call = c]
  BY <1>1 DEF Save
<1>3. view.shown \in Shown /\ view.target \in Targets /\ Agrees(view.shown)
  BY <1>2 DEF Editable, IInv, TypeOK, Views, ViewInv
<1>4. r \in Invocations /\ r.pc = "write" /\ r.revision = view.shown.revision /\ r.seen = view.shown.content
  BY <1>1, <1>3, IdleFacts DEF Invocations, Shown
<1>5. Agrees([revision |-> r.revision, content |-> r.seen])
  BY <1>3, <1>4 DEF Agrees
<1>6. calls' \in [Calls -> Invocations] /\ CallInv' /\ Grows
  BY <1>2, <1>4, <1>5, Invoked
<1>7. UNCHANGED <<platform, files, installed, readers, writer, snapshots, sequence, edits>>
  BY <1>2 DEF Invoke
<1>8. view' \in Views /\ view'.shown = view.shown
  BY <1>2 DEF IInv, TypeOK, Views
<1>9. TypeOK'
  BY <1>6, <1>7, <1>8 DEF IInv, TypeOK
<1>10. ViewInv'
  BY <1>7, <1>8 DEF IInv, ViewInv, Agrees
<1> QED BY <1>6, <1>7, <1>9, <1>10 DEF IInv, SnapshotInv, LockInv

LEMMA DeliverStep == ASSUME DataOK, IInv, NEW c \in Calls, Deliver(c) PROVE IInv'
<1>1. UNCHANGED <<platform, files, installed, readers, writer, snapshots, sequence, edits>>
      /\ calls[c].pc = "answer" /\ calls' = [calls EXCEPT ![c] = Idle]
      /\ view' = IF view.call # c THEN view
                 ELSE [view EXCEPT !.call = None, !.shown = calls[c].result]
  BY DEF Deliver
<1>2. Grows /\ calls'[c] = Idle
  BY <1>1, Unmoved DEF IInv, TypeOK
<1>3. CallOK(c)'
  BY <1>2, IdleFacts DEF CallOK, Staged
<1>4. calls' \in [Calls -> Invocations] /\ CallInv'
  BY <1>1, <1>2, <1>3, IdleFacts, OneCall DEF IInv
<1>5. calls[c].result \in Shown \cup {None}
      /\ (calls[c].result # None => Agrees(calls[c].result))
  BY <1>1 DEF IInv, TypeOK, Invocations, CallInv, CallOK
<1>6. view' \in Views /\ view'.shown \in {view.shown, calls[c].result}
  BY <1>1, <1>5 DEF IInv, TypeOK, Views
<1>7. TypeOK'
  BY <1>1, <1>4, <1>6 DEF IInv, TypeOK
<1>8. ViewInv'
  BY <1>1, <1>5, <1>6 DEF IInv, ViewInv, Agrees
<1> QED BY <1>1, <1>4, <1>7, <1>8 DEF IInv, SnapshotInv, LockInv

LEMMA MountStep == ASSUME IInv, NEW t \in Targets, Mount(t) PROVE IInv'
<1>1. UNCHANGED <<platform, files, installed, readers, writer, snapshots, sequence, edits, calls>>
      /\ view' = [target |-> t, shown |-> None, call |-> None]
  BY DEF Mount
<1>2. TypeOK'
  BY <1>1 DEF IInv, TypeOK, Views
<1>3. CallInv'
  BY <1>1 DEF IInv, CallInv, CallOK, Staged, Valid, ValidShader, ValidSelection, Agrees, Loaded
<1> QED BY <1>1, <1>2, <1>3 DEF IInv, SnapshotInv, LockInv, ViewInv

-----------------------------------------------------------------------------
(* The commands.                                                            *)

LEMMA LooseCall == ASSUME CallInv, DataOK PROVE writer = None => \A c \in Calls : ~Staged(c)
BY DEF CallInv, CallOK, DataOK

LEMMA SnapshotFacts ==
  ASSUME DataOK, IInv, NEW c \in Calls, NEW content \in Contents, Snapshot(c, content),
         \A d \in Calls \ {c} : Staged(d) => UNCHANGED <<files, installed, writer>>
  PROVE  /\ Grows /\ SnapshotInv' /\ calls' \in [Calls -> Invocations] /\ CallInv'
         /\ calls'[c].pc \in {"idle", "answer"}
<1>1. calls[c].target \in Targets /\ sequence \in Nat /\ snapshots \in SUBSET Saved
  BY DEF IInv, TypeOK, Invocations
<1>2. PICK s : s = [revision |-> sequence, target |-> calls[c].target, original |-> content]
  OBVIOUS
<1>3. s \in Saved /\ s.revision = sequence /\ s.original = content
  BY <1>1, <1>2 DEF Saved
<1>4. sequence' = sequence + 1 /\ snapshots' \subseteq snapshots \cup {s}
  BY <1>2 DEF Snapshot, Kept
<1>5. Grows
  BY <1>1, <1>3, <1>4 DEF Grows
<1>6. SnapshotInv'
  BY <1>5, SnapshotsStay DEF IInv
<1>7. PICK k : k = [revision |-> sequence, content |-> content]
  OBVIOUS
<1>8. k \in Shown /\ k.revision = sequence /\ k.content = content
  BY <1>1, <1>7 DEF Shown
<1>9. Agrees(k)'
  <2>1. k.revision < sequence'
    BY <1>1, <1>4, <1>8
  <2>2. ASSUME NEW u \in snapshots', u.revision = k.revision PROVE u.original = k.content
    <3>1. CASE u \in snapshots
      BY <1>1, <1>8, <2>2, <3>1 DEF IInv, SnapshotInv, Saved
    <3>2. CASE u = s
      BY <1>3, <1>8, <3>2
    <3> QED BY <1>4, <3>1, <3>2
  <2> QED BY <2>1, <2>2 DEF Agrees
<1>10. Answer(c, k)
  BY <1>7 DEF Snapshot
<1>11. calls' \in [Calls -> Invocations] /\ CallInv' /\ calls'[c].pc \in {"idle", "answer"}
  BY <1>5, <1>8, <1>9, <1>10, Answered DEF IInv
<1> QED BY <1>5, <1>6, <1>11

LEMMA ReadStep == ASSUME DataOK, IInv, NEW c \in Calls, Read(c) PROVE IInv'
<1>1. UNCHANGED <<platform, files, installed, readers, writer, edits, view>>
      /\ Snapshot(c, files[calls[c].target].content)
  BY DEF Read
<1>2. files[calls[c].target].content \in Contents
  BY DEF IInv, TypeOK, Invocations
<1>3. Grows /\ SnapshotInv' /\ calls' \in [Calls -> Invocations] /\ CallInv'
  BY <1>1, <1>2, SnapshotFacts
<1>4. TypeOK'
  BY <1>1, <1>3 DEF IInv, TypeOK, Grows
<1>5. ViewInv'
  BY <1>1, <1>3, ViewStays DEF IInv
<1> QED BY <1>1, <1>3, <1>4, <1>5 DEF IInv, LockInv

LEMMA FailStep ==
  ASSUME DataOK, IInv, NEW c \in Calls, ReadFails(c) \/ Refuse(c) PROVE IInv'
<1>1. UNCHANGED <<platform, files, installed, readers, writer, snapshots, sequence, edits, view>>
      /\ Answer(c, None)
  BY DEF ReadFails, Refuse
<1>2. Grows
  BY <1>1, Unmoved DEF IInv
<1>3. calls' \in [Calls -> Invocations] /\ CallInv'
  BY <1>1, <1>2, Answered DEF IInv
<1>4. TypeOK'
  BY <1>1, <1>3 DEF IInv, TypeOK
<1>5. ViewInv'
  BY <1>1, <1>2, ViewStays DEF IInv
<1> QED BY <1>1, <1>3, <1>4, <1>5 DEF IInv, LockInv, SnapshotInv

LEMMA WriteStep == ASSUME DataOK, IInv, NEW c \in Calls, Write(c) PROVE IInv'
<1>1. PICK s \in snapshots :
        /\ s.revision = calls[c].revision /\ s.target = calls[c].target
        /\ calls[c].pc = "write" /\ ~WriteBusy(c)
        /\ snapshots' = snapshots \ {s} /\ sequence' = sequence + 1
        /\ IF s.target \in Shaders THEN ValidShader(c, s.original) ELSE ValidSelection(c, s.original)
        /\ writer' = c
        /\ calls' = [calls EXCEPT ![c].pc = "staged", ![c].original = s.original,
                                  ![c].node = files[s.target].node]
        /\ UNCHANGED <<platform, files, installed, readers, edits, view>>
  BY Zenon DEF Write, Table
<1>2. writer = None /\ readers = {}
  BY <1>1 DEF WriteBusy, Free
<1>3. PICK o, n : o = s.original /\ n = files[s.target].node
  OBVIOUS
<1>4. o \in Contents /\ n \in {0, 1} /\ calls[c] \in Invocations
  BY <1>1, <1>3 DEF IInv, TypeOK, Saved, Invocations
<1>5. PICK r : r = [calls[c] EXCEPT !.pc = "staged", !.original = o, !.node = n]
  OBVIOUS
<1>6. calls' = [calls EXCEPT ![c] = r]
  BY <1>1, <1>3, <1>5 DEF IInv, TypeOK
<1>7. r \in Invocations /\ r.pc = "staged" /\ r.original = o /\ r.seen = calls[c].seen
      /\ r.target = calls[c].target /\ r.list = calls[c].list /\ r.on = calls[c].on
  BY <1>4, <1>5 DEF Invocations
<1>8. Grows
  BY <1>1, GrowsLess DEF IInv
<1>9. calls'[c] = r
  BY <1>6 DEF IInv, TypeOK
<1>10. o = calls[c].seen
  BY <1>1, <1>3 DEF IInv, CallInv, CallOK, Agrees, Loaded
<1>11. IF r.target \in Shaders THEN ValidShader(c, o) ELSE ValidSelection(c, o)
  BY <1>1, <1>3, <1>7
<1>12. Valid(c)'
  <2>1. /\ calls'[c].original = o /\ calls'[c].list = calls[c].list /\ calls'[c].on = calls[c].on
        /\ calls'[c].target = r.target /\ installed' = installed
    BY <1>1, <1>7, <1>9
  <2>2. ValidShader(c, o) => ValidShader(c, o)'
    BY <2>1 DEF ValidShader
  <2>3. ValidSelection(c, o) => ValidSelection(c, o)'
    BY <2>1 DEF ValidSelection
  <2>4. Valid(c)' <=> IF r.target \in Shaders THEN ValidShader(c, o)' ELSE ValidSelection(c, o)'
    BY <2>1 DEF Valid, ValidShader, ValidSelection
  <2> QED BY <1>11, <2>2, <2>3, <2>4
<1>13. CallOK(c)'
  BY <1>1, <1>7, <1>9, <1>10, <1>12 DEF CallOK, Staged
<1>14. \A d \in Calls \ {c} : ~Staged(d)
  BY <1>2, LooseCall DEF IInv
<1>15. calls' \in [Calls -> Invocations] /\ CallInv'
  BY <1>6, <1>7, <1>8, <1>13, <1>14, OneCall DEF IInv
<1>16. TypeOK'
  BY <1>1, <1>8, <1>15 DEF IInv, TypeOK, Grows
<1>17. SnapshotInv' /\ ViewInv'
  BY <1>1, <1>8, ViewStays, SnapshotsStay DEF IInv
<1> QED BY <1>1, <1>2, <1>15, <1>16, <1>17 DEF IInv, LockInv

LEMMA WriteFailsStep == ASSUME DataOK, IInv, NEW c \in Calls, WriteFails(c) PROVE IInv'
<1>1. UNCHANGED <<platform, files, installed, readers, sequence, edits, view>>
      /\ snapshots' \subseteq snapshots /\ Answer(c, None)
      /\ writer' = IF writer = c THEN None ELSE writer
  BY DEF WriteFails
<1>2. Grows
  BY <1>1, GrowsLess DEF IInv
<1>3. \A d \in Calls \ {c} : Staged(d) => UNCHANGED <<files, installed, writer>>
  BY <1>1 DEF IInv, CallInv, CallOK
<1>4. calls' \in [Calls -> Invocations] /\ CallInv'
  BY <1>1, <1>2, <1>3, Answered DEF IInv
<1>5. TypeOK'
  BY <1>1, <1>2, <1>4 DEF IInv, TypeOK, Grows
<1>6. SnapshotInv' /\ ViewInv'
  BY <1>1, <1>2, ViewStays, SnapshotsStay DEF IInv
<1> QED BY <1>1, <1>4, <1>5, <1>6 DEF IInv, LockInv

LEMMA CheckStep == ASSUME DataOK, IInv, NEW c \in Calls, Check(c) PROVE IInv'
<1>1. UNCHANGED <<platform, files, installed, readers, writer, snapshots, sequence, edits, view>>
      /\ calls[c].pc = "staged" /\ calls' = [calls EXCEPT ![c].pc = "checked"]
  BY DEF Check
<1>2. files[calls[c].target].content = calls[c].original
  BY DEF Check, CompareUnix, CompareWindows
<1>3. PICK r : r = [calls[c] EXCEPT !.pc = "checked"]
  OBVIOUS
<1>4. calls' = [calls EXCEPT ![c] = r]
  BY <1>1, <1>3 DEF IInv, TypeOK
<1>5. r \in Invocations /\ r.pc = "checked" /\ r.original = calls[c].original
      /\ r.seen = calls[c].seen /\ r.target = calls[c].target /\ r.list = calls[c].list
      /\ r.on = calls[c].on
  BY <1>3 DEF IInv, TypeOK, Invocations
<1>6. Grows /\ calls'[c] = r
  BY <1>1, <1>4, Unmoved DEF IInv, TypeOK
<1>7. writer = c /\ calls[c].original = calls[c].seen /\ Valid(c)
  BY <1>1 DEF IInv, CallInv, CallOK, Staged
<1>8. Valid(c)'
  BY <1>1, <1>5, <1>6, <1>7 DEF Valid, ValidShader, ValidSelection
<1>9. CallOK(c)'
  BY <1>1, <1>2, <1>5, <1>6, <1>7, <1>8 DEF CallOK, Staged
<1>10. calls' \in [Calls -> Invocations] /\ CallInv'
  BY <1>1, <1>4, <1>5, <1>6, <1>9, OneCall DEF IInv
<1>11. TypeOK'
  BY <1>1, <1>10 DEF IInv, TypeOK
<1>12. ViewInv'
  BY <1>1, <1>6, ViewStays DEF IInv
<1> QED BY <1>1, <1>10, <1>11, <1>12 DEF IInv, LockInv, SnapshotInv

LEMMA PutFacts ==
  ASSUME TypeOK, NEW c \in Calls, Put(c)
  PROVE  /\ Replacement(c) \in Contents /\ files' \in [Targets -> Nodes]
         /\ files'[calls[c].target].content = Replacement(c)
         /\ \A t \in Targets \ {calls[c].target} : files'[t] = files[t]
<1>1. calls[c] \in Invocations /\ files \in [Targets -> Nodes]
  BY DEF TypeOK, Nodes
<1>2. calls[c].target \in Targets /\ calls[c].original \in Contents
      /\ calls[c].list \in Lists /\ calls[c].on \in BOOLEAN
  BY <1>1 DEF Invocations
<1>3. Replacement(c) \in Contents
  BY <1>2 DEF Replacement, ReplaceShader, ReplaceOptions, Contents
<1>4. PICK k : k = Replacement(c)
  OBVIOUS
<1>5. PICK n : n = 1 - files[calls[c].target].node
  OBVIOUS
<1>6. n \in {0, 1}
  BY <1>1, <1>2, <1>5 DEF Nodes
<1>7. files' = [files EXCEPT ![calls[c].target] = [content |-> k, node |-> n]]
  BY <1>1, <1>2, <1>4, <1>5 DEF Put
<1> QED BY <1>1, <1>2, <1>3, <1>4, <1>6, <1>7 DEF Nodes

LEMMA RenameStep ==
  ASSUME DataOK, IInv, NEW c \in Calls, Rename(c) \/ RenameUnsynced(c) PROVE IInv'
<1>1. UNCHANGED <<platform, installed, readers, edits, view>>
      /\ calls[c].pc = "checked" /\ Put(c) /\ writer' = None
  BY DEF Rename, RenameUnsynced
<1>2. \A d \in Calls \ {c} : ~Staged(d)
  BY <1>1 DEF IInv, CallInv, CallOK, Staged
<1>3. Replacement(c) \in Contents /\ files' \in [Targets -> Nodes]
  BY <1>1, PutFacts DEF IInv
<1>4. Grows /\ SnapshotInv' /\ calls' \in [Calls -> Invocations] /\ CallInv'
  <2>1. CASE Rename(c)
    <3>1. Snapshot(c, Replacement(c))
      BY <2>1 DEF Rename
    <3> QED BY <1>2, <1>3, <3>1, SnapshotFacts
  <2>2. CASE RenameUnsynced(c)
    <3>1. UNCHANGED <<snapshots, sequence>> /\ Answer(c, None)
      BY <2>2 DEF RenameUnsynced
    <3>2. Grows
      BY <3>1, Unmoved DEF IInv
    <3>3. calls' \in [Calls -> Invocations] /\ CallInv'
      BY <1>2, <3>1, <3>2, Answered DEF IInv
    <3> QED BY <3>1, <3>2, <3>3 DEF IInv, SnapshotInv
  <2> QED BY <2>1, <2>2
<1>5. TypeOK'
  BY <1>1, <1>3, <1>4 DEF IInv, TypeOK, Grows, Nodes
<1>6. ViewInv'
  BY <1>1, <1>4, ViewStays DEF IInv
<1> QED BY <1>1, <1>4, <1>5, <1>6 DEF IInv, LockInv

-----------------------------------------------------------------------------
(* Requests of the core, and the game.                                      *)

LEMMA RequestStep ==
  ASSUME DataOK, IInv, NEW r \in Requests, Begin(r) \/ End(r) \/ Works(r) PROVE IInv'
<1>1. UNCHANGED <<platform, files, writer, snapshots, sequence, edits, calls, view>>
      /\ (writer = None \/ UNCHANGED installed)
      /\ readers' \in SUBSET Requests /\ installed' \in SUBSET Packs
  <2>1. CASE Begin(r)
    BY <2>1 DEF Begin, IInv, TypeOK
  <2>2. CASE End(r)
    BY <2>2 DEF End, IInv, TypeOK
  <2>3. CASE Works(r)
    <3>1. writer = None
      BY <2>3 DEF Works, IInv, LockInv
    <3> QED BY <2>3, <3>1 DEF Works, IInv, TypeOK
  <2> QED BY <2>1, <2>2, <2>3
<1>2. writer # None => readers' = {}
  BY DEF Begin, End, Works, IInv, LockInv
<1>3. Grows
  BY <1>1, Unmoved DEF IInv
<1>4. ASSUME NEW c \in Calls PROVE CallOK(c)'
  <2>1. Staged(c) => UNCHANGED <<files, installed, writer>>
    BY <1>1, LooseCall DEF IInv
  <2> QED BY <1>1, <1>3, <2>1, CallStays DEF IInv, CallInv
<1>5. TypeOK'
  BY <1>1 DEF IInv, TypeOK
<1>6. ViewInv'
  BY <1>1, <1>3, ViewStays DEF IInv
<1> QED BY <1>1, <1>2, <1>4, <1>5, <1>6 DEF IInv, LockInv, SnapshotInv, CallInv

LEMMA ExternalStep == ASSUME DataOK, IInv, NEW t \in Targets, External(t) PROVE IInv'
<1>1. UNCHANGED <<platform, installed, readers, writer, snapshots, sequence, view>>
      /\ edits' = edits + 1
      /\ calls' = [c \in Calls |->
           IF calls[c].pc = "checked" /\ calls[c].target = t
           THEN [calls[c] EXCEPT !.raced = TRUE] ELSE calls[c]]
  BY DEF External
<1>2. PICK k \in ContentsOf(t), n \in {0, 1} : files' = [files EXCEPT ![t] = [content |-> k, node |-> n]]
  BY DEF External
<1>3. k \in Contents
  BY DEF ContentsOf
<1>4. files' \in [Targets -> Nodes] /\ \A u \in Targets \ {t} : files'[u] = files[u]
  BY <1>2, <1>3 DEF IInv, TypeOK, Nodes
<1>5. Grows
  BY <1>1, Unmoved DEF IInv
<1>6. ASSUME NEW c \in Calls PROVE calls'[c] \in Invocations /\ CallOK(c)'
  <2>1. calls[c] \in Invocations
    BY DEF IInv, TypeOK
  <2>2. CASE calls[c].pc = "checked" /\ calls[c].target = t
    <3>1. PICK r : r = [calls[c] EXCEPT !.raced = TRUE]
      OBVIOUS
    <3>2. calls'[c] = r
      BY <1>1, <2>2, <3>1
    <3>3. r \in Invocations /\ r.raced /\ r.pc = "checked" /\ r.original = calls[c].original
          /\ r.seen = calls[c].seen /\ r.target = calls[c].target /\ r.list = calls[c].list
          /\ r.on = calls[c].on
      BY <2>1, <2>2, <3>1 DEF Invocations
    <3>4. writer = c /\ calls[c].original = calls[c].seen /\ Valid(c)
      BY <2>2 DEF IInv, CallInv, CallOK, Staged
    <3>5. Valid(c)'
      BY <1>1, <3>2, <3>3, <3>4 DEF Valid, ValidShader, ValidSelection
    <3> QED BY <1>1, <3>2, <3>3, <3>4, <3>5 DEF CallOK, Staged
  <2>3. CASE ~(calls[c].pc = "checked" /\ calls[c].target = t)
    <3>1. calls'[c] = calls[c]
      BY <1>1, <2>3
    <3>2. CallOK(c)
      BY DEF IInv, CallInv
    <3>3. (calls[c].pc = "answer" /\ calls[c].result # None => Agrees(calls[c].result))'
      BY <1>1, <3>1, <3>2 DEF CallOK, Agrees
    <3>4. (calls[c].pc = "write" => Agrees(Loaded(c)))'
      BY <1>1, <3>1, <3>2 DEF CallOK, Agrees, Loaded
    <3>5. (Staged(c) => writer = c /\ calls[c].original = calls[c].seen /\ Valid(c))'
      BY <1>1, <3>1, <3>2 DEF CallOK, Staged, Valid, ValidShader, ValidSelection
    <3>6. (calls[c].pc = "checked" /\ ~calls[c].raced =>
             files[calls[c].target].content = calls[c].original)'
      <4> SUFFICES ASSUME calls[c].pc = "checked", ~calls[c].raced
                   PROVE  files'[calls[c].target].content = calls[c].original
        BY <3>1
      <4>1. calls[c].target \in Targets \ {t}
        BY <2>1, <2>3 DEF Invocations
      <4> QED BY <1>4, <3>2, <4>1 DEF CallOK
    <3> QED BY <2>1, <3>1, <3>3, <3>4, <3>5, <3>6 DEF CallOK
  <2> QED BY <2>2, <2>3
<1>7. calls' \in [Calls -> Invocations] /\ CallInv'
  BY <1>1, <1>6 DEF CallInv
<1>8. TypeOK'
  BY <1>1, <1>4, <1>7 DEF IInv, TypeOK, Nodes
<1>9. ViewInv'
  BY <1>1, <1>5, ViewStays DEF IInv
<1> QED BY <1>1, <1>7, <1>8, <1>9 DEF IInv, LockInv, SnapshotInv

LEMMA NextInv == ASSUME DataOK, IInv, [Next]_vars PROVE IInv'
<1>1. CASE Load
  BY <1>1, LoadStep
<1>2. CASE \E t \in Targets : Mount(t)
  BY <1>2, MountStep
<1>3. CASE \E l \in Lists, on \in BOOLEAN : Save(l, on)
  BY <1>3, SaveStep
<1>4. CASE \E t \in Shaders : Choose(t)
  BY <1>4, MountStep DEF Choose, DataOK
<1>5. ASSUME NEW c \in Calls, CallStep(c) PROVE IInv'
  BY <1>5, ReadStep, FailStep, WriteStep, WriteFailsStep, CheckStep, RenameStep, DeliverStep
     DEF CallStep
<1>6. CASE \E r \in Requests : Begin(r) \/ End(r) \/ Works(r)
  BY <1>6, RequestStep
<1>7. CASE \E t \in Targets : External(t)
  BY <1>7, ExternalStep
<1>8. CASE UNCHANGED vars
  BY <1>8 DEF vars, IInv, TypeOK, SnapshotInv, LockInv, ViewInv, CallInv, CallOK, Staged,
     Agrees, Loaded, Valid, ValidShader, ValidSelection
<1> QED BY <1>1, <1>2, <1>3, <1>4, <1>5, <1>6, <1>7, <1>8 DEF Next

-----------------------------------------------------------------------------
(* The property.                                                            *)

\* Only a rename takes a checked call on and touches a file: its own.
LEMMA ReplacesIsRename ==
  ASSUME DataOK, IInv, [Next]_vars, NEW c \in Calls, Replaces(c) PROVE Put(c)
<1> DEFINE Moves(d) == \A e \in Calls \ {d} : calls'[e] = calls[e]
<1>1. calls[c].pc = "checked" /\ calls'[c].pc # "checked" /\ files' # files
  BY DEF Replaces
<1>2. CASE Load \/ (\E t \in Targets : Mount(t)) \/ (\E l \in Lists, on \in BOOLEAN : Save(l, on))
           \/ (\E t \in Shaders : Choose(t)) \/ (\E r \in Requests : Begin(r) \/ End(r) \/ Works(r))
           \/ UNCHANGED vars
  BY <1>1, <1>2 DEF Load, Mount, Save, Choose, Begin, End, Works, vars, Invoke
<1>3. ASSUME NEW t \in Targets, External(t) PROVE FALSE
  <2>1. calls'[c] \in {calls[c], [calls[c] EXCEPT !.raced = TRUE]}
    BY <1>3 DEF External
  <2> QED BY <1>1, <2>1 DEF IInv, TypeOK, Invocations
<1>4. ASSUME NEW d \in Calls, CallStep(d) PROVE Put(c)
  <2>1. Rename(d) \/ RenameUnsynced(d)
    BY <1>1, <1>4 DEF CallStep, Read, ReadFails, Refuse, Write, WriteFails, Check, Deliver
  <2>2. Put(d) /\ calls[d].pc = "checked"
    BY <2>1 DEF Rename, RenameUnsynced
  <2>3. d = c
    BY <1>1, <2>2 DEF IInv, CallInv, CallOK, Staged
  <2> QED BY <2>2, <2>3
<1> QED BY <1>2, <1>3, <1>4 DEF Next

LEMMA NextKeepsUnknown == ASSUME DataOK, IInv, [Next]_vars PROVE KeepsUnknown
<1> SUFFICES ASSUME NEW c \in Calls, Replaces(c), ~calls[c].raced
             PROVE  LET t == calls[c].target
                        before == files[t].content
                        after == files'[t].content
                    IN
                    /\ before = calls[c].seen /\ after.rest = before.rest
                    /\ \A u \in Targets \ {t} : files'[u] = files[u]
                    /\ IF t \in Shaders
                       THEN after.on => after.list # <<>> /\ after.list[1] \in installed
                       ELSE /\ after.on = before.on
                            /\ Opaque(after.list, installed) = Opaque(before.list, installed)
  BY DEF KeepsUnknown
<1> DEFINE t == calls[c].target
           before == files[t].content
           after == files'[t].content
<1>1. Put(c) /\ calls[c].pc = "checked"
  BY ReplacesIsRename DEF Replaces
<1>2. after = Replacement(c) /\ \A u \in Targets \ {t} : files'[u] = files[u]
  BY <1>1, PutFacts DEF IInv
<1>3. calls[c] \in Invocations /\ before = calls[c].original /\ calls[c].original = calls[c].seen
      /\ Valid(c)
  BY <1>1 DEF IInv, TypeOK, CallInv, CallOK, Staged
<1>4. before \in Contents /\ calls[c].list \in Seq(Packs)
  BY <1>3 DEF Invocations, DataOK
<1>5. CASE t \in Shaders
  <2>1. after = [before EXCEPT !.list = calls[c].list, !.on = calls[c].on]
    BY <1>2, <1>3, <1>5 DEF Replacement, ReplaceShader
  <2>2. after.list = calls[c].list /\ after.on = calls[c].on /\ after.rest = before.rest
    BY <1>4, <2>1 DEF Contents
  <2>3. calls[c].on => calls[c].list # <<>> /\ \A i \in DOMAIN calls[c].list : calls[c].list[i] \in installed
    BY <1>3, <1>5 DEF Valid, ValidShader
  <2>4. calls[c].list # <<>> => 1 \in DOMAIN calls[c].list
    BY <1>4
  <2>5. after.on => after.list # <<>> /\ after.list[1] \in installed
    BY <2>2, <2>3, <2>4
  <2> QED BY <1>2, <1>3, <1>5, <2>2, <2>5
<1>6. CASE t \notin Shaders
  <2>1. after = [before EXCEPT !.list = calls[c].list]
    BY <1>2, <1>3, <1>6 DEF Replacement, ReplaceOptions
  <2>2. after.list = calls[c].list /\ after.on = before.on /\ after.rest = before.rest
    BY <1>4, <2>1 DEF Contents
  <2>3. Opaque(after.list, installed) = Opaque(before.list, installed)
    BY <1>3, <1>6, <2>2 DEF Valid, ValidSelection
  <2> QED BY <1>2, <1>3, <1>6, <2>2, <2>3
<1> QED BY <1>5, <1>6
=============================================================================
