------------------------ MODULE EndpointConfigProofs ------------------------
(***************************************************************************)
(* The saved endpoints, for any number of them and of operations.  As long *)
(* as the settings page has one manager, no change is lost: its queue lets *)
(* one transaction at a time past the reading of the file (AtTheHead), so  *)
(* nothing is replaced between a transaction's reading and its writing.    *)
(* With any number of managers what was told saved survives: every name    *)
(* the file may have was being written, or was saved last (Written).       *)
(***************************************************************************)
EXTENDS EndpointConfig, FiniteSetTheorems, TLAPS

DataOK ==
  /\ Ids # {} /\ "local" \notin Ids
  /\ None \notin Calls /\ None \notin Configs
  /\ Damaged \notin Configs /\ None # Damaged
  /\ 1 \in Mounts

OneManager == Mounts = {1}

\* An operation that has begun is at the head of its manager's queue.
AtTheHead ==
  \A c \in Calls : ops[c].pc \notin {"idle", "queued"} =>
    queues[ops[c].mount] # <<>> /\ Head(queues[ops[c].mount]) = c

\* The write on the main thread is the one of the operation that is writing; it
\* has been synced before it is renamed.
OneWrite ==
  /\ main # Resting =>
       main.call \in Calls /\ main.stage # "none" /\ ops[main.call].pc = "writing"
  /\ \A c \in Calls : ops[c].pc = "writing" => main.call = c /\ main.stage # "none"
  /\ main.stage \in {"rename", "directory"} => main.synced

\* What the file may hold was saved last or is being written since.
Written ==
  /\ {file} \cup lasting \subseteq possible
  /\ \A c \in Calls :
       /\ ops[c].pc = "writing" => ops[c].next \in possible
       /\ ops[c].pc = "writing" /\ main.stage = "directory" => file = ops[c].next

SavedInv == TypeOK /\ OneWrite /\ Written

OwnInv == SavedInv /\ AtTheHead /\ OwnChangeOnly

Operations == [pc : {"idle", "queued", "write", "writing", "saved", "failed", "cleanup"},
               kind : Kinds, id : Ids, dest : Dests \cup {None}, next : Configs,
               selected : Ids \cup {"local"}, mount : Mounts]

-----------------------------------------------------------------------------
LEMMA IdleOperation == ASSUME DataOK PROVE Idle \in Operations /\ Idle.pc = "idle"
<1>1. (CHOOSE i \in Ids : TRUE) \in Ids
  BY DEF DataOK
<1>2. Canonical \in Configs
  BY DEF Canonical, Configs
<1> QED BY <1>1, <1>2 DEF Idle, Operations, Kinds, DataOK

LEMMA OpsType == TypeOK => ops \in [Calls -> Operations]
BY DEF TypeOK, Operations

LEMMA InitInv == ASSUME DataOK PROVE Init => SavedInv /\ AtTheHead /\ OwnChangeOnly
<1> SUFFICES ASSUME Init PROVE SavedInv /\ AtTheHead /\ OwnChangeOnly
  OBVIOUS
<1>1. ops \in [Calls -> Operations] /\ \A c \in Calls : ops[c].pc = "idle"
  BY IdleOperation DEF Init
<1>2. queues \in [Mounts -> Seq(Calls)] /\ mount \in Mounts
  BY DEF Init, DataOK
<1>3. main \in [call : Calls \cup {None}, synced : BOOLEAN,
                stage : {"none", "create", "write", "sync", "rename", "directory"}]
  BY DEF Init, Resting
<1>4. TypeOK
  BY <1>1, <1>2, <1>3 DEF Init, TypeOK, Operations, Contents
<1>5. OneWrite /\ Written /\ AtTheHead /\ OwnChangeOnly
  BY <1>1 DEF Init, Resting, OneWrite, Written, AtTheHead, OwnChangeOnly
<1> QED BY <1>4, <1>5 DEF SavedInv

-----------------------------------------------------------------------------
(* Every step keeps SavedInv and AtTheHead: the page's steps, the          *)
(* transactions', the write's, and a restart.                              *)

LEMMA LatestType == ASSUME DataOK, TypeOK PROVE Lenient(file) \in Configs
BY DEF Lenient, Canonical, Configs, Contents, TypeOK

\* One operation changes outside the write on the main thread.
LEMMA OneChanges ==
  ASSUME SavedInv, NEW c \in Calls, NEW r \in Operations,
         ops' = [ops EXCEPT ![c] = r], ops[c].pc # "writing", r.pc # "writing",
         UNCHANGED <<platform, file, lasting, main, possible>>,
         queues' \in [Mounts -> Seq(Calls)], mount' \in Mounts,
         shown' \in Configs \cup {None}, selected' \in Ids \cup {"local"}
  PROVE  SavedInv'
<1>1. ops \in [Calls -> Operations]
  BY OpsType DEF SavedInv
<1>2. ops' \in [Calls -> Operations] /\ ops'[c] = r
      /\ \A d \in Calls \ {c} : ops'[d] = ops[d]
  BY <1>1
<1>3. TypeOK'
  BY <1>2 DEF SavedInv, TypeOK, Operations
<1>4. OneWrite'
  BY <1>2 DEF SavedInv, OneWrite
<1>5. Written'
  BY <1>2 DEF SavedInv, Written
<1> QED BY <1>3, <1>4, <1>5 DEF SavedInv

\* No operation changes.
LEMMA NoneChanges ==
  ASSUME SavedInv, UNCHANGED <<platform, file, lasting, main, possible, ops, queues>>,
         mount' \in Mounts, shown' \in Configs \cup {None}, selected' \in Ids \cup {"local"}
  PROVE  SavedInv' /\ (AtTheHead => AtTheHead') /\ (OwnChangeOnly => OwnChangeOnly')
<1>1. TypeOK'
  BY DEF SavedInv, TypeOK
<1>2. OneWrite' /\ Written'
  BY DEF SavedInv, OneWrite, Written
<1>3. AtTheHead => AtTheHead'
  BY DEF AtTheHead
<1>4. OwnChangeOnly => OwnChangeOnly'
  BY DEF OwnChangeOnly
<1> QED BY <1>1, <1>2, <1>3, <1>4 DEF SavedInv

LEMMA PageSaved ==
  ASSUME DataOK, SavedInv,
         Load \/ Reconcile \/ Remount \/ \E i \in Ids \cup {"local"} : Select(i)
  PROVE  SavedInv' /\ (AtTheHead => AtTheHead') /\ (OwnChangeOnly => OwnChangeOnly')
<1>1. CASE Load
  BY <1>1, LatestType, NoneChanges DEF Load, SavedInv, TypeOK
<1>2. CASE Reconcile
  BY <1>2, NoneChanges DEF Reconcile, SavedInv, TypeOK
<1>3. CASE Remount
  BY <1>3, NoneChanges DEF Remount, SavedInv, TypeOK
<1>4. ASSUME NEW i \in Ids \cup {"local"}, Select(i)
                 PROVE SavedInv' /\ (AtTheHead => AtTheHead') /\ (OwnChangeOnly => OwnChangeOnly')
  BY <1>4, NoneChanges DEF Select, SavedInv, TypeOK
<1> QED BY <1>1, <1>2, <1>3, <1>4

\* What Submit puts into the queue.
LEMMA SubmitFacts ==
  ASSUME DataOK, SavedInv, NEW c \in Calls, NEW k \in Kinds, NEW i \in Ids,
         NEW d \in Dests \cup {None}, Submit(c, k, i, d)
  PROVE  \E r \in Operations :
           /\ ops' = [ops EXCEPT ![c] = r] /\ r.pc = "queued" /\ r.mount = mount
           /\ queues' = [queues EXCEPT ![mount] = Append(@, c)]
           /\ queues' \in [Mounts -> Seq(Calls)]
<1> DEFINE s == IF k = "delete" /\ Known(selected) THEN selected ELSE "local"
           r == [Idle EXCEPT !.pc = "queued", !.kind = k, !.id = i, !.dest = d,
                             !.selected = s, !.mount = mount]
<1>1. s \in Ids \cup {"local"} /\ mount \in Mounts
  BY DEF SavedInv, TypeOK
<1>2. ops' = [ops EXCEPT ![c] = r] /\ queues' = [queues EXCEPT ![mount] = Append(@, c)]
  BY DEF Submit
<1> HIDE DEF s
<1>3. r \in Operations /\ r.pc = "queued" /\ r.mount = mount
  BY <1>1, IdleOperation DEF Operations
<1> HIDE DEF r
<1>4. queues' \in [Mounts -> Seq(Calls)]
  BY <1>1, <1>2 DEF SavedInv, TypeOK
<1> QED BY <1>2, <1>3, <1>4

\* What Leave takes from the queue, when the operation has begun.
LEMMA LeaveFacts ==
  ASSUME DataOK, SavedInv, NEW c \in Calls, Leave(c), queues[ops[c].mount] # <<>>
  PROVE  /\ ops' = [ops EXCEPT ![c] = Idle]
         /\ queues' = [queues EXCEPT ![ops[c].mount] = Tail(@)]
         /\ queues' \in [Mounts -> Seq(Calls)]
<1>1. ops[c].mount \in Mounts
  BY OpsType DEF SavedInv, Operations
<1>2. queues[ops[c].mount] \in Seq(Calls)
  BY <1>1 DEF SavedInv, TypeOK
<1>3. Tail(queues[ops[c].mount]) \in Seq(Calls)
  BY <1>2
<1> QED BY <1>1, <1>3 DEF Leave, SavedInv, TypeOK

LEMMA HeadOfAppend ==
  ASSUME NEW q \in Seq(Calls), q # <<>>, NEW c \in Calls
  PROVE  Append(q, c) # <<>> /\ Head(Append(q, c)) = Head(q)
OBVIOUS

LEMMA SubmitSaved ==
  ASSUME DataOK, SavedInv, AtTheHead, NEW c \in Calls, NEW k \in Kinds, NEW i \in Ids,
         NEW d \in Dests \cup {None}, Submit(c, k, i, d)
  PROVE  SavedInv' /\ AtTheHead'
<1>1. PICK r \in Operations :
        /\ ops' = [ops EXCEPT ![c] = r] /\ r.pc = "queued" /\ r.mount = mount
        /\ queues' = [queues EXCEPT ![mount] = Append(@, c)]
        /\ queues' \in [Mounts -> Seq(Calls)]
  BY SubmitFacts
<1>2. ops[c].pc = "idle" /\ UNCHANGED <<platform, file, lasting, main, mount, shown, selected, possible>>
  BY DEF Submit
<1>3. SavedInv'
  BY <1>1, <1>2, OneChanges DEF SavedInv, TypeOK
<1>4. AtTheHead'
  <2> SUFFICES ASSUME NEW e \in Calls, ops'[e].pc \notin {"idle", "queued"}
               PROVE  queues'[ops'[e].mount] # <<>> /\ Head(queues'[ops'[e].mount]) = e
    BY DEF AtTheHead
  <2>1. ops \in [Calls -> Operations]
    BY OpsType DEF SavedInv
  <2>2. e # c /\ ops'[e] = ops[e]
    BY <1>1, <2>1
  <2>3. ops[e].mount \in Mounts /\ mount \in Mounts
    BY <2>1 DEF Operations, SavedInv, TypeOK
  <2>4. queues[ops[e].mount] \in Seq(Calls) /\ queues[ops[e].mount] # <<>>
        /\ Head(queues[ops[e].mount]) = e
    BY <2>2, <2>3 DEF AtTheHead, SavedInv, TypeOK
  <2>5. CASE ops[e].mount = mount
    <3>1. queues'[mount] = Append(queues[mount], c)
      BY <1>1, <2>3 DEF SavedInv, TypeOK
    <3> QED BY <2>2, <2>4, <2>5, <3>1, HeadOfAppend
  <2>6. CASE ops[e].mount # mount
    <3>1. queues'[ops[e].mount] = queues[ops[e].mount]
      BY <1>1, <2>3, <2>6 DEF SavedInv, TypeOK
    <3> QED BY <2>2, <2>4, <3>1
  <2> QED BY <2>5, <2>6
<1> QED BY <1>3, <1>4

\* The operation at the head of a queue leaves; those of other managers stay.
LEMMA LeaveSaved ==
  ASSUME DataOK, SavedInv, AtTheHead, NEW c \in Calls, Leave(c),
         ops[c].pc \in {"saved", "failed", "cleanup"},
         UNCHANGED <<platform, file, lasting, main, mount, possible>>,
         shown' \in Configs \cup {None}, selected' \in Ids \cup {"local"}
  PROVE  SavedInv' /\ AtTheHead'
<1>1. queues[ops[c].mount] # <<>> /\ Head(queues[ops[c].mount]) = c
  BY DEF AtTheHead
<1>2. /\ ops' = [ops EXCEPT ![c] = Idle]
      /\ queues' = [queues EXCEPT ![ops[c].mount] = Tail(@)]
      /\ queues' \in [Mounts -> Seq(Calls)]
  BY <1>1, LeaveFacts
<1>3. SavedInv'
  <2>1. Idle \in Operations /\ Idle.pc = "idle"
    BY IdleOperation
  <2> QED BY <1>2, <2>1, OneChanges DEF SavedInv, TypeOK
<1>4. AtTheHead'
  <2> SUFFICES ASSUME NEW e \in Calls, ops'[e].pc \notin {"idle", "queued"}
               PROVE  queues'[ops'[e].mount] # <<>> /\ Head(queues'[ops'[e].mount]) = e
    BY DEF AtTheHead
  <2>1. ops \in [Calls -> Operations]
    BY OpsType DEF SavedInv
  <2>2. e # c /\ ops'[e] = ops[e]
    BY <1>2, <2>1, IdleOperation
  <2>3. queues[ops[e].mount] # <<>> /\ Head(queues[ops[e].mount]) = e
    BY <2>2 DEF AtTheHead
  <2>4. ops[e].mount # ops[c].mount
    BY <1>1, <2>2, <2>3
  <2>5. ops[e].mount \in Mounts
    BY <2>1 DEF Operations
  <2>6. queues'[ops[e].mount] = queues[ops[e].mount]
    BY <1>2, <2>4, <2>5 DEF SavedInv, TypeOK
  <2> QED BY <2>2, <2>3, <2>6
<1> QED BY <1>3, <1>4

\* An operation goes on to another step, its place in the queue stays.
LEMMA HeadStays ==
  ASSUME SavedInv, AtTheHead, NEW c \in Calls, NEW r \in Operations,
         ops' = [ops EXCEPT ![c] = r], UNCHANGED queues, r.mount = ops[c].mount,
         queues[ops[c].mount] # <<>> /\ Head(queues[ops[c].mount]) = c
  PROVE  AtTheHead'
<1>1. ops'[c] = r /\ \A d \in Calls \ {c} : ops'[d] = ops[d]
  BY OpsType DEF SavedInv
<1> QED BY <1>1 DEF AtTheHead

LEMMA ChangedType ==
  ASSUME NEW config \in Configs, NEW r \in Operations
  PROVE  Changed(config, r) \in Configs
BY DEF Changed, Configs, Operations

\* An operation goes to another step with everything else as it is.
LEMMA StepOf ==
  ASSUME SavedInv, NEW c \in Calls,
         NEW pc \in {"idle", "queued", "write", "writing", "saved", "failed", "cleanup"},
         ops' = [ops EXCEPT ![c].pc = pc]
  PROVE  /\ ops' \in [Calls -> Operations]
         /\ ops'[c] = [ops[c] EXCEPT !.pc = pc] /\ ops'[c] \in Operations
         /\ ops' = [ops EXCEPT ![c] = ops'[c]]
         /\ ops'[c].pc = pc /\ ops'[c].mount = ops[c].mount /\ ops'[c].next = ops[c].next
         /\ ops'[c].id = ops[c].id /\ ops'[c].dest = ops[c].dest
         /\ \A d \in Calls \ {c} : ops'[d] = ops[d]
<1>1. ops \in [Calls -> Operations] /\ ops[c] \in Operations
  BY OpsType DEF SavedInv
<1> DEFINE r == [ops[c] EXCEPT !.pc = pc]
<1>2. r \in Operations /\ r.pc = pc /\ r.mount = ops[c].mount /\ r.next = ops[c].next
      /\ r.id = ops[c].id /\ r.dest = ops[c].dest
  BY <1>1 DEF Operations
<1>3. ops' = [ops EXCEPT ![c] = r]
  BY <1>1
<1> HIDE DEF r
<1>4. ops'[c] = r /\ ops' \in [Calls -> Operations] /\ \A d \in Calls \ {c} : ops'[d] = ops[d]
  BY <1>1, <1>2, <1>3
<1> QED BY <1>2, <1>3, <1>4 DEF r

\* What a transaction has after its reading.
LEMMA ReadFacts ==
  ASSUME DataOK, SavedInv, NEW c \in Calls, ReadLatest(c)
  PROVE  \E r \in Operations :
           /\ ops' = [ops EXCEPT ![c] = r] /\ r.mount = ops[c].mount
           /\ r.pc \in {"write", "failed"}
           /\ r.pc = "write" => r.next = Changed(Lenient(file), r)
<1>1. ops \in [Calls -> Operations] /\ ops[c] \in Operations
  BY OpsType DEF SavedInv
<1> DEFINE next == Changed(Lenient(file), ops[c])
           w == [ops[c] EXCEPT !.pc = "write", !.next = next]
           f == [ops[c] EXCEPT !.pc = "failed"]
<1>2. next \in Configs
  BY <1>1, LatestType, ChangedType DEF SavedInv
<1>3. ops' = [ops EXCEPT ![c] = w] \/ ops' = [ops EXCEPT ![c] = f]
  BY <1>1 DEF ReadLatest
<1> HIDE DEF next
<1>4. w \in Operations /\ w.pc = "write" /\ w.mount = ops[c].mount /\ w.next = next
      /\ w.id = ops[c].id /\ w.dest = ops[c].dest
  BY <1>1, <1>2 DEF Operations
<1>5. f \in Operations /\ f.pc = "failed" /\ f.mount = ops[c].mount
  BY <1>1, <1>2 DEF Operations
<1> HIDE DEF w, f
<1>6. w.next = Changed(Lenient(file), w)
  BY <1>4 DEF Changed, next
<1> QED BY <1>3, <1>4, <1>5, <1>6

LEMMA ReadSaved ==
  ASSUME DataOK, SavedInv, AtTheHead, NEW c \in Calls, ReadLatest(c)
  PROVE  SavedInv' /\ AtTheHead'
<1>1. PICK r \in Operations : /\ ops' = [ops EXCEPT ![c] = r] /\ r.mount = ops[c].mount
                             /\ r.pc \in {"write", "failed"}
  BY ReadFacts
<1>2. UNCHANGED <<platform, file, lasting, main, queues, mount, shown, selected, possible>>
      /\ ops[c].pc = "queued" /\ Turn(c)
  BY DEF ReadLatest
<1>3. SavedInv'
  BY <1>1, <1>2, OneChanges DEF SavedInv, TypeOK
<1>4. AtTheHead'
  BY <1>1, <1>2, HeadStays DEF Turn
<1> QED BY <1>3, <1>4

\* The answer of a write: to its operation, which was writing.
LEMMA AnswerFacts ==
  ASSUME SavedInv, main # Resting, NEW pc \in {"saved", "failed"}, Answer(pc)
  PROVE  LET c == main.call
         IN /\ c \in Calls /\ ops[c].pc = "writing" /\ main' = Resting
            /\ ops' = [ops EXCEPT ![c] = ops'[c]] /\ ops'[c] \in Operations
            /\ ops' \in [Calls -> Operations]
            /\ ops'[c].pc = pc /\ ops'[c].mount = ops[c].mount /\ ops'[c].next = ops[c].next
            /\ \A d \in Calls \ {c} : ops'[d] = ops[d] /\ ops[d].pc # "writing"
<1>1. main.call \in Calls /\ ops[main.call].pc = "writing"
  BY DEF SavedInv, OneWrite
<1>2. ops' = [ops EXCEPT ![main.call].pc = pc] /\ main' = Resting
  BY DEF Answer
<1>3. \A d \in Calls \ {main.call} : ops[d].pc # "writing"
  BY DEF SavedInv, OneWrite
<1> QED BY <1>1, <1>2, <1>3, StepOf

LEMMA RestingType ==
  Resting \in [call : Calls \cup {None}, synced : BOOLEAN,
               stage : {"none", "create", "write", "sync", "rename", "directory"}]
BY DEF Resting

LEMMA BeginSaved ==
  ASSUME DataOK, SavedInv, AtTheHead, NEW c \in Calls, BeginWrite(c)
  PROVE  SavedInv' /\ AtTheHead'
<1>1. ops[c].pc = "write" /\ main = Resting /\ main' = [call |-> c, stage |-> "create", synced |-> FALSE]
      /\ ops' = [ops EXCEPT ![c].pc = "writing"] /\ possible' = possible \cup {ops[c].next}
      /\ UNCHANGED <<platform, file, lasting, queues, mount, shown, selected>>
  BY DEF BeginWrite
<1>2. /\ ops' \in [Calls -> Operations] /\ ops'[c] \in Operations
      /\ ops' = [ops EXCEPT ![c] = ops'[c]]
      /\ ops'[c].pc = "writing" /\ ops'[c].mount = ops[c].mount /\ ops'[c].next = ops[c].next
      /\ \A d \in Calls \ {c} : ops'[d] = ops[d]
  BY <1>1, StepOf
<1>3. ops[c].next \in Configs
  BY OpsType DEF SavedInv, Operations
<1>4. TypeOK'
  BY <1>1, <1>2, <1>3 DEF SavedInv, TypeOK, Operations, Contents
<1>5. \A d \in Calls : ops[d].pc # "writing"
  BY <1>1 DEF SavedInv, OneWrite, Resting
<1>6. OneWrite'
  BY <1>1, <1>2, <1>5 DEF OneWrite
<1>7. Written'
  BY <1>1, <1>2, <1>5 DEF SavedInv, Written
<1>8. AtTheHead'
  BY <1>1, <1>2, HeadStays DEF AtTheHead
<1> QED BY <1>4, <1>6, <1>7, <1>8 DEF SavedInv

LEMMA PublishSaved ==
  ASSUME DataOK, SavedInv, AtTheHead, NEW c \in Calls, Publish(c) \/ Finish(c)
  PROVE  SavedInv' /\ AtTheHead'
<1>1. ops \in [Calls -> Operations] /\ ops[c] \in Operations
  BY OpsType DEF SavedInv
<1>2. UNCHANGED <<platform, file, lasting, main, mount, possible>>
      /\ shown' \in Configs \cup {None} /\ selected' \in Ids \cup {"local"}
      /\ ops[c].pc \in {"saved", "failed", "cleanup"}
  BY <1>1 DEF Publish, Finish, Published, Operations, SavedInv, TypeOK
<1>3. CASE Leave(c)
  BY <1>2, <1>3, LeaveSaved
<1>4. CASE ops' = [ops EXCEPT ![c].pc = "cleanup"] /\ queues' = queues
  <2>1. /\ ops' = [ops EXCEPT ![c] = ops'[c]] /\ ops'[c] \in Operations
        /\ ops'[c].pc = "cleanup" /\ ops'[c].mount = ops[c].mount
    BY <1>4, StepOf
  <2>2. SavedInv'
    BY <1>2, <1>4, <2>1, OneChanges DEF SavedInv, TypeOK
  <2>3. AtTheHead'
    BY <1>2, <1>4, <2>1, HeadStays DEF AtTheHead
  <2> QED BY <2>2, <2>3
<1> QED BY <1>3, <1>4 DEF Publish, Finish

\* A step of the write that only prepares, or the rename on Unix.
LEMMA StageSaved ==
  ASSUME DataOK, SavedInv, AtTheHead, main # Resting,
         NEW stage \in {"write", "sync", "rename", "directory"},
         NEW synced \in BOOLEAN, stage \in {"rename", "directory"} => synced,
         main' = [main EXCEPT !.stage = stage, !.synced = synced],
         UNCHANGED <<ops, queues, platform, mount, shown, selected, possible>>,
         \/ stage # "directory" /\ UNCHANGED <<file, lasting>>
         \/ file' = ops[main.call].next /\ lasting' = lasting \cup {file'}
  PROVE  SavedInv' /\ AtTheHead'
<1>1. main.call \in Calls /\ ops[main.call].pc = "writing"
      /\ \A d \in Calls \ {main.call} : ops[d].pc # "writing"
  BY DEF SavedInv, OneWrite
<1>2. main' \in [call : Calls \cup {None}, synced : BOOLEAN,
                 stage : {"none", "create", "write", "sync", "rename", "directory"}]
      /\ main'.call = main.call /\ main'.stage = stage /\ main'.synced = synced
  BY DEF SavedInv, TypeOK
<1>3. ops[main.call].next \in Configs /\ ops[main.call].next \in possible
  BY <1>1, OpsType DEF SavedInv, Operations, Written
<1>4. TypeOK'
  BY <1>2, <1>3 DEF SavedInv, TypeOK, Contents
<1>5. OneWrite'
  BY <1>1, <1>2 DEF OneWrite
<1>6. Written'
  BY <1>1, <1>2, <1>3 DEF SavedInv, Written
<1>7. AtTheHead'
  BY DEF AtTheHead
<1> QED BY <1>4, <1>5, <1>6, <1>7 DEF SavedInv

\* The end of a write: what the file may hold is saved, or nothing has changed.
LEMMA AnswerSaved ==
  ASSUME DataOK, SavedInv, AtTheHead, main # Resting, NEW pc \in {"saved", "failed"},
         Answer(pc), UNCHANGED <<queues, platform, mount, shown, selected>>,
         \/ UNCHANGED <<file, lasting, possible>>
         \/ file' \in {file, ops[main.call].next} /\ lasting' = {file'} /\ possible' = {file'}
  PROVE  SavedInv' /\ AtTheHead'
<1> DEFINE c == main.call
<1>1. /\ c \in Calls /\ ops[c].pc = "writing" /\ main' = Resting
      /\ ops' = [ops EXCEPT ![c] = ops'[c]] /\ ops'[c] \in Operations
      /\ ops' \in [Calls -> Operations]
      /\ ops'[c].pc = pc /\ ops'[c].mount = ops[c].mount
      /\ \A d \in Calls \ {c} : ops'[d] = ops[d] /\ ops[d].pc # "writing"
  BY AnswerFacts
<1> HIDE DEF c
<1>2. ops[c].next \in Configs
  BY <1>1, OpsType DEF SavedInv, Operations
<1>3. TypeOK'
  BY <1>1, <1>2, RestingType DEF SavedInv, TypeOK, Contents, Operations, c
<1>4. OneWrite'
  BY <1>1 DEF OneWrite, Resting
<1>5. Written'
  BY <1>1 DEF SavedInv, Written
<1>6. AtTheHead'
  BY <1>1, HeadStays DEF AtTheHead
<1> QED BY <1>3, <1>4, <1>5, <1>6 DEF SavedInv

LEMMA WriteSaved ==
  ASSUME DataOK, SavedInv, AtTheHead, Prepare \/ Rename \/ SyncDirectory \/ WriteFails
  PROVE  SavedInv' /\ AtTheHead'
<1>1. CASE Prepare
  <2>1. main.stage \in {"create", "write", "sync"} /\ main # Resting
        /\ main' = [main EXCEPT !.stage = Later(main.stage), !.synced = (main.stage = "sync")]
        /\ UNCHANGED <<platform, file, lasting, ops, queues, mount, shown, selected, possible>>
    BY <1>1 DEF Prepare, Resting
  <2>2. /\ Later(main.stage) \in {"write", "sync", "rename"}
        /\ Later(main.stage) = "rename" => main.stage = "sync"
    BY <2>1 DEF Later
  <2>3. PICK stage, synced : stage = Later(main.stage) /\ synced = (main.stage = "sync")
    OBVIOUS
  <2>4. main' = [main EXCEPT !.stage = stage, !.synced = synced]
    BY <2>1, <2>3
  <2>5. synced \in BOOLEAN /\ (stage \in {"rename", "directory"} => synced)
    BY <2>2, <2>3
  <2> QED BY <2>1, <2>2, <2>3, <2>4, <2>5, StageSaved
<1>2. CASE Rename
  <2>1. main.stage = "rename" /\ main # Resting /\ file' = ops[main.call].next
        /\ UNCHANGED <<platform, queues, mount, shown, selected>>
    BY <1>2 DEF Rename, Resting
  <2>2. Landed(ops[main.call].next) = {ops[main.call].next} /\ main.synced
    BY <2>1 DEF Landed, SavedInv, OneWrite
  <2>3. CASE lasting' = {file'} /\ possible' = {file'} /\ Answer("saved")
    BY <2>1, <2>3, AnswerSaved
  <2>4. CASE /\ lasting' = lasting \cup {file'} /\ main' = [main EXCEPT !.stage = Later(main.stage)]
             /\ UNCHANGED <<ops, possible>>
    <3>1. main \in [call : Calls \cup {None}, synced : BOOLEAN,
                    stage : {"none", "create", "write", "sync", "rename", "directory"}]
      BY DEF SavedInv, TypeOK
    <3>2. main.synced = TRUE
      BY <2>2, <3>1
    <3>3. main' = [main EXCEPT !.stage = "directory"]
      BY <2>1, <2>4 DEF Later
    <3>4. main' = [main EXCEPT !.stage = "directory", !.synced = TRUE]
      BY <3>1, <3>2, <3>3
    <3> QED BY <2>1, <2>4, <3>4, StageSaved
  <2> QED BY <1>2, <2>1, <2>2, <2>3, <2>4 DEF Rename
<1>3. CASE SyncDirectory
  <2>1. main # Resting /\ Answer("saved") /\ UNCHANGED <<file, platform, queues, mount, shown, selected>>
        /\ lasting' = {file'} /\ possible' = {file'}
    BY <1>3 DEF SyncDirectory, Settled, Landed, Resting, SavedInv, OneWrite
  <2> QED BY <2>1, AnswerSaved
<1>4. CASE WriteFails
  <2>1. main # Resting /\ Answer("failed")
        /\ UNCHANGED <<platform, file, lasting, queues, mount, shown, selected, possible>>
    BY <1>4 DEF WriteFails
  <2> QED BY <2>1, AnswerSaved
<1> QED BY <1>1, <1>2, <1>3, <1>4

LEMMA RestartSaved ==
  ASSUME DataOK, SavedInv, NEW cut \in BOOLEAN, Restart(cut)
  PROVE  SavedInv' /\ AtTheHead' /\ OwnChangeOnly'
<1>1. ops' \in [Calls -> Operations] /\ \A c \in Calls : ops'[c].pc = "idle"
  BY IdleOperation DEF Restart, Fresh
<1>2. main' = Resting /\ queues' \in [Mounts -> Seq(Calls)] /\ mount' \in Mounts /\ shown' = None
  BY DEF Restart, Fresh, DataOK
<1>3. file' \in {file} \cup lasting /\ lasting' \in {lasting, {file'}}
      /\ UNCHANGED <<platform, selected, possible>>
  BY DEF Restart
<1>4. {file'} \cup lasting' \subseteq {file} \cup lasting
  BY <1>3
<1>5. TypeOK'
  <2>1. file' \in Contents /\ lasting' \in SUBSET Contents
    BY <1>4 DEF SavedInv, TypeOK
  <2> QED BY <1>1, <1>2, <1>3, <2>1, RestingType DEF SavedInv, TypeOK, Operations
<1>6. OneWrite'
  BY <1>1, <1>2 DEF OneWrite, Resting
<1>7. Written'
  BY <1>1, <1>3, <1>4 DEF SavedInv, Written
<1>8. AtTheHead' /\ OwnChangeOnly'
  BY <1>1 DEF AtTheHead, OwnChangeOnly
<1> QED BY <1>5, <1>6, <1>7, <1>8 DEF SavedInv

LEMMA NextSaved ==
  ASSUME DataOK, SavedInv, AtTheHead, [Next]_vars
  PROVE  SavedInv' /\ AtTheHead'
<1>1. CASE Load \/ Reconcile \/ Remount \/ \E i \in Ids \cup {"local"} : Select(i)
  BY <1>1, PageSaved
<1>2. CASE Prepare \/ Rename \/ SyncDirectory \/ WriteFails
  BY <1>2, WriteSaved
<1>3. ASSUME NEW cut \in BOOLEAN, Restart(cut) PROVE SavedInv' /\ AtTheHead'
  BY <1>3, RestartSaved
<1>4. ASSUME NEW c \in Calls, ReadLatest(c) PROVE SavedInv' /\ AtTheHead'
  BY <1>4, ReadSaved
<1>5. ASSUME NEW c \in Calls, BeginWrite(c) PROVE SavedInv' /\ AtTheHead'
  BY <1>5, BeginSaved
<1>6. ASSUME NEW c \in Calls, Publish(c) \/ Finish(c) PROVE SavedInv' /\ AtTheHead'
  BY <1>6, PublishSaved
<1>7. ASSUME NEW c \in Calls, NEW k \in Kinds, NEW i \in Ids, NEW d \in Dests \cup {None},
             Submit(c, k, i, d)
      PROVE  SavedInv' /\ AtTheHead'
  BY <1>7, SubmitSaved
<1>8. CASE UNCHANGED vars
  BY <1>8, NoneChanges DEF vars, SavedInv, TypeOK
<1> QED BY <1>1, <1>2, <1>3, <1>4, <1>5, <1>6, <1>7, <1>8 DEF Next

\* What was told saved is what a session opens by.
LEMMA InvSavedSurvives == ASSUME DataOK, SavedInv PROVE SavedSurvives
<1>1. ASSUME NEW c \in Calls, possible = {ops[c].next} PROVE Strict(file) = ops[c].next
  <2>1. file = ops[c].next
    BY <1>1 DEF SavedInv, Written
  <2>2. ops[c].next \in Configs
    BY OpsType DEF SavedInv, Operations
  <2> QED BY <2>1, <2>2 DEF Strict, DataOK
<1> QED BY <1>1 DEF SavedSurvives, SavedInv, Written

(***************************************************************************)
(* Every variable keeps its type, whatever the settings page, the write    *)
(* and the crashes do.                                                     *)
(***************************************************************************)
THEOREM TypesHold == ASSUME DataOK PROVE Spec => []TypeOK
<1>1. Init => SavedInv /\ AtTheHead
  BY InitInv
<1>2. SavedInv /\ AtTheHead /\ [Next]_vars => (SavedInv /\ AtTheHead)'
  BY NextSaved
<1>3. SavedInv => TypeOK
  BY DEF SavedInv
<1> QED BY <1>1, <1>2, <1>3, PTL DEF Spec

(***************************************************************************)
(* Cut off anywhere, the endpoint file is the configuration last told      *)
(* saved or one whose write was under way or failed since, for any number  *)
(* of endpoints, of operations and of managers mounted at once.            *)
(***************************************************************************)
THEOREM SavedSurvivesHolds == ASSUME DataOK PROVE Spec => []SavedSurvives
<1>1. Init => SavedInv /\ AtTheHead
  BY InitInv
<1>2. SavedInv /\ AtTheHead /\ [Next]_vars => (SavedInv /\ AtTheHead)'
  BY NextSaved
<1>3. SavedInv => SavedSurvives
  BY InvSavedSurvives
<1> QED BY <1>1, <1>2, <1>3, PTL DEF Spec

-----------------------------------------------------------------------------
(* With one manager nothing is replaced between a reading and its write.   *)

LEMMA OneBegun ==
  ASSUME OneManager, SavedInv, AtTheHead, NEW c \in Calls, NEW d \in Calls,
         ops[c].pc \notin {"idle", "queued"}, ops[d].pc \notin {"idle", "queued"}
  PROVE  c = d
<1>1. ops[c].mount = 1 /\ ops[d].mount = 1
  BY OpsType DEF SavedInv, Operations, OneManager
<1> QED BY <1>1 DEF AtTheHead

\* An operation other than c that has begun is the one that has read.
LEMMA OwnAfter ==
  ASSUME OwnChangeOnly, SavedInv, NEW c \in Calls, NEW r \in Operations,
         ops' = [ops EXCEPT ![c] = r], UNCHANGED <<file, main>>,
         \/ r.pc \notin {"write", "writing"}
         \/ r.pc = "write" /\ r.next = Changed(Lenient(file), r)
  PROVE  OwnChangeOnly'
<1>1. ops'[c] = r /\ \A d \in Calls \ {c} : ops'[d] = ops[d]
  BY OpsType DEF SavedInv
<1> QED BY <1>1 DEF OwnChangeOnly

LEMMA OwnPage ==
  ASSUME DataOK, OwnInv, NEW c \in Calls,
         \/ ReadLatest(c) \/ Publish(c) \/ Finish(c)
         \/ \E k \in Kinds, i \in Ids, d \in Dests \cup {None} : Submit(c, k, i, d)
  PROVE  OwnChangeOnly'
<1> USE DEF OwnInv
<1>1. CASE ReadLatest(c)
  <2>1. \E r \in Operations :
           /\ ops' = [ops EXCEPT ![c] = r] /\ r.pc \in {"write", "failed"}
           /\ r.pc = "write" => r.next = Changed(Lenient(file), r)
    BY <1>1, ReadFacts
  <2>2. UNCHANGED <<file, main>>
    BY <1>1 DEF ReadLatest
  <2> QED BY <2>1, <2>2, OwnAfter
<1>2. CASE Leave(c) /\ UNCHANGED <<file, main>>
  BY <1>2, IdleOperation, OwnAfter DEF Leave
<1>3. CASE Publish(c) /\ ops' = [ops EXCEPT ![c].pc = "cleanup"]
  <2>1. ops' = [ops EXCEPT ![c] = ops'[c]] /\ ops'[c] \in Operations /\ ops'[c].pc = "cleanup"
    BY <1>3, StepOf
  <2>2. UNCHANGED <<file, main>>
    BY <1>3 DEF Publish
  <2> QED BY <2>1, <2>2, OwnAfter
<1>4. ASSUME NEW k \in Kinds, NEW i \in Ids, NEW d \in Dests \cup {None}, Submit(c, k, i, d)
      PROVE  OwnChangeOnly'
  <2>1. \E r \in Operations : ops' = [ops EXCEPT ![c] = r] /\ r.pc = "queued"
    BY <1>4, SubmitFacts
  <2>2. UNCHANGED <<file, main>>
    BY <1>4 DEF Submit
  <2> QED BY <2>1, <2>2, OwnAfter
<1> QED BY <1>1, <1>2, <1>3, <1>4 DEF Publish, Finish

LEMMA OwnBegin ==
  ASSUME DataOK, OwnInv, NEW c \in Calls, BeginWrite(c)
  PROVE  OwnChangeOnly'
<1>1. ops[c].pc = "write" /\ UNCHANGED file /\ main' = [call |-> c, stage |-> "create", synced |-> FALSE]
      /\ ops' = [ops EXCEPT ![c].pc = "writing"] /\ main = Resting
  BY DEF BeginWrite
<1>2. /\ ops'[c].next = ops[c].next /\ ops'[c].id = ops[c].id /\ ops'[c].dest = ops[c].dest
      /\ \A d \in Calls \ {c} : ops'[d] = ops[d]
  BY <1>1, StepOf DEF OwnInv
<1>3. ops[c].next = Changed(Lenient(file), ops[c])
  BY <1>1 DEF OwnInv, OwnChangeOnly
<1>4. ops'[c].next = Changed(Lenient(file'), ops'[c])
  BY <1>1, <1>2, <1>3 DEF Changed
<1>5. \A d \in Calls : ops[d].pc # "writing"
  BY <1>1 DEF OwnInv, SavedInv, OneWrite, Resting
<1> QED BY <1>1, <1>2, <1>4, <1>5 DEF OwnInv, OwnChangeOnly

LEMMA OwnWrite ==
  ASSUME DataOK, OneManager, OwnInv, Prepare \/ Rename \/ SyncDirectory \/ WriteFails
  PROVE  OwnChangeOnly'
<1> DEFINE c == main.call
<1> USE DEF OwnInv
<1>1. main # Resting
  BY DEF Prepare, Rename, SyncDirectory, WriteFails, Resting
<1>2. c \in Calls /\ ops[c].pc = "writing"
  BY <1>1 DEF SavedInv, OneWrite
<1>3. \A d \in Calls \ {c} : ops[d].pc \in {"idle", "queued"}
  BY <1>2, OneBegun
<1>4. CASE Prepare
  <2>1. UNCHANGED <<file, ops>> /\ main.stage # "directory"
    BY <1>4 DEF Prepare
  <2> QED BY <1>2, <1>3, <2>1 DEF OwnChangeOnly
<1>5. CASE UNCHANGED ops /\ main' = [main EXCEPT !.stage = "directory"]
  <2>1. main'.stage = "directory"
    BY <1>5 DEF SavedInv, TypeOK
  <2> QED BY <1>2, <1>3, <1>5, <2>1 DEF OwnChangeOnly
<1>6. ASSUME NEW pc \in {"saved", "failed"}, Answer(pc) PROVE OwnChangeOnly'
  <2>1. ops'[c].pc = pc /\ \A d \in Calls \ {c} : ops'[d] = ops[d]
    BY <1>1, <1>6, AnswerFacts
  <2> QED BY <1>3, <2>1 DEF OwnChangeOnly
<1>7. CASE Rename
  <2>1. main.stage = "rename"
    BY <1>7 DEF Rename
  <2>2. \/ Answer("saved")
        \/ UNCHANGED ops /\ main' = [main EXCEPT !.stage = Later(main.stage)]
    BY <1>7 DEF Rename
  <2>3. Later(main.stage) = "directory"
    BY <2>1 DEF Later
  <2> QED BY <1>5, <1>6, <2>2, <2>3
<1>8. CASE SyncDirectory \/ WriteFails
  BY <1>6, <1>8 DEF SyncDirectory, WriteFails
<1> QED BY <1>4, <1>7, <1>8

LEMMA NextOwn ==
  ASSUME DataOK, OneManager, OwnInv, [Next]_vars
  PROVE  OwnInv'
<1> USE DEF OwnInv
<1>1. SavedInv' /\ AtTheHead'
  BY NextSaved
<1>2. OwnChangeOnly'
  <2>1. CASE Load \/ Reconcile \/ Remount \/ \E i \in Ids \cup {"local"} : Select(i)
    BY <2>1, PageSaved
  <2>2. CASE Prepare \/ Rename \/ SyncDirectory \/ WriteFails
    BY <2>2, OwnWrite
  <2>3. ASSUME NEW cut \in BOOLEAN, Restart(cut) PROVE OwnChangeOnly'
    BY <2>3, RestartSaved
  <2>4. ASSUME NEW c \in Calls, BeginWrite(c) PROVE OwnChangeOnly'
    BY <2>4, OwnBegin
  <2>5. ASSUME NEW c \in Calls,
               \/ ReadLatest(c) \/ Publish(c) \/ Finish(c)
               \/ \E k \in Kinds, i \in Ids, d \in Dests \cup {None} : Submit(c, k, i, d)
        PROVE  OwnChangeOnly'
    BY <2>5, OwnPage
  <2>6. CASE UNCHANGED vars
    BY <2>6 DEF vars, OwnChangeOnly
  <2> QED BY <2>1, <2>2, <2>3, <2>4, <2>5, <2>6 DEF Next
<1> QED BY <1>1, <1>2

(***************************************************************************)
(* As long as the page has one manager, and so one queue, a transaction    *)
(* writes the configuration in the file with its own change: no change of  *)
(* another one is lost, for any number of endpoints and of operations.     *)
(***************************************************************************)
THEOREM OwnChangeOnlyHolds == ASSUME DataOK, OneManager PROVE Spec => []OwnChangeOnly
<1>1. Init => OwnInv
  BY InitInv DEF OwnInv
<1>2. OwnInv /\ [Next]_vars => OwnInv'
  BY NextOwn
<1>3. OwnInv => OwnChangeOnly
  BY DEF OwnInv
<1> QED BY <1>1, <1>2, <1>3, PTL DEF Spec

-----------------------------------------------------------------------------
(* What the page shows.                                                    *)

\* A saved configuration that is not yet shown is its operation's; what is
\* shown is in the file, or a write has failed since, and nobody knows.
ShownInv ==
  /\ IsFiniteSet(possible)
  /\ \A c \in Calls : ops[c].pc = "saved" => ops[c].next = file
  /\ shown # None /\ (\A c \in Calls : ops[c].pc # "saved") =>
       shown = Lenient(file) \/ possible # {file}

LEMMA InitShown == ASSUME DataOK PROVE Init => ShownInv
<1> SUFFICES ASSUME Init PROVE ShownInv
  OBVIOUS
<1>1. IsFiniteSet(possible)
  BY FS_Singleton DEF Init
<1>2. shown = None /\ \A c \in Calls : ops[c].pc = "idle"
  BY IdleOperation DEF Init
<1> QED BY <1>1, <1>2 DEF ShownInv

\* An operation moves to a step other than saved, and not from it; the file
\* stays, and what may be in it only grows.
LEMMA ShownStays ==
  ASSUME SavedInv, ShownInv, NEW c \in Calls, NEW r \in Operations,
         ops' = [ops EXCEPT ![c] = r], ops[c].pc # "saved", r.pc # "saved",
         UNCHANGED <<file, shown>>, possible \subseteq possible', IsFiniteSet(possible')
  PROVE  ShownInv'
<1>1. ops'[c] = r /\ \A d \in Calls \ {c} : ops'[d] = ops[d]
  BY OpsType DEF SavedInv
<1>2. file \in possible
  BY DEF SavedInv, Written
<1>3. \A d \in Calls : ops'[d].pc = "saved" => ops'[d].next = file
  BY <1>1 DEF ShownInv
<1>4. ASSUME shown # None, \A d \in Calls : ops'[d].pc # "saved"
      PROVE  shown = Lenient(file) \/ possible' # {file}
  <2>1. \A d \in Calls : ops[d].pc # "saved"
    BY <1>1, <1>4
  <2>2. shown = Lenient(file) \/ possible # {file}
    BY <1>4, <2>1 DEF ShownInv
  <2> QED BY <1>2, <2>2
<1> QED BY <1>3, <1>4 DEF ShownInv, Lenient

LEMMA ShownPage ==
  ASSUME DataOK, OneManager, OwnInv, ShownInv,
         \/ Load \/ Reconcile \/ Remount
         \/ \E i \in Ids \cup {"local"} : Select(i)
         \/ \E cut \in BOOLEAN : Restart(cut)
  PROVE  ShownInv'
<1>1. CASE Load
  BY <1>1 DEF Load, ShownInv, Lenient
<1>2. CASE UNCHANGED <<file, possible, ops, shown>>
  BY <1>2 DEF ShownInv, Lenient
<1>3. ASSUME NEW cut \in BOOLEAN, Restart(cut) PROVE ShownInv'
  <2>1. UNCHANGED possible /\ shown' = None /\ \A c \in Calls : ops'[c].pc = "idle"
    BY <1>3, IdleOperation DEF Restart, Fresh
  <2> QED BY <2>1 DEF ShownInv
<1> QED BY <1>1, <1>2, <1>3 DEF Reconcile, Remount, Select

LEMMA ShownTransaction ==
  ASSUME DataOK, OneManager, OwnInv, ShownInv, NEW c \in Calls,
         \/ ReadLatest(c) \/ BeginWrite(c) \/ Publish(c) \/ Finish(c)
         \/ \E k \in Kinds, i \in Ids, d \in Dests \cup {None} : Submit(c, k, i, d)
  PROVE  ShownInv'
<1>1. SavedInv /\ AtTheHead /\ ops \in [Calls -> Operations] /\ IsFiniteSet(possible)
  BY OpsType DEF OwnInv, SavedInv, ShownInv
<1>2. CASE ReadLatest(c)
  <2>1. PICK r \in Operations : ops' = [ops EXCEPT ![c] = r] /\ r.pc \in {"write", "failed"}
    BY <1>1, <1>2, ReadFacts
  <2> QED BY <1>1, <1>2, <2>1, ShownStays DEF ReadLatest
<1>3. CASE BeginWrite(c)
  <2>1. ops' = [ops EXCEPT ![c] = ops'[c]] /\ ops'[c] \in Operations /\ ops'[c].pc = "writing"
    BY <1>1, <1>3, StepOf DEF BeginWrite
  <2>2. possible' = possible \cup {ops[c].next} /\ IsFiniteSet(possible')
    BY <1>1, <1>3, FS_AddElement DEF BeginWrite
  <2>3. PICK r \in Operations : r = ops'[c]
    BY <2>1
  <2> QED BY <1>1, <1>3, <2>1, <2>2, <2>3, ShownStays DEF BeginWrite
<1>4. CASE Publish(c)
  <2>1. /\ ops[c].pc = "saved" /\ shown' = ops[c].next /\ UNCHANGED <<file, possible>>
        /\ \/ ops' = [ops EXCEPT ![c].pc = "cleanup"]
           \/ ops' = [ops EXCEPT ![c] = Idle]
    BY <1>4 DEF Publish, Published, Leave
  <2>2. ops[c].next \in Configs
    BY <1>1 DEF Operations
  <2>3. shown' = Lenient(file)
    BY <2>1, <2>2 DEF ShownInv, Lenient, DataOK
  <2>4. \A d \in Calls \ {c} : ops'[d] = ops[d] /\ ops[d].pc # "saved"
    BY <1>1, <2>1, OneBegun
  <2>5. ops'[c].pc # "saved"
    BY <1>1, <2>1, StepOf, IdleOperation
  <2> QED BY <1>1, <2>1, <2>3, <2>4, <2>5 DEF ShownInv, Lenient
<1>5. CASE Finish(c)
  <2>1. ops' = [ops EXCEPT ![c] = Idle] /\ ops[c].pc # "saved" /\ UNCHANGED <<file, shown, possible>>
    BY <1>5 DEF Finish, Leave
  <2> QED BY <1>1, <2>1, IdleOperation, ShownStays
<1>6. ASSUME NEW k \in Kinds, NEW i \in Ids, NEW d \in Dests \cup {None}, Submit(c, k, i, d)
      PROVE  ShownInv'
  <2>1. PICK r \in Operations : ops' = [ops EXCEPT ![c] = r] /\ r.pc = "queued"
    BY <1>1, <1>6, SubmitFacts
  <2>2. ops[c].pc = "idle" /\ UNCHANGED <<file, shown, possible>>
    BY <1>6 DEF Submit
  <2> QED BY <1>1, <2>1, <2>2, ShownStays
<1> QED BY <1>2, <1>3, <1>4, <1>5, <1>6

LEMMA ShownWrite ==
  ASSUME DataOK, OneManager, OwnInv, ShownInv, Prepare \/ Rename \/ SyncDirectory \/ WriteFails
  PROVE  ShownInv'
<1> DEFINE c == main.call
<1>1. main # Resting
  BY DEF Prepare, Rename, SyncDirectory, WriteFails, Resting
<1>2. c \in Calls /\ ops[c].pc = "writing" /\ SavedInv /\ AtTheHead /\ shown' = shown
      /\ IsFiniteSet(possible) /\ file \in possible /\ ops[c].next \in possible
  BY <1>1 DEF OwnInv, SavedInv, OneWrite, Written, ShownInv, Prepare, Rename, SyncDirectory, WriteFails
<1>3. \A d \in Calls \ {c} : ops[d].pc # "saved"
  BY <1>2, OneBegun
<1>4. ASSUME NEW pc \in {"saved", "failed"}, Answer(pc)
      PROVE  /\ ops'[c].pc = pc /\ ops'[c].next = ops[c].next
             /\ \A d \in Calls \ {c} : ops'[d] = ops[d]
  BY <1>1, <1>2, <1>4, AnswerFacts
<1>5. CASE Prepare
  BY <1>5 DEF Prepare, ShownInv, Lenient
<1>6. CASE Rename
  <2>1. file' = ops[c].next /\ main.stage = "rename"
    BY <1>6 DEF Rename
  <2>2. CASE possible' = {ops[c].next} /\ Answer("saved")
    <3>1. IsFiniteSet(possible')
      <4>1. PICK x : x = file'
        OBVIOUS
      <4> QED BY <2>2, <4>1, FS_Singleton
    <3>2. ops'[c].pc = "saved" /\ ops'[c].next = ops[c].next
          /\ \A d \in Calls \ {c} : ops'[d] = ops[d]
      BY <1>4, <2>2
    <3> QED BY <1>2, <1>3, <2>1, <3>1, <3>2 DEF ShownInv
  <2>3. CASE UNCHANGED <<ops, possible>>
    BY <1>2, <1>3, <2>1, <2>3 DEF ShownInv, Lenient
  <2> QED BY <1>6, <2>2, <2>3 DEF Rename
<1>7. CASE SyncDirectory
  <2>1. possible' = {file} /\ Answer("saved") /\ UNCHANGED file /\ file = ops[c].next
    BY <1>2, <1>7 DEF SyncDirectory, SavedInv, Written
  <2> QED BY <1>2, <1>3, <1>4, <2>1, FS_Singleton DEF ShownInv
<1>8. CASE WriteFails
  <2>1. Answer("failed") /\ UNCHANGED <<file, possible>>
    BY <1>8 DEF WriteFails
  <2> QED BY <1>2, <1>3, <1>4, <2>1 DEF ShownInv, Lenient
<1> QED BY <1>5, <1>6, <1>7, <1>8

LEMMA NextShown ==
  ASSUME DataOK, OneManager, OwnInv, ShownInv, [Next]_vars
  PROVE  ShownInv'
<1>1. CASE UNCHANGED vars
  BY <1>1 DEF vars, ShownInv, Lenient
<1>2. CASE Load \/ Reconcile \/ Remount
  BY <1>2, ShownPage
<1>3. ASSUME NEW i \in Ids \cup {"local"}, Select(i) PROVE ShownInv'
  BY <1>3, ShownPage
<1>4. ASSUME NEW cut \in BOOLEAN, Restart(cut) PROVE ShownInv'
  BY <1>4, ShownPage
<1>5. CASE Prepare \/ Rename \/ SyncDirectory \/ WriteFails
  BY <1>5, ShownWrite
<1>6. ASSUME NEW c \in Calls, ReadLatest(c) \/ BeginWrite(c) \/ Publish(c) \/ Finish(c)
      PROVE  ShownInv'
  BY <1>6, ShownTransaction
<1>7. ASSUME NEW c \in Calls, NEW k \in Kinds, NEW i \in Ids, NEW d \in Dests \cup {None},
             Submit(c, k, i, d)
      PROVE  ShownInv'
  BY <1>7, ShownTransaction
<1> QED BY <1>1, <1>2, <1>3, <1>4, <1>5, <1>6, <1>7 DEF Next

LEMMA InvShownIsSaved == ASSUME OwnInv, ShownInv PROVE ShownIsSaved
<1> SUFFICES ASSUME shown # None, Cardinality(possible) = 1, \A c \in Calls : ops[c].pc = "idle"
             PROVE  shown = Lenient(file)
  BY DEF ShownIsSaved
<1>1. PICK x : possible = {x}
  BY FS_Singleton DEF ShownInv
<1>2. possible = {file}
  BY <1>1 DEF OwnInv, SavedInv, Written
<1> QED BY <1>2 DEF ShownInv
=============================================================================
