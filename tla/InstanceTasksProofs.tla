------------------------ MODULE InstanceTasksProofs ------------------------
(***************************************************************************)
(* Proofs about InstanceTasks, for any number of instances, jobs, imports  *)
(* and requests: leases exclude each other, none is leaked, an import sets *)
(* up only the instance that it read and submits its archive once, and the *)
(* records the GUI shows are those of the jobs that run.                   *)
(***************************************************************************)
EXTENDS InstanceTasks, TLAPS

\* Where each kind of task can stand.
PlaceInv ==
  /\ \A t \in Jobs : pc[t] \in {"idle", "opening", Kind(t), "closing", "failing", "done"}
                                \cup (IF t \in Installs THEN {"prepare"} ELSE {})
  /\ \A t \in Edits : pc[t] \in {"idle"} \cup Changes
  /\ \A c \in Imports : pc[c] \in {"idle", "parked", "opening", "reopening", "listing",
                                   "archive", "reading", "install", "prepare", "closing"}

\* Whoever holds a lease is alone, and the coordinator's map says the same.
HoldInv ==
  /\ \A t \in Tasks : Leased(t) => active[at[t]] = Op(t)
  /\ \A t, u \in Tasks : at[t] = at[u] /\ Leased(t) /\ Leased(u) => t = u
  /\ \A i \in Instances :
       active[i] # "free" => \E t \in Tasks : at[t] = i /\ Leased(t) /\ Op(t) = active[i]

\* What an import sets up exists and is what it read; before it has begun it
\* has read nothing.
SetupInv ==
  \A c \in Imports :
    /\ pc[c] = "idle" => imports[c].identity = None
    /\ pc[c] \in {"install", "prepare"} =>
         imports[c].identity # None /\ world[at[c]] = imports[c].identity

IInv == TypeOK /\ PlaceInv /\ HoldInv /\ SetupInv

-----------------------------------------------------------------------------
(* What a step does to the leases. *)

\* One task moves and all others stay where they are.
Moves(t) == \E l \in PC : pc' = [pc EXCEPT ![t] = l]

\* Whether the others hold a lease depends on their own places alone.
LEMMA OthersHold ==
  ASSUME TypeOK, NEW t \in Tasks, Moves(t)
  PROVE  \A u \in Tasks \ {t} : (Leased(u)' <=> Leased(u)) /\ Op(u)' = Op(u)
BY DEF TypeOK, Moves, Leased, Op, Idle

LEMMA OpIsMutation ==
  ASSUME NEW t \in Tasks, Leased(t)
  PROVE  Op(t) \in Mutations /\ Op(t) # "free"
BY TasksAssumption DEF Leased, Op, Tasks, Jobs, Changes, Mutations

\* A step of one task takes a free lease, keeps what it has, or gives it up.
LEMMA LeaseStep ==
  ASSUME TypeOK, HoldInv, NEW t \in Tasks, at' = at, Moves(t),
         \/ Free(at[t]) /\ ~Leased(t) /\ Leased(t)' /\ Take(at[t], Op(t)')
         \/ ~Leased(t) /\ ~Leased(t)' /\ active' = active
         \/ Leased(t) /\ Leased(t)' /\ Op(t)' = Op(t) /\ active' = active
         \/ Leased(t) /\ ~Leased(t)' /\ Release(at[t], Op(t))
  PROVE  HoldInv'
<1>1. \A u \in Tasks \ {t} : (Leased(u)' <=> Leased(u)) /\ Op(u)' = Op(u)
  BY OthersHold
<1>2. CASE Free(at[t]) /\ ~Leased(t) /\ Leased(t)' /\ Take(at[t], Op(t)')
  <2>1. \A u \in Tasks : Leased(u) => at[u] # at[t]
    BY <1>2, OpIsMutation DEF Free, HoldInv
  <2> QED
    BY <1>1, <1>2, <2>1 DEF Free, Take, TypeOK, HoldInv
<1>3. CASE ~Leased(t) /\ ~Leased(t)' /\ active' = active
  BY <1>1, <1>3 DEF TypeOK, HoldInv
<1>4. CASE Leased(t) /\ Leased(t)' /\ Op(t)' = Op(t) /\ active' = active
  BY <1>1, <1>4 DEF TypeOK, HoldInv
<1>5. CASE Leased(t) /\ ~Leased(t)' /\ Release(at[t], Op(t))
  BY <1>1, <1>5 DEF Release, TypeOK, HoldInv
<1> QED BY <1>2, <1>3, <1>4, <1>5

-----------------------------------------------------------------------------
(* Init establishes the invariant and every action keeps it. *)

LEMMA InitInv == Init => IInv
<1> SUFFICES ASSUME Init PROVE IInv
  OBVIOUS
<1>1. TypeOK
  BY DEF Init, TypeOK, PC, Controllers, NewController, Outcomes
<1>2. PlaceInv
  BY DEF Init, PlaceInv, Tasks, Jobs
<1>3. HoldInv
  BY DEF Init, HoldInv, Leased, Idle, Changes, Tasks
<1>4. SetupInv
  BY DEF Init, SetupInv, Tasks, NewController
<1> QED BY <1>1, <1>2, <1>3, <1>4 DEF IInv

\* What every step of a job leaves alone.
LEMMA JobKeepsSetup ==
  ASSUME IInv, NEW t \in Jobs, Moves(t), UNCHANGED <<at, imports, world>>
  PROVE  SetupInv'
BY TasksAssumption DEF IInv, TypeOK, SetupInv, Moves, Tasks

\* Installations and launches keep the invariant.
LEMMA JobStepInv ==
  ASSUME IInv, NEW t \in Jobs, JobStep(t)
  PROVE  IInv'
<1> USE DEF IInv
<1>t. t \in Tasks /\ t \notin Imports /\ t \notin Edits /\ Op(t) = Kind(t) /\ Op(t)' = Kind(t)
  BY TasksAssumption DEF Tasks, Op, Kind, Jobs
<1>r. ASSUME NEW s \in {"running", "success", "error"}
      PROVE  Patched(Kind(t), at[t], s)
               \in [{"install", "launch"} -> [Instances -> Records \cup {None}]]
  <2> DEFINE i == at[t]
             old == records[Kind(t)][i]
             new == IF old = None THEN None ELSE [old EXCEPT !.status = s]
  <2>1. Kind(t) \in {"install", "launch"} /\ i \in Instances
    BY <1>t DEF Kind, TypeOK
  <2>2. old \in Records \cup {None}
    BY <2>1 DEF TypeOK
  <2>3. new \in Records \cup {None}
    BY <2>2, <1>r DEF Records
  <2> HIDE DEF new, i
  <2>4. [records[Kind(t)] EXCEPT ![i] = new] \in [Instances -> Records \cup {None}]
    BY <2>1, <2>3 DEF TypeOK
  <2>5. Patched(Kind(t), at[t], s) =
          [records EXCEPT ![Kind(t)] = [records[Kind(t)] EXCEPT ![i] = new]]
    BY <2>1 DEF Patched, new, i, TypeOK
  <2> QED BY <2>1, <2>4, <2>5 DEF TypeOK
<1>1. CASE StartJob(t)
  <2>1. TypeOK'
    BY <1>1, <1>t DEF StartJob, Goto, TypeOK, PC, Kind, Records
  <2>2. Moves(t) /\ at' = at /\ ~Leased(t) /\ ~Leased(t)' /\ active' = active
    BY <1>1, <1>t DEF StartJob, Goto, Moves, Leased, TypeOK, PC
  <2>3. PlaceInv'
    BY <1>1, <1>t DEF StartJob, Goto, TypeOK, PlaceInv, Kind, Tasks
  <2> QED BY <1>1, <1>t, <2>1, <2>2, <2>3, LeaseStep, JobKeepsSetup DEF StartJob
<1>2. CASE JobNotOpened(t)
  <2>1. TypeOK'
    BY <1>2, <1>t, <1>r DEF JobNotOpened, EndJob, Goto, TypeOK, PC, Kind
  <2>2. Moves(t) /\ at' = at /\ ~Leased(t) /\ ~Leased(t)' /\ active' = active
    BY <1>2, <1>t DEF JobNotOpened, EndJob, Goto, Moves, Leased, TypeOK, PC
  <2>3. PlaceInv'
    BY <1>2, <1>t DEF JobNotOpened, EndJob, Goto, TypeOK, PlaceInv, Kind, Tasks
  <2> QED BY <1>2, <1>t, <2>1, <2>2, <2>3, LeaseStep, JobKeepsSetup DEF JobNotOpened
<1>3. CASE JobOpened(t)
  <2>1. TypeOK'
    BY <1>3, <1>t DEF JobOpened, Take, Goto, TypeOK, PC, Kind, Mutations
  <2>2. Moves(t) /\ at' = at /\ ~Leased(t)
    BY <1>3, <1>t DEF JobOpened, Goto, Moves, Leased, TypeOK, PC, Kind
  <2>3. \/ Free(at[t]) /\ Leased(t)' /\ Take(at[t], Op(t)')
        \/ ~Leased(t)' /\ active' = active
    BY <1>3, <1>t DEF JobOpened, Goto, Leased, TypeOK, Kind
  <2>4. PlaceInv'
    BY <1>3, <1>t DEF JobOpened, Goto, TypeOK, PlaceInv, Kind, Tasks
  <2> QED BY <1>3, <1>t, <2>1, <2>2, <2>3, <2>4, LeaseStep, JobKeepsSetup DEF JobOpened
<1>4. CASE ExecuteDone(t)
  <2>1. TypeOK'
    BY <1>4, <1>t DEF ExecuteDone, Goto, TypeOK, PC
  <2>2. Moves(t) /\ at' = at /\ Leased(t) /\ Leased(t)' /\ active' = active
    BY <1>4, <1>t DEF ExecuteDone, Goto, Moves, Leased, TypeOK, PC
  <2>3. PlaceInv'
    BY <1>4, <1>t DEF ExecuteDone, Goto, TypeOK, PlaceInv, Kind, Tasks
  <2> QED BY <1>4, <1>t, <2>1, <2>2, <2>3, LeaseStep, JobKeepsSetup DEF ExecuteDone
<1>5. ASSUME NEW s \in {"closing", "failing"}, RequestEnds(t, s)
      PROVE  IInv'
  <2>1. TypeOK'
    BY <1>5, <1>t DEF RequestEnds, Release, Goto, TypeOK, PC
  <2>2. Moves(t) /\ at' = at /\ Leased(t) /\ ~Leased(t)' /\ Release(at[t], Op(t))
    BY <1>5, <1>t DEF RequestEnds, Goto, Moves, Leased, TypeOK, PC
  <2>3. PlaceInv'
    BY <1>5, <1>t DEF RequestEnds, Goto, TypeOK, PlaceInv, Kind, Tasks
  <2> QED BY <1>5, <1>t, <2>1, <2>2, <2>3, LeaseStep, JobKeepsSetup DEF RequestEnds
<1>6. ASSUME NEW s \in {"success", "error"}, JobClosed(t, s)
      PROVE  IInv'
  <2>1. TypeOK'
    BY <1>6, <1>t, <1>r DEF JobClosed, EndJob, Goto, TypeOK, PC, Kind
  <2>2. Moves(t) /\ at' = at /\ ~Leased(t) /\ ~Leased(t)' /\ active' = active
    BY <1>6, <1>t DEF JobClosed, EndJob, Goto, Moves, Leased, TypeOK, PC
  <2>3. PlaceInv'
    BY <1>6, <1>t DEF JobClosed, EndJob, Goto, TypeOK, PlaceInv, Kind, Tasks
  <2> QED BY <1>6, <1>t, <2>1, <2>2, <2>3, LeaseStep, JobKeepsSetup DEF JobClosed
<1> QED BY <1>1, <1>2, <1>3, <1>4, <1>5, <1>6 DEF JobStep

\* So does output of a game; only the lines of a record change.
LEMMA OutputInv ==
  ASSUME IInv, NEW t \in Launches, Output(t)
  PROVE  IInv'
<1> USE DEF IInv
<1> DEFINE i == at[t]
           old == records["launch"][i]
           new == [old EXCEPT !.lines = @ \cup {t}]
<1>1. i \in Instances /\ old \in Records
  BY DEF Output, TypeOK, Tasks, Jobs
<1>2. new \in Records
  BY <1>1 DEF Records
<1> HIDE DEF new, i
<1>3. records' = [records EXCEPT !["launch"] = [records["launch"] EXCEPT ![i] = new]]
  BY <1>1 DEF Output, TypeOK, new, i
<1>4. records' \in [{"install", "launch"} -> [Instances -> Records \cup {None}]]
  BY <1>1, <1>2, <1>3 DEF TypeOK
<1>5. TypeOK' /\ PlaceInv' /\ SetupInv'
  BY <1>4 DEF Output, TypeOK, PlaceInv, SetupInv
<1>6. HoldInv'
  BY DEF Output, HoldInv, Leased, Op, Idle
<1> QED BY <1>5, <1>6

\* So do the single requests of rpc.ts.
LEMMA EditStepInv ==
  ASSUME IInv, NEW t \in Edits, EditStep(t)
  PROVE  IInv'
<1> USE DEF IInv
<1>t. t \in Tasks /\ t \notin Jobs /\ t \notin Imports /\ Op(t) = pc[t] /\ Op(t)' = pc'[t]
  BY TasksAssumption DEF Tasks, Op
<1>l. Leased(t) <=> pc[t] \in Changes
  BY <1>t DEF Leased
<1>m. Leased(t)' <=> pc'[t] \in Changes
  BY <1>t DEF Leased
\* Whoever sets up an instance keeps this request from changing it.
<1>s. ASSUME Leased(t), Moves(t), UNCHANGED <<at, imports>>,
             \A i \in Instances \ {at[t]} : world'[i] = world[i]
      PROVE  SetupInv'
  <2>0. ASSUME NEW c \in Imports, pc'[c] = "idle"
        PROVE  imports'[c].identity = None
    BY <1>s, <1>t, <2>0 DEF SetupInv, Moves, TypeOK, Tasks
  <2> SUFFICES ASSUME NEW c \in Imports, pc'[c] \in {"install", "prepare"}
               PROVE  imports[c].identity # None /\ world'[at[c]] = imports[c].identity
    BY <1>s, <2>0 DEF SetupInv
  <2>1. c \in Tasks /\ c # t /\ pc[c] = pc'[c] /\ Leased(c)
    BY <1>s, <1>t DEF Tasks, Moves, TypeOK, Leased, Idle
  <2>2. at[c] # at[t] /\ at[c] \in Instances
    BY <1>s, <1>t, <2>1 DEF HoldInv, TypeOK
  <2> QED BY <1>s, <2>1, <2>2 DEF SetupInv
<1>1. ASSUME NEW op \in Changes, Ask(t, op)
      PROVE  IInv'
  <2>1. TypeOK'
    BY <1>1, <1>t DEF Ask, Take, Goto, TypeOK, PC, Mutations
  <2>2. Moves(t) /\ at' = at /\ ~Leased(t)
    BY <1>1, <1>t, <1>l DEF Ask, Goto, Moves, TypeOK, PC, Changes
  <2>3. \/ Free(at[t]) /\ Leased(t)' /\ Take(at[t], Op(t)')
        \/ ~Leased(t)' /\ active' = active
    BY <1>1, <1>t, <1>m DEF Ask, Goto, TypeOK, Changes
  <2>4. PlaceInv'
    <3>1. CASE Goto(t, op)
      BY <1>1, <1>t, <3>1 DEF Goto, TypeOK, PlaceInv, Kind
    <3>2. CASE pc' = pc
      BY <3>2 DEF PlaceInv, Kind
    <3> QED BY <1>1, <3>1, <3>2 DEF Ask
  <2>5. SetupInv'
    BY <1>1, <1>t DEF Ask, Goto, TypeOK, SetupInv, Tasks
  <2> QED BY <1>1, <1>t, <2>1, <2>2, <2>3, <2>4, <2>5, LeaseStep
<1>2. CASE Deleted(t)
  <2>1. TypeOK'
    BY <1>2, <1>t DEF Deleted, Release, Goto, TypeOK, PC
  <2>2. Moves(t) /\ at' = at /\ Leased(t) /\ ~Leased(t)' /\ Release(at[t], Op(t))
    BY <1>2, <1>t, <1>l, <1>m DEF Deleted, Goto, Moves, TypeOK, PC, Changes
  <2>3. PlaceInv'
    BY <1>2, <1>t DEF Deleted, Goto, TypeOK, PlaceInv, Kind
  <2>4. SetupInv'
    BY <1>2, <2>2, <1>s DEF Deleted, TypeOK
  <2> QED BY <1>2, <1>t, <2>1, <2>2, <2>3, <2>4, LeaseStep
<1>3. ASSUME NEW v \in Identities, Created(t, v)
      PROVE  IInv'
  <2>1. TypeOK'
    BY <1>3, <1>t DEF Created, Release, Goto, TypeOK, PC
  <2>2. Moves(t) /\ at' = at /\ Leased(t) /\ ~Leased(t)' /\ Release(at[t], Op(t))
    BY <1>3, <1>t, <1>l, <1>m DEF Created, Goto, Moves, TypeOK, PC, Changes
  <2>3. PlaceInv'
    BY <1>3, <1>t DEF Created, Goto, TypeOK, PlaceInv, Kind
  <2>4. SetupInv'
    BY <1>3, <2>2, <1>s DEF Created, TypeOK
  <2> QED BY <1>3, <1>t, <2>1, <2>2, <2>3, <2>4, LeaseStep
<1>4. CASE Answered(t)
  <2>1. TypeOK'
    BY <1>4, <1>t DEF Answered, Release, Goto, TypeOK, PC
  <2>2. Moves(t) /\ at' = at /\ Leased(t) /\ ~Leased(t)' /\ Release(at[t], Op(t))
    BY <1>4, <1>t, <1>l, <1>m DEF Answered, Goto, Moves, TypeOK, PC, Changes
  <2>3. PlaceInv'
    BY <1>4, <1>t DEF Answered, Goto, TypeOK, PlaceInv, Kind
  <2>4. SetupInv'
    BY <1>4, <2>2, <1>s DEF Answered
  <2> QED BY <1>4, <1>t, <2>1, <2>2, <2>3, <2>4, LeaseStep
<1> QED BY <1>1, <1>2, <1>3, <1>4 DEF EditStep

\* An import that stays off install and prepare, or keeps what it read, with
\* the instance unchanged unless it is at the archive.
LEMMA ImportKeepsSetup ==
  ASSUME IInv, NEW c \in Imports, Moves(c), at' = at,
         \A d \in Imports \ {c} : imports'[d] = imports[d],
         \/ world' = world
         \/ Leased(c) /\ \A i \in Instances \ {at[c]} : world'[i] = world[i],
         pc'[c] # "idle",
         pc'[c] \in {"install", "prepare"} =>
           imports'[c].identity # None /\ world'[at[c]] = imports'[c].identity
  PROVE  SetupInv'
<1>0. ASSUME NEW d \in Imports, pc'[d] = "idle"
      PROVE  imports'[d].identity = None
  BY <1>0 DEF IInv, SetupInv, Moves, TypeOK, Tasks
<1> SUFFICES ASSUME NEW d \in Imports, pc'[d] \in {"install", "prepare"}
             PROVE  imports'[d].identity # None /\ world'[at[d]] = imports'[d].identity
  BY <1>0 DEF SetupInv
<1>1. CASE d = c
  BY <1>1
<1>2. CASE d # c
  <2>1. d \in Tasks /\ c \in Tasks /\ pc[d] = pc'[d] /\ Leased(d) /\ at[d] \in Instances
    BY <1>2 DEF Tasks, Moves, IInv, TypeOK, Leased, Idle
  <2>2. world'[at[d]] = world[at[d]]
    BY <1>2, <2>1 DEF IInv, HoldInv
  <2> QED BY <1>2, <2>1, <2>2 DEF IInv, SetupInv
<1> QED BY <1>1, <1>2

\* So does every step of ModpackImportController.run and of the registry.
LEMMA ImportStepInv ==
  ASSUME IInv, NEW c \in Imports, ImportStep(c)
  PROVE  IInv'
<1> USE DEF IInv
<1>t. c \in Tasks /\ c \notin Jobs /\ c \notin Edits /\ Op(c) = "install" /\ Op(c)' = "install"
  BY TasksAssumption DEF Tasks, Op, Jobs
<1>l. Leased(c) <=> ~Idle(c)
  BY <1>t DEF Leased
<1>m. Leased(c)' <=> ~Idle(c)'
  BY <1>t DEF Leased
<1>r. ASSUME NEW p \in Controllers, pc[c] \in {"idle", "parked"}, Run(c, p),
             UNCHANGED <<at, flights, records, world>>, listed' \subseteq Imports
      PROVE  IInv'
  <2>0. PICK l \in {"opening", "parked"}, q \in Controllers :
          /\ Goto(c, l) /\ imports' = [imports EXCEPT ![c] = q]
          /\ IF l = "opening" THEN Free(at[c]) /\ Take(at[c], "install")
                              ELSE active' = active
    <3>1. [p EXCEPT !.outcome = "none"] \in Controllers
      BY <1>r DEF Controllers, Outcomes
    <3>2. [p EXCEPT !.outcome = "known"] \in Controllers
      BY <1>r DEF Controllers, Outcomes
    <3>3. CASE Free(at[c])
      BY <1>r, <3>1, <3>3 DEF Run
    <3>4. CASE ~Free(at[c])
      BY <1>r, <3>2, <3>4 DEF Run
    <3> QED BY <3>3, <3>4
  <2>1. TypeOK'
    <3>1. active' \in [Instances -> Mutations \cup {"free"}]
      BY <2>0, <1>t DEF Take, TypeOK, Mutations
    <3>2. pc' \in [Tasks -> PC]
      BY <2>0, <1>t DEF Goto, TypeOK, PC
    <3>3. imports' \in [Imports -> Controllers]
      BY <2>0 DEF TypeOK
    <3> QED BY <1>r, <3>1, <3>2, <3>3 DEF TypeOK
  <2>2. Moves(c) /\ ~Leased(c) /\ pc'[c] = l
    BY <1>r, <2>0, <1>t, <1>l DEF Goto, Moves, TypeOK, PC, Idle
  <2>3. \/ Free(at[c]) /\ Leased(c)' /\ Take(at[c], Op(c)')
        \/ ~Leased(c)' /\ active' = active
    <3>1. Leased(c)' <=> l = "opening"
      BY <2>2, <1>m DEF Idle
    <3> QED BY <2>0, <3>1, <1>t
  <2>4. PlaceInv'
    BY <1>r, <2>0, <1>t DEF Goto, TypeOK, PlaceInv, Kind
  <2>5. SetupInv'
    <3>1. \A d \in Imports \ {c} : imports'[d] = imports[d]
      BY <2>0 DEF TypeOK
    <3> QED BY <1>r, <2>0, <2>2, <3>1, ImportKeepsSetup
  <2> QED BY <1>r, <1>t, <2>1, <2>2, <2>3, <2>4, <2>5, LeaseStep
<1>1. CASE StartImport(c)
  BY <1>1, <1>r DEF StartImport, NewController, Controllers, Outcomes, TypeOK
<1>2. CASE Resume(c)
  BY <1>2, <1>r DEF Resume, TypeOK
<1>3. CASE Dismiss(c)
  BY <1>3 DEF Dismiss, TypeOK, PlaceInv, HoldInv, SetupInv, Leased, Op, Idle, Kind
\* What a step that only sets the fields of its controller leaves alone.
<1>f. ASSUME NEW p \in Controllers, imports' = [imports EXCEPT ![c] = p]
      PROVE  /\ imports' \in [Imports -> Controllers]
             /\ imports'[c] = p
             /\ \A d \in Imports \ {c} : imports'[d] = imports[d]
  BY <1>f DEF TypeOK
<1>w. world \in [Instances -> Identities \cup {None}] /\ imports[c] \in Controllers
      /\ at[c] \in Instances
  BY <1>t DEF TypeOK
\* A step from one await of a run to the next.
<1>a. ASSUME NEW l \in {"listing", "archive", "reading", "install", "prepare",
                        "closing", "reopening"},
             Advance(c, l), ~Idle(c), imports' \in [Imports -> Controllers],
             world' \in [Instances -> Identities \cup {None}],
             \A d \in Imports \ {c} : imports'[d] = imports[d],
             \A i \in Instances \ {at[c]} : world'[i] = world[i],
             l \in {"install", "prepare"} =>
               imports'[c].identity # None /\ world'[at[c]] = imports'[c].identity
      PROVE  IInv'
  <2>1. TypeOK'
    BY <1>a, <1>t DEF Advance, Goto, TypeOK, PC
  <2>2. Moves(c) /\ at' = at /\ Leased(c) /\ Leased(c)' /\ active' = active
    BY <1>a, <1>t, <1>l, <1>m DEF Advance, Goto, Moves, TypeOK, PC, Idle
  <2>3. PlaceInv'
    BY <1>a, <1>t DEF Advance, Goto, TypeOK, PlaceInv, Kind
  <2>4. SetupInv'
    BY <1>a, <1>t, <2>2, ImportKeepsSetup DEF Advance, Goto, TypeOK
  <2> QED BY <1>t, <2>1, <2>2, <2>3, <2>4, LeaseStep
<1>4. CASE ImportNotOpened(c)
  <2> DEFINE p == [imports[c] EXCEPT !.outcome = "unknown"]
  <2>a. p \in Controllers
    BY <1>w DEF Controllers, Outcomes
  <2>b. imports' = [imports EXCEPT ![c] = p]
    BY <1>4 DEF ImportNotOpened
  <2> HIDE DEF p
  <2>c. imports' \in [Imports -> Controllers] /\ \A d \in Imports \ {c} : imports'[d] = imports[d]
    BY <1>f, <2>a, <2>b
  <2>1. TypeOK'
    BY <1>4, <1>t, <2>c DEF ImportNotOpened, Release, Goto, TypeOK, PC
  <2>2. Moves(c) /\ at' = at /\ Leased(c) /\ ~Leased(c)' /\ Release(at[c], Op(c))
    BY <1>4, <1>t, <1>l, <1>m DEF ImportNotOpened, Goto, Moves, TypeOK, PC, Idle
  <2>3. PlaceInv'
    BY <1>4, <1>t DEF ImportNotOpened, Goto, TypeOK, PlaceInv, Kind
  <2>4. SetupInv'
    BY <1>4, <1>t, <2>2, <2>c, ImportKeepsSetup DEF ImportNotOpened, Goto, TypeOK
  <2> QED BY <1>t, <2>1, <2>2, <2>3, <2>4, LeaseStep
<1>5. CASE ImportOpened(c)
  <2>1. ~Idle(c) /\ imports' = imports /\ world' = world
    BY <1>5 DEF ImportOpened, Idle
  <2>2. imports' \in [Imports -> Controllers]
    BY <2>1 DEF TypeOK
  <2>3. \E l \in {"reading", "listing"} : Advance(c, l)
    BY <1>5 DEF ImportOpened
  <2> QED BY <1>a, <1>w, <2>1, <2>2, <2>3
<1>6. CASE Listed(c)
  <2> DEFINE p == [imports[c] EXCEPT !.attempted = TRUE]
  <2>1. p \in Controllers
    BY <1>w DEF Controllers
  <2>2. imports' = [imports EXCEPT ![c] = p]
    BY <1>6 DEF Listed
  <2> HIDE DEF p
  <2>3. ~Idle(c) /\ world' = world /\ Advance(c, "archive")
    BY <1>6 DEF Listed, Idle
  <2> QED BY <1>a, <1>f, <1>w, <2>1, <2>2, <2>3
<1>7. ASSUME NEW v \in Identities,
             \/ \E curseforge \in BOOLEAN : ArchiveDone(c, v, curseforge)
             \/ ArchiveMalformed(c, v)
             \/ ArchiveLost(c, v)
      PROVE  IInv'
  <2>1. /\ ~Idle(c)
        /\ imports' \in [Imports -> Controllers]
        /\ \A d \in Imports \ {c} : imports'[d] = imports[d]
        /\ world' = [world EXCEPT ![at[c]] = v]
    <3>0. imports[c] \in Controllers /\ DOMAIN imports = Imports
      BY DEF TypeOK
    <3>1. CASE \E curseforge \in BOOLEAN : ArchiveDone(c, v, curseforge)
      <4> DEFINE p == [imports[c] EXCEPT !.confirmed = TRUE]
      <4>1. p \in Controllers
        BY <3>0 DEF Controllers
      <4>2. imports' = [imports EXCEPT ![c] = p]
        BY <3>1 DEF ArchiveDone
      <4> HIDE DEF p
      <4> QED BY <3>1, <4>1, <4>2 DEF ArchiveDone, Idle, TypeOK
    <3>2. CASE ArchiveMalformed(c, v)
      <4> DEFINE p == [imports[c] EXCEPT !.confirmed = TRUE, !.outcome = "invalid"]
      <4>1. p \in Controllers
        BY <3>0 DEF Controllers, Outcomes
      <4> HIDE DEF p
      <4>2. imports' = [imports EXCEPT ![c] = p]
        BY <3>2 DEF ArchiveMalformed, p
      <4> QED BY <3>2, <4>1, <4>2 DEF ArchiveMalformed, Idle, TypeOK
    <3>3. CASE ArchiveLost(c, v)
      <4> DEFINE p == [imports[c] EXCEPT !.outcome = "unknown"]
      <4>1. p \in Controllers
        BY <3>0 DEF Controllers, Outcomes
      <4> HIDE DEF p
      <4>2. imports' = [imports EXCEPT ![c] = p]
        BY <3>3 DEF ArchiveLost, p
      <4> QED BY <3>3, <4>1, <4>2 DEF ArchiveLost, Idle, TypeOK
    <3> QED BY <1>7, <3>1, <3>2, <3>3
  <2>2. \E l \in {"reading", "reopening", "closing"} : Advance(c, l)
    BY <1>7 DEF ArchiveDone, ArchiveMalformed, ArchiveLost
  <2> QED BY <1>a, <2>1, <2>2 DEF TypeOK
<1>8. CASE Read(c)
  <2>1. ~Idle(c) /\ world' = world /\ world[at[c]] \in Identities
    BY <1>8, <1>w DEF Read, Idle
  <2>2. CASE SameIdentity(c)
    <3> DEFINE p == [imports[c] EXCEPT !.identity = world[at[c]]]
    <3>1. p \in Controllers /\ p.identity = world[at[c]]
      BY <1>w, <2>1 DEF Controllers
    <3>2. imports' = [imports EXCEPT ![c] = p]
      BY <1>8, <2>2 DEF Read
    <3> HIDE DEF p
    <3>3. \E l \in {"prepare", "install"} : Advance(c, l)
      BY <1>8, <2>2 DEF Read
    <3>4. world[at[c]] # None
      BY <1>8 DEF Read
    <3> QED BY <1>a, <1>f, <1>w, <2>1, <3>1, <3>2, <3>3, <3>4
  <2>3. CASE ~SameIdentity(c)
    <3> DEFINE p == [imports[c] EXCEPT !.outcome = "invalid"]
    <3>1. p \in Controllers
      BY <1>w DEF Controllers, Outcomes
    <3>2. imports' = [imports EXCEPT ![c] = p]
      BY <1>8, <2>3 DEF Read
    <3> HIDE DEF p
    <3>3. Advance(c, "closing")
      BY <1>8, <2>3 DEF Read
    <3> QED BY <1>a, <1>f, <1>w, <2>1, <3>1, <3>2, <3>3
  <2> QED BY <2>2, <2>3
<1>9. CASE Executed(c)
  <2> DEFINE p == [imports[c] EXCEPT !.installed = TRUE]
  <2>1. p \in Controllers /\ p.identity = imports[c].identity
    BY <1>w DEF Controllers
  <2>2. imports' = [imports EXCEPT ![c] = p]
    BY <1>9 DEF Executed
  <2> HIDE DEF p
  <2>3. ~Idle(c) /\ world' = world /\ Advance(c, "prepare") /\ pc[c] = "install"
    BY <1>9 DEF Executed, Idle
  <2>4. imports[c].identity # None /\ world[at[c]] = imports[c].identity
    BY <2>3 DEF SetupInv
  <2> QED BY <1>a, <1>f, <1>w, <2>1, <2>2, <2>3, <2>4
<1>10. CASE Prepared(c)
  <2> DEFINE p == [imports[c] EXCEPT !.outcome = "success"]
  <2>1. p \in Controllers
    BY <1>w DEF Controllers, Outcomes
  <2>2. imports' = [imports EXCEPT ![c] = p]
    BY <1>10 DEF Prepared
  <2> HIDE DEF p
  <2>3. ~Idle(c) /\ world' = world /\ Advance(c, "closing")
    BY <1>10 DEF Prepared, Idle
  <2> QED BY <1>a, <1>f, <1>w, <2>1, <2>2, <2>3
<1>11. ASSUME NEW o \in {"known", "unknown"}, ImportFails(c, o)
       PROVE  IInv'
  <2> DEFINE p == [imports[c] EXCEPT !.outcome = o]
  <2>1. p \in Controllers
    BY <1>w DEF Controllers, Outcomes
  <2>2. imports' = [imports EXCEPT ![c] = p]
    BY <1>11 DEF ImportFails
  <2> HIDE DEF p
  <2>3. ~Idle(c) /\ world' = world /\ Advance(c, "closing")
    BY <1>11 DEF ImportFails, Idle
  <2> QED BY <1>a, <1>f, <1>w, <2>1, <2>2, <2>3
<1>12. CASE ImportClosed(c)
  <2>1. TypeOK'
    BY <1>12, <1>t DEF ImportClosed, Release, Goto, TypeOK, PC
  <2>2. Moves(c) /\ at' = at /\ Leased(c) /\ ~Leased(c)' /\ Release(at[c], Op(c))
    BY <1>12, <1>t, <1>l, <1>m DEF ImportClosed, Goto, Moves, TypeOK, PC, Idle
  <2>3. PlaceInv'
    BY <1>12, <1>t DEF ImportClosed, Goto, TypeOK, PlaceInv, Kind
  <2>4. SetupInv'
    BY <1>12, <1>t, <2>2, ImportKeepsSetup DEF ImportClosed, Goto, TypeOK
  <2> QED BY <1>t, <2>1, <2>2, <2>3, <2>4, LeaseStep
<1> QED
  BY <1>1, <1>2, <1>3, <1>4, <1>5, <1>6, <1>7, <1>8, <1>9, <1>10, <1>11, <1>12
  DEF ImportStep

\* The inductive invariant behind the results below: tasks.tsx,
\* modpackImport.ts and rpc.ts never disagree with the coordinator.
THEOREM Invariance == Spec => []IInv
<1>1. Init => IInv
  BY InitInv
<1>2. IInv /\ [Next]_vars => IInv'
  <2> SUFFICES ASSUME IInv, [Next]_vars PROVE IInv'
    OBVIOUS
  <2>1. CASE Next
    BY <2>1, JobStepInv, OutputInv, EditStepInv, ImportStepInv DEF Next
  <2>2. CASE UNCHANGED vars
    BY <2>2 DEF vars, IInv, TypeOK, PlaceInv, HoldInv, SetupInv, Leased, Op, Idle, Kind
  <2> QED BY <2>1, <2>2
<1> QED BY <1>1, <1>2, PTL DEF Spec

-----------------------------------------------------------------------------
(* The results. *)

\* The variables of tasks.tsx and modpackImport.ts keep their types.
THEOREM TypeCorrect == Spec => []TypeOK
<1>1. IInv => TypeOK
  BY DEF IInv
<1> QED BY <1>1, Invariance, PTL

\* An instance is busy if and only if some task under way holds it: no path
\* leaks a lease, none frees the lease of another.
THEOREM LeasesHaveHolders == Spec => []LeaseHasHolder
<1>1. IInv => LeaseHasHolder
  <2> SUFFICES ASSUME IInv, NEW i \in Instances
               PROVE  active[i] # "free" <=>
                        \E t \in Tasks : at[t] = i /\ Leased(t) /\ Op(t) = active[i]
    BY DEF LeaseHasHolder
  <2> QED BY OpIsMutation DEF IInv, HoldInv
<1> QED BY <1>1, Invariance, PTL

\* README.md's promise about the coordinator: no two requests that change one
\* instance are ever at the core together.
THEOREM MutationsExclusive == Spec => []OneMutation
<1>1. IInv => OneMutation
  <2> SUFFICES ASSUME IInv, NEW t \in Tasks, NEW u \in Tasks,
                      at[t] = at[u], Mutating(t), Mutating(u)
               PROVE  t = u
    BY DEF OneMutation
  <2>1. ASSUME NEW w \in Tasks, Mutating(w) PROVE Leased(w)
    BY <2>1, TasksAssumption
    DEF IInv, PlaceInv, Mutating, Leased, Idle, Tasks, Jobs, Kind, Changes
  <2> QED BY <2>1 DEF IInv, HoldInv
<1> QED BY <1>1, Invariance, PTL

\* An import never changes its mind about the instance it imported, and its
\* game setup only runs against that instance.
THEOREM ImportsSetUpTheirOwn == Spec => SetsUpItsOwn
<1>1. IInv /\ IInv' /\ [Next]_vars =>
        [\A c \in Imports :
           /\ imports[c].identity # None => imports'[c].identity = imports[c].identity
           /\ pc'[c] \in {"install", "prepare"} =>
                world'[at[c]] = imports'[c].identity]_vars
  <2> SUFFICES ASSUME IInv, IInv', Next, NEW c \in Imports
               PROVE  /\ imports[c].identity # None =>
                           imports'[c].identity = imports[c].identity
                      /\ pc'[c] \in {"install", "prepare"} =>
                           world'[at[c]] = imports'[c].identity
    OBVIOUS
  <2>1. at' = at
    BY DEF Next, JobStep, EditStep, ImportStep, StartJob, JobNotOpened, JobOpened,
           ExecuteDone, RequestEnds, JobClosed, Output, Ask, Deleted, Created, Answered,
           StartImport, Resume, Dismiss, ImportNotOpened, ImportOpened, Listed, Advance,
           ArchiveDone, ArchiveMalformed, ArchiveLost, Read, Executed, Prepared,
           ImportFails, ImportClosed
  <2>2. pc'[c] \in {"install", "prepare"} => world'[at[c]] = imports'[c].identity
    BY <2>1 DEF IInv, SetupInv
  <2>3. imports[c].identity # None => imports'[c].identity = imports[c].identity
    <3>1. CASE \E t \in Jobs : JobStep(t)
      BY <3>1 DEF JobStep, StartJob, JobNotOpened, JobOpened, ExecuteDone, RequestEnds,
                  JobClosed
    <3>2. CASE \E t \in Launches : Output(t)
      BY <3>2 DEF Output
    <3>3. CASE \E t \in Edits : EditStep(t)
      BY <3>3 DEF EditStep, Ask, Deleted, Created, Answered
    <3>4. ASSUME NEW d \in Imports, ImportStep(d)
          PROVE  imports[c].identity # None => imports'[c].identity = imports[c].identity
      <4>1. CASE StartImport(d)
        BY <4>1 DEF StartImport, Run, IInv, SetupInv, TypeOK
      <4>2. CASE Resume(d)
        BY <4>2 DEF Resume, Run, IInv, TypeOK, Controllers
      <4>3. CASE Dismiss(d) \/ ImportClosed(d) \/ ImportOpened(d)
        BY <4>3 DEF Dismiss, ImportClosed, ImportOpened
      <4>4. CASE ImportNotOpened(d) \/ Listed(d) \/ Executed(d) \/ Prepared(d)
        BY <4>4 DEF ImportNotOpened, Listed, Executed, Prepared, IInv, TypeOK, Controllers
      <4>5. CASE Read(d)
        BY <4>5 DEF Read, SameIdentity, IInv, TypeOK, Controllers
      <4>6. CASE \E v \in Identities, k \in BOOLEAN : ArchiveDone(d, v, k)
        BY <4>6 DEF ArchiveDone, IInv, TypeOK, Controllers
      <4>7. CASE \E v \in Identities : ArchiveMalformed(d, v) \/ ArchiveLost(d, v)
        <5> DEFINE p == [imports[d] EXCEPT !.confirmed = TRUE, !.outcome = "invalid"]
                   q == [imports[d] EXCEPT !.outcome = "unknown"]
        <5>1. p.identity = imports[d].identity /\ q.identity = imports[d].identity
          BY DEF IInv, TypeOK, Controllers
        <5>2. imports' = [imports EXCEPT ![d] = p] \/ imports' = [imports EXCEPT ![d] = q]
          BY <4>7 DEF ArchiveMalformed, ArchiveLost
        <5> HIDE DEF p, q
        <5> QED BY <5>1, <5>2 DEF IInv, TypeOK
      <4>8. CASE \E o \in {"known", "unknown"} : ImportFails(d, o)
        BY <4>8 DEF ImportFails, IInv, TypeOK, Controllers
      <4> QED BY <3>4, <4>1, <4>2, <4>3, <4>4, <4>5, <4>6, <4>7, <4>8 DEF ImportStep
    <3> QED BY <3>1, <3>2, <3>3, <3>4 DEF Next
  <2> QED BY <2>2, <2>3
<1> QED BY <1>1, Invariance, PTL DEF Spec, SetsUpItsOwn

-----------------------------------------------------------------------------
(* What the GUI shows of the jobs. *)

Running(t) == pc[t] \notin {"idle", "done"}

\* A job that runs has its flight, and nobody else has it.
FlightInv ==
  /\ \A t \in Jobs : Running(t) => at[t] \in flights[Kind(t)]
  /\ \A t, u \in Jobs :
       Running(t) /\ Running(u) /\ Kind(t) = Kind(u) /\ at[t] = at[u] => t = u

\* A record is of the last job that was begun there: while one runs, of that.
Faithful(r, k, i) ==
  /\ Kind(r.by) = k /\ at[r.by] = i /\ pc[r.by] # "idle"
  /\ r.status = "running" <=> pc[r.by] # "done"
  /\ k = "launch" => r.lines \subseteq {r.by}
  /\ \A t \in Jobs : Running(t) /\ Kind(t) = k /\ at[t] = i => r.by = t

ShownInv ==
  \A k \in {"install", "launch"}, i \in Instances :
    records[k][i] # None => Faithful(records[k][i], k, i)

RecordInv == FlightInv /\ ShownInv

LEMMA RecordTypes ==
  ASSUME TypeOK, NEW k \in {"install", "launch"}, NEW i \in Instances, records[k][i] # None
  PROVE  /\ records[k][i] \in Records
         /\ records[k][i].by \in Jobs /\ records[k][i].lines \subseteq Launches
<1>1. records[k][i] \in Records
  BY DEF TypeOK
<1> QED BY <1>1 DEF Records

LEMMA KindType == \A t \in Jobs : Kind(t) \in {"install", "launch"}
BY DEF Kind

\* Steps of requests and imports: records may be cleared, jobs stand still.
LEMMA JobsRest ==
  ASSUME TypeOK, RecordInv, at' = at, flights' = flights,
         \A t \in Jobs : pc'[t] = pc[t],
         \A k \in {"install", "launch"}, i \in Instances :
           records'[k][i] # None => records'[k][i] = records[k][i]
  PROVE  RecordInv'
<1>1. FlightInv'
  BY DEF RecordInv, FlightInv, Running
<1>2. ShownInv'
  <2> SUFFICES ASSUME NEW k \in {"install", "launch"}, NEW i \in Instances,
                      records'[k][i] # None
               PROVE  Faithful(records[k][i], k, i)'
    BY DEF ShownInv
  <2> DEFINE r == records[k][i]
  <2>1. records'[k][i] = r /\ r # None
    OBVIOUS
  <2>2. Faithful(r, k, i) /\ r.by \in Jobs
    BY <2>1, RecordTypes DEF RecordInv, ShownInv
  <2> HIDE DEF r
  <2> QED BY <2>1, <2>2 DEF Faithful, Running
<1> QED BY <1>1, <1>2 DEF RecordInv

\* A job goes on.
LEMMA JobGoesOn ==
  ASSUME TypeOK, RecordInv, NEW t \in Jobs, Running(t),
         NEW l \in PC \ {"idle", "done"}, pc' = [pc EXCEPT ![t] = l],
         at' = at, flights' = flights, records' = records
  PROVE  RecordInv'
<1>1. \A u \in Jobs : /\ Running(u)' <=> Running(u)
                      /\ pc'[u] # "idle" <=> pc[u] # "idle"
                      /\ pc'[u] # "done" <=> pc[u] # "done"
  BY DEF TypeOK, Running, Tasks
<1>2. FlightInv'
  BY <1>1 DEF RecordInv, FlightInv
<1>3. ShownInv'
  <2> SUFFICES ASSUME NEW k \in {"install", "launch"}, NEW i \in Instances,
                      records[k][i] # None
               PROVE  Faithful(records[k][i], k, i)'
    BY DEF ShownInv
  <2> DEFINE r == records[k][i]
  <2>1. Faithful(r, k, i) /\ r.by \in Jobs /\ records'[k][i] = r
    BY RecordTypes DEF RecordInv, ShownInv
  <2> HIDE DEF r
  <2> QED BY <1>1, <2>1 DEF Faithful
<1> QED BY <1>2, <1>3 DEF RecordInv

\* A job begins: its flight was free, and its record takes the place of another.
LEMMA JobBegins ==
  ASSUME TypeOK, RecordInv, NEW t \in Jobs, StartJob(t)
  PROVE  RecordInv'
<1> DEFINE k0 == Kind(t)
           i0 == at[t]
           new == [by |-> t, status |-> "running", lines |-> {}]
<1>1. t \in Tasks /\ k0 \in {"install", "launch"} /\ i0 \in Instances
  BY KindType DEF Tasks, TypeOK
<1>2. /\ pc[t] = "idle" /\ i0 \notin flights[k0] /\ pc' = [pc EXCEPT ![t] = "opening"]
      /\ at' = at /\ flights' = [flights EXCEPT ![k0] = @ \cup {i0}]
      /\ records' = [records EXCEPT ![k0] = [records[k0] EXCEPT ![i0] = new]]
  BY <1>1 DEF StartJob, Goto, TypeOK
<1>3. new.by = t /\ new.status = "running" /\ new.lines = {}
  OBVIOUS
<1> HIDE DEF new
<1>4. /\ \A u \in Jobs : u # t => pc'[u] = pc[u]
      /\ pc'[t] = "opening"
  BY <1>1, <1>2 DEF TypeOK, Tasks
<1>5. \A u \in Jobs : Running(u) => ~(Kind(u) = k0 /\ at[u] = i0)
  BY <1>2 DEF RecordInv, FlightInv
<1>6. FlightInv'
  <2>1. \A u \in Jobs : Running(u)' => u = t \/ Running(u)
    BY <1>4 DEF Running
  <2>2. i0 \in flights'[k0] /\ \A k \in {"install", "launch"} : flights[k] \subseteq flights'[k]
    BY <1>1, <1>2 DEF TypeOK
  <2>3. \A u \in Jobs : Running(u)' => at'[u] \in flights'[Kind(u)]
    BY <1>2, <2>1, <2>2, KindType DEF RecordInv, FlightInv
  <2>4. \A u, v \in Jobs : Running(u)' /\ Running(v)' /\ Kind(u) = Kind(v) /\ at[u] = at[v] => u = v
    BY <1>5, <2>1 DEF RecordInv, FlightInv
  <2> QED BY <1>2, <2>3, <2>4 DEF FlightInv
<1>7. ShownInv'
  <2> SUFFICES ASSUME NEW k \in {"install", "launch"}, NEW i \in Instances,
                      records'[k][i] # None
               PROVE  Faithful(records[k][i], k, i)'
    BY DEF ShownInv
  <2>1. CASE k = k0 /\ i = i0
    <3>1. records'[k][i] = new
      BY <1>1, <1>2, <2>1 DEF TypeOK
    <3>2. \A u \in Jobs : Running(u)' /\ Kind(u) = k0 /\ at[u] = i0 => u = t
      BY <1>4, <1>5 DEF Running
    <3> QED BY <1>2, <1>3, <1>4, <2>1, <3>1, <3>2 DEF Faithful
  <2>2. CASE ~(k = k0 /\ i = i0)
    <3> DEFINE r == records[k][i]
    <3>1. records'[k][i] = r
      BY <1>1, <1>2, <2>2 DEF TypeOK
    <3>2. Faithful(r, k, i) /\ r.by \in Jobs
      BY <3>1, RecordTypes DEF RecordInv, ShownInv
    <3> HIDE DEF r
    <3>3. r.by # t
      BY <1>2, <3>2 DEF Faithful
    <3>4. \A u \in Jobs : Running(u)' /\ Kind(u) = k /\ at[u] = i => Running(u)
      BY <1>4, <2>2 DEF Running
    <3> QED BY <1>2, <1>4, <3>1, <3>2, <3>3, <3>4 DEF Faithful
  <2> QED BY <2>1, <2>2
<1> QED BY <1>6, <1>7 DEF RecordInv

\* A job ends: its flight is given up, and its record gets the outcome.
LEMMA JobEnds ==
  ASSUME TypeOK, RecordInv, NEW t \in Jobs, Running(t), NEW s \in {"success", "error"},
         EndJob(t, s), at' = at
  PROVE  RecordInv'
<1> DEFINE k0 == Kind(t)
           i0 == at[t]
           old == records[k0][i0]
           new == IF old = None THEN None ELSE [old EXCEPT !.status = s]
<1>1. t \in Tasks /\ k0 \in {"install", "launch"} /\ i0 \in Instances
  BY KindType DEF Tasks, TypeOK
<1>2. old # None => /\ Faithful(old, k0, i0) /\ old \in Records /\ old.by \in Jobs
  BY <1>1, RecordTypes DEF RecordInv, ShownInv
<1>3. new # None => /\ old # None /\ new.by = old.by /\ new.status = s /\ new.lines = old.lines
  BY <1>2 DEF Records
<1>4. /\ pc' = [pc EXCEPT ![t] = "done"] /\ flights' = [flights EXCEPT ![k0] = @ \ {i0}]
      /\ records' = [records EXCEPT ![k0] = [records[k0] EXCEPT ![i0] = new]]
  BY <1>1 DEF EndJob, Patched, Goto, TypeOK
<1> HIDE DEF new
<1>5. /\ \A u \in Jobs : u # t => pc'[u] = pc[u]
      /\ pc'[t] = "done"
  BY <1>1, <1>4 DEF TypeOK, Tasks
<1>6. \A u \in Jobs : Running(u)' => u # t /\ Running(u) /\ ~(Kind(u) = k0 /\ at[u] = i0)
  BY <1>5 DEF Running, RecordInv, FlightInv
<1>7. FlightInv'
  <2>1. \A k \in {"install", "launch"}, i \in Instances :
          i \in flights[k] /\ ~(k = k0 /\ i = i0) => i \in flights'[k]
    BY <1>1, <1>4 DEF TypeOK
  <2>2. \A u \in Jobs : at[u] \in Instances
    BY DEF TypeOK, Tasks
  <2>3. \A u \in Jobs : Running(u)' => at'[u] \in flights'[Kind(u)]
    BY <1>6, <2>1, <2>2, KindType DEF RecordInv, FlightInv
  <2> QED BY <1>6, <2>3 DEF RecordInv, FlightInv
<1>8. ShownInv'
  <2> SUFFICES ASSUME NEW k \in {"install", "launch"}, NEW i \in Instances,
                      records'[k][i] # None
               PROVE  Faithful(records[k][i], k, i)'
    BY DEF ShownInv
  <2>1. CASE k = k0 /\ i = i0
    <3>1. records'[k][i] = new
      BY <1>1, <1>4, <2>1 DEF TypeOK
    <3>2. old.by = t
      BY <1>2, <1>3, <3>1 DEF Faithful
    <3>3. new.by = t /\ new.status # "running" /\ (k = "launch" => new.lines \subseteq {t})
      BY <1>2, <1>3, <2>1, <3>1, <3>2 DEF Faithful
    <3> QED BY <1>5, <1>6, <2>1, <3>1, <3>3 DEF Faithful
  <2>2. CASE ~(k = k0 /\ i = i0)
    <3> DEFINE r == records[k][i]
    <3>1. records'[k][i] = r
      BY <1>1, <1>4, <2>2 DEF TypeOK
    <3>2. Faithful(r, k, i) /\ r.by \in Jobs
      BY <3>1, RecordTypes DEF RecordInv, ShownInv
    <3> HIDE DEF r
    <3>3. r.by # t
      BY <2>2, <3>2 DEF Faithful
    <3> QED BY <1>5, <1>6, <3>1, <3>2, <3>3 DEF Faithful
  <2> QED BY <2>1, <2>2
<1> QED BY <1>7, <1>8 DEF RecordInv

\* Output of a launch goes into the record of the launch that runs.
LEMMA OutputRecorded ==
  ASSUME TypeOK, RecordInv, NEW t \in Launches, Output(t)
  PROVE  RecordInv'
<1> DEFINE i0 == at[t]
           old == records["launch"][i0]
           new == [old EXCEPT !.lines = @ \cup {t}]
<1>1. t \in Jobs /\ t \in Tasks /\ Kind(t) = "launch" /\ i0 \in Instances
  BY TasksAssumption DEF Jobs, Tasks, Kind, TypeOK
<1>2. /\ Running(t) /\ old # None /\ UNCHANGED <<pc, at, flights>>
      /\ records' = [records EXCEPT !["launch"] = [records["launch"] EXCEPT ![i0] = new]]
  BY <1>1 DEF Output, Heard, Running, TypeOK
<1>3. old \in Records /\ Faithful(old, "launch", i0) /\ old.by = t
  BY <1>1, <1>2, RecordTypes DEF RecordInv, ShownInv, Faithful
<1>4. new.by = t /\ new.status = old.status /\ new.lines \subseteq {t}
  BY <1>3 DEF Records, Faithful
<1> HIDE DEF new
<1>5. FlightInv'
  BY <1>2 DEF RecordInv, FlightInv, Running
<1>6. ShownInv'
  <2> SUFFICES ASSUME NEW k \in {"install", "launch"}, NEW i \in Instances,
                      records'[k][i] # None
               PROVE  Faithful(records[k][i], k, i)'
    BY DEF ShownInv
  <2>1. CASE k = "launch" /\ i = i0
    <3>1. records'[k][i] = new
      BY <1>1, <1>2, <2>1 DEF TypeOK
    <3> QED BY <1>2, <1>3, <1>4, <2>1, <3>1 DEF Faithful, Running
  <2>2. CASE ~(k = "launch" /\ i = i0)
    <3> DEFINE r == records[k][i]
    <3>1. records'[k][i] = r
      BY <1>1, <1>2, <2>2 DEF TypeOK
    <3>2. Faithful(r, k, i)
      BY <3>1 DEF RecordInv, ShownInv
    <3> HIDE DEF r
    <3> QED BY <1>2, <3>1, <3>2 DEF Faithful, Running
  <2> QED BY <2>1, <2>2
<1> QED BY <1>5, <1>6 DEF RecordInv

LEMMA JobStepRecords ==
  ASSUME IInv, RecordInv, NEW t \in Jobs, JobStep(t)
  PROVE  RecordInv'
<1>0. TypeOK
  BY DEF IInv
<1>1. CASE StartJob(t)
  BY <1>0, <1>1, JobBegins
<1>2. CASE JobNotOpened(t)
  BY <1>0, <1>2, JobEnds DEF JobNotOpened, Running
<1>3. CASE JobOpened(t)
  <2>1. PICK l \in {"failing", Kind(t)} : pc' = [pc EXCEPT ![t] = l]
    BY <1>3 DEF JobOpened, Goto
  <2>2. l \in PC \ {"idle", "done"}
    BY <2>1, KindType DEF PC
  <2> QED BY <1>0, <1>3, <2>1, <2>2, JobGoesOn DEF JobOpened, Running
<1>4. CASE ExecuteDone(t)
  BY <1>0, <1>4, JobGoesOn DEF ExecuteDone, Goto, Running, PC
<1>5. ASSUME NEW s \in {"closing", "failing"}, RequestEnds(t, s)
      PROVE  RecordInv'
  <2>1. Running(t)
    BY <1>5 DEF RequestEnds, Running
  <2>2. s \in PC \ {"idle", "done"}
    BY DEF PC
  <2> QED BY <1>0, <1>5, <2>1, <2>2, JobGoesOn DEF RequestEnds, Goto
<1>6. ASSUME NEW s \in {"success", "error"}, JobClosed(t, s)
      PROVE  RecordInv'
  BY <1>0, <1>6, JobEnds DEF JobClosed, Running
<1> QED BY <1>1, <1>2, <1>3, <1>4, <1>5, <1>6 DEF JobStep

LEMMA EditStepRecords ==
  ASSUME IInv, RecordInv, NEW t \in Edits, EditStep(t)
  PROVE  RecordInv'
<1>1. t \in Tasks /\ t \notin Jobs
  BY TasksAssumption DEF Tasks
<1>2. \A u \in Jobs : pc'[u] = pc[u]
  BY <1>1 DEF EditStep, Ask, Deleted, Created, Answered, Goto, IInv, TypeOK, Tasks
<1>3. at' = at /\ flights' = flights
  BY DEF EditStep, Ask, Deleted, Created, Answered
<1>4. ASSUME NEW k \in {"install", "launch"}, NEW i \in Instances, records'[k][i] # None
      PROVE  records'[k][i] = records[k][i]
  BY <1>4 DEF EditStep, Ask, Deleted, Created, Answered, IInv, TypeOK
<1> QED BY <1>2, <1>3, <1>4, JobsRest DEF IInv

LEMMA ImportStepRecords ==
  ASSUME IInv, RecordInv, NEW c \in Imports, ImportStep(c)
  PROVE  RecordInv'
<1>1. c \in Tasks /\ c \notin Jobs
  BY TasksAssumption DEF Tasks
<1>2. \A u \in Jobs : pc'[u] = pc[u]
  BY <1>1 DEF ImportStep, StartImport, Resume, Run, Dismiss, ImportNotOpened, ImportOpened, Listed,
              Advance, Read, Executed, Prepared, ArchiveDone, ArchiveMalformed, ArchiveLost,
              ImportFails, ImportClosed, Goto, IInv, TypeOK, Tasks
<1>3. at' = at /\ flights' = flights /\ records' = records
  BY DEF ImportStep, StartImport, Resume, Dismiss, ImportNotOpened, ImportOpened, Listed,
         Advance, Read, Executed, Prepared, ArchiveDone, ArchiveMalformed, ArchiveLost,
         ImportFails, ImportClosed
<1> QED BY <1>2, <1>3, JobsRest DEF IInv

LEMMA RecordsInvariance == Spec => []RecordInv
<1>1. Init => RecordInv
  BY DEF Init, RecordInv, FlightInv, ShownInv, Running, Tasks
<1>2. IInv /\ RecordInv /\ [Next]_vars => RecordInv'
  <2> SUFFICES ASSUME IInv, RecordInv, [Next]_vars PROVE RecordInv'
    OBVIOUS
  <2>1. CASE \E t \in Jobs : JobStep(t)
    BY <2>1, JobStepRecords
  <2>2. CASE \E t \in Launches : Output(t)
    BY <2>2, OutputRecorded DEF IInv
  <2>3. CASE \E t \in Edits : EditStep(t)
    BY <2>3, EditStepRecords
  <2>4. CASE \E c \in Imports : ImportStep(c)
    BY <2>4, ImportStepRecords
  <2>5. CASE UNCHANGED vars
    BY <2>5, JobsRest DEF vars, IInv
  <2> QED BY <2>1, <2>2, <2>3, <2>4, <2>5 DEF Next
<1> QED BY <1>1, <1>2, Invariance, PTL DEF Spec

\* A spinner turns exactly as long as the job that began its record runs, for
\* any number of installations, launches and deletions (tasks.tsx: the record
\* and the flight are given up in one finally).
THEOREM RecordsFollowTheirJobs == Spec => []RecordsFollowJobs
<1>1. RecordInv => RecordsFollowJobs
  BY DEF RecordInv, ShownInv, Faithful, RecordsFollowJobs
<1> QED BY <1>1, RecordsInvariance, PTL

\* The log of a launch has lines of that launch only, however late the events
\* of an earlier one arrive (launchRunner.ts: the flag `active').
THEOREM LaunchesKeepTheirRecords == Spec => []LaunchesOwnRecord
<1>1. RecordInv => LaunchesOwnRecord
  BY DEF RecordInv, ShownInv, Faithful, LaunchesOwnRecord
<1> QED BY <1>1, RecordsInvariance, PTL

-----------------------------------------------------------------------------
(* An archive is submitted once. *)

\* An import that came to a safe end: done, or given up with a known error
\* before its instance was confirmed.
Settled(c) == imports[c].outcome = "success" \/ CanEdit(c)

\* An import on its way to submitting its archive.
Submitting(c) == pc[c] \in {"opening", "listing"} /\ ~imports[c].confirmed

\* What is known of an import by its place.
StageInv == \A c \in Imports :
  /\ pc[c] = "reopening" => imports[c].confirmed
  /\ pc[c] \in {"parked", "closing"} => imports[c].outcome # "none"
  /\ pc[c] = "listing" => ~imports[c].confirmed
  /\ Submitting(c) => ~imports[c].attempted

\* Whoever is not listed can be forgotten, and whoever submits has seen the
\* end of all earlier imports of the instance.
SettledInv ==
  /\ \A c \in Imports \ listed : pc[c] = "idle" \/ (pc[c] = "parked" /\ Settled(c))
  /\ \A c, d \in Imports :
       Submitting(c) /\ d # c /\ at[d] = at[c] /\ pc[d] # "idle" => Settled(d)

ArchiveInv == StageInv /\ SettledInv

\* Nobody else is about to submit for the same instance.
Alone(c) == \A d \in Imports \ {c} : at[d] = at[c] => ~Submitting(d)

LEMMA BusyIsAlone ==
  ASSUME IInv, NEW c \in Imports, ~Idle(c)
  PROVE  Alone(c)
<1> SUFFICES ASSUME NEW d \in Imports \ {c}, at[d] = at[c], Submitting(d)
             PROVE  FALSE
  BY DEF Alone
<1>1. Leased(c) /\ Leased(d)
  BY DEF Leased, Idle, Submitting
<1>2. c \in Tasks /\ d \in Tasks
  BY DEF Tasks
<1> QED BY <1>1, <1>2 DEF IInv, HoldInv

\* A step of one import that is alone.
LEMMA ArchiveStep ==
  ASSUME TypeOK, ArchiveInv, NEW c \in Imports, Alone(c),
         NEW l \in PC, pc' = [pc EXCEPT ![c] = l],
         NEW p \in Controllers, imports' = [imports EXCEPT ![c] = p],
         at' = at, listed' = listed \cup {c}, l # "idle",
         l = "reopening" => p.confirmed,
         l \in {"parked", "closing"} => p.outcome # "none",
         l = "listing" => ~p.confirmed,
         l \in {"opening", "listing"} /\ ~p.confirmed =>
           /\ ~p.attempted
           /\ \A d \in Imports \ {c} : at[d] = at[c] /\ pc[d] # "idle" => Settled(d)
  PROVE  ArchiveInv'
<1>1. /\ \A d \in Imports : d # c => pc'[d] = pc[d] /\ imports'[d] = imports[d]
      /\ pc'[c] = l /\ imports'[c] = p
  BY DEF TypeOK, Tasks
<1>2. \A d \in Imports : d # c => (Submitting(d)' <=> Submitting(d)) /\ (Settled(d)' <=> Settled(d))
  BY <1>1 DEF Submitting, Settled, CanEdit
<1>3. Submitting(c)' <=> l \in {"opening", "listing"} /\ ~p.confirmed
  BY <1>1 DEF Submitting
<1>4. StageInv'
  BY <1>1, <1>2, <1>3 DEF ArchiveInv, StageInv
<1>5. \A d \in Imports \ listed' : pc'[d] = "idle" \/ (pc'[d] = "parked" /\ Settled(d)')
  BY <1>1, <1>2 DEF ArchiveInv, SettledInv
<1>6. ASSUME NEW d \in Imports, NEW e \in Imports, Submitting(d)', e # d, at[e] = at[d],
             pc'[e] # "idle"
      PROVE  Settled(e)'
  <2>1. CASE d = c
    BY <1>1, <1>2, <1>3, <1>6, <2>1
  <2>2. CASE d # c
    <3>1. e # c
      BY <1>2, <1>6, <2>2 DEF Alone
    <3> QED BY <1>1, <1>2, <1>6, <2>2, <3>1 DEF ArchiveInv, SettledInv
  <2> QED BY <2>1, <2>2
<1>7. SettledInv'
  BY <1>5, <1>6 DEF SettledInv
<1> QED BY <1>4, <1>7 DEF ArchiveInv

\* Steps that leave the imports alone.
LEMMA ImportsRest ==
  ASSUME ArchiveInv, UNCHANGED <<at, imports, listed>>, \A c \in Imports : pc'[c] = pc[c]
  PROVE  ArchiveInv'
BY DEF ArchiveInv, StageInv, SettledInv, Submitting, Settled, CanEdit

LEMMA OthersArchive ==
  ASSUME IInv, ArchiveInv,
         \/ \E t \in Jobs : JobStep(t)
         \/ \E t \in Launches : Output(t)
         \/ \E t \in Edits : EditStep(t)
  PROVE  ArchiveInv'
<1>1. UNCHANGED <<at, imports, listed>>
  BY DEF JobStep, StartJob, JobNotOpened, JobOpened, ExecuteDone, RequestEnds, JobClosed, Output,
         EditStep, Ask, Deleted, Created, Answered
<1>2. \A c \in Imports : pc'[c] = pc[c]
  <2>1. ASSUME NEW t \in Jobs, JobStep(t)
        PROVE  \A c \in Imports : pc'[c] = pc[c]
    <3>1. t \notin Imports
      BY TasksAssumption
    <3> QED BY <2>1, <3>1 DEF JobStep, StartJob, JobNotOpened, JobOpened, ExecuteDone, RequestEnds,
                              JobClosed, EndJob, Goto, IInv, TypeOK, Tasks
  <2>2. ASSUME NEW t \in Edits, EditStep(t)
        PROVE  \A c \in Imports : pc'[c] = pc[c]
    <3>1. t \notin Imports
      BY TasksAssumption
    <3> QED BY <2>2, <3>1 DEF EditStep, Ask, Deleted, Created, Answered, Goto, IInv, TypeOK, Tasks
  <2>3. ASSUME NEW u \in Launches, Output(u)
        PROVE  pc' = pc
    BY <2>3 DEF Output
  <2> QED BY <2>1, <2>2, <2>3
<1> QED BY <1>1, <1>2, ImportsRest

\* StartImport and Resume, on the controller they begin with.
LEMMA RunArchive ==
  ASSUME TypeOK, ArchiveInv, NEW c \in Imports, Alone(c), NEW p \in Controllers, Run(c, p),
         at' = at, listed' = listed \cup {c},
         ~p.confirmed =>
           /\ ~p.attempted
           /\ \A d \in Imports \ {c} : at[d] = at[c] /\ pc[d] # "idle" => Settled(d)
  PROVE  ArchiveInv'
<1>1. CASE Free(at[c])
  <2> DEFINE q == [p EXCEPT !.outcome = "none"]
  <2>1. q \in Controllers /\ q.confirmed = p.confirmed /\ q.attempted = p.attempted
    BY DEF Controllers, Outcomes
  <2>2. imports' = [imports EXCEPT ![c] = q] /\ pc' = [pc EXCEPT ![c] = "opening"]
    BY <1>1 DEF Run, Goto
  <2>3. "opening" \in PC
    BY DEF PC
  <2> HIDE DEF q
  <2> QED BY <2>1, <2>2, <2>3, ArchiveStep
<1>2. CASE ~Free(at[c])
  <2> DEFINE q == [p EXCEPT !.outcome = "known"]
  <2>1. q \in Controllers /\ q.outcome # "none"
    BY DEF Controllers, Outcomes
  <2>2. imports' = [imports EXCEPT ![c] = q] /\ pc' = [pc EXCEPT ![c] = "parked"]
    BY <1>2 DEF Run, Goto
  <2>3. "parked" \in PC
    BY DEF PC
  <2> HIDE DEF q
  <2> QED BY <2>1, <2>2, <2>3, ArchiveStep
<1> QED BY <1>1, <1>2

LEMMA StartArchive ==
  ASSUME TypeOK, ArchiveInv, NEW c \in Imports, StartImport(c)
  PROVE  ArchiveInv'
<1>1. Run(c, NewController) /\ at' = at /\ listed' = listed \cup {c}
  BY DEF StartImport
<1>2. NewController \in Controllers
  BY DEF NewController, Controllers, Outcomes
<1>3. ASSUME NEW d \in Imports \ {c}, at[d] = at[c], pc[d] # "idle"
      PROVE  Settled(d) /\ ~Submitting(d)
  <2>1. CASE d \in listed
    <3>1. ~Unsettled(d)
      BY <1>3, <2>1 DEF StartImport
    <3>2. pc[d] = "parked" /\ imports[d].outcome \notin {"unknown", "invalid"} /\ ~CanResume(d)
      BY <1>3, <3>1 DEF Unsettled, Idle
    <3>3. imports[d].outcome # "none" /\ imports[d] \in Controllers
      BY <3>2 DEF ArchiveInv, StageInv, TypeOK
    <3>4. imports[d].outcome \in {"success", "known"} /\ imports[d].confirmed \in BOOLEAN
      BY <3>2, <3>3 DEF Controllers, Outcomes
    <3> QED BY <3>2, <3>4 DEF Settled, CanEdit, CanResume, Submitting
  <2>2. CASE d \notin listed
    BY <1>3, <2>2 DEF ArchiveInv, SettledInv, Submitting
  <2> QED BY <2>1, <2>2
<1>4. Alone(c)
  BY <1>3 DEF Alone, Submitting
<1>5. ~NewController.attempted
  BY DEF NewController
<1> QED BY <1>1, <1>2, <1>3, <1>4, <1>5, RunArchive

LEMMA ResumeArchive ==
  ASSUME TypeOK, ArchiveInv, NEW c \in Imports, Resume(c)
  PROVE  ArchiveInv'
<1>1. Run(c, imports[c]) /\ at' = at /\ listed' = listed /\ pc[c] = "parked"
      /\ imports[c].confirmed /\ imports[c].outcome = "known"
  BY DEF Resume, CanResume
<1>2. imports[c] \in Controllers
  BY DEF TypeOK
<1>3. ~Settled(c)
  BY <1>1 DEF Settled, CanEdit
<1>4. Alone(c) /\ c \in listed
  BY <1>1, <1>3 DEF Alone, ArchiveInv, SettledInv
<1>5. listed' = listed \cup {c}
  BY <1>1, <1>4
<1> QED BY <1>1, <1>2, <1>4, <1>5, RunArchive

LEMMA DismissArchive ==
  ASSUME ArchiveInv, NEW c \in Imports, Dismiss(c)
  PROVE  ArchiveInv'
<1>1. pc[c] = "parked" /\ Settled(c) /\ UNCHANGED <<pc, at, imports>> /\ listed' = listed \ {c}
  BY DEF Dismiss, Settled
<1>2. StageInv'
  BY <1>1 DEF ArchiveInv, StageInv, Submitting
<1>3. SettledInv'
  BY <1>1 DEF ArchiveInv, SettledInv, Submitting, Settled, CanEdit
<1> QED BY <1>2, <1>3 DEF ArchiveInv

LEMMA ImportStepArchive ==
  ASSUME IInv, ArchiveInv, NEW c \in Imports, ImportStep(c)
  PROVE  ArchiveInv'
<1>t. TypeOK /\ imports[c] \in Controllers
  BY DEF IInv, TypeOK
<1>1. CASE StartImport(c)
  BY <1>1, <1>t, StartArchive
<1>2. CASE Resume(c)
  BY <1>2, <1>t, ResumeArchive
<1>3. CASE Dismiss(c)
  BY <1>3, DismissArchive
\* A step of a run under way.
<1>b. ASSUME ~Idle(c), at' = at, listed' = listed,
             NEW l \in PC \ {"idle"}, Goto(c, l),
             NEW p \in Controllers, imports' = [imports EXCEPT ![c] = p],
             l = "reopening" => p.confirmed,
             l \in {"parked", "closing"} => p.outcome # "none",
             l \in {"opening", "listing"} => p = imports[c] /\ Submitting(c)
      PROVE  ArchiveInv'
  <2>1. Alone(c)
    BY <1>b, BusyIsAlone
  <2>2. listed' = listed \cup {c}
    BY <1>b DEF ArchiveInv, SettledInv, Idle
  <2>3. l \in {"opening", "listing"} =>
          /\ ~p.confirmed /\ ~p.attempted
          /\ \A d \in Imports \ {c} : at[d] = at[c] /\ pc[d] # "idle" => Settled(d)
    BY <1>b DEF ArchiveInv, StageInv, SettledInv, Submitting
  <2>4. pc' = [pc EXCEPT ![c] = l] /\ l \in PC /\ l # "idle"
    BY <1>b DEF Goto
  <2> QED BY <1>b, <1>t, <2>1, <2>2, <2>3, <2>4, ArchiveStep
<1>p. {"parked", "reading", "listing", "archive", "reopening", "closing", "install", "prepare"}
        \subseteq PC \ {"idle"}
  BY DEF PC
<1>4. CASE ImportNotOpened(c)
  <2> DEFINE p == [imports[c] EXCEPT !.outcome = "unknown"]
  <2>1. p \in Controllers /\ p.outcome # "none"
    BY <1>t DEF Controllers, Outcomes
  <2>2. /\ imports' = [imports EXCEPT ![c] = p] /\ Goto(c, "parked")
        /\ at' = at /\ listed' = listed /\ ~Idle(c)
    BY <1>4 DEF ImportNotOpened, Idle
  <2> HIDE DEF p
  <2> QED BY <2>1, <2>2, <1>b, <1>p
<1>5. CASE ImportOpened(c)
  <2>1. imports' = [imports EXCEPT ![c] = imports[c]]
    BY <1>5, <1>t DEF ImportOpened, TypeOK
  <2>2. at' = at /\ listed' = listed /\ ~Idle(c) /\ pc[c] \in {"opening", "reopening"}
    BY <1>5 DEF ImportOpened, Advance, Idle
  <2>3. CASE imports[c].confirmed
    <3>1. Goto(c, "reading")
      BY <1>5, <2>3 DEF ImportOpened, Advance
    <3> QED BY <2>1, <2>2, <3>1, <1>b, <1>p, <1>t
  <2>4. CASE ~imports[c].confirmed
    <3>1. Goto(c, "listing")
      BY <1>5, <2>4 DEF ImportOpened, Advance
    <3>2. Submitting(c)
      BY <2>2, <2>4 DEF Submitting, ArchiveInv, StageInv
    <3> QED BY <2>1, <2>2, <3>1, <3>2, <1>b, <1>p, <1>t
  <2> QED BY <2>3, <2>4
<1>6. CASE Listed(c)
  <2> DEFINE p == [imports[c] EXCEPT !.attempted = TRUE]
  <2>1. p \in Controllers
    BY <1>t DEF Controllers, Outcomes
  <2>2. /\ imports' = [imports EXCEPT ![c] = p] /\ Goto(c, "archive")
        /\ at' = at /\ listed' = listed /\ ~Idle(c)
    BY <1>6 DEF Listed, Advance, Idle
  <2> HIDE DEF p
  <2> QED BY <2>1, <2>2, <1>b, <1>p
<1>7. CASE Read(c)
  <2>0. at' = at /\ listed' = listed /\ ~Idle(c) /\ at[c] \in Instances /\ world[at[c]] \in Identities
    BY <1>7, <1>t DEF Read, Advance, Idle, TypeOK, Tasks
  <2>1. CASE SameIdentity(c)
    <3> DEFINE p == [imports[c] EXCEPT !.identity = world[at[c]]]
    <3>1. p \in Controllers
      BY <1>t, <2>0 DEF Controllers, Outcomes
    <3>2. imports' = [imports EXCEPT ![c] = p] /\ (Goto(c, "install") \/ Goto(c, "prepare"))
      BY <1>7, <2>1 DEF Read, Advance
    <3> HIDE DEF p
    <3> QED BY <2>0, <3>1, <3>2, <1>b, <1>p
  <2>2. CASE ~SameIdentity(c)
    <3> DEFINE p == [imports[c] EXCEPT !.outcome = "invalid"]
    <3>1. p \in Controllers /\ p.outcome # "none"
      BY <1>t DEF Controllers, Outcomes
    <3>2. imports' = [imports EXCEPT ![c] = p] /\ Goto(c, "closing")
      BY <1>7, <2>2 DEF Read, Advance
    <3> HIDE DEF p
    <3> QED BY <2>0, <3>1, <3>2, <1>b, <1>p
  <2> QED BY <2>1, <2>2
<1>8. CASE Executed(c)
  <2> DEFINE p == [imports[c] EXCEPT !.installed = TRUE]
  <2>1. p \in Controllers
    BY <1>t DEF Controllers, Outcomes
  <2>2. /\ imports' = [imports EXCEPT ![c] = p] /\ Goto(c, "prepare")
        /\ at' = at /\ listed' = listed /\ ~Idle(c)
    BY <1>8 DEF Executed, Advance, Idle
  <2> HIDE DEF p
  <2> QED BY <2>1, <2>2, <1>b, <1>p
<1>9. CASE \/ Prepared(c)
           \/ \E v \in Identities : ArchiveLost(c, v)
           \/ \E o \in {"known", "unknown"} : ImportFails(c, o)
  <2>0. PICK o \in {"success", "known", "unknown"} :
          /\ imports' = [imports EXCEPT ![c].outcome = o] /\ Goto(c, "closing")
          /\ at' = at /\ listed' = listed /\ ~Idle(c)
    BY <1>9 DEF Prepared, ArchiveLost, ImportFails, Advance, Idle
  <2> DEFINE p == [imports[c] EXCEPT !.outcome = o]
  <2>1. p \in Controllers /\ p.outcome # "none"
    BY <1>t DEF Controllers, Outcomes
  <2>2. imports' = [imports EXCEPT ![c] = p]
    BY <2>0
  <2> HIDE DEF p
  <2> QED BY <2>0, <2>1, <2>2, <1>b, <1>p
<1>10. CASE \E v \in Identities, curseforge \in BOOLEAN : ArchiveDone(c, v, curseforge)
  <2> DEFINE p == [imports[c] EXCEPT !.confirmed = TRUE]
  <2>1. p \in Controllers /\ p.confirmed
    BY <1>t DEF Controllers, Outcomes
  <2>2. /\ imports' = [imports EXCEPT ![c] = p] /\ (Goto(c, "reopening") \/ Goto(c, "reading"))
        /\ at' = at /\ listed' = listed /\ ~Idle(c)
    BY <1>10 DEF ArchiveDone, Advance, Idle
  <2> HIDE DEF p
  <2> QED BY <2>1, <2>2, <1>b, <1>p
<1>11. CASE \E v \in Identities : ArchiveMalformed(c, v)
  <2> DEFINE p == [imports[c] EXCEPT !.confirmed = TRUE, !.outcome = "invalid"]
  <2>1. p \in Controllers /\ p.outcome # "none"
    BY <1>t DEF Controllers, Outcomes
  <2>2. /\ imports' = [imports EXCEPT ![c] = p] /\ Goto(c, "closing")
        /\ at' = at /\ listed' = listed /\ ~Idle(c)
    BY <1>11 DEF ArchiveMalformed, Advance, Idle
  <2> HIDE DEF p
  <2> QED BY <2>1, <2>2, <1>b, <1>p
<1>12. CASE ImportClosed(c)
  <2>1. imports' = [imports EXCEPT ![c] = imports[c]] /\ imports[c].outcome # "none"
    BY <1>12, <1>t DEF ImportClosed, TypeOK, ArchiveInv, StageInv
  <2>2. at' = at /\ listed' = listed /\ ~Idle(c) /\ Goto(c, "parked")
    BY <1>12 DEF ImportClosed, Idle
  <2> QED BY <2>1, <2>2, <1>b, <1>p, <1>t
<1>13. CASE \E v \in Identities :
              \/ \E curseforge \in BOOLEAN : ArchiveDone(c, v, curseforge)
              \/ ArchiveMalformed(c, v) \/ ArchiveLost(c, v)
  <2>1. PICK v \in Identities :
          \/ \E curseforge \in BOOLEAN : ArchiveDone(c, v, curseforge)
          \/ ArchiveMalformed(c, v) \/ ArchiveLost(c, v)
    BY <1>13
  <2>2. CASE \E curseforge \in BOOLEAN : ArchiveDone(c, v, curseforge)
    BY <2>2, <1>10
  <2> QED BY <2>1, <2>2, <1>9, <1>11
<1> QED
  BY <1>1, <1>2, <1>3, <1>4, <1>5, <1>6, <1>7, <1>8, <1>9, <1>12, <1>13 DEF ImportStep

LEMMA ArchiveInvariance == Spec => []ArchiveInv
<1>1. Init => ArchiveInv
  BY DEF Init, ArchiveInv, StageInv, SettledInv, Submitting, Tasks
<1>2. IInv /\ ArchiveInv /\ [Next]_vars => ArchiveInv'
  <2> SUFFICES ASSUME IInv, ArchiveInv, [Next]_vars
               PROVE  ArchiveInv'
    OBVIOUS
  <2>1. CASE UNCHANGED vars
    BY <2>1, ImportsRest DEF vars
  <2>2. CASE \E c \in Imports : ImportStep(c)
    BY <2>2, ImportStepArchive
  <2>3. CASE \/ \E t \in Jobs : JobStep(t)
             \/ \E t \in Launches : Output(t)
             \/ \E t \in Edits : EditStep(t)
    BY <2>3, OthersArchive
  <2> QED BY <2>1, <2>2, <2>3 DEF Next
<1> QED BY <1>1, <1>2, Invariance, PTL DEF Spec

\* ArchiveNotReplayed: run of modpackImport.ts submits an archive only when
\* every earlier import of that instance was seen to the end.
THEOREM ArchivesGoInOnce == Spec => ArchiveNotReplayed
<1>1. ArchiveInv => [\A c \in Imports :
        pc[c] = "listing" /\ pc'[c] = "archive" =>
          /\ ~imports[c].attempted
          /\ \A d \in Imports \ {c} :
               at[d] = at[c] /\ pc[d] # "idle" =>
                 imports[d].outcome = "success" \/ CanEdit(d)]_vars
  BY DEF ArchiveInv, StageInv, SettledInv, Submitting, Settled
<1> QED BY <1>1, ArchiveInvariance, PTL DEF ArchiveNotReplayed

=============================================================================
