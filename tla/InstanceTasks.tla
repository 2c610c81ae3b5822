--------------------------- MODULE InstanceTasks ---------------------------
(***************************************************************************)
(* What the GUI does to local instances: installations and launches        *)
(* (tasks.tsx, launchRunner.ts), modpack imports (modpackImport.ts,        *)
(* modpackTasks.tsx), the single requests that change an instance (rpc.ts) *)
(* and the leases that keep them apart (instanceCoordinator.ts).           *)
(*                                                                         *)
(* JavaScript runs from one await to the next, so a step ends where the    *)
(* code waits for the bridge.  When a request returns, its lease is given  *)
(* up and the code after it runs on before anything else can.              *)
(***************************************************************************)
EXTENDS Naturals

CONSTANTS
  Instances,   \* instanceMutationKey: root and id of an instance
  Identities,  \* what instance.get says of an instance: version, loader
  Installs,    \* calls of startInstall
  Launches,    \* calls of startLaunch
  Imports,     \* ModpackImportControllers
  Edits,       \* single requests on the shared session
  None

Jobs == Installs \cup Launches
Tasks == Jobs \cup Imports \cup Edits

ASSUME TasksAssumption ==
  /\ Installs \cap Launches = {}
  /\ Jobs \cap (Imports \cup Edits) = {}
  /\ Imports \cap Edits = {}
  /\ None \notin Identities

\* The kinds of lease the model tells apart; "content" stands for content-*,
\* world-* and pack-activation, which concern neither identity nor records.
Changes == {"create", "delete", "content"}
Mutations == Changes \cup {"install", "launch"}
Outcomes == {"none", "success", "known", "unknown", "invalid"}

VARIABLES
  pc,       \* pc[t]: where task t stands
  at,       \* at[t]: the instance it is about
  active,   \* InstanceOperationCoordinator.active, "free" where absent
  flights,  \* installsInFlight and launchesInFlight
  records,  \* records[k][i]: the Task the GUI shows, None where absent
  imports,  \* the fields of each ModpackImportController
  listed,   \* the controllers of ModpackTaskRegistry.tasks
  world     \* the core's instances: the identity, None where there is none

vars == <<pc, at, active, flights, records, imports, listed, world>>

PC == Changes \cup
      {"idle", "done", "opening", "install", "prepare", "launch", "closing",
       "failing", "parked", "listing", "archive", "reopening", "reading"}
Records == [by: Jobs, status: {"running", "success", "error"},
            lines: SUBSET Launches]
Controllers == [outcome: Outcomes,
                attempted: BOOLEAN, confirmed: BOOLEAN, installed: BOOLEAN,
                identity: Identities \cup {None}]

\* One type invariant: the fields keep their types (tasks.tsx's Task, the
\* controller's private fields), and only records somebody began are shown.
TypeOK ==
  /\ pc \in [Tasks -> PC]
  /\ at \in [Tasks -> Instances]
  /\ active \in [Instances -> Mutations \cup {"free"}]
  /\ flights \in [{"install", "launch"} -> SUBSET Instances]
  /\ records \in [{"install", "launch"} -> [Instances -> Records \cup {None}]]
  /\ imports \in [Imports -> Controllers]
  /\ listed \subseteq Imports
  /\ world \in [Instances -> Identities \cup {None}]

NewController == [outcome |-> "none", attempted |-> FALSE, confirmed |-> FALSE,
                  installed |-> FALSE, identity |-> None]

Init ==
  /\ pc = [t \in Tasks |-> "idle"]
  /\ at \in [Tasks -> Instances]
  /\ active = [i \in Instances |-> "free"]
  /\ flights = [k \in {"install", "launch"} |-> {}]
  /\ records = [k \in {"install", "launch"} |-> [i \in Instances |-> None]]
  /\ imports = [c \in Imports |-> NewController]
  /\ listed = {}
  /\ world \in [Instances -> Identities \cup {None}]

-----------------------------------------------------------------------------
(* Leases. *)

\* Slip: an installation may share the lease of an import.
FreeSlip(i) == active[i] \in {"free", "install"}

\* tryAcquire throws InstanceBusyError unless the instance is free.
Free(i) == active[i] = "free"
Take(i, op) == active' = [active EXCEPT ![i] = op]

\* The closure that tryAcquire returns compares the operation.
Release(i, op) ==
  active' = [active EXCEPT ![i] = IF @ = op THEN "free" ELSE @]

Goto(t, l) == pc' = [pc EXCEPT ![t] = l]

-----------------------------------------------------------------------------
(* Installations and launches.  Their target at[t] is whatever the user    *)
(* clicked; it is fixed from the beginning here.                           *)

Kind(t) == IF t \in Installs THEN "install" ELSE "launch"

\* startInstall and startLaunch up to the first await.
StartJob(t) ==
  LET k == Kind(t) IN
  /\ pc[t] = "idle"
  /\ at[t] \notin flights[k]
  /\ flights' = [flights EXCEPT ![k] = @ \cup {at[t]}]
  /\ records' = [records EXCEPT ![k][at[t]] =
                   [by |-> t, status |-> "running", lines |-> {}]]
  /\ Goto(t, "opening")
  /\ UNCHANGED <<at, active, imports, listed, world>>

\* Slip: a record that was cleared comes back without its other fields.
PatchedSlip(k, i, s) ==
  [records EXCEPT ![k][i] = IF @ = None THEN [status |-> s]
                                        ELSE [@ EXCEPT !.status = s]]

\* patch: a record that was cleared stays cleared.
Patched(k, i, s) ==
  [records EXCEPT ![k][i] = IF @ = None THEN None ELSE [@ EXCEPT !.status = s]]

\* catch and finally: the record gets its outcome, the guard is given up.
EndJob(t, s) ==
  /\ records' = Patched(Kind(t), at[t], s)
  /\ flights' = [flights EXCEPT ![Kind(t)] = @ \ {at[t]}]
  /\ Goto(t, "done")

\* Slip: the session is opened before the try block.
JobNotOpenedSlip(t) ==
  /\ pc[t] = "opening"
  /\ flights' = [flights EXCEPT ![Kind(t)] = @ \ {at[t]}]
  /\ Goto(t, "done")
  /\ UNCHANGED <<at, active, records, imports, listed, world>>

JobNotOpened(t) ==
  /\ pc[t] = "opening"
  /\ EndJob(t, "error")
  /\ UNCHANGED <<at, active, imports, listed, world>>

\* The session is open: installExecute or launchExecute asks for the lease
\* and is sent, or throws InstanceBusyError.
JobOpened(t) ==
  /\ pc[t] = "opening"
  /\ IF Free(at[t])
     THEN Take(at[t], Kind(t)) /\ Goto(t, Kind(t))
     ELSE Goto(t, "failing") /\ UNCHANGED active
  /\ UNCHANGED <<at, flights, records, imports, listed, world>>

\* installExecute returns; its lease is released and installPrepare takes it
\* again before another event is handled.
ExecuteDone(t) ==
  /\ t \in Installs
  /\ pc[t] = "install"
  /\ Goto(t, "prepare")
  /\ UNCHANGED <<at, active, flights, records, imports, listed, world>>

\* installPrepare or launchExecute returns (s = "closing"), or one of the
\* three requests fails (s = "failing").
RequestEnds(t, s) ==
  /\ pc[t] \in {"prepare", "launch"} \cup (IF s = "failing" THEN {"install"} ELSE {})
  /\ Release(at[t], Kind(t))
  /\ Goto(t, s)
  /\ UNCHANGED <<at, flights, records, imports, listed, world>>

\* withOpenedSession has closed the session; a close that fails is an error.
JobClosed(t, s) ==
  /\ \/ pc[t] = "closing"
     \/ pc[t] = "failing" /\ s = "error"
  /\ EndJob(t, s)
  /\ UNCHANGED <<at, active, imports, listed, world>>

\* Slip: the flag of runLaunchRequest is never cleared.
HeardSlip(t) == pc[t] \in {"launch", "closing", "failing", "done"}

\* Events of a launch may arrive after its answer: runLaunchRequest's `active'
\* tells them.  The tails it flushes are output of the same launch.
Heard(t) == pc[t] = "launch"
Output(t) ==
  /\ pc[t] \in {"launch", "closing", "failing", "done"}
  /\ Heard(t)
  /\ records["launch"][at[t]] # None
  /\ records' = [records EXCEPT !["launch"][at[t]].lines = @ \cup {t}]
  /\ UNCHANGED <<pc, at, active, flights, imports, listed, world>>

-----------------------------------------------------------------------------
(* Single requests: CoreSession.request with a mutation.  The next one may  *)
(* follow at once.                                                         *)

Ask(t, op) ==
  /\ pc[t] = "idle"
  /\ IF Free(at[t]) THEN Take(at[t], op) /\ Goto(t, op)
                    ELSE UNCHANGED <<pc, active>>
  /\ UNCHANGED <<at, flights, records, imports, listed, world>>

\* confirmDelete clears the records in the turn in which the answer arrives.
Deleted(t) ==
  /\ pc[t] = "delete"
  /\ world' = [world EXCEPT ![at[t]] = None]
  /\ records' = [k \in {"install", "launch"} |-> [records[k] EXCEPT ![at[t]] = None]]
  /\ Release(at[t], "delete")
  /\ Goto(t, "idle")
  /\ UNCHANGED <<at, flights, imports, listed>>

Created(t, v) ==
  /\ pc[t] = "create"
  /\ world[at[t]] = None
  /\ world' = [world EXCEPT ![at[t]] = v]
  /\ Release(at[t], "create")
  /\ Goto(t, "idle")
  /\ UNCHANGED <<at, flights, records, imports, listed>>

\* A change of content, or a request that fails.
Answered(t) ==
  /\ pc[t] \in Changes
  /\ Release(at[t], pc[t])
  /\ Goto(t, "idle")
  /\ UNCHANGED <<at, flights, records, imports, listed, world>>

-----------------------------------------------------------------------------
(* Modpack imports. *)

Idle(c) == pc[c] \in {"idle", "parked"}
CanResume(c) == imports[c].confirmed /\ imports[c].outcome = "known"
CanEdit(c) == ~imports[c].confirmed /\ imports[c].outcome = "known"

\* The early return of run.
Runnable(c) ==
  /\ Idle(c)
  /\ imports[c].outcome # "success"
  /\ ~(imports[c].confirmed /\ imports[c].outcome # "none" /\ ~CanResume(c))
  /\ ~(imports[c].attempted /\ ~imports[c].confirmed)

\* run up to the first await, on the controller p; InstanceBusyError is known.
Run(c, p) ==
  IF Free(at[c])
  THEN /\ imports' = [imports EXCEPT ![c] = [p EXCEPT !.outcome = "none"]]
       /\ Take(at[c], "install")
       /\ Goto(c, "opening")
  ELSE /\ imports' = [imports EXCEPT ![c] = [p EXCEPT !.outcome = "known"]]
       /\ Goto(c, "parked")
       /\ UNCHANGED active

\* Slip: only a job that is busy or may be resumed is found.
UnsettledSlip(c) == ~Idle(c) \/ CanResume(c)

\* A job that is busy, may be resumed, or may have imported who knows what.
Unsettled(c) ==
  ~Idle(c) \/ CanResume(c) \/ imports[c].outcome \in {"unknown", "invalid"}

\* ModpackTaskRegistry.start; with an unsettled job for the same instance it
\* returns that job and does nothing.
StartImport(c) ==
  /\ pc[c] = "idle"
  /\ ~\E d \in listed : at[d] = at[c] /\ Unsettled(d)
  /\ listed' = listed \cup {c}
  /\ Run(c, NewController)
  /\ UNCHANGED <<at, flights, records, world>>

\* "Resume game setup" is offered for canResume only.
Resume(c) ==
  /\ pc[c] = "parked" /\ CanResume(c) /\ Runnable(c)
  /\ Run(c, imports[c])
  /\ UNCHANGED <<at, flights, records, listed, world>>

Dismiss(c) ==
  /\ pc[c] = "parked" /\ c \in listed
  /\ imports[c].outcome = "success" \/ CanEdit(c)
  /\ listed' = listed \ {c}
  /\ UNCHANGED <<pc, at, active, flights, records, imports, world>>

\* The next await of the run is at l.
Advance(c, l) ==
  /\ Goto(c, l)
  /\ UNCHANGED <<at, active, flights, records, listed>>

\* Slip: the lease is released only together with a session.
ImportNotOpenedSlip(c) ==
  /\ c \in Imports /\ pc[c] \in {"opening", "reopening"}
  /\ imports' = [imports EXCEPT ![c].outcome = "unknown"]
  /\ Goto(c, "parked")
  /\ UNCHANGED <<at, active, flights, records, listed, world>>

\* open fails: its codes are the bridge's, so the outcome counts as unknown.
ImportNotOpened(c) ==
  /\ c \in Imports /\ pc[c] \in {"opening", "reopening"}
  /\ imports' = [imports EXCEPT ![c].outcome = "unknown"]
  /\ Release(at[c], "install")
  /\ Goto(c, "parked")
  /\ UNCHANGED <<at, flights, records, listed, world>>

ImportOpened(c) ==
  /\ c \in Imports /\ pc[c] \in {"opening", "reopening"}
  /\ Advance(c, IF imports[c].confirmed THEN "reading" ELSE "listing")
  /\ UNCHANGED <<imports, world>>

\* instance.list has returned; the archive is submitted, once.
Listed(c) ==
  /\ pc[c] = "listing"
  /\ world[at[c]] = None
  /\ imports' = [imports EXCEPT ![c].attempted = TRUE]
  /\ Advance(c, "archive")
  /\ UNCHANGED world

\* The core has made the instance.  A CurseForge session is single-use: it is
\* closed (an error is ignored) and another one opened, with the lease kept.
ArchiveDone(c, v, curseforge) ==
  /\ pc[c] = "archive"
  /\ world[at[c]] = None
  /\ world' = [world EXCEPT ![at[c]] = v]
  /\ imports' = [imports EXCEPT ![c].confirmed = TRUE]
  /\ Advance(c, IF curseforge THEN "reopening" ELSE "reading")

ArchiveMalformed(c, v) ==
  /\ pc[c] = "archive"
  /\ world[at[c]] = None
  /\ world' = [world EXCEPT ![at[c]] = v]
  /\ imports' = [imports EXCEPT ![c] = [@ EXCEPT !.confirmed = TRUE, !.outcome = "invalid"]]
  /\ Advance(c, "closing")

\* The stream ended under the request: the instance may have been made.
ArchiveLost(c, v) ==
  /\ pc[c] = "archive"
  /\ world[at[c]] = None
  /\ world' = [world EXCEPT ![at[c]] = v]
  /\ imports' = [imports EXCEPT ![c].outcome = "unknown"]
  /\ Advance(c, "closing")

\* Slip: a resumed import sets up whatever it finds.
SameIdentitySlip(c) == imports[c].identity \in Identities \cup {None}

\* instance.get has returned; importedIdentity is compared with it.
SameIdentity(c) == imports[c].identity \in {None, world[at[c]]}
Read(c) ==
  /\ pc[c] = "reading"
  /\ world[at[c]] # None
  /\ IF SameIdentity(c)
     THEN /\ imports' = [imports EXCEPT ![c].identity = world[at[c]]]
          /\ Advance(c, IF imports[c].installed THEN "prepare" ELSE "install")
     ELSE /\ imports' = [imports EXCEPT ![c].outcome = "invalid"]
          /\ Advance(c, "closing")
  /\ UNCHANGED world

Executed(c) ==
  /\ c \in Imports /\ pc[c] = "install"
  /\ imports' = [imports EXCEPT ![c].installed = TRUE]
  /\ Advance(c, "prepare")
  /\ UNCHANGED world

Prepared(c) ==
  /\ c \in Imports /\ pc[c] = "prepare"
  /\ imports' = [imports EXCEPT ![c].outcome = "success"]
  /\ Advance(c, "closing")
  /\ UNCHANGED world

\* Any of the requests fails, the check of the list included.
ImportFails(c, o) ==
  /\ c \in Imports
  /\ pc[c] \in {"listing", "archive", "reading", "install", "prepare"}
  /\ imports' = [imports EXCEPT ![c].outcome = o]
  /\ Advance(c, "closing")
  /\ UNCHANGED world

\* finally: the session is closed (an error is ignored), the lease released.
ImportClosed(c) ==
  /\ c \in Imports /\ pc[c] = "closing"
  /\ Release(at[c], "install")
  /\ Goto(c, "parked")
  /\ UNCHANGED <<at, flights, records, imports, listed, world>>

-----------------------------------------------------------------------------
JobStep(t) ==
  \/ StartJob(t) \/ JobNotOpened(t) \/ JobOpened(t) \/ ExecuteDone(t)
  \/ \E s \in {"closing", "failing"} : RequestEnds(t, s)
  \/ \E s \in {"success", "error"} : JobClosed(t, s)

EditStep(t) ==
  \/ \E op \in Changes : Ask(t, op)
  \/ Deleted(t) \/ Answered(t)
  \/ \E v \in Identities : Created(t, v)

ImportStep(c) ==
  \/ StartImport(c) \/ Resume(c) \/ Dismiss(c) \/ ImportNotOpened(c) \/ ImportOpened(c)
  \/ Listed(c) \/ Read(c) \/ Executed(c) \/ Prepared(c)
  \/ \E v \in Identities :
       \/ \E curseforge \in BOOLEAN : ArchiveDone(c, v, curseforge)
       \/ ArchiveMalformed(c, v) \/ ArchiveLost(c, v)
  \/ \E o \in {"known", "unknown"} : ImportFails(c, o)
  \/ ImportClosed(c)

Next ==
  \/ \E t \in Jobs : JobStep(t)
  \/ \E t \in Launches : Output(t)
  \/ \E t \in Edits : EditStep(t)
  \/ \E c \in Imports : ImportStep(c)

Spec == Init /\ [][Next]_vars

-----------------------------------------------------------------------------
(* Properties. *)

\* The tasks that hold a lease, and the operation they hold it for.
Leased(t) ==
  \/ t \in Jobs /\ pc[t] \in {"install", "prepare", "launch"}
  \/ t \in Edits /\ pc[t] \in Changes
  \/ t \in Imports /\ ~Idle(t)
Op(t) ==
  IF t \in Edits THEN pc[t] ELSE IF t \in Launches THEN "launch" ELSE "install"

\* A request that changes the instance is at the core.
Mutating(t) ==
  \/ pc[t] \in {"install", "prepare", "launch"} \cup Changes
  \/ pc[t] = "archive"

\* README.md: "The instance coordinator prevents concurrent mutations of one
\* instance": never are two of them at the core, whoever sent them, even when
\* an import keeps its lease over several requests.
OneMutation ==
  \A t, u \in Tasks : at[t] = at[u] /\ Mutating(t) /\ Mutating(u) => t = u

\* An instance is busy only on behalf of a task that is under way: no path
\* through the finally blocks leaks a lease, or frees one of another task.
LeaseHasHolder ==
  \A i \in Instances :
    active[i] # "free" <=>
      \E t \in Tasks : at[t] = i /\ Leased(t) /\ Op(t) = active[i]

\* A spinner turns exactly as long as the job that started it runs: a record
\* says "running" if and only if that job still has its flight.
RecordsFollowJobs ==
  \A k \in {"install", "launch"}, i \in Instances :
    records[k][i] # None =>
      (records[k][i].status = "running" <=> pc[records[k][i].by] # "done")

\* The log shows no line of an earlier launch: late events and tails of a
\* launch never get into the record of its replacement.
LaunchesOwnRecord ==
  \A i \in Instances :
    records["launch"][i] # None =>
      records["launch"][i].lines \subseteq {records["launch"][i].by}

\* modpackImport.ts: "One archive submission only."  No controller submits
\* its archive twice, nor while an earlier import of that instance may have
\* been carried out and was not seen to the end.
ArchiveNotReplayed ==
  [][\A c \in Imports :
       pc[c] = "listing" /\ pc'[c] = "archive" =>
         /\ ~imports[c].attempted
         /\ \A d \in Imports \ {c} :
              at[d] = at[c] /\ pc[d] # "idle" =>
                imports[d].outcome = "success" \/ CanEdit(d)]_vars

\* The game setup of an import works on the instance it read, and a resumed
\* import only on the one it read first, whatever was deleted, created or
\* imported there between its runs.
SetsUpItsOwn ==
  [][\A c \in Imports :
       /\ imports[c].identity # None => imports'[c].identity = imports[c].identity
       /\ pc'[c] \in {"install", "prepare"} =>
            world'[at[c]] = imports'[c].identity]_vars

=============================================================================
