-------------------------- MODULE ServerController --------------------------
(***************************************************************************)
(* The server list of the GUI: ServerController (lib/servers.tsx) with the *)
(* reducers of lib/serverStatusCache.ts, the operations that report to it  *)
(* (ServerOperationsController.run under serverTargetLock.ts, and          *)
(* submitServerCreate), the provider's switch between endpoints and the    *)
(* deletion of an endpoint.                                                *)
(*                                                                         *)
(* JavaScript runs to the next await: ctl holds the controller's fields    *)
(* and every method is an operator from ctl to ctl.  The core answers at   *)
(* any later time.  What it says about a server is the server's revision,  *)
(* which each operation on it advances; the cache keeps that revision.     *)
(***************************************************************************)
EXTENDS Naturals, Sequences

CONSTANTS
  Sources,   \* the endpoints, Local among them
  Local,
  Servers,   \* server ids
  Visits,    \* calls of start
  Lists,     \* calls of refreshList
  Statuses,  \* calls of refreshServerStatus
  Ops,       \* operations on a server
  None,
  ReadsFail, \* whether the cache file may be unreadable at times
  MaxVisits  \* bound on how often the provider's effect runs

Tasks == Visits \cup Lists \cup Statuses \cup Ops \cup (Sources \ {Local})

ASSUME ControllerAssumption ==
  Local \in Sources /\ ReadsFail \in BOOLEAN /\ MaxVisits \in Nat

\* The kinds of call are disjoint.
ASSUME TasksAssumption ==
  /\ None \notin Sources \cup Servers \cup Tasks
  /\ Visits \cap (Lists \cup Statuses \cup Ops \cup Sources) = {}
  /\ Lists \cap (Statuses \cup Ops \cup Sources) = {}
  /\ Statuses \cap (Ops \cup Sources) = {} /\ Ops \cap Sources = {}

VARIABLES
  exists,   \* core: exists[e] is the set of servers in e's directory
  rev,      \* core: rev[e][s] counts what was done to server s
  ctl,      \* the fields of the ServerController, snapshot included
  wanted,   \* the endpoint whose session the provider's effect is opening
  pc,       \* pc[t]: where task t stands
  at,       \* at[t]: what task t captured before it awaited
  answer,   \* answer[t]: what the core or the disk told it
  ahead,    \* ahead[t]: how many of the queued writes it still waits for
  queue,    \* writeQueue: what is to be written, in order; head first
  writing,  \* what the head is writing, or None
  deleted,  \* deletedEndpointIds
  disk,     \* the persisted cache
  recorded  \* history: "create", "install" or "delete" if that came last to a server
            \* and this visit recorded it

core  == <<exists, rev>>
tasks == <<pc, at, answer, ahead>>
store == <<queue, writing, deleted, disk>>
vars  == <<core, ctl, wanted, tasks, store, recorded>>

-----------------------------------------------------------------------------
(* The cache: scopes of entries, None where a key is absent                *)

EmptyScope == [s \in Servers |-> None]
EmptyCache == [e \in Sources |-> None]

\* withScope: the scope of e, made when it is absent, with f applied.
WithEntries(cache, e, f(_)) ==
  [cache EXCEPT ![e] = f(IF @ = None THEN EmptyScope ELSE @)]

Reconcile(cache, e, ids) ==
  LET Keep(scope) == [s \in Servers |-> IF s \in ids THEN scope[s] ELSE None]
  IN WithEntries(cache, e, Keep)

\* Every reducer that writes or drops one entry.
SetEntry(cache, e, s, value) ==
  LET Put(scope) == [scope EXCEPT ![s] = value]
  IN WithEntries(cache, e, Put)

\* removeServerEndpointScope, for every endpoint deleted so far.
Filtered(cache) == [e \in Sources |-> IF e \in deleted THEN None ELSE cache[e]]

-----------------------------------------------------------------------------
(* The methods of the controller that run without awaiting                 *)

NoController ==
  [source |-> None, sourceRevision |-> 0, revision |-> 0, manifestGeneration |-> 0,
   activeList |-> None, startupLoading |-> FALSE,
   generations |-> [s \in Servers |-> 0], statusIds |-> [s \in Servers |-> None],
   manifests |-> {}, cache |-> EmptyCache, loading |-> FALSE, pending |-> {}]

\* start and setUnavailable begin alike: nothing of the old source stays.
Reset(c, e) ==
  [NoController EXCEPT
     !.source = e, !.sourceRevision = c.sourceRevision + 1,
     !.revision = c.revision + 1, !.manifestGeneration = c.manifestGeneration + 1,
     !.startupLoading = (e # None), !.loading = (e # None)]

\* Slip: the spinner of the list that is discarded is left on.
InvalidateListSlip(c) ==
  [c EXCEPT !.manifestGeneration = @ + 1, !.activeList = None]

InvalidateList(c) ==
  [c EXCEPT !.manifestGeneration = @ + 1, !.activeList = None,
            !.loading = IF c.activeList = None THEN @ ELSE c.startupLoading]

\* Slip: a transition does not overtake the status requests under way.
TransitionSlip(c, s, value) ==
  [InvalidateList(c) EXCEPT
     !.cache = SetEntry(@, c.source, s, value), !.revision = @ + 1]

Transition(c, s, value) ==
  [InvalidateList(c) EXCEPT
     !.generations[s] = @ + 1, !.statusIds[s] = None, !.pending = @ \ {s},
     !.cache = SetEntry(@, c.source, s, value), !.revision = @ + 1]

WithManifest(c, s) == [c EXCEPT !.manifests = @ \cup {<<c.source, s>>}]
NoManifest(c, s)   == [c EXCEPT !.manifests = @ \ {<<c.source, s>>}]

RecordCreated(c, s, r) ==
  [InvalidateList(WithManifest(c, s)) EXCEPT
     !.cache = SetEntry(@, c.source, s, r), !.revision = @ + 1]

\* recordCreated, recordInstalled, recordStarted/Stopped, recordDeleted and
\* recordLifecycleError, which leaves the manifest alone.
Record(c, kind, s, r) ==
  CASE kind = "create"  -> RecordCreated(c, s, r)
    [] kind = "install" -> Transition(WithManifest(c, s), s, r)
    [] kind = "change"  -> Transition(c, s, r)
    [] kind = "delete"  -> Transition(NoManifest(c, s), s, None)

Enqueue(cache) == queue' = Append(queue, [kind |-> "write", cache |-> cache])

Nothing == [source |-> None, sourceRevision |-> 0, revision |-> 0, server |-> None,
            kind |-> None]

Goto(t, there) == pc' = [pc EXCEPT ![t] = there]

\* Task t waits for what is in the queue now, its own write included.
AwaitQueue(t, n) == ahead' = [ahead EXCEPT ![t] = n]

\* The method returns; what it knew is gone.
Finish(t) ==
  /\ Goto(t, "done")
  /\ at' = [at EXCEPT ![t] = Nothing]
  /\ answer' = [answer EXCEPT ![t] = None]

Ids(manifests, e) == {s \in Servers : <<e, s>> \in manifests}

Init ==
  /\ exists \in [Sources -> SUBSET Servers]
  /\ rev = [e \in Sources |-> [s \in Servers |-> IF s \in exists[e] THEN 1 ELSE 0]]
  /\ ctl = NoController
  /\ wanted = None
  /\ pc = [t \in Tasks |-> "idle"]
  /\ at = [t \in Tasks |-> Nothing]
  /\ answer = [t \in Tasks |-> None]
  /\ ahead = [t \in Tasks |-> 0]
  /\ queue = <<>> /\ writing = None
  /\ deleted = {}
  /\ disk \in [Sources -> {None, EmptyScope}]
  /\ recorded = [s \in Servers |-> "nothing"]

-----------------------------------------------------------------------------
(* The provider's effect, and start                                        *)

\* Cleanup of the old effect and the new one: setUnavailable, then openSession.
Select(e) ==
  /\ e \notin deleted /\ ctl.sourceRevision < MaxVisits
  /\ wanted' = e
  /\ ctl' = Reset(ctl, None)
  /\ recorded' = [s \in Servers |-> "nothing"]
  /\ UNCHANGED <<core, tasks, store>>

\* The session is open: the first half of start, to the wait for the writes
\* queued so far (the cacheBarrier).
Start(v) ==
  /\ pc[v] = "idle"
  /\ wanted # None /\ ctl.source = None
  /\ ctl.sourceRevision < MaxVisits
  /\ LET c == Reset(ctl, wanted)
     IN /\ ctl' = c
        /\ at' = [at EXCEPT ![v] = [Nothing EXCEPT
             !.source = wanted, !.sourceRevision = c.sourceRevision,
             !.revision = c.revision]]
  /\ wanted' = None
  /\ AwaitQueue(v, Len(queue))
  /\ Goto(v, "barrier")
  /\ UNCHANGED <<core, answer, store, recorded>>

\* readCache, which yields the empty cache when it fails.
LoadCache(v) ==
  /\ pc[v] = "barrier" /\ ahead[v] = 0
  /\ \E loaded \in {disk} \cup (IF ReadsFail THEN {EmptyCache} ELSE {}) :
       answer' = [answer EXCEPT ![v] = [ids |-> {}, failed |-> TRUE, cache |-> loaded]]
  /\ Goto(v, "listing")
  /\ UNCHANGED <<core, ctl, wanted, at, ahead, store, recorded>>

\* server.list at the core; getStartup reconciles the cache it has loaded.
ListAtStart(v) ==
  /\ pc[v] = "listing"
  /\ LET e == at[v].source
     IN \/ answer' = [answer EXCEPT ![v] =
             [ids |-> exists[e], failed |-> FALSE,
              cache |-> Reconcile(@.cache, e, exists[e])]]
        \/ UNCHANGED answer
  /\ Goto(v, "answered")
  /\ UNCHANGED <<core, ctl, wanted, at, ahead, store, recorded>>

\* Slip: servers recorded while the startup was under way are dropped.
StartedSlip(c, got, v) ==
  [c EXCEPT !.startupLoading = FALSE, !.loading = FALSE,
            !.manifests = {<<c.source, s>> : s \in got.ids}, !.cache = got.cache]

\* The second half of start: the answer, merged with what was recorded since.
Started(c, got, v) ==
  LET listed == {<<c.source, s>> : s \in got.ids}
      merged == listed \cup c.manifests
  IN [c EXCEPT
        !.startupLoading = FALSE, !.loading = FALSE,
        !.manifests = IF at[v].revision = c.revision THEN listed ELSE merged,
        !.cache = IF at[v].revision = c.revision THEN got.cache
                  ELSE Reconcile(@, c.source, Ids(merged, c.source))]

\* Slip: only the directory is compared, and all have the same.
CurrentSlip(t) == ctl.source # None

\* The source is the one task t was started for.
Current(t) == ctl.source = at[t].source /\ ctl.sourceRevision = at[t].sourceRevision

FinishStart(v) ==
  /\ pc[v] = "answered"
  /\ IF Current(v)
     THEN /\ ctl' = Started(ctl, answer[v], v)
          /\ IF answer[v].failed THEN UNCHANGED queue ELSE Enqueue(ctl'.cache)
     ELSE UNCHANGED <<ctl, queue>>
  /\ Finish(v)
  /\ UNCHANGED <<core, wanted, ahead, writing, deleted, disk, recorded>>

-----------------------------------------------------------------------------
(* refreshList and refreshServerStatus                                     *)

RefreshList(l) ==
  /\ pc[l] = "idle" /\ ctl.source # None
  /\ ctl' = [ctl EXCEPT !.activeList = l, !.loading = TRUE]
  /\ at' = [at EXCEPT ![l] = [Nothing EXCEPT
       !.source = ctl.source, !.sourceRevision = ctl.sourceRevision,
       !.revision = ctl.manifestGeneration]]
  /\ Goto(l, "listing")
  /\ UNCHANGED <<core, wanted, answer, ahead, store, recorded>>

ListAtCore(l) ==
  /\ pc[l] = "listing"
  /\ answer' = [answer EXCEPT ![l] = exists[at[l].source]]
  /\ Goto(l, "answered")
  /\ UNCHANGED <<core, ctl, wanted, at, ahead, store, recorded>>

\* Slip: a list that a transition has overtaken is applied.
ListAppliesSlip(l) == Current(l)

ListApplies(l) ==
  ctl.activeList = l /\ Current(l) /\ ctl.manifestGeneration = at[l].revision

\* The list arrives, or its error; either may have been overtaken.
FinishList(l) ==
  /\ pc[l] = "answered"
  /\ LET ids == answer[l]
         c == [ctl EXCEPT !.activeList = None, !.loading = ctl.startupLoading]
     IN \/ /\ ListApplies(l)
           /\ ctl' = [c EXCEPT
                !.manifests = {<<c.source, s>> : s \in ids},
                !.cache = Reconcile(@, c.source, ids), !.revision = @ + 1]
           /\ Enqueue(ctl'.cache)
        \/ ListApplies(l) /\ ctl' = c /\ UNCHANGED queue
        \/ ~ListApplies(l) /\ UNCHANGED <<ctl, queue>>
  /\ Finish(l)
  /\ UNCHANGED <<core, wanted, ahead, writing, deleted, disk, recorded>>

RefreshStatus(q) ==
  /\ pc[q] = "idle" /\ ctl.source # None
  /\ \E s \in Ids(ctl.manifests, ctl.source) :
       /\ ctl' = [ctl EXCEPT !.statusIds[s] = q, !.pending = @ \cup {s}]
       /\ at' = [at EXCEPT ![q] = [Nothing EXCEPT
            !.source = ctl.source, !.sourceRevision = ctl.sourceRevision,
            !.revision = ctl.generations[s], !.server = s]]
  /\ Goto(q, "asking")
  /\ UNCHANGED <<core, wanted, answer, ahead, store, recorded>>

StatusAtCore(q) ==
  /\ pc[q] = "asking"
  /\ answer' = [answer EXCEPT ![q] = rev[at[q].source][at[q].server]]
  /\ Goto(q, "answered")
  /\ UNCHANGED <<core, ctl, wanted, at, ahead, store, recorded>>

StatusApplies(q) ==
  /\ ctl.statusIds[at[q].server] = q
  /\ Current(q)
  /\ ctl.generations[at[q].server] = at[q].revision

\* Slip: the spinner is stopped only if the answer still applies.
SettleSlip(c, q) ==
  LET s == at[q].server
  IN IF c.statusIds[s] = q /\ pc[q] = "saving"
     THEN [c EXCEPT !.statusIds[s] = None, !.pending = @ \ {s}] ELSE c

\* The `finally` of refreshServerStatus: the spinner goes, unless it is another's.
Settle(c, q) ==
  LET s == at[q].server
  IN IF c.statusIds[s] = q
     THEN [c EXCEPT !.statusIds[s] = None, !.pending = @ \ {s}] ELSE c

\* The status is applied and its write awaited before the `finally`.
StatusArrives(q) ==
  /\ pc[q] = "answered" /\ StatusApplies(q)
  /\ ctl' = [ctl EXCEPT
       !.cache = SetEntry(@, ctl.source, at[q].server, answer[q]), !.revision = @ + 1]
  /\ Enqueue(ctl'.cache)
  /\ AwaitQueue(q, Len(queue'))
  /\ Goto(q, "saving")
  /\ UNCHANGED <<core, wanted, at, answer, writing, deleted, disk, recorded>>

\* The write is through, the answer is an error, or it is out of date.
FinishStatus(q) ==
  /\ pc[q] = "answered" \/ (pc[q] = "saving" /\ ahead[q] = 0)
  /\ ctl' = Settle(ctl, q)
  /\ Finish(q)
  /\ UNCHANGED <<core, wanted, ahead, store, recorded>>

-----------------------------------------------------------------------------
(* An operation on a server: run, or submitServerCreate                    *)

\* acquireServerTarget: held across visits, by every operation but a creation.
Locked(e, s) ==
  \E p \in Ops : pc[p] \in {"opening", "running", "answered", "saving"}
                 /\ at[p].kind # "create" /\ at[p].source = e /\ at[p].server = s

\* The scope is captured and the target locked, then a session is opened.
Begin(p) ==
  /\ pc[p] = "idle" /\ ctl.source # None
  /\ \E s \in Servers, kind \in {"create", "install", "change", "delete"} :
       /\ kind = "create" <=> <<ctl.source, s>> \notin ctl.manifests
       /\ kind # "create" => ~Locked(ctl.source, s)
       /\ at' = [at EXCEPT ![p] = [Nothing EXCEPT
            !.source = ctl.source, !.sourceRevision = ctl.sourceRevision,
            !.server = s, !.kind = kind]]
  /\ Goto(p, "opening")
  /\ UNCHANGED <<core, ctl, wanted, answer, ahead, store, recorded>>

\* No session opens, or its scope is found to be no longer current.
GiveUp(p) ==
  /\ pc[p] = "opening"
  /\ Finish(p)
  /\ UNCHANGED <<core, ctl, wanted, ahead, store, recorded>>

Opened(p) ==
  /\ pc[p] = "opening" /\ Current(p)
  /\ Goto(p, "running")
  /\ UNCHANGED <<core, ctl, wanted, at, answer, ahead, store, recorded>>

\* An id is given to one server only: no id of a deleted server is used again.
Allowed(p) ==
  LET e == at[p].source
      s == at[p].server
  IN IF at[p].kind = "create" THEN rev[e][s] = 0 ELSE s \in exists[e]

\* The core does it; its answer arrives or is lost with the session.
DoAtCore(p) ==
  /\ pc[p] = "running" /\ Allowed(p)
  /\ LET e == at[p].source
         s == at[p].server
     IN /\ exists' = [exists EXCEPT ![e] =
             IF at[p].kind = "delete" THEN @ \ {s} ELSE @ \cup {s}]
        /\ rev' = [rev EXCEPT ![e][s] = @ + 1]
        /\ recorded' = [recorded EXCEPT ![s] =
             IF at[p].kind \in {"create", "delete"} THEN "nothing" ELSE @]
        /\ \/ /\ Goto(p, "answered")
              /\ answer' = [answer EXCEPT ![p] = rev'[e][s]]
              /\ UNCHANGED at
           \/ Finish(p)
  /\ UNCHANGED <<ctl, wanted, ahead, store>>

\* The core refuses, which start, stop and restart record, or is not reached.
FailAtCore(p) ==
  /\ pc[p] = "running"
  /\ \/ /\ at[p].kind = "change"
        /\ Goto(p, "answered")
        /\ answer' = [answer EXCEPT ![p] = rev[at[p].source][at[p].server]]
        /\ UNCHANGED at
     \/ Finish(p)
  /\ UNCHANGED <<core, ctl, wanted, ahead, store, recorded>>

RecordResult(p) ==
  /\ pc[p] = "answered"
  /\ IF Current(p)
     THEN /\ ctl' = Record(ctl, at[p].kind, at[p].server, answer[p])
          /\ Enqueue(ctl'.cache)
          /\ AwaitQueue(p, Len(queue'))
          /\ recorded' = [recorded EXCEPT ![at[p].server] =
               IF at[p].kind = "change" THEN @ ELSE at[p].kind]
     ELSE UNCHANGED <<ctl, queue, ahead, recorded>>
  /\ Goto(p, "saving")
  /\ UNCHANGED <<core, wanted, at, answer, writing, deleted, disk>>

\* The write was awaited, then the target is released.
Release(p) ==
  /\ pc[p] = "saving" /\ ahead[p] = 0
  /\ Finish(p)
  /\ UNCHANGED <<core, ctl, wanted, ahead, store, recorded>>

-----------------------------------------------------------------------------
(* The write queue and the deletion of an endpoint                         *)

\* Slip: the deleted endpoints are filtered out when the write is queued.
ToWriteSlip(item) == item.cache

\* What the head of the queue writes: filtered when its turn comes.
ToWrite(item) == Filtered(item.cache)

BeginWrite ==
  /\ queue # <<>> /\ writing = None
  /\ writing' = IF Head(queue).kind = "write" THEN ToWrite(Head(queue))
                ELSE Filtered(disk)
  /\ UNCHANGED <<core, ctl, wanted, tasks, queue, deleted, disk, recorded>>

\* Slip: a write that fails rejects the queue, and nobody goes on.
ReleasedSlip(ok) ==
  [t \in Tasks |-> IF ok /\ ahead[t] > 0 THEN ahead[t] - 1 ELSE ahead[t]]

\* One write less to wait for, whether it was written or not.
Released(ok) == [t \in Tasks |-> IF ahead[t] > 0 THEN ahead[t] - 1 ELSE 0]

\* The write ends, well or not; whoever waits for it goes on.  A cleanup that
\* failed tells deleteEndpointTransaction so.
EndWrite ==
  /\ writing # None
  /\ \E ok \in BOOLEAN :
       /\ disk' = IF ok THEN writing ELSE disk
       /\ ahead' = Released(ok)
       /\ pc' = [t \in Tasks |->
            IF Head(queue).kind # "write" /\ Head(queue).endpoint = t
            THEN IF ok THEN "cleaned" ELSE "done" ELSE pc[t]]
  /\ writing' = None
  /\ queue' = Tail(queue)
  /\ UNCHANGED <<core, ctl, wanted, at, answer, deleted, recorded>>

\* prepareEndpointDeletion(e): what e told is forgotten before the first await.
Prepare(e) ==
  /\ pc[e] = "idle"
  /\ deleted' = deleted \cup {e}
  /\ IF ctl.source = e
     THEN ctl' = Reset(ctl, None) /\ recorded' = [s \in Servers |-> "nothing"]
     ELSE UNCHANGED <<ctl, recorded>>
  /\ AwaitQueue(e, Len(queue))
  /\ Goto(e, "barrier")
  /\ UNCHANGED <<core, wanted, at, answer, queue, writing, disk>>

\* cleanupEndpointCache(e): after the sessions are closed, on the same queue.
Cleanup(e) ==
  /\ pc[e] = "barrier" /\ ahead[e] = 0
  /\ queue' = Append(queue, [kind |-> "cleanup", endpoint |-> e])
  /\ Goto(e, "cleaning")
  /\ UNCHANGED <<core, ctl, wanted, at, answer, ahead, writing, deleted, disk, recorded>>

-----------------------------------------------------------------------------
StartStep(v) == LoadCache(v) \/ ListAtStart(v) \/ FinishStart(v)
ListStep(l) == ListAtCore(l) \/ FinishList(l)
StatusStep(q) == StatusAtCore(q) \/ StatusArrives(q) \/ FinishStatus(q)
OpStep(p) == GiveUp(p) \/ Opened(p) \/ DoAtCore(p) \/ FailAtCore(p) \/ RecordResult(p)
             \/ Release(p)
WriteStep == BeginWrite \/ EndWrite

Next ==
  \/ \E e \in Sources : Select(e)
  \/ \E v \in Visits : Start(v) \/ StartStep(v)
  \/ \E l \in Lists : RefreshList(l) \/ ListStep(l)
  \/ \E q \in Statuses : RefreshStatus(q) \/ StatusStep(q)
  \/ \E p \in Ops : Begin(p) \/ OpStep(p)
  \/ \E e \in Sources \ {Local} : Prepare(e) \/ Cleanup(e)
  \/ WriteStep

\* The core and the disk answer, be it with an error.
Fairness ==
  /\ \A v \in Visits : WF_vars(StartStep(v))
  /\ \A l \in Lists : WF_vars(ListStep(l))
  /\ \A q \in Statuses : WF_vars(StatusStep(q))
  /\ WF_vars(WriteStep)

Spec == Init /\ [][Next]_vars
FairSpec == Spec /\ Fairness

-----------------------------------------------------------------------------
(* Properties                                                              *)

Caches == [Sources -> {None} \cup [Servers -> Nat \cup {None}]]

TypeOK ==
  /\ ctl.source \in Sources \cup {None}
  /\ ctl.manifests \subseteq Sources \X Servers
  /\ ctl.cache \in Caches /\ disk \in Caches
  /\ ctl.activeList \in Lists \cup {None}
  /\ ctl.pending \subseteq Servers
  /\ writing \in Caches \cup {None}
  /\ deleted \subseteq Sources \ {Local}
  /\ \A t \in Tasks : ahead[t] \in 0..Len(queue)

(***************************************************************************)
(* What is listed comes from the selected endpoint: an answer that was     *)
(* asked of another one before a switch does not reach the list, even if   *)
(* both keep their servers in directories of the same name.                *)
(***************************************************************************)
OwnSourceOnly ==
  \A m \in ctl.manifests : m[1] = ctl.source /\ rev[m[1]][m[2]] > 0

(***************************************************************************)
(* A server's spinner turns only while a request is under way that belongs *)
(* to this visit and will stop it: neither a switch nor an operation that  *)
(* overtakes the request leaves it turning.                                *)
(***************************************************************************)
SpinnersHaveRequests ==
  \A s \in ctl.pending : \E q \in Statuses :
    /\ ctl.statusIds[s] = q /\ at[q].server = s
    /\ pc[q] \in {"asking", "answered", "saving"} /\ Current(q)

Shown(c, s) == IF c.source = None \/ c.cache[c.source] = None THEN None
               ELSE c.cache[c.source][s]

\* The step in which the answer to the creation of s arrives.
CreationArrives(s) ==
  \E p \in Ops : at[p].kind = "create" /\ at[p].server = s
                 /\ pc[p] = "answered" /\ pc'[p] = "saving"

(***************************************************************************)
(* The status shown for a server never goes back in time while the source  *)
(* stays: an answer the core gave before an operation is not applied after *)
(* the operation was recorded, and a startup does not overwrite it with    *)
(* what was on disk.  The answer to a creation is excepted: recordCreated  *)
(* neither checks nor advances the server's generation, and a creation     *)
(* holds no target lock, so its answer may arrive after those of later     *)
(* operations on the server it made.                                       *)
(***************************************************************************)
StatusNeverGoesBack ==
  [][ctl'.sourceRevision = ctl.sourceRevision =>
       \A s \in Servers :
         Shown(ctl, s) # None /\ Shown(ctl', s) # None /\ ~CreationArrives(s) =>
           Shown(ctl', s) >= Shown(ctl, s)]_vars

(***************************************************************************)
(* A server this window has created stays listed until it is deleted,      *)
(* whatever list was under way at the time, the startup's included.        *)
(***************************************************************************)
CreatedStaysListed ==
  \A s \in Servers :
    recorded[s] \in {"create", "install"} /\ s \in exists[ctl.source]
      => <<ctl.source, s>> \in ctl.manifests

\* The step in which the startup's own list arrives.
StartupArrives == ctl.startupLoading /\ ~ctl'.startupLoading

(***************************************************************************)
(* An explicit list that was asked for before a server's deletion cannot   *)
(* bring the server back.  Only the startup's list can, and the late       *)
(* answer to the creation of the server itself.                            *)
(***************************************************************************)
RefreshKeepsDeleted ==
  [][\A s \in Servers :
       recorded[s] = "delete" /\ <<ctl.source, s>> \notin ctl.manifests
         => <<ctl.source, s>> \notin ctl'.manifests \/ StartupArrives \/ CreationArrives(s)]_vars

(***************************************************************************)
(* Once the cache of a deleted endpoint was cleaned up, no write that was  *)
(* queued before or comes later puts its scope back on disk.               *)
(***************************************************************************)
DeletedScopeGone ==
  \A e \in Sources \ {Local} : pc[e] = "cleaned" => disk[e] = None

(***************************************************************************)
(* The list's spinner stops, whatever overtakes the list it turns for.     *)
(***************************************************************************)
LoadingEnds == ctl.loading ~> ~ctl.loading

(***************************************************************************)
(* What servers.test.ts says: "a list started before delete cannot restore *)
(* the deleted manifest".  For every list, the startup's included.         *)
(***************************************************************************)
DeletedStaysDeleted ==
  \A s \in Servers : recorded[s] = "delete" => <<ctl.source, s>> \notin ctl.manifests

(***************************************************************************)
(* What servers.test.ts says: "endpoint cache scopes stay disjoint and     *)
(* local cache survives remote startup".  No write for one endpoint drops  *)
(* the scope of another that was not deleted.                              *)
(***************************************************************************)
LocalCacheSurvives == [][disk[Local] # None => disk'[Local] # None]_vars
=============================================================================
