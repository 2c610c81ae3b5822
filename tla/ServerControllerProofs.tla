----------------------- MODULE ServerControllerProofs -----------------------
(***************************************************************************)
(* The server list of the GUI, for any number of endpoints, servers and    *)
(* calls that race.  What a call knows is bound to the visit it captured:  *)
(* whatever overtakes it either starts another visit, so that the call is  *)
(* no longer current, or leaves what the call relies on (Calm).  Each call *)
(* then needs only what it captured and was told itself (TaskInv).         *)
(***************************************************************************)
EXTENDS ServerController, TLAPS

TasksOK ==
  /\ None \notin Sources \cup Servers \cup Tasks
  /\ Visits \cap (Lists \cup Statuses \cup Ops \cup Sources) = {}
  /\ Lists \cap (Statuses \cup Ops \cup Sources) = {}
  /\ Statuses \cap (Ops \cup Sources) = {} /\ Ops \cap Sources = {}

Places == {"idle", "barrier", "listing", "answered", "asking", "saving", "opening", "running",
           "cleaning", "cleaned", "done"}
OpKinds == {"create", "install", "change", "delete"}

SourceIds == Sources \cup {None}
ListIds == Lists \cup {None}
Generations == [Servers -> Nat]
StatusIds == [Servers -> Statuses \cup {None}]
Manifests == SUBSET (Sources \X Servers)
Pendings == SUBSET Servers

Ctls ==
  [source : SourceIds, sourceRevision : Nat, revision : Nat, manifestGeneration : Nat,
   activeList : ListIds, startupLoading : BOOLEAN, generations : Generations,
   statusIds : StatusIds, manifests : Manifests, cache : Caches, loading : BOOLEAN,
   pending : Pendings]

Captured == [source : Sources \cup {None}, sourceRevision : Nat, revision : Nat,
             server : Servers \cup {None}, kind : OpKinds \cup {None}]

Items == [kind : {"write"}, cache : Caches] \cup [kind : {"cleanup"}, endpoint : Sources \ {Local}]
Loaded == [ids : SUBSET Servers, failed : BOOLEAN, cache : Caches]

Types ==
  /\ exists \in [Sources -> SUBSET Servers] /\ rev \in [Sources -> [Servers -> Nat]]
  /\ ctl \in Ctls /\ wanted \in Sources \cup {None}
  /\ pc \in [Tasks -> Places] /\ at \in [Tasks -> Captured]
  /\ answer = [t \in Tasks |-> answer[t]]
  /\ ahead \in [Tasks -> Nat] /\ queue \in Seq(Items)
  /\ \A t \in Tasks : ahead[t] <= Len(queue)
  /\ writing \in Caches \cup {None} /\ disk \in Caches
  /\ deleted \subseteq Sources \ {Local}
  /\ recorded \in [Servers -> {"nothing", "create", "install", "delete"}]

\* Server s has to be listed.
Owed(s) == recorded[s] \in {"create", "install"} /\ s \in exists[ctl.source]
NothingRecorded == \A s \in Servers : recorded[s] = "nothing"

\* A startup knows servers that there were, and while it is current and the
\* revision is its own, nothing was recorded.
VisitInv(v) ==
  /\ pc[v] \in {"barrier", "listing", "answered"} => at[v].source \in Sources
  /\ pc[v] \in {"listing", "answered"} =>
       answer[v] \in Loaded /\ \A s \in answer[v].ids : rev[at[v].source][s] > 0
  /\ pc[v] \in {"barrier", "listing", "answered"} /\ Current(v) =>
       at[v].revision <= ctl.revision /\ (at[v].revision = ctl.revision => NothingRecorded)

\* A list that still applies has what has to be listed.
ListInv(l) ==
  /\ pc[l] \in {"listing", "answered"} => at[l].source \in Sources
  /\ pc[l] = "answered" =>
       /\ answer[l] \in SUBSET Servers /\ \A s \in answer[l] : rev[at[l].source][s] > 0
       /\ ListApplies(l) => \A s \in Servers : Owed(s) => s \in answer[l]

StatusInv(q) ==
  /\ pc[q] \in {"asking", "answered", "saving"} => at[q].source \in Sources /\ at[q].server \in Servers
  /\ pc[q] = "answered" => answer[q] \in Nat

OpInv(p) ==
  /\ pc[p] \in {"opening", "running", "answered", "saving"} =>
       at[p].source \in Sources /\ at[p].server \in Servers /\ at[p].kind \in OpKinds
  /\ pc[p] = "answered" =>
       /\ answer[p] \in Nat
       /\ at[p].kind \in {"create", "install"} => rev[at[p].source][at[p].server] > 0

TaskInv(t) ==
  /\ t \in Visits => VisitInv(t)
  /\ t \in Lists => ListInv(t)
  /\ t \in Statuses => StatusInv(t)
  /\ t \in Ops => OpInv(t)
  /\ at[t].sourceRevision <= ctl.sourceRevision

\* The queue: a cleanup is of an endpoint that is deleted already, so that its
\* write, and every later one, leaves the endpoint's scope out.
StoreInv ==
  /\ writing # None => queue # <<>>
  /\ \A i \in 1..Len(queue) : queue[i].kind = "cleanup" => queue[i].endpoint \in deleted
  /\ writing # None /\ Head(queue).kind = "cleanup" => writing[Head(queue).endpoint] = None
  /\ \A e \in Sources \ {Local} :
       /\ pc[e] \in {"barrier", "cleaned"} => e \in deleted
       /\ pc[e] = "cleaned" => disk[e] = None /\ (writing # None => writing[e] = None)

CoreInv == \A e \in Sources, s \in Servers : s \in exists[e] => rev[e][s] > 0

ListedInv ==
  /\ OwnSourceOnly /\ CreatedStaysListed
  /\ ctl.source = None => NothingRecorded

IInv ==
  /\ Types /\ CoreInv /\ StoreInv /\ ListedInv /\ SpinnersHaveRequests
  /\ \A t \in Tasks : TaskInv(t)

-----------------------------------------------------------------------------
(* The cache and the methods that run without awaiting.                    *)

LEMMA EmptyTypes == EmptyScope \in [Servers -> Nat \cup {None}] /\ EmptyCache \in Caches
BY DEF EmptyScope, EmptyCache, Caches

LEMMA SetEntryType ==
  ASSUME NEW cache \in Caches, NEW e \in Sources, NEW s \in Servers, NEW value \in Nat \cup {None}
  PROVE  SetEntry(cache, e, s, value) \in Caches
<1> DEFINE old == IF cache[e] = None THEN EmptyScope ELSE cache[e]
           new == [old EXCEPT ![s] = value]
<1>1. old \in [Servers -> Nat \cup {None}]
  BY EmptyTypes DEF Caches
<1>2. new \in [Servers -> Nat \cup {None}]
  BY <1>1
<1>3. SetEntry(cache, e, s, value) = [cache EXCEPT ![e] = new]
  BY DEF SetEntry, WithEntries, Caches
<1> HIDE DEF new
<1> QED BY <1>2, <1>3 DEF Caches

LEMMA ReconcileType ==
  ASSUME NEW cache \in Caches, NEW e \in Sources, NEW ids
  PROVE  Reconcile(cache, e, ids) \in Caches
<1> DEFINE old == IF cache[e] = None THEN EmptyScope ELSE cache[e]
           new == [s \in Servers |-> IF s \in ids THEN old[s] ELSE None]
<1>1. old \in [Servers -> Nat \cup {None}]
  BY EmptyTypes DEF Caches
<1>2. new \in [Servers -> Nat \cup {None}]
  BY <1>1
<1>3. Reconcile(cache, e, ids) = [cache EXCEPT ![e] = new]
  BY DEF Reconcile, WithEntries, Caches
<1> HIDE DEF new
<1> QED BY <1>2, <1>3 DEF Caches

LEMMA FilteredType ==
  ASSUME NEW cache \in Caches
  PROVE  Filtered(cache) \in Caches /\ \A e \in Sources : e \in deleted => Filtered(cache)[e] = None
BY DEF Filtered, Caches

\* Fields of a record that change, each to a value of its set.
WithVisit(c, e, i, j, k, b) ==
  [c EXCEPT !.source = e, !.sourceRevision = i, !.revision = j,
            !.manifestGeneration = k, !.startupLoading = b, !.loading = b]
WithoutList(c, k, b) ==
  [c EXCEPT !.manifestGeneration = k, !.activeList = None, !.loading = b]
WithStatus(c, g, n, p, e, k) ==
  [c EXCEPT !.generations = g, !.statusIds = n, !.pending = p, !.cache = e, !.revision = k]

LEMMA VisitFields ==
  ASSUME NEW c \in Ctls, NEW e \in SourceIds, NEW i \in Nat, NEW j \in Nat, NEW k \in Nat,
         NEW b \in BOOLEAN
  PROVE  LET d == WithVisit(c, e, i, j, k, b)
         IN /\ d \in Ctls /\ d.source = e /\ d.sourceRevision = i /\ d.revision = j
            /\ d.activeList = c.activeList /\ d.manifests = c.manifests /\ d.pending = c.pending
BY DEF Ctls, WithVisit

LEMMA ListFields ==
  ASSUME NEW c \in Ctls, NEW k \in Nat, NEW b \in BOOLEAN
  PROVE  LET d == WithoutList(c, k, b)
         IN /\ d \in Ctls /\ d.activeList = None /\ d.source = c.source
            /\ d.sourceRevision = c.sourceRevision /\ d.revision = c.revision
            /\ d.manifests = c.manifests /\ d.pending = c.pending /\ d.statusIds = c.statusIds
            /\ d.cache = c.cache
<1>1. None \in ListIds
  BY DEF ListIds
<1> QED BY <1>1 DEF Ctls, WithoutList

LEMMA StatusFields ==
  ASSUME NEW c \in Ctls, NEW g \in Generations, NEW n \in StatusIds, NEW p \in Pendings,
         NEW e \in Caches, NEW k \in Nat
  PROVE  LET d == WithStatus(c, g, n, p, e, k)
         IN /\ d \in Ctls /\ d.activeList = c.activeList /\ d.manifests = c.manifests
            /\ d.source = c.source /\ d.sourceRevision = c.sourceRevision
            /\ d.revision = k /\ d.pending = p /\ d.statusIds = n
BY DEF Ctls, WithStatus

LEMMA ResetFacts ==
  ASSUME NEW c \in Ctls, NEW e \in SourceIds
  PROVE  /\ Reset(c, e) \in Ctls /\ Reset(c, e).source = e
         /\ Reset(c, e).sourceRevision = c.sourceRevision + 1
         /\ Reset(c, e).activeList = None /\ Reset(c, e).manifests = {}
         /\ Reset(c, e).pending = {} /\ Reset(c, e).revision \in Nat
<1>1. NoController \in Ctls /\ NoController.activeList = None
      /\ NoController.manifests = {} /\ NoController.pending = {}
  <2>1. /\ None \in SourceIds /\ None \in ListIds /\ {} \in Manifests /\ {} \in Pendings
        /\ [s \in Servers |-> 0] \in Generations /\ [s \in Servers |-> None] \in StatusIds
    BY DEF SourceIds, ListIds, Manifests, Pendings, Generations, StatusIds
  <2> QED BY <2>1, EmptyTypes DEF NoController, Ctls
<1>2. c.sourceRevision \in Nat /\ c.revision \in Nat /\ c.manifestGeneration \in Nat
  BY DEF Ctls
<1> DEFINE b == (e # None)
           i == c.sourceRevision + 1
           j == c.revision + 1
           k == c.manifestGeneration + 1
           d == WithVisit(NoController, e, i, j, k, b)
<1>3. Reset(c, e) = d
  BY DEF Reset, WithVisit
<1>4. b \in BOOLEAN /\ i \in Nat /\ j \in Nat /\ k \in Nat
  BY <1>2
<1> HIDE DEF b, i, j, k
<1>5. /\ d \in Ctls /\ d.source = e /\ d.sourceRevision = i
      /\ d.revision = j /\ d.activeList = NoController.activeList
      /\ d.manifests = NoController.manifests /\ d.pending = NoController.pending
  <2>1. \A x \in Nat, y \in Nat, z \in Nat, w \in BOOLEAN :
          LET v == WithVisit(NoController, e, x, y, z, w)
          IN /\ v \in Ctls /\ v.source = e /\ v.sourceRevision = x /\ v.revision = y
             /\ v.activeList = NoController.activeList
             /\ v.manifests = NoController.manifests /\ v.pending = NoController.pending
    BY <1>1, VisitFields
  <2> QED BY <1>4, <2>1
<1> HIDE DEF d
<1> QED BY <1>1, <1>3, <1>4, <1>5 DEF i

LEMMA InvalidateFacts ==
  ASSUME NEW c \in Ctls
  PROVE  /\ InvalidateList(c) \in Ctls /\ InvalidateList(c).activeList = None
         /\ InvalidateList(c).source = c.source /\ InvalidateList(c).sourceRevision = c.sourceRevision
         /\ InvalidateList(c).revision = c.revision /\ InvalidateList(c).manifests = c.manifests
         /\ InvalidateList(c).pending = c.pending /\ InvalidateList(c).statusIds = c.statusIds
         /\ InvalidateList(c).cache = c.cache
<1> DEFINE b == IF c.activeList = None THEN c.loading ELSE c.startupLoading
<1>1. b \in BOOLEAN /\ None \in ListIds /\ c.manifestGeneration \in Nat
  BY DEF Ctls, ListIds
<1>2. InvalidateList(c) = WithoutList(c, c.manifestGeneration + 1, b)
  BY DEF InvalidateList, WithoutList, Ctls
<1> HIDE DEF b
<1>3. c.manifestGeneration + 1 \in Nat
  BY <1>1
<1> QED BY <1>1, <1>2, <1>3, ListFields

LEMMA TransitionFacts ==
  ASSUME NEW c \in Ctls, c.source \in Sources, NEW s \in Servers, NEW value \in Nat \cup {None}
  PROVE  LET d == Transition(c, s, value)
         IN /\ d \in Ctls /\ d.activeList = None /\ d.manifests = c.manifests
            /\ d.source = c.source /\ d.sourceRevision = c.sourceRevision
            /\ d.revision = c.revision + 1
            /\ d.pending = c.pending \ {s}
            /\ \A u \in Servers : u # s => d.statusIds[u] = c.statusIds[u]
<1> DEFINE i == InvalidateList(c)
           e == SetEntry(i.cache, c.source, s, value)
           g == [i.generations EXCEPT ![s] = @ + 1]
           n == [i.statusIds EXCEPT ![s] = None]
           p == i.pending \ {s}
           k == i.revision + 1
           d == WithStatus(i, g, n, p, e, k)
<1>1. i \in Ctls /\ i.activeList = None /\ i.manifests = c.manifests /\ i.source = c.source
      /\ i.sourceRevision = c.sourceRevision /\ i.revision = c.revision /\ i.pending = c.pending
      /\ i.statusIds = c.statusIds /\ i.cache = c.cache
  BY InvalidateFacts
<1>2. e \in Caches
  <2>1. i.cache \in Caches
    BY <1>1 DEF Ctls
  <2> QED BY <2>1, SetEntryType
<1>3. Transition(c, s, value) = d
  BY <1>1 DEF Transition, WithStatus, Ctls
<1>4. g \in Generations /\ n \in StatusIds /\ p \in Pendings /\ k \in Nat
      /\ \A u \in Servers : u # s => n[u] = c.statusIds[u]
  BY <1>1 DEF Ctls, Generations, StatusIds, Pendings
<1> HIDE DEF i, e, g, n, p, k
<1>5. d \in Ctls /\ d.activeList = None /\ d.manifests = i.manifests
      /\ d.source = i.source /\ d.sourceRevision = i.sourceRevision
      /\ d.revision = k /\ d.pending = p /\ d.statusIds = n
  BY <1>1, <1>2, <1>4, StatusFields
<1> HIDE DEF d
<1> QED BY <1>1, <1>3, <1>4, <1>5 DEF p, k

LEMMA ManifestFacts ==
  ASSUME NEW c \in Ctls, c.source \in Sources, NEW s \in Servers,
         NEW d \in {WithManifest(c, s), NoManifest(c, s)}
  PROVE  /\ d \in Ctls /\ d.source = c.source /\ d.sourceRevision = c.sourceRevision
         /\ d.revision = c.revision /\ d.pending = c.pending /\ d.statusIds = c.statusIds
         /\ d.cache = c.cache
         /\ d = WithManifest(c, s) => d.manifests = c.manifests \cup {<<c.source, s>>}
         /\ d = NoManifest(c, s) => d.manifests = c.manifests \ {<<c.source, s>>}
<1>1. c.manifests \cup {<<c.source, s>>} \in Manifests /\ c.manifests \ {<<c.source, s>>} \in Manifests
  BY DEF Ctls, Manifests
<1>2. /\ WithManifest(c, s) \in Ctls
      /\ WithManifest(c, s).manifests = c.manifests \cup {<<c.source, s>>}
  BY <1>1 DEF WithManifest, Ctls
<1>3. /\ NoManifest(c, s) \in Ctls
      /\ NoManifest(c, s).manifests = c.manifests \ {<<c.source, s>>}
  BY <1>1 DEF NoManifest, Ctls
<1>4. /\ d.source = c.source /\ d.sourceRevision = c.sourceRevision
      /\ d.revision = c.revision /\ d.pending = c.pending /\ d.statusIds = c.statusIds
      /\ d.cache = c.cache
  BY DEF WithManifest, NoManifest, Ctls
<1> QED BY <1>2, <1>3, <1>4

WithCache(c, e, k) == [c EXCEPT !.cache = e, !.revision = k]
WithRequest(c, n, p) == [c EXCEPT !.statusIds = n, !.pending = p]
WithStartup(c, m, e) ==
  [c EXCEPT !.startupLoading = FALSE, !.loading = FALSE, !.manifests = m, !.cache = e]
WithSpinner(c, l, b) == [c EXCEPT !.activeList = l, !.loading = b]
WithList(c, m, e, k) == [c EXCEPT !.manifests = m, !.cache = e, !.revision = k]

LEMMA CacheFields ==
  ASSUME NEW c \in Ctls, NEW e \in Caches, NEW k \in Nat
  PROVE  LET d == WithCache(c, e, k)
         IN /\ d \in Ctls /\ d.activeList = c.activeList /\ d.manifests = c.manifests
            /\ d.source = c.source /\ d.sourceRevision = c.sourceRevision /\ d.revision = k
            /\ d.pending = c.pending /\ d.statusIds = c.statusIds
            /\ d.manifestGeneration = c.manifestGeneration
BY DEF Ctls, WithCache

LEMMA RequestFields ==
  ASSUME NEW c \in Ctls, NEW n \in StatusIds, NEW p \in Pendings
  PROVE  LET d == WithRequest(c, n, p)
         IN /\ d \in Ctls /\ d.activeList = c.activeList /\ d.manifests = c.manifests
            /\ d.source = c.source /\ d.sourceRevision = c.sourceRevision
            /\ d.revision = c.revision /\ d.pending = p /\ d.statusIds = n
            /\ d.manifestGeneration = c.manifestGeneration
BY DEF Ctls, WithRequest

LEMMA StartupFields ==
  ASSUME NEW c \in Ctls, NEW m \in Manifests, NEW e \in Caches
  PROVE  LET d == WithStartup(c, m, e)
         IN /\ d \in Ctls /\ d.activeList = c.activeList /\ d.manifests = m
            /\ d.source = c.source /\ d.sourceRevision = c.sourceRevision
            /\ d.revision = c.revision /\ d.pending = c.pending /\ d.statusIds = c.statusIds
            /\ d.manifestGeneration = c.manifestGeneration
BY DEF Ctls, WithStartup

LEMMA SpinnerFields ==
  ASSUME NEW c \in Ctls, NEW l \in ListIds, NEW b \in BOOLEAN
  PROVE  LET d == WithSpinner(c, l, b)
         IN /\ d \in Ctls /\ d.activeList = l /\ d.manifests = c.manifests /\ d.cache = c.cache
            /\ d.source = c.source /\ d.sourceRevision = c.sourceRevision
            /\ d.revision = c.revision /\ d.pending = c.pending /\ d.statusIds = c.statusIds
            /\ d.manifestGeneration = c.manifestGeneration
BY DEF Ctls, WithSpinner

LEMMA ApplyFields ==
  ASSUME NEW c \in Ctls, NEW m \in Manifests, NEW e \in Caches, NEW k \in Nat
  PROVE  LET d == WithList(c, m, e, k)
         IN /\ d \in Ctls /\ d.activeList = c.activeList /\ d.manifests = m
            /\ d.source = c.source /\ d.sourceRevision = c.sourceRevision
            /\ d.revision = k /\ d.pending = c.pending /\ d.statusIds = c.statusIds
BY DEF Ctls, WithList

\* What is recorded, and what becomes of the manifests and the spinners.
LEMMA RecordFacts ==
  ASSUME NEW c \in Ctls, c.source \in Sources, NEW kind \in OpKinds, NEW s \in Servers, NEW r \in Nat
  PROVE  LET d == Record(c, kind, s, r)
         IN /\ d \in Ctls /\ d.activeList = None
            /\ d.source = c.source /\ d.sourceRevision = c.sourceRevision
            /\ d.revision = c.revision + 1
            /\ d.pending \subseteq c.pending
            /\ \A u \in Servers : u \in d.pending => d.statusIds[u] = c.statusIds[u]
            /\ kind \in {"create", "install"} => d.manifests = c.manifests \cup {<<c.source, s>>}
            /\ kind = "change" => d.manifests = c.manifests
            /\ kind = "delete" => d.manifests = c.manifests \ {<<c.source, s>>}
<1>1. CASE kind = "create"
  <2> DEFINE w == WithManifest(c, s)
             i == InvalidateList(w)
             e == SetEntry(i.cache, c.source, s, r)
             k == i.revision + 1
             d == WithCache(i, e, k)
  <2>1. w \in Ctls /\ w.source = c.source /\ w.sourceRevision = c.sourceRevision
        /\ w.revision = c.revision /\ w.pending = c.pending /\ w.statusIds = c.statusIds
        /\ w.manifests = c.manifests \cup {<<c.source, s>>}
    BY ManifestFacts
  <2> HIDE DEF w
  <2>2. /\ i \in Ctls /\ i.activeList = None /\ i.source = w.source
        /\ i.sourceRevision = w.sourceRevision /\ i.revision = w.revision
        /\ i.manifests = w.manifests /\ i.pending = w.pending /\ i.statusIds = w.statusIds
    BY <2>1, InvalidateFacts
  <2>3. Record(c, kind, s, r) = d
    BY <1>1, <2>2 DEF Record, RecordCreated, WithCache, Ctls, w
  <2> HIDE DEF i
  <2>4. i.cache \in Caches /\ k \in Nat
    BY <2>2 DEF Ctls
  <2>5. e \in Caches
    BY <2>4, SetEntryType
  <2> HIDE DEF e, k
  <2>6. /\ d \in Ctls /\ d.activeList = i.activeList /\ d.manifests = i.manifests
        /\ d.source = i.source /\ d.sourceRevision = i.sourceRevision /\ d.revision = k
        /\ d.pending = i.pending /\ d.statusIds = i.statusIds
    BY <2>2, <2>4, <2>5, CacheFields
  <2> HIDE DEF d
  <2> QED BY <1>1, <2>1, <2>2, <2>3, <2>6 DEF k
<1>2. CASE kind = "install"
  <2> DEFINE w == WithManifest(c, s)
             d == Transition(w, s, r)
  <2>1. w \in Ctls /\ w.source = c.source /\ w.sourceRevision = c.sourceRevision
        /\ w.revision = c.revision /\ w.pending = c.pending /\ w.statusIds = c.statusIds
        /\ w.manifests = c.manifests \cup {<<c.source, s>>}
    BY ManifestFacts
  <2>2. Record(c, kind, s, r) = d
    BY <1>2 DEF Record
  <2> HIDE DEF w
  <2>3. /\ d \in Ctls /\ d.activeList = None /\ d.manifests = w.manifests
        /\ d.source = w.source /\ d.sourceRevision = w.sourceRevision
        /\ d.revision = w.revision + 1 /\ d.pending = w.pending \ {s}
        /\ \A u \in Servers : u # s => d.statusIds[u] = w.statusIds[u]
    BY <2>1, TransitionFacts
  <2> HIDE DEF d
  <2> QED BY <1>2, <2>1, <2>2, <2>3
<1>3. CASE kind = "change"
  <2> DEFINE d == Transition(c, s, r)
  <2>1. Record(c, kind, s, r) = d
    BY <1>3 DEF Record
  <2>2. /\ d \in Ctls /\ d.activeList = None /\ d.manifests = c.manifests
        /\ d.source = c.source /\ d.sourceRevision = c.sourceRevision
        /\ d.revision = c.revision + 1 /\ d.pending = c.pending \ {s}
        /\ \A u \in Servers : u # s => d.statusIds[u] = c.statusIds[u]
    BY TransitionFacts
  <2> HIDE DEF d
  <2> QED BY <1>3, <2>1, <2>2
<1>4. CASE kind = "delete"
  <2> DEFINE w == NoManifest(c, s)
             n == None
             d == Transition(w, s, n)
  <2>1. w \in Ctls /\ w.source = c.source /\ w.sourceRevision = c.sourceRevision
        /\ w.revision = c.revision /\ w.pending = c.pending /\ w.statusIds = c.statusIds
        /\ w.manifests = c.manifests \ {<<c.source, s>>}
    BY ManifestFacts
  <2>2. Record(c, kind, s, r) = d
    BY <1>4 DEF Record
  <2>4. n \in Nat \cup {None}
    OBVIOUS
  <2> HIDE DEF w, n
  <2>3. /\ d \in Ctls /\ d.activeList = None /\ d.manifests = w.manifests
        /\ d.source = w.source /\ d.sourceRevision = w.sourceRevision
        /\ d.revision = w.revision + 1 /\ d.pending = w.pending \ {s}
        /\ \A u \in Servers : u # s => d.statusIds[u] = w.statusIds[u]
    BY <2>1, <2>4, TransitionFacts
  <2> HIDE DEF d
  <2> QED BY <1>4, <2>1, <2>2, <2>3
<1> QED BY <1>1, <1>2, <1>3, <1>4 DEF OpKinds

-----------------------------------------------------------------------------
(* A step moves one task; what the others rely on stays.                   *)

OthersStay(t) ==
  \A u \in Tasks : u # t => pc'[u] = pc[u] /\ at'[u] = at[u] /\ answer'[u] = answer[u]

\* Nothing a core has seen is forgotten; another visit begins, or the revision
\* grows with what is recorded; the list under way is discarded or overtaken
\* by t, or nothing has to be listed that it does not know of.
Calm(t) ==
  /\ \A e \in Sources, s \in Servers : rev[e][s] > 0 => rev'[e][s] > 0
  /\ \/ ctl'.sourceRevision > ctl.sourceRevision
     \/ /\ ctl'.source = ctl.source /\ ctl'.sourceRevision = ctl.sourceRevision
        /\ ctl'.revision >= ctl.revision
        /\ ctl'.revision = ctl.revision => (NothingRecorded => NothingRecorded')
  /\ \/ ctl'.activeList \in {None, t}
     \/ /\ ctl'.source = ctl.source /\ ctl'.sourceRevision = ctl.sourceRevision
        /\ ctl'.activeList = ctl.activeList
        /\ ctl'.manifestGeneration = ctl.manifestGeneration
        /\ \A s \in Servers : Owed(s)' => Owed(s)

LEMMA Revisions ==
  ASSUME Types
  PROVE  /\ ctl.sourceRevision \in Nat /\ ctl.revision \in Nat
         /\ \A t \in Tasks : at[t] \in Captured /\ at[t].sourceRevision \in Nat /\ at[t].revision \in Nat
BY DEF Types, Ctls, Captured

LEMMA VisitStays ==
  ASSUME Types, Types', NEW v \in Visits, VisitInv(v), at[v].sourceRevision <= ctl.sourceRevision,
         NEW t, Calm(t),
         pc'[v] = pc[v] /\ at'[v] = at[v] /\ answer'[v] = answer[v]
  PROVE  VisitInv(v)'
<1>1. v \in Tasks
  BY DEF Tasks
<1>2. ctl.sourceRevision \in Nat /\ ctl.revision \in Nat /\ at[v].revision \in Nat
      /\ at[v].sourceRevision \in Nat
  BY <1>1, Revisions
<1>3. ctl'.sourceRevision \in Nat /\ ctl'.revision \in Nat
  BY Revisions DEF Types, Ctls
<1>4. pc'[v] \in {"listing", "answered"} =>
        answer'[v] \in Loaded /\ \A s \in answer'[v].ids : rev'[at'[v].source][s] > 0
  <2> SUFFICES ASSUME pc[v] \in {"listing", "answered"}
               PROVE  answer[v] \in Loaded /\ \A s \in answer[v].ids : rev'[at[v].source][s] > 0
    OBVIOUS
  <2>1. answer[v] \in Loaded /\ at[v].source \in Sources
        /\ \A s \in answer[v].ids : rev[at[v].source][s] > 0
    BY DEF VisitInv
  <2>2. answer[v].ids \subseteq Servers
    BY <2>1 DEF Loaded
  <2> QED BY <2>1, <2>2 DEF Calm
<1>5. pc'[v] \in {"barrier", "listing", "answered"} /\ Current(v)' =>
        at'[v].revision <= ctl'.revision /\ (at'[v].revision = ctl'.revision => NothingRecorded')
  BY <1>2, <1>3 DEF Calm, VisitInv, Current
<1> QED BY <1>4, <1>5 DEF VisitInv

LEMMA ListStays ==
  ASSUME TasksOK, Types, NEW l \in Lists, ListInv(l), at[l].sourceRevision <= ctl.sourceRevision,
         NEW t, t # l, Calm(t),
         pc'[l] = pc[l] /\ at'[l] = at[l] /\ answer'[l] = answer[l]
  PROVE  ListInv(l)'
<1>1. l # None
  BY DEF TasksOK, Tasks
<1>2. pc[l] = "answered" =>
        /\ answer[l] \in SUBSET Servers
        /\ \A s \in answer[l] : rev'[at[l].source][s] > 0
  BY DEF ListInv, Calm
<1>3. pc[l] = "answered" /\ ListApplies(l)' => \A s \in Servers : Owed(s)' => s \in answer[l]
  BY <1>1 DEF ListInv, Calm, ListApplies, Current
<1> QED BY <1>2, <1>3 DEF ListInv

LEMMA OthersCalm ==
  ASSUME TasksOK, IInv, Types', NEW t \in Tasks, OthersStay(t), Calm(t)
  PROVE  \A u \in Tasks : u # t => TaskInv(u)'
<1> SUFFICES ASSUME NEW u \in Tasks, u # t PROVE TaskInv(u)'
  OBVIOUS
<1>1. pc'[u] = pc[u] /\ at'[u] = at[u] /\ answer'[u] = answer[u] /\ TaskInv(u)
  BY DEF OthersStay, IInv
<1>2. ctl'.sourceRevision \in Nat
  BY DEF Types, Ctls
<1>3. at'[u].sourceRevision <= ctl'.sourceRevision
  BY <1>1, <1>2, Revisions DEF IInv, TaskInv, Calm
<1>4. u \in Visits => VisitInv(u)'
  BY <1>1, VisitStays DEF IInv, TaskInv
<1>5. u \in Lists => ListInv(u)'
  BY <1>1, ListStays DEF IInv, TaskInv
<1>6. u \in Statuses => StatusInv(u)'
  BY <1>1 DEF TaskInv, StatusInv
<1>7. u \in Ops => OpInv(u)'
  <2> SUFFICES ASSUME u \in Ops PROVE OpInv(u)'
    OBVIOUS
  <2>1. OpInv(u)
    BY <1>1 DEF TaskInv
  <2> QED BY <1>1, <2>1 DEF OpInv, Calm
<1> QED BY <1>3, <1>4, <1>5, <1>6, <1>7 DEF TaskInv

LEMMA Combine ==
  ASSUME TasksOK, IInv, NEW t \in Tasks, OthersStay(t), Calm(t),
         Types', StoreInv', CoreInv', ListedInv', SpinnersHaveRequests', TaskInv(t)'
  PROVE  IInv'
BY OthersCalm DEF IInv

\* A step that leaves the list and the core as they are.
LEMMA Quiet ==
  ASSUME TasksOK, IInv, NEW t \in Tasks, OthersStay(t),
         UNCHANGED <<ctl, exists, rev, recorded>>,
         t \in Statuses => at'[t] = at[t] /\ pc'[t] \in {"asking", "answered", "saving"},
         Types', StoreInv', TaskInv(t)'
  PROVE  IInv'
<1>1. Calm(t)
  BY Revisions DEF Calm, Owed, NothingRecorded, IInv
<1>2. CoreInv' /\ ListedInv'
  BY DEF IInv, CoreInv, ListedInv, OwnSourceOnly, CreatedStaysListed, NothingRecorded
<1>3. SpinnersHaveRequests'
  <2>1. \A q \in Statuses : q \in Tasks
    BY DEF Tasks
  <2> QED BY <2>1 DEF IInv, SpinnersHaveRequests, OthersStay, Current
<1> QED BY <1>1, <1>2, <1>3, Combine

LEMMA StoreStays ==
  ASSUME Types, StoreInv, UNCHANGED <<writing, disk>>, deleted \subseteq deleted',
         queue' = queue \/ \E c \in Caches : queue' = Append(queue, [kind |-> "write", cache |-> c]),
         \A e \in Sources \ {Local} : pc'[e] = pc[e]
  PROVE  StoreInv'
<1>1. CASE queue' = queue
  BY <1>1 DEF StoreInv
<1>2. ASSUME NEW c \in Caches, queue' = Append(queue, [kind |-> "write", cache |-> c])
      PROVE  StoreInv'
  <2> DEFINE x == [kind |-> "write", cache |-> c]
  <2>1. x.kind = "write" /\ x \in Items /\ queue \in Seq(Items)
    BY DEF Items, Types
  <2> HIDE DEF x
  <2>2. queue' = Append(queue, x)
    BY <1>2 DEF x
  <2>3. queue # <<>> => Head(queue') = Head(queue)
    BY <2>1, <2>2
  <2>4. Len(queue') = Len(queue) + 1 /\ queue'[Len(queue) + 1] = x
        /\ \A i \in 1..Len(queue) : queue'[i] = queue[i]
    BY <2>1, <2>2
  <2>5. \A i \in 1..Len(queue') : queue'[i].kind = "cleanup" => queue'[i].endpoint \in deleted'
    BY <2>1, <2>4 DEF StoreInv
  <2>6. queue' # <<>>
    BY <2>1, <2>2
  <2> QED BY <2>3, <2>5, <2>6 DEF StoreInv
<1> QED BY <1>1, <1>2

LEMMA FinishFacts ==
  ASSUME Types, NEW t \in Tasks, Finish(t)
  PROVE  /\ OthersStay(t) /\ pc' \in [Tasks -> Places] /\ at' \in [Tasks -> Captured]
         /\ answer' = [u \in Tasks |-> answer'[u]]
         /\ pc'[t] = "done" /\ at'[t].sourceRevision = 0
<1>1. Nothing \in Captured /\ Nothing.sourceRevision = 0
  BY DEF Nothing, Captured
<1>2. pc' = [pc EXCEPT ![t] = "done"] /\ at' = [at EXCEPT ![t] = Nothing]
      /\ answer' = [answer EXCEPT ![t] = None]
  BY DEF Finish, Goto
<1>3. "done" \in Places
  BY DEF Places
<1> HIDE DEF Places
<1> QED BY <1>1, <1>2, <1>3 DEF Types, OthersStay

LEMMA DoneInv ==
  ASSUME NEW t \in Tasks, pc'[t] = "done", at'[t].sourceRevision = 0, ctl' \in Ctls
  PROVE  TaskInv(t)'
<1>1. 0 <= ctl'.sourceRevision
  BY DEF Ctls
<1> QED BY <1>1 DEF TaskInv, VisitInv, ListInv, StatusInv, OpInv

LEMMA GotoFacts ==
  ASSUME Types, NEW t \in Tasks, NEW there \in Places, Goto(t, there)
  PROVE  /\ pc' \in [Tasks -> Places] /\ pc'[t] = there
         /\ \A u \in Tasks : u # t => pc'[u] = pc[u]
BY DEF Types, Goto

\* A task waits for what is queued.
LEMMA AwaitFacts ==
  ASSUME Types, NEW t \in Tasks, NEW n \in Nat, AwaitQueue(t, n), Len(queue) <= n
  PROVE  ahead' \in [Tasks -> Nat] /\ \A u \in Tasks : ahead'[u] <= n
<1>1. ahead \in [Tasks -> Nat] /\ (\A u \in Tasks : ahead[u] <= Len(queue)) /\ Len(queue) \in Nat
  BY DEF Types
<1>2. ahead' = [ahead EXCEPT ![t] = n]
  BY DEF AwaitQueue
<1>3. ASSUME NEW u \in Tasks PROVE ahead'[u] \in Nat /\ ahead'[u] <= n
  <2>1. ahead'[u] = IF u = t THEN n ELSE ahead[u]
    BY <1>1, <1>2
  <2>2. ahead[u] \in Nat /\ ahead[u] <= Len(queue)
    BY <1>1
  <2> QED BY <1>1, <2>1, <2>2
<1>4. ahead' \in [Tasks -> Nat]
  BY <1>1, <1>2
<1> QED BY <1>3, <1>4

\* A task is of one sort.
LEMMA Sorts ==
  ASSUME TasksOK
  PROVE  /\ \A v \in Visits : v \in Tasks /\ v \notin Lists \cup Statuses \cup Ops \cup Sources
         /\ \A l \in Lists : l \in Tasks /\ l \notin Visits \cup Statuses \cup Ops \cup Sources
         /\ \A q \in Statuses : q \in Tasks /\ q \notin Visits \cup Lists \cup Ops \cup Sources
         /\ \A p \in Ops : p \in Tasks /\ p \notin Visits \cup Lists \cup Statuses \cup Sources
         /\ \A e \in Sources \ {Local} : e \in Tasks /\ e \notin Visits \cup Lists \cup Statuses \cup Ops
BY DEF TasksOK, Tasks

\* A task that is no deletion does not touch the store.
LEMMA StoreQuiet ==
  ASSUME TasksOK, Types, StoreInv, NEW t \in Tasks, t \notin Sources, OthersStay(t),
         UNCHANGED <<writing, disk, queue, deleted>>
  PROVE  StoreInv'
<1>1. \A e \in Sources \ {Local} : pc'[e] = pc[e]
  BY Sorts DEF OthersStay
<1> QED BY <1>1, StoreStays

-----------------------------------------------------------------------------
(* The steps that leave the list and the core as they are.                 *)

LEMMA LoadCacheInv == ASSUME TasksOK, IInv, NEW v \in Visits, LoadCache(v) PROVE IInv'
<1>1. v \in Tasks /\ v \notin Lists \cup Statuses \cup Ops \cup Sources
  BY Sorts
<1>2. PICK loaded \in Caches : answer' = [answer EXCEPT ![v] = [ids |-> {}, failed |-> TRUE, cache |-> loaded]]
  BY EmptyTypes DEF LoadCache, IInv, Types
<1>3. Goto(v, "listing") /\ pc[v] = "barrier"
      /\ UNCHANGED <<exists, rev, ctl, wanted, at, ahead, queue, writing, deleted, disk, recorded>>
  BY DEF LoadCache, core, store
<1>4. pc' \in [Tasks -> Places] /\ pc'[v] = "listing" /\ \A u \in Tasks : u # v => pc'[u] = pc[u]
  BY <1>1, <1>3, GotoFacts DEF IInv, Places
<1>5. answer' = [u \in Tasks |-> answer'[u]] /\ answer'[v] = [ids |-> {}, failed |-> TRUE, cache |-> loaded]
      /\ \A u \in Tasks : u # v => answer'[u] = answer[u]
  BY <1>1, <1>2 DEF IInv, Types
<1>6. answer'[v] \in Loaded /\ answer'[v].ids = {}
  BY <1>5 DEF Loaded
<1>7. Types'
  BY <1>3, <1>4, <1>5 DEF IInv, Types
<1>8. OthersStay(v)
  BY <1>3, <1>4, <1>5 DEF OthersStay
<1>9. StoreInv'
  BY <1>1, <1>3, <1>8, StoreQuiet DEF IInv
<1>10. TaskInv(v)'
  BY <1>1, <1>3, <1>4, <1>6 DEF IInv, TaskInv, VisitInv, Current, NothingRecorded
<1> QED BY <1>1, <1>3, <1>7, <1>8, <1>9, <1>10, Quiet

LEMMA ListAtStartInv == ASSUME TasksOK, IInv, NEW v \in Visits, ListAtStart(v) PROVE IInv'
<1>1. v \in Tasks /\ v \notin Lists \cup Statuses \cup Ops \cup Sources
  BY Sorts
<1> DEFINE e == at[v].source
           x == [ids |-> exists[e], failed |-> FALSE, cache |-> Reconcile(answer[v].cache, e, exists[e])]
<1>2. Goto(v, "answered") /\ pc[v] = "listing"
      /\ UNCHANGED <<exists, rev, ctl, wanted, at, ahead, queue, writing, deleted, disk, recorded>>
      /\ (answer' = answer \/ answer' = [answer EXCEPT ![v] = x])
  BY <1>1 DEF ListAtStart, core, store, IInv, Types
<1>3. /\ e \in Sources /\ answer[v] \in Loaded /\ \A s \in answer[v].ids : rev[e][s] > 0
  BY <1>1, <1>2 DEF IInv, TaskInv, VisitInv
<1>4. exists[e] \in SUBSET Servers /\ \A s \in exists[e] : rev[e][s] > 0
  BY <1>3 DEF IInv, Types, CoreInv
<1>5. x \in Loaded /\ x.ids = exists[e]
  <2>1. Reconcile(answer[v].cache, e, exists[e]) \in Caches
    BY <1>3, ReconcileType DEF Loaded
  <2> QED BY <1>4, <2>1 DEF Loaded
<1> HIDE DEF x
<1>6. pc' \in [Tasks -> Places] /\ pc'[v] = "answered" /\ \A u \in Tasks : u # v => pc'[u] = pc[u]
  BY <1>1, <1>2, GotoFacts DEF IInv, Places
<1>7. answer' = [u \in Tasks |-> answer'[u]] /\ answer'[v] \in {answer[v], x}
      /\ \A u \in Tasks : u # v => answer'[u] = answer[u]
  BY <1>1, <1>2 DEF IInv, Types
<1>8. Types'
  BY <1>2, <1>6, <1>7 DEF IInv, Types
<1>9. OthersStay(v)
  BY <1>2, <1>6, <1>7 DEF OthersStay
<1>10. StoreInv'
  BY <1>1, <1>2, <1>9, StoreQuiet DEF IInv
<1>11. answer'[v] \in Loaded /\ \A s \in answer'[v].ids : rev'[at'[v].source][s] > 0
  BY <1>2, <1>3, <1>4, <1>5, <1>7
<1>12. TaskInv(v)'
  BY <1>1, <1>2, <1>6, <1>11 DEF IInv, TaskInv, VisitInv, Current, NothingRecorded
<1> QED BY <1>1, <1>2, <1>8, <1>9, <1>10, <1>12, Quiet

LEMMA ListAtCoreInv == ASSUME TasksOK, IInv, NEW l \in Lists, ListAtCore(l) PROVE IInv'
<1>1. l \in Tasks /\ l \notin Visits \cup Statuses \cup Ops \cup Sources
  BY Sorts
<1>2. Goto(l, "answered") /\ pc[l] = "listing" /\ answer' = [answer EXCEPT ![l] = exists[at[l].source]]
      /\ UNCHANGED <<exists, rev, ctl, wanted, at, ahead, queue, writing, deleted, disk, recorded>>
  BY DEF ListAtCore, core, store
<1>3. at[l].source \in Sources
  BY <1>1, <1>2 DEF IInv, TaskInv, ListInv
<1>4. exists[at[l].source] \in SUBSET Servers
      /\ \A s \in exists[at[l].source] : rev[at[l].source][s] > 0
  BY <1>3 DEF IInv, Types, CoreInv
<1>5. pc' \in [Tasks -> Places] /\ pc'[l] = "answered" /\ \A u \in Tasks : u # l => pc'[u] = pc[u]
  BY <1>1, <1>2, GotoFacts DEF IInv, Places
<1>6. answer' = [u \in Tasks |-> answer'[u]] /\ answer'[l] = exists[at[l].source]
      /\ \A u \in Tasks : u # l => answer'[u] = answer[u]
  BY <1>1, <1>2 DEF IInv, Types
<1>7. Types'
  BY <1>2, <1>5, <1>6 DEF IInv, Types
<1>8. OthersStay(l)
  BY <1>2, <1>5, <1>6 DEF OthersStay
<1>9. StoreInv'
  BY <1>1, <1>2, <1>8, StoreQuiet DEF IInv
<1>10. ListInv(l)'
  <2>1. ListApplies(l)' => ctl.source = at[l].source
    BY <1>2 DEF ListApplies, Current
  <2>2. \A s \in Servers : Owed(s)' => s \in exists[ctl.source]
    BY <1>2 DEF Owed
  <2> QED BY <1>2, <1>3, <1>4, <1>5, <1>6, <2>1, <2>2 DEF ListInv
<1>11. TaskInv(l)'
  BY <1>1, <1>2, <1>10 DEF IInv, TaskInv
<1> QED BY <1>1, <1>2, <1>7, <1>8, <1>9, <1>11, Quiet

LEMMA StatusAtCoreInv == ASSUME TasksOK, IInv, NEW q \in Statuses, StatusAtCore(q) PROVE IInv'
<1>1. q \in Tasks /\ q \notin Visits \cup Lists \cup Ops \cup Sources
  BY Sorts
<1>2. Goto(q, "answered") /\ pc[q] = "asking"
      /\ answer' = [answer EXCEPT ![q] = rev[at[q].source][at[q].server]]
      /\ UNCHANGED <<exists, rev, ctl, wanted, at, ahead, queue, writing, deleted, disk, recorded>>
  BY DEF StatusAtCore, core, store
<1>3. at[q].source \in Sources /\ at[q].server \in Servers
  BY <1>1, <1>2 DEF IInv, TaskInv, StatusInv
<1>4. pc' \in [Tasks -> Places] /\ pc'[q] = "answered" /\ \A u \in Tasks : u # q => pc'[u] = pc[u]
  BY <1>1, <1>2, GotoFacts DEF IInv, Places
<1>5. answer' = [u \in Tasks |-> answer'[u]] /\ answer'[q] \in Nat
      /\ \A u \in Tasks : u # q => answer'[u] = answer[u]
  <2>1. rev[at[q].source][at[q].server] \in Nat
    BY <1>3 DEF IInv, Types
  <2> DEFINE r == rev[at[q].source][at[q].server]
  <2>2. answer' = [answer EXCEPT ![q] = r]
    BY <1>2
  <2> HIDE DEF r
  <2>3. answer'[q] = r /\ answer' = [u \in Tasks |-> answer'[u]]
        /\ \A u \in Tasks : u # q => answer'[u] = answer[u]
    BY <1>1, <2>2 DEF IInv, Types
  <2> QED BY <2>1, <2>3 DEF r
<1>6. Types'
  BY <1>2, <1>4, <1>5 DEF IInv, Types
<1>7. OthersStay(q)
  BY <1>2, <1>4, <1>5 DEF OthersStay
<1>8. StoreInv'
  BY <1>1, <1>2, <1>7, StoreQuiet DEF IInv
<1>9. TaskInv(q)'
  BY <1>1, <1>2, <1>3, <1>4, <1>5 DEF IInv, TaskInv, StatusInv
<1> QED BY <1>1, <1>2, <1>4, <1>6, <1>7, <1>8, <1>9, Quiet

LEMMA FinishQuiet ==
  ASSUME TasksOK, IInv, NEW p \in Ops, Finish(p),
         UNCHANGED <<exists, rev, ctl, wanted, ahead, queue, writing, deleted, disk, recorded>>
  PROVE  IInv'
<1>1. p \in Tasks /\ p \notin Visits \cup Lists \cup Statuses \cup Sources
  BY Sorts
<1>2. /\ OthersStay(p) /\ pc' \in [Tasks -> Places] /\ at' \in [Tasks -> Captured]
      /\ answer' = [u \in Tasks |-> answer'[u]] /\ pc'[p] = "done" /\ at'[p].sourceRevision = 0
  BY <1>1, FinishFacts DEF IInv
<1>3. Types'
  BY <1>2 DEF IInv, Types
<1>4. StoreInv'
  BY <1>1, <1>2, StoreQuiet DEF IInv
<1>5. TaskInv(p)'
  BY <1>1, <1>2, <1>3, DoneInv DEF Types
<1> QED BY <1>1, <1>2, <1>3, <1>4, <1>5, Quiet

LEMMA BeginInv == ASSUME TasksOK, IInv, NEW p \in Ops, Begin(p) PROVE IInv'
<1>1. p \in Tasks /\ p \notin Visits \cup Lists \cup Statuses \cup Sources
  BY Sorts
<1>2. PICK s \in Servers, kind \in OpKinds :
        at' = [at EXCEPT ![p] = [Nothing EXCEPT !.source = ctl.source,
                 !.sourceRevision = ctl.sourceRevision, !.server = s, !.kind = kind]]
  BY DEF Begin, OpKinds
<1>3. Goto(p, "opening") /\ ctl.source # None
      /\ UNCHANGED <<exists, rev, ctl, wanted, answer, ahead, queue, writing, deleted, disk, recorded>>
  BY DEF Begin, core, store
<1> DEFINE x == [Nothing EXCEPT !.source = ctl.source,
                   !.sourceRevision = ctl.sourceRevision, !.server = s, !.kind = kind]
<1>4. ctl.source \in Sources /\ ctl.sourceRevision \in Nat
  BY <1>3 DEF IInv, Types, Ctls, SourceIds
<1>5. x \in Captured /\ x.source \in Sources /\ x.server \in Servers /\ x.kind \in OpKinds
      /\ x.sourceRevision = ctl.sourceRevision
  BY <1>4 DEF Nothing, Captured
<1>6. at' = [at EXCEPT ![p] = x]
  BY <1>2
<1> HIDE DEF x
<1>7. pc' \in [Tasks -> Places] /\ pc'[p] = "opening" /\ \A u \in Tasks : u # p => pc'[u] = pc[u]
  BY <1>1, <1>3, GotoFacts DEF IInv, Places
<1>8. at' \in [Tasks -> Captured] /\ at'[p] = x /\ \A u \in Tasks : u # p => at'[u] = at[u]
  BY <1>1, <1>5, <1>6 DEF IInv, Types
<1>9. Types'
  BY <1>3, <1>7, <1>8 DEF IInv, Types
<1>10. OthersStay(p)
  BY <1>3, <1>7, <1>8 DEF OthersStay
<1>11. StoreInv'
  BY <1>1, <1>3, <1>10, StoreQuiet DEF IInv
<1>12. TaskInv(p)'
  BY <1>1, <1>3, <1>4, <1>5, <1>7, <1>8 DEF TaskInv, OpInv
<1> QED BY <1>1, <1>3, <1>9, <1>10, <1>11, <1>12, Quiet

LEMMA OpenedInv == ASSUME TasksOK, IInv, NEW p \in Ops, Opened(p) PROVE IInv'
<1>1. p \in Tasks /\ p \notin Visits \cup Lists \cup Statuses \cup Sources
  BY Sorts
<1>2. Goto(p, "running") /\ pc[p] = "opening"
      /\ UNCHANGED <<exists, rev, ctl, wanted, at, answer, ahead, queue, writing, deleted, disk, recorded>>
  BY DEF Opened, core, store
<1>3. pc' \in [Tasks -> Places] /\ pc'[p] = "running" /\ \A u \in Tasks : u # p => pc'[u] = pc[u]
  BY <1>1, <1>2, GotoFacts DEF IInv, Places
<1>4. Types'
  BY <1>2, <1>3 DEF IInv, Types
<1>5. OthersStay(p)
  BY <1>2, <1>3 DEF OthersStay
<1>6. StoreInv'
  BY <1>1, <1>2, <1>5, StoreQuiet DEF IInv
<1>7. TaskInv(p)'
  BY <1>1, <1>2, <1>3 DEF IInv, TaskInv, OpInv
<1> QED BY <1>1, <1>2, <1>4, <1>5, <1>6, <1>7, Quiet

LEMMA FailAtCoreInv == ASSUME TasksOK, IInv, NEW p \in Ops, FailAtCore(p) PROVE IInv'
<1>1. p \in Tasks /\ p \notin Visits \cup Lists \cup Statuses \cup Sources
  BY Sorts
<1>2. pc[p] = "running"
      /\ UNCHANGED <<exists, rev, ctl, wanted, ahead, queue, writing, deleted, disk, recorded>>
  BY DEF FailAtCore, core, store
<1>3. CASE Finish(p)
  BY <1>2, <1>3, FinishQuiet
<1>4. CASE /\ at[p].kind = "change" /\ Goto(p, "answered") /\ UNCHANGED at
           /\ answer' = [answer EXCEPT ![p] = rev[at[p].source][at[p].server]]
  <2>1. at[p].source \in Sources /\ at[p].server \in Servers
    BY <1>1, <1>2 DEF IInv, TaskInv, OpInv
  <2> DEFINE r == rev[at[p].source][at[p].server]
  <2>2. r \in Nat
    BY <2>1 DEF IInv, Types
  <2>3. answer' = [answer EXCEPT ![p] = r]
    BY <1>4
  <2> HIDE DEF r
  <2>4. answer' = [u \in Tasks |-> answer'[u]] /\ answer'[p] = r
        /\ \A u \in Tasks : u # p => answer'[u] = answer[u]
    BY <1>1, <2>3 DEF IInv, Types
  <2>5. pc' \in [Tasks -> Places] /\ pc'[p] = "answered" /\ \A u \in Tasks : u # p => pc'[u] = pc[u]
    BY <1>1, <1>4, GotoFacts DEF IInv, Places
  <2>6. Types'
    BY <1>2, <1>4, <2>4, <2>5 DEF IInv, Types
  <2>7. OthersStay(p)
    BY <1>4, <2>4, <2>5 DEF OthersStay
  <2>8. StoreInv'
    BY <1>1, <1>2, <2>7, StoreQuiet DEF IInv
  <2>9. TaskInv(p)'
    BY <1>1, <1>2, <1>4, <2>1, <2>2, <2>4, <2>5 DEF IInv, TaskInv, OpInv, OpKinds
  <2> QED BY <1>1, <1>2, <2>6, <2>7, <2>8, <2>9, Quiet
<1> QED BY <1>3, <1>4 DEF FailAtCore

LEMMA OpEndsInv == ASSUME TasksOK, IInv, NEW p \in Ops, GiveUp(p) \/ Release(p) PROVE IInv'
BY FinishQuiet DEF GiveUp, Release, core, store

-----------------------------------------------------------------------------
(* The queue of writes, and the deletion of an endpoint.                   *)

\* The list and the core are as they are when only the store moves.
LEMMA StoreOnly ==
  ASSUME IInv, UNCHANGED <<ctl, exists, rev, recorded, at, answer>>,
         \A t \in Tasks : t \notin Sources => pc'[t] = pc[t],
         TasksOK, Types', StoreInv'
  PROVE  IInv'
<1>1. CoreInv' /\ ListedInv'
  BY DEF IInv, CoreInv, ListedInv, OwnSourceOnly, CreatedStaysListed, NothingRecorded
<1>2. \A q \in Statuses : pc'[q] = pc[q]
  BY Sorts
<1>3. SpinnersHaveRequests'
  BY <1>2 DEF IInv, SpinnersHaveRequests, Current
<1>4. ASSUME NEW t \in Tasks PROVE TaskInv(t)'
  <2>1. TaskInv(t)
    BY DEF IInv
  <2>2. t \in Visits => VisitInv(t)'
    BY <2>1, Sorts DEF TaskInv, VisitInv, Current, NothingRecorded
  <2>3. t \in Lists => ListInv(t)'
    BY <2>1, Sorts DEF TaskInv, ListInv, ListApplies, Current, Owed
  <2>4. t \in Statuses => StatusInv(t)'
    BY <2>1, Sorts DEF TaskInv, StatusInv
  <2>5. t \in Ops => OpInv(t)'
    BY <2>1, Sorts DEF TaskInv, OpInv
  <2> QED BY <2>1, <2>2, <2>3, <2>4, <2>5 DEF TaskInv
<1> QED BY <1>1, <1>3, <1>4 DEF IInv

LEMMA BeginWriteInv == ASSUME TasksOK, IInv, BeginWrite PROVE IInv'
<1>1. queue # <<>> /\ writing = None
      /\ UNCHANGED <<exists, rev, ctl, wanted, pc, at, answer, ahead, queue, deleted, disk, recorded>>
      /\ writing' = IF Head(queue).kind = "write" THEN ToWrite(Head(queue)) ELSE Filtered(disk)
  BY DEF BeginWrite, core, tasks
<1>2. Head(queue) \in Items /\ disk \in Caches
  BY <1>1 DEF IInv, Types
<1>3. PICK c \in Caches : writing' = Filtered(c)
  <2>1. Head(queue).kind = "write" => Head(queue).cache \in Caches
    BY <1>2 DEF Items
  <2> QED BY <1>1, <1>2, <2>1 DEF ToWrite
<1>4. writing' \in Caches /\ \A e \in Sources : e \in deleted => writing'[e] = None
  BY <1>3, FilteredType
<1>5. Types'
  BY <1>1, <1>4 DEF IInv, Types
<1>6. StoreInv'
  <2>1. Head(queue).kind = "cleanup" => Head(queue).endpoint \in deleted
    <3>1. queue \in Seq(Items)
      BY DEF IInv, Types
    <3>2. 1 \in 1..Len(queue) /\ Head(queue) = queue[1]
      BY <1>1, <3>1
    <3> QED BY <3>2 DEF IInv, StoreInv
  <2>2. deleted \subseteq Sources
    BY DEF IInv, Types
  <2> QED BY <1>1, <1>4, <2>1, <2>2 DEF IInv, StoreInv
<1> QED BY <1>1, <1>5, <1>6, StoreOnly

LEMMA EndWriteInv == ASSUME TasksOK, IInv, EndWrite PROVE IInv'
<1>1. PICK ok \in BOOLEAN :
        /\ disk' = IF ok THEN writing ELSE disk
        /\ ahead' = Released(ok)
        /\ pc' = [t \in Tasks |-> IF Head(queue).kind # "write" /\ Head(queue).endpoint = t
                                  THEN IF ok THEN "cleaned" ELSE "done" ELSE pc[t]]
  BY DEF EndWrite
<1>2. writing # None /\ writing' = None /\ queue' = Tail(queue)
      /\ UNCHANGED <<exists, rev, ctl, wanted, at, answer, deleted, recorded>>
  BY DEF EndWrite, core
<1>3. queue # <<>> /\ writing \in Caches /\ queue \in Seq(Items)
  BY <1>2 DEF IInv, Types, StoreInv
<1>4. Head(queue) \in Items /\ queue' \in Seq(Items) /\ Len(queue') = Len(queue) - 1
      /\ \A i \in 1..Len(queue') : i + 1 \in 1..Len(queue) /\ queue'[i] = queue[i + 1]
  BY <1>2, <1>3
<1>5. Head(queue).kind # "write" => Head(queue).kind = "cleanup" /\ Head(queue).endpoint \in Sources \ {Local}
  BY <1>4 DEF Items
<1>6. ahead' \in [Tasks -> Nat] /\ \A t \in Tasks : ahead'[t] <= Len(queue')
  <2>1. ASSUME NEW t \in Tasks PROVE ahead[t] \in Nat /\ ahead[t] <= Len(queue) /\ Len(queue) \in Nat
    BY <1>3 DEF IInv, Types
  <2> QED BY <1>1, <1>4, <2>1 DEF Released
<1>7. pc' \in [Tasks -> Places]
  BY <1>1 DEF IInv, Types, Places
<1>8. Types'
  BY <1>1, <1>2, <1>3, <1>4, <1>6, <1>7 DEF IInv, Types
<1>9. \A t \in Tasks : t \notin Sources => pc'[t] = pc[t]
  BY <1>1, <1>5
<1>10. StoreInv'
  <2>1. \A i \in 1..Len(queue') : queue'[i].kind = "cleanup" => queue'[i].endpoint \in deleted'
    BY <1>2, <1>4 DEF IInv, StoreInv
  <2>2. ASSUME NEW e \in Sources \ {Local}
        PROVE  /\ pc'[e] \in {"barrier", "cleaned"} => e \in deleted
               /\ pc'[e] = "cleaned" => disk'[e] = None
    <3>1. e \in Tasks
      BY DEF Tasks
    <3>2. CASE Head(queue).kind # "write" /\ Head(queue).endpoint = e
      <4>1. Head(queue).kind = "cleanup" /\ writing[e] = None /\ e \in deleted
        BY <1>2, <1>3, <1>5, <3>2 DEF IInv, StoreInv
      <4> QED BY <1>1, <3>1, <3>2, <4>1
    <3>3. CASE ~(Head(queue).kind # "write" /\ Head(queue).endpoint = e)
      BY <1>1, <1>2, <3>1, <3>3 DEF IInv, StoreInv
    <3> QED BY <3>2, <3>3
  <2> QED BY <1>2, <2>1, <2>2 DEF StoreInv
<1> QED BY <1>2, <1>8, <1>9, <1>10, StoreOnly

LEMMA CleanupInv == ASSUME TasksOK, IInv, NEW e \in Sources \ {Local}, Cleanup(e) PROVE IInv'
<1> DEFINE x == [kind |-> "cleanup", endpoint |-> e]
<1>1. pc[e] = "barrier" /\ Goto(e, "cleaning") /\ queue' = Append(queue, x)
      /\ UNCHANGED <<exists, rev, ctl, wanted, at, answer, ahead, writing, deleted, disk, recorded>>
  BY DEF Cleanup, core
<1>2. e \in Tasks /\ e \in deleted
  BY <1>1 DEF Tasks, IInv, StoreInv
<1>3. pc' \in [Tasks -> Places] /\ pc'[e] = "cleaning" /\ \A u \in Tasks : u # e => pc'[u] = pc[u]
  BY <1>1, <1>2, GotoFacts DEF IInv, Places
<1>4. x \in Items /\ x.endpoint = e /\ queue \in Seq(Items)
  BY DEF Items, IInv, Types
<1> HIDE DEF x
<1>5. queue' \in Seq(Items) /\ Len(queue') = Len(queue) + 1 /\ Len(queue) \in Nat
      /\ queue'[Len(queue) + 1] = x /\ (\A i \in 1..Len(queue) : queue'[i] = queue[i])
      /\ queue' # <<>> /\ (queue # <<>> => Head(queue') = Head(queue))
  BY <1>1, <1>4
<1>6. \A u \in Tasks : ahead'[u] <= Len(queue')
  BY <1>1, <1>5 DEF IInv, Types
<1>7. Types'
  BY <1>1, <1>3, <1>5, <1>6 DEF IInv, Types
<1>8. StoreInv'
  <2>1. \A i \in 1..Len(queue') : queue'[i].kind = "cleanup" => queue'[i].endpoint \in deleted'
    BY <1>1, <1>2, <1>4, <1>5 DEF IInv, StoreInv
  <2>2. \A f \in Sources \ {Local} : f \in Tasks
    BY DEF Tasks
  <2> QED BY <1>1, <1>3, <1>5, <2>1, <2>2 DEF IInv, StoreInv
<1>9. \A t \in Tasks : t \notin Sources => pc'[t] = pc[t]
  BY <1>3
<1> QED BY <1>1, <1>7, <1>8, <1>9, StoreOnly

-----------------------------------------------------------------------------
(* A visit ends, and begins.                                               *)

\* Nothing of the old visit is left.
Left(e) ==
  /\ ctl' \in Ctls /\ ctl'.source = e /\ ctl'.sourceRevision = ctl.sourceRevision + 1
  /\ ctl'.activeList = None /\ ctl'.manifests = {} /\ ctl'.pending = {}

LEMMA LeftFacts ==
  ASSUME IInv, NEW e \in SourceIds, ctl' = Reset(ctl, e)
  PROVE  Left(e)
BY ResetFacts DEF IInv, Types, Left

LEMMA LeftInv ==
  ASSUME TasksOK, IInv, NEW e \in SourceIds, Left(e), NothingRecorded', UNCHANGED <<exists, rev>>
  PROVE  CoreInv' /\ ListedInv' /\ SpinnersHaveRequests' /\ \A t \in Tasks : Calm(t)
<1>1. CoreInv'
  BY DEF IInv, CoreInv
<1>2. ListedInv'
  BY DEF Left, ListedInv, OwnSourceOnly, CreatedStaysListed, NothingRecorded
<1>3. SpinnersHaveRequests'
  BY DEF Left, SpinnersHaveRequests
<1>4. \A t \in Tasks : Calm(t)
  BY Revisions DEF IInv, Left, Calm
<1> QED BY <1>1, <1>2, <1>3, <1>4

LEMMA TasksCalm ==
  ASSUME TasksOK, IInv, Types', UNCHANGED <<pc, at, answer>>, NEW t \in Tasks, \A u \in Tasks : Calm(u),
         ctl'.activeList = None
  PROVE  TaskInv(t)'
<1>1. TaskInv(t) /\ Calm(t)
  BY DEF IInv
<1>2. ctl'.sourceRevision \in Nat
  BY DEF Types, Ctls
<1>3. at'[t].sourceRevision <= ctl'.sourceRevision
  BY <1>1, <1>2, Revisions DEF IInv, TaskInv, Calm
<1>4. t \in Visits => VisitInv(t)'
  BY <1>1, VisitStays DEF IInv, TaskInv
<1>5. t \in Lists => ListInv(t)'
  <2>1. t # None
    BY DEF TasksOK
  <2> QED BY <1>1, <2>1 DEF IInv, TaskInv, ListInv, ListApplies, Calm
<1>6. t \in Statuses => StatusInv(t)'
  BY <1>1 DEF TaskInv, StatusInv
<1>7. t \in Ops => OpInv(t)'
  <2> SUFFICES ASSUME t \in Ops PROVE OpInv(t)'
    OBVIOUS
  <2>1. OpInv(t)
    BY <1>1 DEF TaskInv
  <2> QED BY <1>1, <2>1 DEF OpInv, Calm
<1> QED BY <1>3, <1>4, <1>5, <1>6, <1>7 DEF TaskInv

LEMMA SelectInv == ASSUME TasksOK, IInv, NEW e \in Sources, Select(e) PROVE IInv'
<1>1. wanted' = e /\ ctl' = Reset(ctl, None) /\ recorded' = [s \in Servers |-> "nothing"]
      /\ UNCHANGED <<exists, rev, pc, at, answer, ahead, queue, writing, deleted, disk>>
  BY DEF Select, core, tasks, store
<1>2. Left(None)
  BY <1>1, LeftFacts DEF SourceIds
<1>3. NothingRecorded'
  BY <1>1 DEF NothingRecorded
<1>4. CoreInv' /\ ListedInv' /\ SpinnersHaveRequests' /\ (\A t \in Tasks : Calm(t)) /\ ctl'.activeList = None
  BY <1>1, <1>2, <1>3, LeftInv DEF Left, SourceIds
<1>5. Types'
  BY <1>1, <1>2 DEF IInv, Types, Left
<1>6. StoreInv'
  BY <1>1 DEF IInv, StoreInv
<1> QED BY <1>1, <1>4, <1>5, <1>6, TasksCalm DEF IInv

LEMMA StartInv == ASSUME TasksOK, IInv, NEW v \in Visits, Start(v) PROVE IInv'
<1> DEFINE c == Reset(ctl, wanted)
           x == [Nothing EXCEPT !.source = wanted, !.sourceRevision = c.sourceRevision,
                                !.revision = c.revision]
<1>1. wanted # None /\ ctl.source = None /\ ctl' = c /\ at' = [at EXCEPT ![v] = x] /\ wanted' = None
      /\ AwaitQueue(v, Len(queue)) /\ Goto(v, "barrier")
      /\ UNCHANGED <<exists, rev, answer, queue, writing, deleted, disk, recorded>>
  BY DEF Start, core, store
<1>2. v \in Tasks /\ v \notin Lists \cup Statuses \cup Ops \cup Sources
  BY Sorts
<1>3. wanted \in Sources /\ wanted \in SourceIds
  BY <1>1 DEF IInv, Types, SourceIds
<1>4. Left(wanted)
  BY <1>1, <1>3, LeftFacts
<1>5. c.sourceRevision \in Nat /\ c.revision \in Nat
  BY <1>1, <1>4 DEF Left, Ctls
<1>6. x \in Captured /\ x.source = wanted /\ x.sourceRevision = c.sourceRevision /\ x.revision = c.revision
  BY <1>3, <1>5 DEF Nothing, Captured
<1>7. NothingRecorded'
  BY <1>1 DEF IInv, ListedInv, NothingRecorded
<1>8. CoreInv' /\ ListedInv' /\ SpinnersHaveRequests' /\ (\A t \in Tasks : Calm(t))
  BY <1>1, <1>3, <1>4, <1>7, LeftInv
<1> HIDE DEF x, c
<1>9. pc' \in [Tasks -> Places] /\ pc'[v] = "barrier" /\ \A u \in Tasks : u # v => pc'[u] = pc[u]
  BY <1>1, <1>2, GotoFacts DEF IInv, Places
<1>10. at' \in [Tasks -> Captured] /\ at'[v] = x /\ \A u \in Tasks : u # v => at'[u] = at[u]
  BY <1>1, <1>2, <1>6 DEF IInv, Types
<1>11. Len(queue) \in Nat
  BY DEF IInv, Types
<1>12. ahead' \in [Tasks -> Nat] /\ \A t \in Tasks : ahead'[t] <= Len(queue)
  BY <1>1, <1>2, <1>11, AwaitFacts DEF IInv
<1>13. Types'
  BY <1>1, <1>4, <1>9, <1>10, <1>12 DEF IInv, Types, Left
<1>14. OthersStay(v)
  BY <1>1, <1>9, <1>10 DEF OthersStay
<1>15. StoreInv'
  BY <1>1, <1>2, <1>14, StoreQuiet DEF IInv
<1>16. TaskInv(v)'
  BY <1>1, <1>2, <1>3, <1>5, <1>6, <1>7, <1>9, <1>10 DEF TaskInv, VisitInv
<1> QED BY <1>2, <1>8, <1>13, <1>14, <1>15, <1>16, Combine

LEMMA PrepareInv == ASSUME TasksOK, IInv, NEW e \in Sources \ {Local}, Prepare(e) PROVE IInv'
<1>1. deleted' = deleted \cup {e} /\ Goto(e, "barrier") /\ AwaitQueue(e, Len(queue))
      /\ pc[e] = "idle"
      /\ UNCHANGED <<exists, rev, wanted, at, answer, queue, writing, disk>>
  BY DEF Prepare, core
<1>2. e \in Tasks /\ e \notin Visits \cup Lists \cup Statuses \cup Ops
  BY Sorts
<1>3. pc' \in [Tasks -> Places] /\ pc'[e] = "barrier" /\ \A u \in Tasks : u # e => pc'[u] = pc[u]
  BY <1>1, <1>2, GotoFacts DEF IInv, Places
<1>4. Len(queue) \in Nat
  BY DEF IInv, Types
<1>5. ahead' \in [Tasks -> Nat] /\ \A t \in Tasks : ahead'[t] <= Len(queue)
  BY <1>1, <1>2, <1>4, AwaitFacts DEF IInv
<1>6. StoreInv'
  <2>1. \A f \in Sources \ {Local} : f \in Tasks
    BY DEF Tasks
  <2> QED BY <1>1, <1>3, <2>1 DEF IInv, StoreInv
<1>7. OthersStay(e)
  BY <1>1, <1>3 DEF OthersStay
<1>8. CASE UNCHANGED <<ctl, recorded>>
  <2>1. Types'
    BY <1>1, <1>3, <1>5, <1>8 DEF IInv, Types
  <2>2. TaskInv(e)'
    BY <1>1, <1>2, <1>8 DEF IInv, TaskInv
  <2> QED BY <1>1, <1>2, <1>6, <1>7, <1>8, <2>1, <2>2, Quiet
<1>9. CASE ctl' = Reset(ctl, None) /\ recorded' = [s \in Servers |-> "nothing"]
  <2>1. Left(None)
    BY <1>9, LeftFacts DEF SourceIds
  <2>2. NothingRecorded'
    BY <1>9 DEF NothingRecorded
  <2>3. CoreInv' /\ ListedInv' /\ SpinnersHaveRequests' /\ (\A t \in Tasks : Calm(t))
    BY <1>1, <2>1, <2>2, LeftInv DEF SourceIds
  <2>4. Types'
    BY <1>1, <1>3, <1>5, <1>9, <2>1 DEF IInv, Types, Left
  <2>5. at[e].sourceRevision <= ctl.sourceRevision
    BY <1>2 DEF IInv, TaskInv
  <2>6. TaskInv(e)'
    BY <1>1, <1>2, <2>1, <2>5, Revisions DEF IInv, TaskInv, Left
  <2> QED BY <1>2, <1>6, <1>7, <2>3, <2>4, <2>6, Combine
<1> QED BY <1>8, <1>9 DEF Prepare

-----------------------------------------------------------------------------
(* What the core told arrives at the list.                                 *)

LEMMA EnqueueFacts ==
  ASSUME Types, NEW c \in Caches, Enqueue(c)
  PROVE  /\ queue' \in Seq(Items) /\ Len(queue') = Len(queue) + 1
         /\ Len(queue) \in Nat /\ Len(queue') \in Nat
         /\ \E d \in Caches : queue' = Append(queue, [kind |-> "write", cache |-> d])
<1> DEFINE x == [kind |-> "write", cache |-> c]
<1>1. x \in Items /\ queue \in Seq(Items)
  BY DEF Items, Types
<1>2. queue' = Append(queue, x)
  BY DEF Enqueue
<1>3. \E d \in Caches : queue' = Append(queue, [kind |-> "write", cache |-> d])
  BY <1>2
<1> HIDE DEF x
<1>4. queue' \in Seq(Items) /\ Len(queue') = Len(queue) + 1 /\ Len(queue) \in Nat /\ Len(queue') \in Nat
  BY <1>1, <1>2
<1> QED BY <1>3, <1>4

\* The queue grows by a write, or stays; who does not wait for it need not.
LEMMA QueueGrows ==
  ASSUME Types, UNCHANGED ahead,
         \/ queue' = queue
         \/ \E c \in Caches : Enqueue(c)
  PROVE  /\ queue' \in Seq(Items) /\ \A t \in Tasks : ahead'[t] <= Len(queue')
         /\ queue' = queue \/ \E d \in Caches : queue' = Append(queue, [kind |-> "write", cache |-> d])
<1>1. CASE queue' = queue
  BY <1>1 DEF Types
<1>2. ASSUME NEW c \in Caches, Enqueue(c)
      PROVE  /\ queue' \in Seq(Items) /\ \A t \in Tasks : ahead'[t] <= Len(queue')
             /\ \E d \in Caches : queue' = Append(queue, [kind |-> "write", cache |-> d])
  <2>1. /\ queue' \in Seq(Items) /\ Len(queue') = Len(queue) + 1 /\ Len(queue) \in Nat
        /\ \E d \in Caches : queue' = Append(queue, [kind |-> "write", cache |-> d])
    BY <1>2, EnqueueFacts
  <2>2. ASSUME NEW t \in Tasks PROVE ahead'[t] <= Len(queue')
    <3>1. ahead[t] \in Nat /\ ahead[t] <= Len(queue)
      BY DEF Types
    <3> QED BY <2>1, <3>1
  <2> QED BY <2>1, <2>2
<1> QED BY <1>1, <1>2

LEMMA SpinnersStay ==
  ASSUME TasksOK, SpinnersHaveRequests, ctl'.pending \subseteq ctl.pending,
         \A s \in ctl'.pending : ctl'.statusIds[s] = ctl.statusIds[s],
         ctl'.source = ctl.source, ctl'.sourceRevision = ctl.sourceRevision,
         \A q \in Statuses : pc'[q] = pc[q] /\ at'[q] = at[q]
  PROVE  SpinnersHaveRequests'
BY DEF SpinnersHaveRequests, Current

LEMMA StartedFacts ==
  ASSUME IInv, NEW v \in Visits, v \in Tasks, pc[v] = "answered", Current(v), ctl' = Started(ctl, answer[v], v)
  PROVE  /\ ctl' \in Ctls /\ ctl'.activeList = ctl.activeList
         /\ ctl'.source = ctl.source /\ ctl'.sourceRevision = ctl.sourceRevision
         /\ ctl'.revision = ctl.revision /\ ctl'.pending = ctl.pending
         /\ ctl'.statusIds = ctl.statusIds /\ ctl'.manifestGeneration = ctl.manifestGeneration
         /\ ctl.source \in Sources
         /\ LET listed == {<<ctl.source, s>> : s \in answer[v].ids}
            IN IF at[v].revision = ctl.revision THEN ctl'.manifests = listed
               ELSE ctl'.manifests = listed \cup ctl.manifests
<1> DEFINE got == answer[v]
           listed == {<<ctl.source, s>> : s \in got.ids}
           merged == listed \cup ctl.manifests
           m == IF at[v].revision = ctl.revision THEN listed ELSE merged
           e == IF at[v].revision = ctl.revision THEN got.cache
                ELSE Reconcile(ctl.cache, ctl.source, Ids(merged, ctl.source))
<1>1. ctl.source \in Sources /\ got \in Loaded /\ ctl \in Ctls
  BY DEF IInv, TaskInv, VisitInv, Current, Types
<1>2. got.ids \subseteq Servers /\ got.cache \in Caches /\ ctl.manifests \in Manifests /\ ctl.cache \in Caches
  BY <1>1 DEF Loaded, Ctls
<1>3. m \in Manifests
  BY <1>1, <1>2 DEF Manifests
<1>4. e \in Caches
  BY <1>1, <1>2, ReconcileType
<1>5. ctl' = WithStartup(ctl, m, e)
  BY <1>1 DEF Started, WithStartup, Ctls
<1>6. m = (IF at[v].revision = ctl.revision THEN listed ELSE listed \cup ctl.manifests)
  OBVIOUS
<1> HIDE DEF m, e
<1>7. LET d == WithStartup(ctl, m, e)
      IN /\ d \in Ctls /\ d.activeList = ctl.activeList /\ d.manifests = m
         /\ d.source = ctl.source /\ d.sourceRevision = ctl.sourceRevision
         /\ d.revision = ctl.revision /\ d.pending = ctl.pending /\ d.statusIds = ctl.statusIds
         /\ d.manifestGeneration = ctl.manifestGeneration
  BY <1>1, <1>3, <1>4, StartupFields
<1> QED BY <1>1, <1>5, <1>6, <1>7

LEMMA FinishStartInv == ASSUME TasksOK, IInv, NEW v \in Visits, FinishStart(v) PROVE IInv'
<1>1. v \in Tasks /\ v \notin Lists \cup Statuses \cup Ops \cup Sources
  BY Sorts
<1>2. pc[v] = "answered" /\ Finish(v)
      /\ UNCHANGED <<exists, rev, wanted, ahead, writing, deleted, disk, recorded>>
  BY DEF FinishStart, core
<1>3. /\ OthersStay(v) /\ pc' \in [Tasks -> Places] /\ at' \in [Tasks -> Captured]
      /\ answer' = [u \in Tasks |-> answer'[u]] /\ pc'[v] = "done" /\ at'[v].sourceRevision = 0
  BY <1>1, <1>2, FinishFacts DEF IInv
<1>4. CASE UNCHANGED <<ctl, queue>>
  <2>1. Types'
    BY <1>2, <1>3, <1>4 DEF IInv, Types
  <2>2. StoreInv'
    BY <1>1, <1>2, <1>3, <1>4, StoreQuiet DEF IInv
  <2>3. TaskInv(v)'
    BY <1>1, <1>3, <2>1, DoneInv DEF Types
  <2> QED BY <1>1, <1>2, <1>3, <1>4, <2>1, <2>2, <2>3, Quiet
<1>5. CASE Current(v) /\ ctl' = Started(ctl, answer[v], v) /\ (Enqueue(ctl'.cache) \/ UNCHANGED queue)
  <2>1. /\ ctl' \in Ctls /\ ctl'.activeList = ctl.activeList
        /\ ctl'.source = ctl.source /\ ctl'.sourceRevision = ctl.sourceRevision
        /\ ctl'.revision = ctl.revision /\ ctl'.pending = ctl.pending
        /\ ctl'.statusIds = ctl.statusIds /\ ctl'.manifestGeneration = ctl.manifestGeneration
        /\ ctl.source \in Sources
    BY <1>1, <1>2, <1>5, StartedFacts
  <2>2. IF at[v].revision = ctl.revision THEN ctl'.manifests = {<<ctl.source, s>> : s \in answer[v].ids}
        ELSE ctl'.manifests = {<<ctl.source, s>> : s \in answer[v].ids} \cup ctl.manifests
    BY <1>1, <1>2, <1>5, StartedFacts
  <2>3. /\ queue' \in Seq(Items) /\ \A t \in Tasks : ahead'[t] <= Len(queue')
        /\ queue' = queue \/ \E d \in Caches : queue' = Append(queue, [kind |-> "write", cache |-> d])
    <3>1. ctl'.cache \in Caches
      BY <2>1 DEF Ctls
    <3> QED BY <1>2, <1>5, <3>1, QueueGrows DEF IInv
  <2>4. Types'
    BY <1>2, <1>3, <2>1, <2>3 DEF IInv, Types
  <2>5. StoreInv'
    <3>1. \A e \in Sources \ {Local} : pc'[e] = pc[e]
      BY <1>1, <1>3, Sorts DEF OthersStay
    <3> QED BY <1>2, <2>3, <3>1, StoreStays DEF IInv
  <2>6. Calm(v)
    BY <1>2, <2>1, Revisions DEF IInv, Calm, Owed, NothingRecorded
  <2>7. TaskInv(v)'
    BY <1>1, <1>3, <2>1, DoneInv
  <2>8. SpinnersHaveRequests'
    <3>1. \A q \in Statuses : pc'[q] = pc[q] /\ at'[q] = at[q]
      BY <1>1, <1>3, Sorts DEF OthersStay
    <3> QED BY <2>1, <3>1, SpinnersStay DEF IInv
  <2>9. VisitInv(v)
    BY <1>1 DEF IInv, TaskInv
  <2>10. \A m \in ctl'.manifests : m[1] = ctl'.source /\ rev[m[1]][m[2]] > 0
    <3>1. at[v].source = ctl.source
      BY <1>5 DEF Current
    <3>2. \A s \in answer[v].ids : rev[ctl.source][s] > 0
      BY <1>2, <2>9, <3>1 DEF VisitInv
    <3> QED BY <2>1, <2>2, <3>2 DEF IInv, ListedInv, OwnSourceOnly
  <2>11. CreatedStaysListed'
    <3>1. CASE at[v].revision = ctl.revision
      BY <1>2, <1>5, <2>9, <3>1 DEF VisitInv, NothingRecorded, CreatedStaysListed
    <3>2. CASE at[v].revision # ctl.revision
      BY <1>2, <2>1, <2>2, <3>2 DEF IInv, ListedInv, CreatedStaysListed
    <3> QED BY <3>1, <3>2
  <2>12. CoreInv' /\ ListedInv'
    BY <1>2, <2>1, <2>10, <2>11 DEF IInv, CoreInv, ListedInv, OwnSourceOnly, NothingRecorded
  <2> QED BY <1>1, <1>3, <2>4, <2>5, <2>6, <2>7, <2>8, <2>12, Combine
<1> QED BY <1>4, <1>5 DEF FinishStart

LEMMA RefreshListInv == ASSUME TasksOK, IInv, NEW l \in Lists, RefreshList(l) PROVE IInv'
<1> DEFINE x == [Nothing EXCEPT !.source = ctl.source, !.sourceRevision = ctl.sourceRevision,
                                !.revision = ctl.manifestGeneration]
           on == TRUE
<1>1. l \in Tasks /\ l \notin Visits \cup Statuses \cup Ops \cup Sources
  BY Sorts
<1>2. ctl' = WithSpinner(ctl, l, on) /\ at' = [at EXCEPT ![l] = x] /\ Goto(l, "listing")
      /\ ctl.source # None
      /\ UNCHANGED <<exists, rev, wanted, answer, ahead, queue, writing, deleted, disk, recorded>>
  BY DEF RefreshList, WithSpinner, core, store
<1>3. /\ ctl' \in Ctls /\ ctl'.activeList = l /\ ctl'.manifests = ctl.manifests
      /\ ctl'.source = ctl.source /\ ctl'.sourceRevision = ctl.sourceRevision
      /\ ctl'.revision = ctl.revision /\ ctl'.pending = ctl.pending /\ ctl'.statusIds = ctl.statusIds
  <2>1. on \in BOOLEAN /\ l \in ListIds /\ ctl \in Ctls
    BY DEF IInv, Types, ListIds
  <2> HIDE DEF on
  <2> QED BY <1>2, <2>1, SpinnerFields
<1>4. ctl.source \in Sources /\ ctl.sourceRevision \in Nat /\ ctl.manifestGeneration \in Nat
  BY <1>2 DEF IInv, Types, Ctls, SourceIds
<1>5. x \in Captured /\ x.source \in Sources /\ x.sourceRevision = ctl.sourceRevision
  BY <1>4 DEF Nothing, Captured
<1> HIDE DEF x
<1>6. pc' \in [Tasks -> Places] /\ pc'[l] = "listing" /\ \A u \in Tasks : u # l => pc'[u] = pc[u]
  BY <1>1, <1>2, GotoFacts DEF IInv, Places
<1>7. at' \in [Tasks -> Captured] /\ at'[l] = x /\ \A u \in Tasks : u # l => at'[u] = at[u]
  BY <1>1, <1>2, <1>5 DEF IInv, Types
<1>8. Types'
  BY <1>2, <1>3, <1>6, <1>7 DEF IInv, Types
<1>9. OthersStay(l)
  BY <1>2, <1>6, <1>7 DEF OthersStay
<1>10. StoreInv'
  BY <1>1, <1>2, <1>9, StoreQuiet DEF IInv
<1>11. Calm(l)
  <2>1. NothingRecorded => NothingRecorded'
    BY <1>2 DEF NothingRecorded
  <2>2. ctl'.revision >= ctl.revision
    BY <1>3, Revisions DEF IInv
  <2> QED BY <1>2, <1>3, <2>1, <2>2 DEF Calm
<1>12. TaskInv(l)'
  BY <1>1, <1>3, <1>4, <1>5, <1>6, <1>7 DEF TaskInv, ListInv
<1>13. CoreInv' /\ ListedInv'
  BY <1>2, <1>3 DEF IInv, CoreInv, ListedInv, OwnSourceOnly, CreatedStaysListed, NothingRecorded
<1>14. SpinnersHaveRequests'
  <2>1. \A q \in Statuses : pc'[q] = pc[q] /\ at'[q] = at[q]
    BY <1>1, <1>9, Sorts DEF OthersStay
  <2> QED BY <1>3, <2>1, SpinnersStay DEF IInv
<1> QED BY <1>1, <1>8, <1>9, <1>10, <1>11, <1>12, <1>13, <1>14, Combine

LEMMA AppliedFacts ==
  ASSUME IInv, NEW l \in Lists, l \in Tasks, pc[l] = "answered", ListApplies(l),
         LET c == [ctl EXCEPT !.activeList = None, !.loading = ctl.startupLoading]
         IN \/ ctl' = [c EXCEPT !.manifests = {<<c.source, s>> : s \in answer[l]},
                               !.cache = Reconcile(@, c.source, answer[l]), !.revision = @ + 1]
            \/ ctl' = c
  PROVE  /\ ctl' \in Ctls /\ ctl'.activeList = None /\ ctl.source \in Sources
         /\ ctl'.source = ctl.source /\ ctl'.sourceRevision = ctl.sourceRevision
         /\ ctl'.pending = ctl.pending /\ ctl'.statusIds = ctl.statusIds
         /\ \/ /\ ctl'.revision = ctl.revision + 1
               /\ ctl'.manifests = {<<ctl.source, s>> : s \in answer[l]}
            \/ ctl'.revision = ctl.revision /\ ctl'.manifests = ctl.manifests
<1> DEFINE b == ctl.startupLoading
           n == None
           c == WithSpinner(ctl, n, b)
           m == {<<c.source, s>> : s \in answer[l]}
           e == Reconcile(c.cache, c.source, answer[l])
           k == c.revision + 1
<1>1. ctl \in Ctls /\ b \in BOOLEAN /\ n \in ListIds /\ ctl.source \in Sources
      /\ answer[l] \in SUBSET Servers
  BY DEF IInv, Types, Ctls, ListIds, ListApplies, Current, TaskInv, ListInv
<1>2. ctl' = c \/ ctl' = WithList(c, m, e, k)
  BY DEF WithSpinner, WithList
<1> HIDE DEF b, n
<1>3. /\ c \in Ctls /\ c.activeList = n /\ c.manifests = ctl.manifests /\ c.cache = ctl.cache
      /\ c.source = ctl.source /\ c.sourceRevision = ctl.sourceRevision
      /\ c.revision = ctl.revision /\ c.pending = ctl.pending /\ c.statusIds = ctl.statusIds
  BY <1>1, SpinnerFields
<1> HIDE DEF c
<1>4. m \in Manifests /\ c.cache \in Caches /\ k \in Nat /\ c.source \in Sources
  BY <1>1, <1>3 DEF Manifests, Ctls
<1>5. e \in Caches
  BY <1>4, ReconcileType
<1> DEFINE d == WithList(c, m, e, k)
<1> HIDE DEF m, e, k
<1>6. /\ d \in Ctls /\ d.activeList = c.activeList /\ d.manifests = m
      /\ d.source = c.source /\ d.sourceRevision = c.sourceRevision
      /\ d.revision = k /\ d.pending = c.pending /\ d.statusIds = c.statusIds
  BY <1>3, <1>4, <1>5, ApplyFields
<1>7. ctl' = c \/ ctl' = d
  BY <1>2
<1> HIDE DEF d
<1>8. CASE ctl' = c
  BY <1>1, <1>3, <1>8 DEF n
<1>9. CASE ctl' = d
  BY <1>1, <1>3, <1>6, <1>9 DEF n, m, k
<1> QED BY <1>7, <1>8, <1>9

LEMMA FinishListInv == ASSUME TasksOK, IInv, NEW l \in Lists, FinishList(l) PROVE IInv'
<1>1. l \in Tasks /\ l \notin Visits \cup Statuses \cup Ops \cup Sources
  BY Sorts
<1>2. pc[l] = "answered" /\ Finish(l)
      /\ UNCHANGED <<exists, rev, wanted, ahead, writing, deleted, disk, recorded>>
  BY DEF FinishList, core
<1>3. /\ OthersStay(l) /\ pc' \in [Tasks -> Places] /\ at' \in [Tasks -> Captured]
      /\ answer' = [u \in Tasks |-> answer'[u]] /\ pc'[l] = "done" /\ at'[l].sourceRevision = 0
  BY <1>1, <1>2, FinishFacts DEF IInv
<1>4. CASE UNCHANGED <<ctl, queue>>
  <2>1. Types'
    BY <1>2, <1>3, <1>4 DEF IInv, Types
  <2>2. StoreInv'
    BY <1>1, <1>2, <1>3, <1>4, StoreQuiet DEF IInv
  <2>3. TaskInv(l)'
    BY <1>1, <1>3, <2>1, DoneInv DEF Types
  <2> QED BY <1>1, <1>2, <1>3, <1>4, <2>1, <2>2, <2>3, Quiet
<1>5. CASE /\ ListApplies(l)
           /\ LET c == [ctl EXCEPT !.activeList = None, !.loading = ctl.startupLoading]
              IN \/ ctl' = [c EXCEPT !.manifests = {<<c.source, s>> : s \in answer[l]},
                                    !.cache = Reconcile(@, c.source, answer[l]), !.revision = @ + 1]
                 \/ ctl' = c
           /\ Enqueue(ctl'.cache) \/ UNCHANGED queue
  <2>1. /\ ctl' \in Ctls /\ ctl'.activeList = None /\ ctl.source \in Sources
        /\ ctl'.source = ctl.source /\ ctl'.sourceRevision = ctl.sourceRevision
        /\ ctl'.pending = ctl.pending /\ ctl'.statusIds = ctl.statusIds
        /\ \/ /\ ctl'.revision = ctl.revision + 1
              /\ ctl'.manifests = {<<ctl.source, s>> : s \in answer[l]}
           \/ ctl'.revision = ctl.revision /\ ctl'.manifests = ctl.manifests
    BY <1>1, <1>2, <1>5, AppliedFacts
  <2>2. /\ queue' \in Seq(Items) /\ \A t \in Tasks : ahead'[t] <= Len(queue')
        /\ queue' = queue \/ \E d \in Caches : queue' = Append(queue, [kind |-> "write", cache |-> d])
    <3>1. ctl'.cache \in Caches
      BY <2>1 DEF Ctls
    <3> QED BY <1>2, <1>5, <3>1, QueueGrows DEF IInv
  <2>3. Types'
    BY <1>2, <1>3, <2>1, <2>2 DEF IInv, Types
  <2>4. StoreInv'
    <3>1. \A e \in Sources \ {Local} : pc'[e] = pc[e]
      BY <1>1, <1>3, Sorts DEF OthersStay
    <3> QED BY <1>2, <2>2, <3>1, StoreStays DEF IInv
  <2>5. Calm(l)
    <3>1. NothingRecorded => NothingRecorded'
      BY <1>2 DEF NothingRecorded
    <3>2. ctl'.revision >= ctl.revision
      BY <2>1, Revisions DEF IInv
    <3> QED BY <1>2, <2>1, <3>1, <3>2 DEF Calm
  <2>6. TaskInv(l)'
    BY <1>1, <1>3, <2>1, DoneInv
  <2>7. SpinnersHaveRequests'
    <3>1. \A q \in Statuses : pc'[q] = pc[q] /\ at'[q] = at[q]
      BY <1>1, <1>3, Sorts DEF OthersStay
    <3> QED BY <2>1, <3>1, SpinnersStay DEF IInv
  <2>8. at[l].source = ctl.source /\ (\A s \in answer[l] : rev[ctl.source][s] > 0)
        /\ \A s \in Servers : Owed(s) => s \in answer[l]
    BY <1>1, <1>2, <1>5 DEF IInv, TaskInv, ListInv, ListApplies, Current
  <2>9. OwnSourceOnly'
    BY <1>2, <2>1, <2>8 DEF IInv, ListedInv, OwnSourceOnly
  <2>10. CreatedStaysListed'
    BY <1>2, <2>1, <2>8 DEF IInv, ListedInv, CreatedStaysListed, Owed
  <2>11. CoreInv' /\ ListedInv'
    BY <1>2, <2>1, <2>9, <2>10 DEF IInv, CoreInv, ListedInv, NothingRecorded
  <2> QED BY <1>1, <1>3, <2>3, <2>4, <2>5, <2>6, <2>7, <2>11, Combine
<1> QED BY <1>4, <1>5 DEF FinishList

\* The requests for statuses.
LEMMA RefreshStatusInv == ASSUME TasksOK, IInv, NEW q \in Statuses, RefreshStatus(q) PROVE IInv'
<1>1. q \in Tasks /\ q \notin Visits \cup Lists \cup Ops \cup Sources
  BY Sorts
<1>2. PICK s \in Servers :
        /\ ctl' = [ctl EXCEPT !.statusIds[s] = q, !.pending = @ \cup {s}]
        /\ at' = [at EXCEPT ![q] = [Nothing EXCEPT
             !.source = ctl.source, !.sourceRevision = ctl.sourceRevision,
             !.revision = ctl.generations[s], !.server = s]]
  BY DEF RefreshStatus, Ids
<1>3. Goto(q, "asking") /\ ctl.source # None /\ pc[q] = "idle"
      /\ UNCHANGED <<exists, rev, wanted, answer, ahead, queue, writing, deleted, disk, recorded>>
  BY DEF RefreshStatus, core, store
<1> DEFINE n == [ctl.statusIds EXCEPT ![s] = q]
           p == ctl.pending \cup {s}
           x == [Nothing EXCEPT !.source = ctl.source, !.sourceRevision = ctl.sourceRevision,
                                !.revision = ctl.generations[s], !.server = s]
<1>4. ctl \in Ctls /\ ctl.source \in Sources /\ ctl.sourceRevision \in Nat /\ ctl.generations[s] \in Nat
      /\ ctl.statusIds \in StatusIds /\ ctl.pending \in Pendings
  BY <1>3 DEF IInv, Types, Ctls, SourceIds, Generations
<1>5. x \in Captured /\ x.source = ctl.source /\ x.sourceRevision = ctl.sourceRevision /\ x.server = s
  BY <1>4 DEF Nothing, Captured
<1>6. n \in StatusIds /\ n[s] = q /\ (\A u \in Servers : u # s => n[u] = ctl.statusIds[u]) /\ p \in Pendings
  BY <1>4 DEF StatusIds, Pendings
<1>7. ctl' = WithRequest(ctl, n, p) /\ at' = [at EXCEPT ![q] = x]
  BY <1>2 DEF WithRequest
<1> HIDE DEF n, x
<1>8. /\ ctl' \in Ctls /\ ctl'.activeList = ctl.activeList /\ ctl'.manifests = ctl.manifests
      /\ ctl'.source = ctl.source /\ ctl'.sourceRevision = ctl.sourceRevision
      /\ ctl'.revision = ctl.revision /\ ctl'.pending = p /\ ctl'.statusIds = n
      /\ ctl'.manifestGeneration = ctl.manifestGeneration
  <2> HIDE DEF p
  <2> QED BY <1>4, <1>6, <1>7, RequestFields
<1>9. pc' \in [Tasks -> Places] /\ pc'[q] = "asking" /\ \A u \in Tasks : u # q => pc'[u] = pc[u]
  BY <1>1, <1>3, GotoFacts DEF IInv, Places
<1>10. at' \in [Tasks -> Captured] /\ at'[q] = x /\ \A u \in Tasks : u # q => at'[u] = at[u]
  BY <1>1, <1>5, <1>7 DEF IInv, Types
<1>11. Types'
  BY <1>3, <1>8, <1>9, <1>10 DEF IInv, Types
<1>12. OthersStay(q)
  BY <1>3, <1>9, <1>10 DEF OthersStay
<1>13. StoreInv'
  BY <1>1, <1>3, <1>12, StoreQuiet DEF IInv
<1>14. Calm(q)
  <2>1. NothingRecorded => NothingRecorded'
    BY <1>3 DEF NothingRecorded
  <2>2. ctl'.revision >= ctl.revision
    BY <1>8, Revisions DEF IInv
  <2>3. \A u \in Servers : Owed(u)' => Owed(u)
    BY <1>3, <1>8 DEF Owed
  <2> QED BY <1>3, <1>8, <2>1, <2>2, <2>3 DEF Calm
<1>15. TaskInv(q)'
  BY <1>1, <1>4, <1>5, <1>8, <1>9, <1>10 DEF TaskInv, StatusInv
<1>16. CoreInv' /\ ListedInv'
  BY <1>3, <1>8 DEF IInv, CoreInv, ListedInv, OwnSourceOnly, CreatedStaysListed, NothingRecorded
<1>17. SpinnersHaveRequests'
  <2> SUFFICES ASSUME NEW u \in p
               PROVE \E r \in Statuses : /\ n[u] = r /\ at'[r].server = u
                       /\ pc'[r] \in {"asking", "answered", "saving"} /\ Current(r)'
    BY <1>8 DEF SpinnersHaveRequests
  <2>1. CASE u = s
    BY <1>5, <1>6, <1>8, <1>9, <1>10, <2>1 DEF Current
  <2>2. CASE u # s
    <3>1. PICK r \in Statuses : /\ ctl.statusIds[u] = r /\ at[r].server = u
                                /\ pc[r] \in {"asking", "answered", "saving"} /\ Current(r)
      BY <2>2 DEF IInv, SpinnersHaveRequests
    <3>2. r # q /\ r \in Tasks /\ u \in Servers
      BY <1>3, <1>4, <2>2, <3>1, Sorts DEF Pendings
    <3> QED BY <1>6, <1>8, <1>9, <1>10, <2>2, <3>1, <3>2 DEF Current
  <2> QED BY <2>1, <2>2
<1> QED BY <1>1, <1>11, <1>12, <1>13, <1>14, <1>15, <1>16, <1>17, Combine

LEMMA StatusArrivesInv == ASSUME TasksOK, IInv, NEW q \in Statuses, StatusArrives(q) PROVE IInv'
<1>1. q \in Tasks /\ q \notin Visits \cup Lists \cup Ops \cup Sources
  BY Sorts
<1> DEFINE e == SetEntry(ctl.cache, ctl.source, at[q].server, answer[q])
           k == ctl.revision + 1
<1>2. pc[q] = "answered" /\ Current(q) /\ ctl' = WithCache(ctl, e, k)
      /\ Enqueue(ctl'.cache) /\ AwaitQueue(q, Len(queue')) /\ Goto(q, "saving")
      /\ UNCHANGED <<exists, rev, wanted, at, answer, writing, deleted, disk, recorded>>
  BY DEF StatusArrives, StatusApplies, WithCache, core, IInv, Types, Ctls
<1>3. at[q].source \in Sources /\ at[q].server \in Servers /\ answer[q] \in Nat
      /\ ctl.source \in Sources /\ ctl \in Ctls /\ ctl.cache \in Caches /\ k \in Nat
  BY <1>1, <1>2 DEF IInv, TaskInv, StatusInv, Current, Types, Ctls
<1>4. e \in Caches
  BY <1>3, SetEntryType
<1> HIDE DEF e
<1>5. /\ ctl' \in Ctls /\ ctl'.activeList = ctl.activeList /\ ctl'.manifests = ctl.manifests
      /\ ctl'.source = ctl.source /\ ctl'.sourceRevision = ctl.sourceRevision /\ ctl'.revision = k
      /\ ctl'.pending = ctl.pending /\ ctl'.statusIds = ctl.statusIds
      /\ ctl'.manifestGeneration = ctl.manifestGeneration
  <2> HIDE DEF k
  <2> QED BY <1>2, <1>3, <1>4, CacheFields
<1>6. ctl'.cache \in Caches
  BY <1>5 DEF Ctls
<1>7. /\ queue' \in Seq(Items) /\ Len(queue') = Len(queue) + 1 /\ Len(queue) \in Nat /\ Len(queue') \in Nat
      /\ \E d \in Caches : queue' = Append(queue, [kind |-> "write", cache |-> d])
  BY <1>2, <1>6, EnqueueFacts DEF IInv
<1>8. Len(queue) <= Len(queue')
  BY <1>7
<1>9. ahead' \in [Tasks -> Nat] /\ \A t \in Tasks : ahead'[t] <= Len(queue')
  BY <1>1, <1>2, <1>7, <1>8, AwaitFacts DEF IInv
<1>10. pc' \in [Tasks -> Places] /\ pc'[q] = "saving" /\ \A u \in Tasks : u # q => pc'[u] = pc[u]
  BY <1>1, <1>2, GotoFacts DEF IInv, Places
<1>11. Types'
  BY <1>2, <1>5, <1>7, <1>9, <1>10 DEF IInv, Types
<1>12. OthersStay(q)
  BY <1>2, <1>10 DEF OthersStay
<1>13. StoreInv'
  <2>1. \A f \in Sources \ {Local} : pc'[f] = pc[f]
    BY <1>1, <1>10, Sorts
  <2> QED BY <1>2, <1>7, <2>1, StoreStays DEF IInv
<1>14. Calm(q)
  <2>1. ctl'.revision >= ctl.revision /\ (NothingRecorded => NothingRecorded')
    BY <1>2, <1>5, Revisions DEF IInv, NothingRecorded
  <2>2. \A u \in Servers : Owed(u)' => Owed(u)
    BY <1>2, <1>5 DEF Owed
  <2> QED BY <1>2, <1>5, <2>1, <2>2 DEF Calm
<1>15. TaskInv(q)'
  BY <1>1, <1>2, <1>3, <1>5, <1>10 DEF IInv, TaskInv, StatusInv
<1>16. CoreInv' /\ ListedInv'
  BY <1>2, <1>5 DEF IInv, CoreInv, ListedInv, OwnSourceOnly, CreatedStaysListed, NothingRecorded
<1>17. SpinnersHaveRequests'
  BY <1>1, <1>2, <1>5, <1>10, Sorts DEF IInv, SpinnersHaveRequests, Current
<1> QED BY <1>1, <1>11, <1>12, <1>13, <1>14, <1>15, <1>16, <1>17, Combine

LEMMA FinishStatusInv == ASSUME TasksOK, IInv, NEW q \in Statuses, FinishStatus(q) PROVE IInv'
<1>1. q \in Tasks /\ q \notin Visits \cup Lists \cup Ops \cup Sources
  BY Sorts
<1> DEFINE s == at[q].server
           n == [ctl.statusIds EXCEPT ![s] = None]
           p == ctl.pending \ {s}
<1>2. pc[q] \in {"answered", "saving"} /\ Finish(q) /\ ctl' = Settle(ctl, q)
      /\ UNCHANGED <<exists, rev, wanted, ahead, queue, writing, deleted, disk, recorded>>
  BY DEF FinishStatus, core, store
<1>3. s \in Servers
  BY <1>1, <1>2 DEF IInv, TaskInv, StatusInv
<1>4. ctl \in Ctls /\ ctl.statusIds \in StatusIds /\ ctl.pending \in Pendings
  BY DEF IInv, Types, Ctls
<1>5. /\ n \in StatusIds /\ (\A u \in Servers : u # s => n[u] = ctl.statusIds[u])
      /\ p \in Pendings
  BY <1>3, <1>4 DEF StatusIds, Pendings
<1>6. /\ ctl' \in Ctls /\ ctl'.activeList = ctl.activeList /\ ctl'.manifests = ctl.manifests
      /\ ctl'.source = ctl.source /\ ctl'.sourceRevision = ctl.sourceRevision
      /\ ctl'.revision = ctl.revision /\ ctl'.manifestGeneration = ctl.manifestGeneration
      /\ ctl'.pending \subseteq ctl.pending
      /\ \A u \in ctl'.pending : ctl'.statusIds[u] = ctl.statusIds[u] /\ ctl.statusIds[u] # q
  <2>1. \A u \in ctl.pending : ctl.statusIds[u] = q => u = s
    BY DEF IInv, SpinnersHaveRequests
  <2>2. CASE ctl.statusIds[s] = q
    <3>1. ctl' = WithRequest(ctl, n, p)
      BY <1>2, <2>2 DEF Settle, WithRequest
    <3> HIDE DEF n
    <3>2. /\ ctl' \in Ctls /\ ctl'.activeList = ctl.activeList /\ ctl'.manifests = ctl.manifests
          /\ ctl'.source = ctl.source /\ ctl'.sourceRevision = ctl.sourceRevision
          /\ ctl'.revision = ctl.revision /\ ctl'.pending = p /\ ctl'.statusIds = n
          /\ ctl'.manifestGeneration = ctl.manifestGeneration
      <4> HIDE DEF p
      <4> QED BY <1>4, <1>5, <3>1, RequestFields
    <3> QED BY <1>4, <1>5, <2>1, <3>2 DEF Pendings
  <2>3. CASE ctl.statusIds[s] # q
    <3>1. ctl' = ctl
      BY <1>2, <2>3 DEF Settle
    <3> QED BY <1>4, <2>1, <2>3, <3>1
  <2> QED BY <2>2, <2>3
<1>7. /\ OthersStay(q) /\ pc' \in [Tasks -> Places] /\ at' \in [Tasks -> Captured]
      /\ answer' = [u \in Tasks |-> answer'[u]] /\ pc'[q] = "done" /\ at'[q].sourceRevision = 0
  BY <1>1, <1>2, FinishFacts DEF IInv
<1>8. Types'
  BY <1>2, <1>6, <1>7 DEF IInv, Types
<1>9. StoreInv'
  BY <1>1, <1>2, <1>7, StoreQuiet DEF IInv
<1>10. Calm(q)
  <2>1. ctl'.revision >= ctl.revision /\ (NothingRecorded => NothingRecorded')
    BY <1>2, <1>6, Revisions DEF IInv, NothingRecorded
  <2>2. \A u \in Servers : Owed(u)' => Owed(u)
    BY <1>2, <1>6 DEF Owed
  <2> QED BY <1>2, <1>6, <2>1, <2>2 DEF Calm
<1>11. TaskInv(q)'
  BY <1>1, <1>6, <1>7, DoneInv
<1>12. CoreInv' /\ ListedInv'
  BY <1>2, <1>6 DEF IInv, CoreInv, ListedInv, OwnSourceOnly, CreatedStaysListed, NothingRecorded
<1>13. SpinnersHaveRequests'
  <2> SUFFICES ASSUME NEW u \in ctl'.pending
               PROVE \E r \in Statuses : /\ ctl'.statusIds[u] = r /\ at'[r].server = u
                       /\ pc'[r] \in {"asking", "answered", "saving"} /\ Current(r)'
    BY DEF SpinnersHaveRequests
  <2>1. PICK r \in Statuses : /\ ctl.statusIds[u] = r /\ at[r].server = u
                              /\ pc[r] \in {"asking", "answered", "saving"} /\ Current(r)
    BY <1>6 DEF IInv, SpinnersHaveRequests
  <2>2. r # q /\ r \in Tasks
    BY <1>6, <2>1, Sorts
  <2>3. pc'[r] = pc[r] /\ at'[r] = at[r]
    BY <1>7, <2>2 DEF OthersStay
  <2> QED BY <1>6, <2>1, <2>3 DEF Current
<1> QED BY <1>1, <1>7, <1>8, <1>9, <1>10, <1>11, <1>12, <1>13, Combine

-----------------------------------------------------------------------------
(* The operations at the core, and what the list records of them.          *)

LEMMA DoAtCoreInv == ASSUME TasksOK, IInv, NEW p \in Ops, DoAtCore(p) PROVE IInv'
<1> DEFINE e == at[p].source
           s == at[p].server
           has == IF at[p].kind = "delete" THEN exists[e] \ {s} ELSE exists[e] \cup {s}
           r == rev[e][s] + 1
           done == IF at[p].kind \in {"create", "delete"} THEN "nothing" ELSE recorded[s]
<1>1. p \in Tasks /\ p \notin Visits \cup Lists \cup Statuses \cup Sources
  BY Sorts
<1>2. pc[p] = "running" /\ Allowed(p) /\ UNCHANGED <<ctl, wanted, ahead, queue, writing, deleted, disk>>
  BY DEF DoAtCore, store
<1>3. e \in Sources /\ s \in Servers /\ at[p].kind \in OpKinds
  BY <1>1, <1>2 DEF IInv, TaskInv, OpInv
<1>4. exists' = [exists EXCEPT ![e] = has] /\ rev' = [rev EXCEPT ![e][s] = @ + 1]
      /\ recorded' = [recorded EXCEPT ![s] = done]
  BY <1>3 DEF DoAtCore, IInv, Types
<1>5. exists[e] \in SUBSET Servers /\ rev[e] \in [Servers -> Nat] /\ rev[e][s] \in Nat
      /\ recorded[s] \in {"nothing", "create", "install", "delete"}
  BY <1>3 DEF IInv, Types
<1>6. has \in SUBSET Servers /\ r \in Nat /\ r > rev[e][s] /\ r > 0
      /\ done \in {"nothing", "create", "install", "delete"}
  BY <1>3, <1>5
<1>7. exists' \in [Sources -> SUBSET Servers] /\ exists'[e] = has
      /\ \A f \in Sources : f # e => exists'[f] = exists[f]
  <2> HIDE DEF has
  <2> QED BY <1>3, <1>4, <1>6 DEF IInv, Types
<1>8. /\ rev' \in [Sources -> [Servers -> Nat]] /\ rev'[e][s] = r
      /\ \A f \in Sources, u \in Servers : f # e \/ u # s => rev'[f][u] = rev[f][u]
  BY <1>3, <1>4, <1>5 DEF IInv, Types
<1>9. recorded' \in [Servers -> {"nothing", "create", "install", "delete"}] /\ recorded'[s] = done
      /\ \A u \in Servers : u # s => recorded'[u] = recorded[u]
  <2> HIDE DEF done
  <2> QED BY <1>3, <1>4, <1>6 DEF IInv, Types
<1>10. \A f \in Sources, u \in Servers : rev[f][u] > 0 => rev'[f][u] > 0
  BY <1>3, <1>6, <1>8
<1>11. CoreInv'
  <2> SUFFICES ASSUME NEW f \in Sources, NEW u \in Servers, u \in exists'[f] PROVE rev'[f][u] > 0
    BY DEF CoreInv
  <2>1. CASE f = e /\ u = s
    BY <1>6, <1>8, <2>1
  <2>2. CASE f # e \/ u # s
    BY <1>7, <1>8, <2>2 DEF IInv, CoreInv
  <2> QED BY <2>1, <2>2
<1>12. \A u \in Servers : recorded'[u] \in {"create", "install"} =>
         recorded'[u] = recorded[u] /\ \A f \in Sources : u \in exists'[f] => u \in exists[f]
  <2> SUFFICES ASSUME NEW u \in Servers, recorded'[u] \in {"create", "install"}
               PROVE recorded'[u] = recorded[u] /\ \A f \in Sources : u \in exists'[f] => u \in exists[f]
    OBVIOUS
  <2>1. CASE u = s
    <3>1. at[p].kind \in {"install", "change"}
      BY <1>3, <1>9, <2>1 DEF OpKinds
    <3>2. s \in exists[e]
      BY <1>2, <3>1 DEF Allowed
    <3> QED BY <1>7, <1>9, <2>1, <3>1, <3>2
  <2>2. CASE u # s
    BY <1>7, <1>9, <2>2
  <2> QED BY <2>1, <2>2
<1>13. NothingRecorded => NothingRecorded'
  BY <1>9 DEF NothingRecorded
<1>14. ctl.source \in Sources \/ NothingRecorded
  BY DEF IInv, ListedInv, Types, Ctls, SourceIds
<1>15. \A u \in Servers : Owed(u)' => Owed(u)
  BY <1>2, <1>12, <1>13, <1>14 DEF Owed, NothingRecorded
<1>16. ListedInv'
  <2>1. ctl.manifests \in Manifests
    BY DEF IInv, Types, Ctls
  <2>2. OwnSourceOnly'
    BY <1>2, <1>10, <2>1 DEF IInv, ListedInv, OwnSourceOnly, Manifests
  <2>3. CreatedStaysListed'
    BY <1>2, <1>15 DEF IInv, ListedInv, CreatedStaysListed, Owed
  <2> QED BY <1>2, <1>13, <2>2, <2>3 DEF IInv, ListedInv
<1>17. Calm(p)
  BY <1>2, <1>10, <1>13, <1>15, Revisions DEF IInv, Calm
<1>18. ASSUME OthersStay(p), pc' \in [Tasks -> Places], at' \in [Tasks -> Captured],
              answer' = [u \in Tasks |-> answer'[u]], TaskInv(p)'
       PROVE  IInv'
  <2>1. Types'
    BY <1>2, <1>7, <1>8, <1>9, <1>18 DEF IInv, Types
  <2>2. StoreInv'
    BY <1>1, <1>2, <1>18, StoreQuiet DEF IInv
  <2>3. SpinnersHaveRequests'
    <3>1. \A q \in Statuses : pc'[q] = pc[q] /\ at'[q] = at[q]
      BY <1>1, <1>18, Sorts DEF OthersStay
    <3> QED BY <1>2, <3>1, SpinnersStay DEF IInv
  <2> QED BY <1>1, <1>11, <1>16, <1>17, <1>18, <2>1, <2>2, <2>3, Combine
<1>19. CASE Finish(p)
  <2>1. /\ OthersStay(p) /\ pc' \in [Tasks -> Places] /\ at' \in [Tasks -> Captured]
        /\ answer' = [u \in Tasks |-> answer'[u]] /\ pc'[p] = "done" /\ at'[p].sourceRevision = 0
    BY <1>1, <1>19, FinishFacts DEF IInv
  <2>2. TaskInv(p)'
    BY <1>1, <1>2, <2>1, DoneInv DEF IInv, Types
  <2> QED BY <1>18, <2>1, <2>2
<1>20. CASE Goto(p, "answered") /\ answer' = [answer EXCEPT ![p] = rev'[e][s]] /\ UNCHANGED at
  <2>1. pc' \in [Tasks -> Places] /\ pc'[p] = "answered" /\ \A u \in Tasks : u # p => pc'[u] = pc[u]
    BY <1>1, <1>20, GotoFacts DEF IInv, Places
  <2>2. answer' = [answer EXCEPT ![p] = r]
    BY <1>8, <1>20
  <2> HIDE DEF r
  <2>3. answer' = [u \in Tasks |-> answer'[u]] /\ answer'[p] = r
        /\ \A u \in Tasks : u # p => answer'[u] = answer[u]
    BY <1>1, <2>2 DEF IInv, Types
  <2>4. OthersStay(p) /\ at' \in [Tasks -> Captured]
    BY <1>20, <2>1, <2>3 DEF OthersStay, IInv, Types
  <2>5. TaskInv(p)'
    BY <1>1, <1>2, <1>3, <1>6, <1>8, <1>20, <2>1, <2>3 DEF IInv, TaskInv, OpInv
  <2> QED BY <1>18, <2>1, <2>3, <2>4, <2>5
<1> QED BY <1>19, <1>20 DEF DoAtCore

LEMMA RecordResultInv == ASSUME TasksOK, IInv, NEW p \in Ops, RecordResult(p) PROVE IInv'
<1> DEFINE s == at[p].server
           kind == at[p].kind
<1>1. p \in Tasks /\ p \notin Visits \cup Lists \cup Statuses \cup Sources
  BY Sorts
<1>2. pc[p] = "answered" /\ Goto(p, "saving")
      /\ UNCHANGED <<exists, rev, wanted, at, answer, writing, deleted, disk>>
  BY DEF RecordResult, core
<1>3. at[p].source \in Sources /\ s \in Servers /\ kind \in OpKinds /\ answer[p] \in Nat
      /\ (kind \in {"create", "install"} => rev[at[p].source][s] > 0)
  BY <1>1, <1>2 DEF IInv, TaskInv, OpInv
<1>4. pc' \in [Tasks -> Places] /\ pc'[p] = "saving" /\ \A u \in Tasks : u # p => pc'[u] = pc[u]
  BY <1>1, <1>2, GotoFacts DEF IInv, Places
<1>5. OthersStay(p)
  BY <1>2, <1>4 DEF OthersStay
<1>6. CASE UNCHANGED <<ctl, queue, ahead, recorded>>
  <2>1. Types'
    BY <1>2, <1>4, <1>6 DEF IInv, Types
  <2>2. StoreInv'
    BY <1>1, <1>2, <1>5, <1>6, StoreQuiet DEF IInv
  <2>3. TaskInv(p)'
    BY <1>1, <1>2, <1>3, <1>4, <1>6 DEF IInv, TaskInv, OpInv
  <2> QED BY <1>1, <1>2, <1>5, <1>6, <2>1, <2>2, <2>3, Quiet
<1>7. CASE /\ Current(p) /\ ctl' = Record(ctl, kind, s, answer[p])
           /\ Enqueue(ctl'.cache) /\ AwaitQueue(p, Len(queue'))
           /\ recorded' = [recorded EXCEPT ![s] = IF kind = "change" THEN @ ELSE kind]
  <2>1. ctl \in Ctls /\ ctl.source \in Sources /\ at[p].source = ctl.source
    BY <1>3, <1>7 DEF IInv, Types, Current
  <2>2. /\ ctl' \in Ctls /\ ctl'.activeList = None
        /\ ctl'.source = ctl.source /\ ctl'.sourceRevision = ctl.sourceRevision
        /\ ctl'.revision = ctl.revision + 1
        /\ ctl'.pending \subseteq ctl.pending
        /\ \A u \in Servers : u \in ctl'.pending => ctl'.statusIds[u] = ctl.statusIds[u]
        /\ kind \in {"create", "install"} => ctl'.manifests = ctl.manifests \cup {<<ctl.source, s>>}
        /\ kind = "change" => ctl'.manifests = ctl.manifests
        /\ kind = "delete" => ctl'.manifests = ctl.manifests \ {<<ctl.source, s>>}
    <3> HIDE DEF s, kind
    <3> QED BY <1>3, <1>7, <2>1, RecordFacts
  <2>3. ctl'.cache \in Caches
    BY <2>2 DEF Ctls
  <2>4. /\ queue' \in Seq(Items) /\ Len(queue') = Len(queue) + 1 /\ Len(queue) \in Nat /\ Len(queue') \in Nat
        /\ \E d \in Caches : queue' = Append(queue, [kind |-> "write", cache |-> d])
    BY <1>7, <2>3, EnqueueFacts DEF IInv
  <2>5. Len(queue) <= Len(queue')
    BY <2>4
  <2>6. ahead' \in [Tasks -> Nat] /\ \A t \in Tasks : ahead'[t] <= Len(queue')
    BY <1>1, <1>7, <2>4, <2>5, AwaitFacts DEF IInv
  <2>7. /\ recorded' \in [Servers -> {"nothing", "create", "install", "delete"}]
        /\ recorded'[s] = IF kind = "change" THEN recorded[s] ELSE kind
        /\ \A u \in Servers : u # s => recorded'[u] = recorded[u]
    BY <1>3, <1>7 DEF IInv, Types, OpKinds
  <2>8. Types'
    BY <1>2, <1>4, <2>2, <2>4, <2>6, <2>7 DEF IInv, Types
  <2>9. StoreInv'
    <3>1. \A f \in Sources \ {Local} : pc'[f] = pc[f]
      BY <1>1, <1>4, Sorts
    <3> QED BY <1>2, <2>4, <3>1, StoreStays DEF IInv
  <2>10. Calm(p)
    <3>1. ctl.revision \in Nat
      BY Revisions DEF IInv
    <3> QED BY <1>2, <2>2, <3>1 DEF Calm
  <2>11. TaskInv(p)'
    BY <1>1, <1>2, <1>3, <1>4, <2>2 DEF IInv, TaskInv, OpInv
  <2>12. OwnSourceOnly'
    <3>1. \A m \in ctl'.manifests : m \in ctl.manifests \/ (m = <<ctl.source, s>> /\ rev[ctl.source][s] > 0)
      BY <1>3, <2>1, <2>2 DEF OpKinds
    <3>2. \A m \in ctl.manifests : m[1] = ctl.source /\ rev[m[1]][m[2]] > 0
      BY DEF IInv, ListedInv, OwnSourceOnly
    <3> QED BY <1>2, <2>2, <3>1, <3>2 DEF OwnSourceOnly
  <2>13. CreatedStaysListed'
    <3> SUFFICES ASSUME NEW u \in Servers, recorded'[u] \in {"create", "install"},
                        u \in exists[ctl.source]
                 PROVE  <<ctl.source, u>> \in ctl'.manifests
      BY <1>2, <2>2 DEF CreatedStaysListed
    <3>1. CASE u = s /\ kind \in {"create", "install"}
      BY <2>2, <3>1
    <3>2. CASE u # s \/ kind = "change"
      <4>1. <<ctl.source, u>> \in ctl.manifests
        BY <2>7, <3>2 DEF IInv, ListedInv, CreatedStaysListed
      <4> QED BY <1>3, <2>2, <3>2, <4>1 DEF OpKinds
    <3>3. ~(u = s /\ kind = "delete")
      BY <2>7
    <3> QED BY <1>3, <3>1, <3>2, <3>3 DEF OpKinds
  <2>14. CoreInv' /\ ListedInv'
    <3>1. ctl'.source # None
      BY <2>1, <2>2 DEF TasksOK
    <3> QED BY <1>2, <2>12, <2>13, <3>1 DEF IInv, CoreInv, ListedInv
  <2>15. SpinnersHaveRequests'
    <3>1. \A q \in Statuses : pc'[q] = pc[q] /\ at'[q] = at[q]
      BY <1>1, <1>5, Sorts DEF OthersStay
    <3>2. ctl.pending \in Pendings
      BY <2>1 DEF Ctls
    <3> QED BY <2>2, <3>1, <3>2, SpinnersStay DEF IInv, Pendings
  <2> QED BY <1>1, <1>5, <2>8, <2>9, <2>10, <2>11, <2>14, <2>15, Combine
<1> QED BY <1>6, <1>7 DEF RecordResult

-----------------------------------------------------------------------------
LEMMA InitInv == ASSUME TasksOK PROVE Init => IInv
<1> SUFFICES ASSUME Init PROVE IInv
  OBVIOUS
<1>1. NoController \in Ctls /\ NoController.manifests = {} /\ NoController.pending = {}
      /\ NoController.source = None /\ NoController.sourceRevision = 0
  <2>1. /\ None \in SourceIds /\ None \in ListIds /\ {} \in Manifests /\ {} \in Pendings
        /\ [s \in Servers |-> 0] \in Generations /\ [s \in Servers |-> None] \in StatusIds
    BY DEF SourceIds, ListIds, Manifests, Pendings, Generations, StatusIds
  <2> QED BY <2>1, EmptyTypes DEF NoController, Ctls
<1>2. Nothing \in Captured /\ Nothing.sourceRevision = 0 /\ "idle" \in Places
  BY DEF Nothing, Captured, Places
<1>3. disk \in Caches
  BY EmptyTypes DEF Init, Caches
<1>4. queue = <<>> /\ writing = None /\ deleted = {} /\ (\A t \in Tasks : pc[t] = "idle")
      /\ \A t \in Tasks : at[t].sourceRevision = 0
  BY <1>2 DEF Init
<1>5. /\ queue \in Seq(Items) /\ Len(queue) = 0 /\ ahead \in [Tasks -> Nat]
      /\ \A t \in Tasks : ahead[t] <= Len(queue)
  BY <1>4 DEF Init
<1>6. rev \in [Sources -> [Servers -> Nat]] /\ exists \in [Sources -> SUBSET Servers] /\ CoreInv
  BY DEF Init, CoreInv
<1>7. Types
  <2>1. pc \in [Tasks -> Places] /\ at \in [Tasks -> Captured] /\ answer = [t \in Tasks |-> answer[t]]
    BY <1>2 DEF Init
  <2> QED BY <1>1, <1>3, <1>4, <1>5, <1>6, <2>1 DEF Init, Types
<1>8. StoreInv
  <2>1. \A e \in Sources \ {Local} : e \in Tasks
    BY DEF Tasks
  <2> QED BY <1>4, <1>5, <2>1 DEF StoreInv
<1>9. ListedInv /\ SpinnersHaveRequests
  BY <1>1 DEF Init, ListedInv, OwnSourceOnly, CreatedStaysListed, NothingRecorded, SpinnersHaveRequests
<1>10. \A t \in Tasks : TaskInv(t)
  <2>1. ctl.sourceRevision = 0
    BY <1>1 DEF Init
  <2> QED BY <1>4, <2>1 DEF TaskInv, VisitInv, ListInv, StatusInv, OpInv
<1> QED BY <1>6, <1>7, <1>8, <1>9, <1>10 DEF IInv

LEMMA NextInv == ASSUME TasksOK, IInv, [Next]_vars PROVE IInv'
<1>1. ASSUME NEW e \in Sources, Select(e) PROVE IInv'
  BY <1>1, SelectInv
<1>2. ASSUME NEW v \in Visits, Start(v) \/ StartStep(v) PROVE IInv'
  BY <1>2, StartInv, LoadCacheInv, ListAtStartInv, FinishStartInv DEF StartStep
<1>3. ASSUME NEW l \in Lists, RefreshList(l) \/ ListStep(l) PROVE IInv'
  BY <1>3, RefreshListInv, ListAtCoreInv, FinishListInv DEF ListStep
<1>4. ASSUME NEW q \in Statuses, RefreshStatus(q) \/ StatusStep(q) PROVE IInv'
  BY <1>4, RefreshStatusInv, StatusAtCoreInv, StatusArrivesInv, FinishStatusInv DEF StatusStep
<1>5. ASSUME NEW p \in Ops, Begin(p) \/ OpStep(p) PROVE IInv'
  BY <1>5, BeginInv, OpEndsInv, OpenedInv, DoAtCoreInv, FailAtCoreInv, RecordResultInv DEF OpStep
<1>6. ASSUME NEW e \in Sources \ {Local}, Prepare(e) \/ Cleanup(e) PROVE IInv'
  BY <1>6, PrepareInv, CleanupInv
<1>7. CASE WriteStep
  BY <1>7, BeginWriteInv, EndWriteInv DEF WriteStep
<1>8. CASE UNCHANGED vars
  <2>1. UNCHANGED <<exists, rev, ctl, wanted, pc, at, answer, ahead, queue, writing, deleted, disk, recorded>>
    BY <1>8 DEF vars, core, tasks, store
  <2>2. Types' /\ StoreInv'
    BY <2>1 DEF IInv, Types, StoreInv
  <2> QED BY <2>1, <2>2, StoreOnly
<1> QED BY <1>1, <1>2, <1>3, <1>4, <1>5, <1>6, <1>7, <1>8 DEF Next

LEMMA Invariance == Spec => []IInv
<1>. TasksOK
  BY TasksAssumption DEF TasksOK
<1>1. Init => IInv
  BY InitInv
<1>2. IInv /\ [Next]_vars => IInv'
  BY NextInv
<1> QED BY <1>1, <1>2, PTL DEF Spec

(***************************************************************************)
(* The controller's fields, the cache, the queue and the disk keep their   *)
(* types, and nobody waits for more writes than are queued.                *)
(***************************************************************************)
THEOREM TypesHold == Spec => []TypeOK
<1>1. IInv => TypeOK
  <2> SUFFICES ASSUME IInv PROVE TypeOK
    OBVIOUS
  <2>1. ctl.source \in Sources \cup {None} /\ ctl.manifests \subseteq Sources \X Servers
        /\ ctl.cache \in Caches /\ ctl.activeList \in Lists \cup {None} /\ ctl.pending \subseteq Servers
    BY DEF IInv, Types, Ctls, SourceIds, Manifests, ListIds, Pendings
  <2>2. \A t \in Tasks : ahead[t] \in 0..Len(queue)
    <3>1. Len(queue) \in Nat
      BY DEF IInv, Types
    <3>2. ASSUME NEW t \in Tasks PROVE ahead[t] \in Nat /\ ahead[t] <= Len(queue)
      BY DEF IInv, Types
    <3> QED BY <3>1, <3>2
  <2> QED BY <2>1, <2>2 DEF IInv, Types, TypeOK
<1> QED BY <1>1, Invariance, PTL

(***************************************************************************)
(* However the endpoints are switched and whatever is under way, the list  *)
(* holds servers of the selected endpoint only.                            *)
(***************************************************************************)
THEOREM OwnSourceOnlyHolds == Spec => []OwnSourceOnly
<1>1. IInv => OwnSourceOnly
  BY DEF IInv, ListedInv
<1> QED BY <1>1, Invariance, PTL

(***************************************************************************)
(* A server this window has created stays listed until it is deleted, in   *)
(* any order of the lists, the startup and the operations.                 *)
(***************************************************************************)
THEOREM CreatedStaysListedHolds == Spec => []CreatedStaysListed
<1>1. IInv => CreatedStaysListed
  BY DEF IInv, ListedInv
<1> QED BY <1>1, Invariance, PTL

(***************************************************************************)
(* A server's spinner has a request of this visit that will stop it, for   *)
(* any number of requests that overtake each other.                        *)
(***************************************************************************)
THEOREM SpinnersHaveRequestsHolds == Spec => []SpinnersHaveRequests
<1>1. IInv => SpinnersHaveRequests
  BY DEF IInv
<1> QED BY <1>1, Invariance, PTL

(***************************************************************************)
(* Once the cache of a deleted endpoint was cleaned up its scope stays off *)
(* the disk, whatever was queued before.                                   *)
(***************************************************************************)
THEOREM DeletedScopeGoneHolds == Spec => []DeletedScopeGone
<1>1. IInv => DeletedScopeGone
  BY DEF IInv, StoreInv, DeletedScopeGone
<1> QED BY <1>1, Invariance, PTL

(***************************************************************************)
(* What the two action properties need beside IInv.  Revisions only grow,  *)
(* so what is shown, stored or under way is at most the core's (StoreBelow,*)
(* VisitKnows); a recorded deletion is one of the core (Gone); a list that *)
(* still applies was taken after it (ListKnows); and a status that still   *)
(* applies is not older than what is shown (StatusKnows, OpKnows).         *)
(***************************************************************************)
Below(cache) ==
  \A e \in Sources, s \in Servers :
    cache[e] # None /\ cache[e][s] # None => cache[e][s] <= rev[e][s]

StoreBelow ==
  /\ Below(ctl.cache) /\ Below(disk) /\ (writing # None => Below(writing))
  /\ \A i \in 1..Len(queue) : queue[i].kind = "write" => Below(queue[i].cache)

Gone == \A s \in Servers : recorded[s] = "delete" =>
          s \notin exists[ctl.source] /\ rev[ctl.source][s] > 0

Starting(v) == pc[v] \in {"barrier", "listing", "answered"} /\ Current(v)

VisitKnows(v) ==
  /\ pc[v] \in {"listing", "answered"} => Below(answer[v].cache)
  /\ Starting(v) =>
       /\ ctl.startupLoading
       /\ \A w \in Visits : Starting(w) => w = v
       /\ at[v].revision = ctl.revision =>
            /\ ctl.manifests = {} /\ ctl.cache = EmptyCache
            /\ \A s \in Servers : ctl.statusIds[s] = None

ListKnows(l) ==
  pc[l] = "answered" /\ ListApplies(l) => \A s \in answer[l] : recorded[s] # "delete"

StatusKnows(q) ==
  /\ pc[q] \in {"asking", "answered"} => rev[at[q].source][at[q].server] > 0
  /\ pc[q] = "answered" =>
       /\ answer[q] > 0 /\ answer[q] <= rev[at[q].source][at[q].server]
       /\ StatusApplies(q) /\ Shown(ctl, at[q].server) # None => Shown(ctl, at[q].server) <= answer[q]

Holding(p) == pc[p] \in {"opening", "running", "answered", "saving"} /\ at[p].kind # "create"

OpKnows(p) ==
  /\ Holding(p) =>
       /\ rev[at[p].source][at[p].server] > 0
       /\ \A r \in Ops : Holding(r) /\ at[r].source = at[p].source /\ at[r].server = at[p].server
                         => r = p
  /\ pc[p] = "answered" =>
       /\ answer[p] = IF at[p].kind = "create" THEN 1 ELSE rev[at[p].source][at[p].server]
       /\ at[p].kind = "delete" => at[p].server \notin exists[at[p].source]
       /\ at[p].kind = "install" => at[p].server \in exists[at[p].source]

HInv ==
  /\ StoreBelow /\ Gone
  /\ \A v \in Visits : VisitKnows(v)
  /\ \A l \in Lists : ListKnows(l)
  /\ \A q \in Statuses : StatusKnows(q)
  /\ \A p \in Ops : OpKnows(p)

\* What the others rely on stays, in the order of the parts of HInv.
VisitsCalm(t) ==
  \/ ctl'.sourceRevision > ctl.sourceRevision
  \/ /\ ctl'.source = ctl.source /\ ctl'.sourceRevision = ctl.sourceRevision
     /\ \/ \A v \in Visits : Starting(v) => v = t
        \/ /\ ctl'.startupLoading = ctl.startupLoading
           /\ \/ ctl'.revision > ctl.revision
              \/ /\ ctl'.revision = ctl.revision
                 /\ ctl'.manifests = ctl.manifests /\ ctl'.cache = ctl.cache
                 /\ \/ ctl.manifests # {}
                    \/ \A s \in Servers : ctl'.statusIds[s] \in {None, ctl.statusIds[s]}

ListsCalm(t) ==
  \/ ctl'.activeList \in {None, t}
  \/ /\ ctl'.source = ctl.source /\ ctl'.sourceRevision = ctl.sourceRevision
     /\ ctl'.activeList = ctl.activeList
     /\ ctl'.manifestGeneration = ctl.manifestGeneration
     /\ \A s \in Servers : recorded'[s] = "delete" => recorded[s] = "delete"

StatusCalm(t, s) ==
  \/ ctl'.sourceRevision > ctl.sourceRevision
  \/ ctl'.statusIds[s] \in {None, t}
  \/ /\ ctl'.source = ctl.source /\ ctl'.sourceRevision = ctl.sourceRevision
     /\ ctl'.statusIds[s] = ctl.statusIds[s]
     /\ ctl'.generations[s] = ctl.generations[s]
     /\ \/ Shown(ctl', s) \in {None, Shown(ctl, s)}
        \/ Shown(ctl', s) = 1

OpsCalm(t) ==
  \A p \in Ops : p # t /\ pc[p] = "answered" =>
    /\ at[p].kind # "create" => rev'[at[p].source][at[p].server] = rev[at[p].source][at[p].server]
    /\ at[p].kind # "create" =>
         (at[p].server \in exists'[at[p].source] <=> at[p].server \in exists[at[p].source])

RevGrows == \A e \in Sources, s \in Servers : rev'[e][s] >= rev[e][s]

TaskKnows(t) ==
  /\ t \in Visits => VisitKnows(t)
  /\ t \in Lists => ListKnows(t)
  /\ t \in Statuses => StatusKnows(t)
  /\ t \in Ops => OpKnows(t)

LEMMA BelowGrows ==
  ASSUME Types, Types', RevGrows, NEW cache \in Caches, Below(cache)
  PROVE  Below(cache)'
<1> SUFFICES ASSUME NEW e \in Sources, NEW s \in Servers, cache[e] # None /\ cache[e][s] # None
             PROVE  cache[e][s] <= rev'[e][s]
  BY DEF Below
<1>1. cache[e][s] \in Nat /\ cache[e][s] <= rev[e][s]
  BY DEF Below, Caches
<1>2. rev[e][s] \in Nat /\ rev'[e][s] \in Nat /\ rev'[e][s] >= rev[e][s]
  BY DEF Types, RevGrows
<1> QED BY <1>1, <1>2

LEMMA VisitKeeps ==
  ASSUME IInv, IInv', HInv, RevGrows, NEW t, NEW v \in Visits, v \in Tasks, v # t, VisitsCalm(t),
         pc'[v] = pc[v] /\ at'[v] = at[v] /\ answer'[v] = answer[v],
         t \in Visits => VisitKnows(t)',
         \A w \in Visits : w # t => pc'[w] = pc[w] /\ at'[w] = at[w]
  PROVE  VisitKnows(v)'
<1>1. VisitKnows(v) /\ VisitInv(v)
  BY DEF HInv, IInv, TaskInv
<1>2. pc'[v] \in {"listing", "answered"} => Below(answer[v].cache)'
  <2> SUFFICES ASSUME pc[v] \in {"listing", "answered"} PROVE Below(answer[v].cache)'
    OBVIOUS
  <2>1. answer[v] \in Loaded /\ Below(answer[v].cache)
    BY <1>1 DEF VisitInv, VisitKnows
  <2>2. answer[v].cache \in Caches
    BY <2>1 DEF Loaded
  <2>3. \A c \in Caches : Below(c) => Below(c)'
    BY BelowGrows DEF IInv
  <2>4. \A c \in Caches : Below(c) => \A e \in Sources, s \in Servers :
          c[e] # None /\ c[e][s] # None => c[e][s] <= rev'[e][s]
    BY <2>3 DEF Below
  <2>5. \A e \in Sources, s \in Servers :
          answer[v].cache[e] # None /\ answer[v].cache[e][s] # None =>
            answer[v].cache[e][s] <= rev'[e][s]
    BY <2>1, <2>2, <2>4
  <2>6. answer'[v].cache = answer[v].cache
    OBVIOUS
  <2> QED BY <2>5, <2>6 DEF Below
<1>3. ctl.sourceRevision \in Nat /\ ctl'.sourceRevision \in Nat /\ at[v].sourceRevision \in Nat
      /\ at[v].sourceRevision <= ctl.sourceRevision /\ ctl.revision \in Nat /\ ctl'.revision \in Nat
      /\ at[v].revision \in Nat
  BY Revisions DEF IInv, TaskInv, Types, Ctls
<1>4. SUFFICES ASSUME Starting(v)'
      PROVE  /\ ctl'.startupLoading
             /\ \A w \in Visits : Starting(w)' => w = v
             /\ at'[v].revision = ctl'.revision =>
                  /\ ctl'.manifests = {} /\ ctl'.cache = EmptyCache
                  /\ \A s \in Servers : ctl'.statusIds[s] = None
  BY <1>2 DEF VisitKnows
<1>5. ctl'.source = ctl.source /\ ctl'.sourceRevision = ctl.sourceRevision
  BY <1>3, <1>4 DEF VisitsCalm, Starting, Current
<1>6. Starting(v)
  BY <1>4, <1>5 DEF Starting, Current
<1>7. \A w \in Visits : Starting(w)' => w = v
  <2> SUFFICES ASSUME NEW w \in Visits, Starting(w)' PROVE w = v
    OBVIOUS
  <2>1. CASE w = t
    <3>1. VisitKnows(t)' /\ Starting(t)'
      BY <2>1
    <3> QED BY <2>1, <3>1, <1>4 DEF VisitKnows
  <2>2. CASE w # t
    <3>1. Starting(w)
      BY <2>2, <1>5 DEF Starting, Current
    <3> QED BY <3>1, <1>6, <1>1 DEF VisitKnows
  <2> QED BY <2>1, <2>2
<1>8. /\ ctl'.startupLoading = ctl.startupLoading
      /\ \/ ctl'.revision > ctl.revision
         \/ /\ ctl'.revision = ctl.revision
            /\ ctl'.manifests = ctl.manifests /\ ctl'.cache = ctl.cache
            /\ \/ ctl.manifests # {}
               \/ \A s \in Servers : ctl'.statusIds[s] \in {None, ctl.statusIds[s]}
  BY <1>3, <1>5, <1>6 DEF VisitsCalm
<1>9. at[v].revision <= ctl.revision
  BY <1>1, <1>6 DEF VisitInv, Starting
<1>10. at'[v].revision = ctl'.revision =>
                  /\ ctl'.manifests = {} /\ ctl'.cache = EmptyCache
                  /\ \A s \in Servers : ctl'.statusIds[s] = None
  <2> SUFFICES ASSUME at[v].revision = ctl'.revision
               PROVE  /\ ctl'.manifests = {} /\ ctl'.cache = EmptyCache
                      /\ \A s \in Servers : ctl'.statusIds[s] = None
    OBVIOUS
  <2>1. ctl'.revision = ctl.revision /\ at[v].revision = ctl.revision
    BY <1>3, <1>8, <1>9
  <2>2. ctl.manifests = {} /\ ctl.cache = EmptyCache /\ \A s \in Servers : ctl.statusIds[s] = None
    BY <1>1, <1>6, <2>1 DEF VisitKnows
  <2> QED BY <1>3, <1>8, <2>1, <2>2
<1> QED BY <1>1, <1>6, <1>7, <1>8, <1>10 DEF VisitKnows

LEMMA ListKeeps ==
  ASSUME TasksOK, HInv, NEW t, NEW l \in Lists, l # t, ListsCalm(t), IInv,
         pc'[l] = pc[l] /\ at'[l] = at[l] /\ answer'[l] = answer[l]
  PROVE  ListKnows(l)'
<1>1. l # None /\ l \in Tasks
  BY DEF TasksOK, Tasks
<1>2. pc[l] = "answered" => answer[l] \subseteq Servers
  BY <1>1 DEF IInv, TaskInv, ListInv
<1>3. ListKnows(l)
  BY DEF HInv
<1> QED BY <1>1, <1>2, <1>3 DEF ListKnows, ListsCalm, ListApplies, Current

LEMMA StatusKeeps ==
  ASSUME TasksOK, IInv, IInv', HInv, RevGrows, NEW t, NEW q \in Statuses, q # t,
         \A s \in Servers : StatusCalm(t, s),
         pc'[q] = pc[q] /\ at'[q] = at[q] /\ answer'[q] = answer[q]
  PROVE  StatusKnows(q)'
<1>1. q # None /\ q \in Tasks /\ StatusKnows(q) /\ StatusInv(q)
  BY DEF TasksOK, Tasks, HInv, IInv, TaskInv
<1> DEFINE e == at[q].source
           s == at[q].server
<1> SUFFICES ASSUME pc[q] \in {"asking", "answered"} PROVE StatusKnows(q)'
  BY DEF StatusKnows
<1>2. e \in Sources /\ s \in Servers /\ rev[e][s] \in Nat /\ rev'[e][s] \in Nat /\ rev'[e][s] >= rev[e][s]
  BY <1>1 DEF StatusInv, IInv, Types, RevGrows
<1>3. rev[e][s] > 0 /\ (pc[q] = "answered" => answer[q] \in Nat /\ answer[q] > 0 /\ answer[q] <= rev[e][s])
  BY <1>1 DEF StatusKnows, StatusInv
<1>4. ASSUME pc[q] = "answered", StatusApplies(q)', Shown(ctl', s) # None
      PROVE  Shown(ctl', s) <= answer[q]
  <2>1. ctl.sourceRevision \in Nat /\ at[q].sourceRevision \in Nat /\ ctl'.sourceRevision \in Nat
        /\ at[q].sourceRevision <= ctl.sourceRevision
    BY <1>1, Revisions DEF IInv, TaskInv, Types, Ctls
  <2>2. ctl'.statusIds[s] = q /\ ctl'.sourceRevision = at[q].sourceRevision
        /\ ctl'.source = e /\ ctl'.generations[s] = at[q].revision
    BY <1>4 DEF StatusApplies, Current
  <2>3. StatusCalm(t, s)
    BY <1>2
  <2>4. /\ ctl'.source = ctl.source /\ ctl'.sourceRevision = ctl.sourceRevision
        /\ ctl'.statusIds[s] = ctl.statusIds[s]
        /\ ctl'.generations[s] = ctl.generations[s]
        /\ Shown(ctl', s) \in {None, Shown(ctl, s)} \/ Shown(ctl', s) = 1
    BY <1>1, <2>1, <2>2, <2>3 DEF StatusCalm
  <2>5. StatusApplies(q)
    BY <2>2, <2>4 DEF StatusApplies, Current
  <2>6. CASE Shown(ctl', s) = 1
    BY <1>3, <1>4, <2>6
  <2>7. CASE Shown(ctl', s) = Shown(ctl, s)
    BY <1>1, <1>4, <2>5, <2>7 DEF StatusKnows
  <2> QED BY <1>4, <2>4, <2>6, <2>7
<1>5. rev'[e][s] > 0 /\ (pc[q] = "answered" => answer[q] > 0 /\ answer[q] <= rev'[e][s])
  BY <1>2, <1>3
<1> QED BY <1>4, <1>5 DEF StatusKnows

LEMMA OpKeeps ==
  ASSUME TasksOK, IInv, IInv', HInv, RevGrows, NEW t, NEW p \in Ops, p # t, OpsCalm(t),
         t \in Ops => OpKnows(t)',
         \A r \in Ops : r # t => pc'[r] = pc[r] /\ at'[r] = at[r] /\ answer'[r] = answer[r]
  PROVE  OpKnows(p)'
<1>1. p \in Tasks /\ OpKnows(p) /\ OpInv(p)
  BY DEF Tasks, HInv, IInv, TaskInv
<1>2. pc'[p] = pc[p] /\ at'[p] = at[p] /\ answer'[p] = answer[p]
  OBVIOUS
<1> DEFINE e == at[p].source
           s == at[p].server
<1>3. Holding(p)' => rev'[e][s] > 0
  <2> SUFFICES ASSUME Holding(p)' PROVE rev'[e][s] > 0
    OBVIOUS
  <2>1. Holding(p) /\ e \in Sources /\ s \in Servers
    BY <1>1, <1>2 DEF Holding, OpInv
  <2>2. rev[e][s] \in Nat /\ rev'[e][s] \in Nat /\ rev'[e][s] >= rev[e][s] /\ rev[e][s] > 0
    BY <1>1, <2>1 DEF IInv, Types, RevGrows, OpKnows
  <2> QED BY <2>2
<1>4. ASSUME Holding(p)', NEW r \in Ops, Holding(r)', at'[r].source = e, at'[r].server = s
      PROVE  r = p
  <2>1. CASE r = t
    <3>1. OpKnows(t)' /\ Holding(t)' /\ at'[t].source = at'[p].source /\ at'[t].server = at'[p].server
      BY <1>2, <1>4, <2>1
    <3> QED BY <1>4, <2>1, <3>1 DEF OpKnows
  <2>2. CASE r # t
    <3>1. Holding(r) /\ Holding(p) /\ at[r].source = e /\ at[r].server = s
      BY <1>2, <1>4, <2>2 DEF Holding
    <3> QED BY <1>1, <3>1 DEF OpKnows
  <2> QED BY <2>1, <2>2
<1>5. pc[p] = "answered" =>
       /\ answer[p] = IF at[p].kind = "create" THEN 1 ELSE rev'[e][s]
       /\ at[p].kind = "delete" => s \notin exists'[e]
       /\ at[p].kind = "install" => s \in exists'[e]
  BY <1>1 DEF OpKnows, OpsCalm
<1> QED BY <1>2, <1>3, <1>4, <1>5 DEF OpKnows

\* Every step but those of the store moves one task.
LEMMA HCombine ==
  ASSUME TasksOK, IInv, IInv', HInv, RevGrows, NEW t, OthersStay(t),
         VisitsCalm(t), ListsCalm(t), \A s \in Servers : StatusCalm(t, s), OpsCalm(t),
         StoreBelow', Gone', TaskKnows(t)'
  PROVE  HInv'
<1>1. ASSUME NEW v \in Visits PROVE VisitKnows(v)'
  <2>1. \A w \in Visits : w \in Tasks
    BY DEF Tasks
  <2>2. CASE v = t
    BY <2>2 DEF TaskKnows
  <2>3. CASE v # t
    BY <2>1, <2>3, VisitKeeps DEF OthersStay, TaskKnows
  <2> QED BY <2>2, <2>3
<1>2. ASSUME NEW l \in Lists PROVE ListKnows(l)'
  <2>1. CASE l = t
    BY <2>1 DEF TaskKnows
  <2>2. CASE l # t
    <3>1. l \in Tasks
      BY DEF Tasks
    <3> QED BY <2>2, <3>1, ListKeeps DEF OthersStay
  <2> QED BY <2>1, <2>2
<1>3. ASSUME NEW q \in Statuses PROVE StatusKnows(q)'
  <2>1. CASE q = t
    BY <2>1 DEF TaskKnows
  <2>2. CASE q # t
    <3>1. q \in Tasks
      BY DEF Tasks
    <3> QED BY <2>2, <3>1, StatusKeeps DEF OthersStay
  <2> QED BY <2>1, <2>2
<1>4. ASSUME NEW p \in Ops PROVE OpKnows(p)'
  <2>1. \A r \in Ops : r \in Tasks
    BY DEF Tasks
  <2>2. CASE p = t
    BY <2>2 DEF TaskKnows
  <2>3. CASE p # t
    BY <2>1, <2>3, OpKeeps DEF OthersStay, TaskKnows
  <2> QED BY <2>2, <2>3
<1> QED BY <1>1, <1>2, <1>3, <1>4 DEF HInv

-----------------------------------------------------------------------------
(* The cache: what is put in it is not ahead of the core.                  *)

LEMMA BelowEmpty == Below(EmptyCache)
BY DEF Below, EmptyCache

LEMMA SetEntryFacts ==
  ASSUME Types, NEW cache \in Caches, NEW e \in Sources, NEW s \in Servers,
         NEW value \in Nat \cup {None}
  PROVE  LET d == SetEntry(cache, e, s, value)
         IN /\ d \in Caches /\ d[e][s] = value
            /\ \A f \in Sources : f # e => d[f] = cache[f]
            /\ \A u \in Servers : u # s => d[e][u] = IF cache[e] = None THEN None ELSE cache[e][u]
            /\ Below(cache) /\ (value # None => value <= rev[e][s]) => Below(d)
<1> DEFINE old == IF cache[e] = None THEN EmptyScope ELSE cache[e]
           new == [old EXCEPT ![s] = value]
           d == SetEntry(cache, e, s, value)
<1>1. old \in [Servers -> Nat \cup {None}]
  BY EmptyTypes DEF Caches
<1>2. new \in [Servers -> Nat \cup {None}] /\ new[s] = value
      /\ \A u \in Servers : u # s => new[u] = IF cache[e] = None THEN None ELSE cache[e][u]
  BY <1>1 DEF EmptyScope
<1>3. d = [cache EXCEPT ![e] = new]
  BY DEF SetEntry, WithEntries, Caches
<1> HIDE DEF new, old, d
<1>4. d \in Caches /\ d[e] = new /\ \A f \in Sources : f # e => d[f] = cache[f]
  BY <1>2, <1>3 DEF Caches
<1>5. Below(cache) /\ (value # None => value <= rev[e][s]) => Below(d)
  BY <1>2, <1>4 DEF Below
<1> QED BY <1>2, <1>4, <1>5 DEF d

LEMMA ReconcileFacts ==
  ASSUME Types, NEW cache \in Caches, NEW e \in Sources, NEW ids
  PROVE  LET d == Reconcile(cache, e, ids)
         IN /\ d \in Caches
            /\ \A f \in Sources : f # e => d[f] = cache[f]
            /\ \A u \in Servers : d[e][u] \in {None, IF cache[e] = None THEN None ELSE cache[e][u]}
            /\ Below(cache) => Below(d)
<1> DEFINE old == IF cache[e] = None THEN EmptyScope ELSE cache[e]
           new == [s \in Servers |-> IF s \in ids THEN old[s] ELSE None]
           d == Reconcile(cache, e, ids)
<1>1. old \in [Servers -> Nat \cup {None}]
  BY EmptyTypes DEF Caches
<1>2. new \in [Servers -> Nat \cup {None}]
      /\ \A u \in Servers : new[u] \in {None, IF cache[e] = None THEN None ELSE cache[e][u]}
  BY <1>1 DEF EmptyScope
<1>3. d = [cache EXCEPT ![e] = new]
  BY DEF Reconcile, WithEntries, Caches
<1> HIDE DEF new, old, d
<1>4. d \in Caches /\ d[e] = new /\ \A f \in Sources : f # e => d[f] = cache[f]
  BY <1>2, <1>3 DEF Caches
<1>5. Below(cache) => Below(d)
  BY <1>2, <1>4 DEF Below
<1> QED BY <1>2, <1>4, <1>5 DEF d

LEMMA FilteredFacts ==
  ASSUME NEW cache \in Caches, Below(cache)
  PROVE  Below(Filtered(cache))
BY DEF Below, Filtered, Caches

\* A write of the controller's cache is queued, or none.
LEMMA StoreKeeps ==
  ASSUME IInv, IInv', HInv, RevGrows, UNCHANGED <<writing, disk>>,
         ctl'.cache = ctl.cache \/ Below(ctl.cache)',
         queue' = queue \/ Enqueue(ctl'.cache)
  PROVE  StoreBelow'
<1>1. \A c \in Caches : Below(c) => Below(c)'
  BY BelowGrows DEF IInv
<1>2. \A c \in Caches : Below(c) => \A e \in Sources, s \in Servers :
        c[e] # None /\ c[e][s] # None => c[e][s] <= rev'[e][s]
  BY <1>1 DEF Below
<1>3. StoreBelow
  BY DEF HInv
<1>4. ctl.cache \in Caches /\ disk \in Caches /\ queue \in Seq(Items)
      /\ (writing # None => writing \in Caches)
  BY DEF IInv, Types, Ctls
<1>5. Below(ctl.cache)'
  BY <1>2, <1>3, <1>4 DEF StoreBelow, Below
<1>6. Below(disk)' /\ (writing' # None => Below(writing)')
  <2>1. Below(disk) /\ (writing # None => Below(writing))
    BY <1>3 DEF StoreBelow
  <2>2. disk' = disk /\ writing' = writing
    OBVIOUS
  <2>3. \A e \in Sources, s \in Servers :
          disk[e] # None /\ disk[e][s] # None => disk[e][s] <= rev'[e][s]
    BY <1>2, <1>4, <2>1
  <2>4. writing # None => \A e \in Sources, s \in Servers :
          writing[e] # None /\ writing[e][s] # None => writing[e][s] <= rev'[e][s]
    BY <1>2, <1>4, <2>1
  <2> QED BY <2>2, <2>3, <2>4 DEF Below
<1>7. \A i \in 1..Len(queue) : queue[i].kind = "write" => Below(queue[i].cache)'
  <2> SUFFICES ASSUME NEW i \in 1..Len(queue), queue[i].kind = "write"
               PROVE  \A e \in Sources, s \in Servers :
                 queue'[i].cache[e] # None /\ queue'[i].cache[e][s] # None =>
                   queue'[i].cache[e][s] <= rev'[e][s]
    BY DEF Below
  <2>1. queue'[i] = queue[i]
    <3>1. CASE queue' = queue
      BY <3>1
    <3>2. CASE Enqueue(ctl'.cache)
      <4> DEFINE x == [kind |-> "write", cache |-> ctl'.cache]
      <4>1. queue' = Append(queue, x)
        BY <3>2 DEF Enqueue
      <4> HIDE DEF x
      <4> QED BY <1>4, <4>1
    <3> QED BY <3>1, <3>2
  <2>2. queue[i] \in Items
    BY <1>4
  <2>3. queue[i].cache \in Caches /\ Below(queue[i].cache)
    BY <1>3, <2>2 DEF StoreBelow, Items
  <2> QED BY <1>2, <2>1, <2>3
<1>8. \A i \in 1..Len(queue') : queue'[i].kind = "write" => Below(queue[i].cache)'
  <2>1. CASE queue' = queue
    BY <1>7, <2>1
  <2>2. CASE Enqueue(ctl'.cache)
    <3> DEFINE x == [kind |-> "write", cache |-> ctl'.cache]
    <3>1. queue' = Append(queue, x)
      BY <2>2 DEF Enqueue
    <3>2. x.cache = ctl'.cache
      OBVIOUS
    <3> HIDE DEF x
    <3>3. \A i \in 1..Len(queue') : (i \in 1..Len(queue) /\ queue'[i] = queue[i]) \/ queue'[i] = x
      BY <1>4, <3>1
    <3> QED BY <1>5, <1>7, <3>2, <3>3 DEF Below
  <2> QED BY <2>1, <2>2
<1> QED BY <1>5, <1>6, <1>8 DEF StoreBelow

LEMMA GoneKeeps ==
  ASSUME HInv, UNCHANGED <<exists, rev>>,
         ctl'.source = ctl.source, \A s \in Servers : recorded'[s] = "delete" => recorded[s] = "delete"
  PROVE  Gone'
BY DEF HInv, Gone

\* A step that leaves the list and the core as they are.
LEMMA HQuiet ==
  ASSUME TasksOK, IInv, IInv', HInv, NEW t, OthersStay(t),
         UNCHANGED <<ctl, exists, rev, recorded>>, StoreBelow', TaskKnows(t)'
  PROVE  HInv'
<1>1. RevGrows
  BY DEF RevGrows, IInv, Types
<1>2. VisitsCalm(t) /\ ListsCalm(t) /\ OpsCalm(t)
  BY DEF VisitsCalm, ListsCalm, OpsCalm
<1>3. \A s \in Servers : StatusCalm(t, s)
  BY DEF StatusCalm
<1>4. Gone'
  BY GoneKeeps
<1> QED BY <1>1, <1>2, <1>3, <1>4, HCombine

LEMMA StoreSame ==
  ASSUME IInv, IInv', HInv, UNCHANGED <<ctl, rev, queue, writing, disk>>
  PROVE  StoreBelow'
<1>1. RevGrows
  BY DEF RevGrows, IInv, Types
<1> QED BY <1>1, StoreKeeps

\* No visit, no list, no status and no operation.
LEMMA NoTask ==
  ASSUME TasksOK, NEW t, t = None \/ t \in Sources
  PROVE  TaskKnows(t)'
BY DEF TasksOK, Tasks, TaskKnows

-----------------------------------------------------------------------------
(* The steps that leave the list and the core as they are, again.          *)

LEMMA LoadCacheKnows ==
  ASSUME TasksOK, IInv, IInv', HInv, NEW v \in Visits, LoadCache(v) PROVE HInv'
<1>1. v \in Tasks /\ v \notin Lists \cup Statuses \cup Ops
  BY Sorts
<1>2. Goto(v, "listing") /\ pc[v] = "barrier"
      /\ UNCHANGED <<exists, rev, ctl, wanted, at, ahead, queue, writing, deleted, disk, recorded>>
  BY DEF LoadCache, core, store
<1>3. PICK loaded \in {disk, EmptyCache} :
        answer' = [answer EXCEPT ![v] = [ids |-> {}, failed |-> TRUE, cache |-> loaded]]
  BY DEF LoadCache
<1>4. pc'[v] = "listing" /\ \A u \in Tasks : u # v => pc'[u] = pc[u]
  BY <1>1, <1>2, GotoFacts DEF IInv, Places
<1>5. answer'[v].cache = loaded /\ \A u \in Tasks : u # v => answer'[u] = answer[u]
  BY <1>1, <1>3 DEF IInv, Types
<1>6. OthersStay(v)
  BY <1>2, <1>4, <1>5 DEF OthersStay
<1>7. Below(loaded)
  BY BelowEmpty, <1>3 DEF HInv, StoreBelow
<1>8. VisitKnows(v)'
  <2>1. Below(answer[v].cache)'
    BY <1>2, <1>5, <1>7 DEF Below
  <2>2. VisitKnows(v)
    BY DEF HInv
  <2>3. \A w \in Visits : Starting(w)' => Starting(w)
    <3>1. \A w \in Visits : w \in Tasks
      BY DEF Tasks
    <3> QED BY <1>2, <1>4, <3>1 DEF Starting, Current
  <2> QED BY <1>2, <2>1, <2>2, <2>3 DEF VisitKnows
<1>9. StoreBelow'
  BY <1>2, StoreSame
<1> QED BY <1>1, <1>2, <1>6, <1>8, <1>9, HQuiet DEF TaskKnows

LEMMA ListAtStartKnows ==
  ASSUME TasksOK, IInv, IInv', HInv, NEW v \in Visits, ListAtStart(v) PROVE HInv'
<1>1. v \in Tasks /\ v \notin Lists \cup Statuses \cup Ops
  BY Sorts
<1>2. Goto(v, "answered") /\ pc[v] = "listing"
      /\ UNCHANGED <<exists, rev, ctl, wanted, at, ahead, queue, writing, deleted, disk, recorded>>
  BY DEF ListAtStart, core, store
<1> DEFINE e == at[v].source
           c == Reconcile(answer[v].cache, e, exists[e])
           new == [ids |-> exists[e], failed |-> FALSE, cache |-> c]
<1>3. answer' = [answer EXCEPT ![v] = new] \/ answer' = answer
  BY DEF ListAtStart
<1>4. pc'[v] = "answered" /\ \A u \in Tasks : u # v => pc'[u] = pc[u]
  BY <1>1, <1>2, GotoFacts DEF IInv, Places
<1>5. new.cache = c
  OBVIOUS
<1>6. VisitInv(v) /\ VisitKnows(v)
  BY <1>1 DEF IInv, TaskInv, HInv
<1>7. answer[v].cache \in Caches /\ Below(answer[v].cache) /\ e \in Sources
  BY <1>2, <1>6 DEF VisitInv, VisitKnows, Loaded
<1>8. Below(c)
  BY <1>7, ReconcileFacts DEF IInv
<1> HIDE DEF c, new
<1>9. answer'[v].cache \in {c, answer[v].cache} /\ \A u \in Tasks : u # v => answer'[u] = answer[u]
  BY <1>1, <1>3, <1>5 DEF IInv, Types
<1>10. OthersStay(v)
  BY <1>2, <1>4, <1>9 DEF OthersStay
<1>11. VisitKnows(v)'
  <2>1. Below(answer[v].cache)'
    BY <1>2, <1>7, <1>8, <1>9 DEF Below
  <2>2. \A w \in Visits : Starting(w)' => Starting(w)
    <3>1. \A w \in Visits : w \in Tasks
      BY DEF Tasks
    <3> QED BY <1>2, <1>4, <3>1 DEF Starting, Current
  <2> QED BY <1>2, <1>6, <2>1, <2>2 DEF VisitKnows
<1>12. StoreBelow'
  BY <1>2, StoreSame
<1> QED BY <1>1, <1>2, <1>10, <1>11, <1>12, HQuiet DEF TaskKnows

LEMMA ListAtCoreKnows ==
  ASSUME TasksOK, IInv, IInv', HInv, NEW l \in Lists, ListAtCore(l) PROVE HInv'
<1>1. l \in Tasks /\ l \notin Visits \cup Statuses \cup Ops
  BY Sorts
<1>2. Goto(l, "answered") /\ answer' = [answer EXCEPT ![l] = exists[at[l].source]]
      /\ UNCHANGED <<exists, rev, ctl, wanted, at, ahead, queue, writing, deleted, disk, recorded>>
  BY DEF ListAtCore, core, store
<1>3. pc'[l] = "answered" /\ \A u \in Tasks : u # l => pc'[u] = pc[u]
  BY <1>1, <1>2, GotoFacts DEF IInv, Places
<1>4. answer'[l] = exists[at[l].source] /\ \A u \in Tasks : u # l => answer'[u] = answer[u]
  BY <1>1, <1>2 DEF IInv, Types
<1>5. OthersStay(l)
  BY <1>2, <1>3, <1>4 DEF OthersStay
<1>6. ListKnows(l)'
  <2> SUFFICES ASSUME ListApplies(l)', NEW s \in exists[at[l].source] PROVE recorded[s] # "delete"
    BY <1>2, <1>4 DEF ListKnows
  <2>1. at[l].source = ctl.source
    BY <1>2 DEF ListApplies, Current
  <2>2. s \in Servers \/ s \notin Servers
    OBVIOUS
  <2>3. ctl.source \in Sources
    <3>1. ctl.source \in SourceIds /\ ctl.source # None
      <4>1. ctl \in Ctls
        BY DEF IInv, Types
      <4>2. l # None
        BY <1>1 DEF TasksOK
      <4>3. at[l].source \in Sources
        BY <1>1 DEF IInv, TaskInv, ListInv, ListAtCore
      <4> QED BY <2>1, <4>3 DEF TasksOK, SourceIds
    <3> QED BY <3>1 DEF SourceIds
  <2>4. s \in Servers
    BY <2>1, <2>3 DEF IInv, Types
  <2> QED BY <2>1, <2>4 DEF HInv, Gone
<1>7. StoreBelow'
  BY <1>2, StoreSame
<1> QED BY <1>1, <1>2, <1>5, <1>6, <1>7, HQuiet DEF TaskKnows

LEMMA StatusAtCoreKnows ==
  ASSUME TasksOK, IInv, IInv', HInv, NEW q \in Statuses, StatusAtCore(q) PROVE HInv'
<1>1. q \in Tasks /\ q \notin Visits \cup Lists \cup Ops
  BY Sorts
<1>2. Goto(q, "answered") /\ answer' = [answer EXCEPT ![q] = rev[at[q].source][at[q].server]]
      /\ pc[q] = "asking"
      /\ UNCHANGED <<exists, rev, ctl, wanted, at, ahead, queue, writing, deleted, disk, recorded>>
  BY DEF StatusAtCore, core, store
<1>3. pc'[q] = "answered" /\ \A u \in Tasks : u # q => pc'[u] = pc[u]
  BY <1>1, <1>2, GotoFacts DEF IInv, Places
<1>4. answer'[q] = rev[at[q].source][at[q].server] /\ \A u \in Tasks : u # q => answer'[u] = answer[u]
  BY <1>1, <1>2 DEF IInv, Types
<1>5. OthersStay(q)
  BY <1>2, <1>3, <1>4 DEF OthersStay
<1>6. StatusKnows(q)'
  <2> DEFINE e == at[q].source
             s == at[q].server
  <2>1. e \in Sources /\ s \in Servers /\ rev[e][s] > 0 /\ rev[e][s] \in Nat
    <3>1. StatusInv(q) /\ StatusKnows(q)
      BY <1>1 DEF HInv, IInv, TaskInv
    <3>2. e \in Sources /\ s \in Servers /\ rev[e][s] > 0
      BY <1>2, <3>1 DEF StatusKnows, StatusInv
    <3>3. rev \in [Sources -> [Servers -> Nat]]
      BY DEF IInv, Types
    <3> QED BY <3>2, <3>3
  <2>2. ASSUME StatusApplies(q)', Shown(ctl, s) # None PROVE Shown(ctl, s) <= rev[e][s]
    <3>1. ctl.source = e
      BY <1>2, <2>2 DEF StatusApplies, Current
    <3>2. ctl.cache[e] # None /\ Shown(ctl, s) = ctl.cache[e][s]
      BY <2>2, <3>1 DEF Shown
    <3> QED BY <2>1, <2>2, <3>2 DEF HInv, StoreBelow, Below
  <2> QED BY <1>2, <1>3, <1>4, <2>1, <2>2 DEF StatusKnows
<1>7. StoreBelow'
  BY <1>2, StoreSame
<1> QED BY <1>1, <1>2, <1>5, <1>6, <1>7, HQuiet DEF TaskKnows

\* An operation goes on or ends.
LEMMA OpGoesOn ==
  ASSUME TasksOK, IInv, IInv', HInv, NEW p \in Ops, OthersStay(p),
         pc'[p] # "answered", Holding(p)' => Holding(p) /\ at'[p] = at[p],
         UNCHANGED rev
  PROVE  OpKnows(p)'
<1>1. OpKnows(p)
  BY DEF HInv
<1>2. \A r \in Ops : r \in Tasks
  BY DEF Tasks
<1>3. \A r \in Ops : r # p => pc'[r] = pc[r] /\ at'[r] = at[r]
  BY <1>2 DEF OthersStay
<1> SUFFICES ASSUME Holding(p)' PROVE OpKnows(p)'
  BY DEF OpKnows
<1>4. Holding(p) /\ at'[p] = at[p]
  OBVIOUS
<1>5. \A r \in Ops : Holding(r)' /\ at'[r].source = at'[p].source /\ at'[r].server = at'[p].server
                     => r = p
  BY <1>1, <1>3, <1>4 DEF OpKnows, Holding
<1> QED BY <1>1, <1>4, <1>5 DEF OpKnows

LEMMA OpEndsKnows ==
  ASSUME TasksOK, IInv, IInv', HInv, NEW p \in Ops, GiveUp(p) \/ Release(p) PROVE HInv'
<1>1. p \in Tasks /\ p \notin Visits \cup Lists \cup Statuses
  BY Sorts
<1>2. Finish(p) /\ UNCHANGED <<exists, rev, ctl, queue, writing, deleted, disk, recorded>>
  BY DEF GiveUp, Release, core, store
<1>3. OthersStay(p) /\ pc'[p] = "done"
  BY <1>1, <1>2, FinishFacts DEF IInv
<1>4. OpKnows(p)'
  BY <1>2, <1>3, OpGoesOn DEF Holding
<1>5. StoreBelow'
  BY <1>2, StoreSame
<1> QED BY <1>1, <1>2, <1>3, <1>4, <1>5, HQuiet DEF TaskKnows

LEMMA OpenedKnows ==
  ASSUME TasksOK, IInv, IInv', HInv, NEW p \in Ops, Opened(p) PROVE HInv'
<1>1. p \in Tasks /\ p \notin Visits \cup Lists \cup Statuses
  BY Sorts
<1>2. Goto(p, "running") /\ pc[p] = "opening"
      /\ UNCHANGED <<exists, rev, ctl, at, answer, queue, writing, deleted, disk, recorded>>
  BY DEF Opened, core, store
<1>3. pc'[p] = "running" /\ \A u \in Tasks : u # p => pc'[u] = pc[u]
  BY <1>1, <1>2, GotoFacts DEF IInv, Places
<1>4. OthersStay(p)
  BY <1>2, <1>3 DEF OthersStay
<1>5. OpKnows(p)'
  BY <1>2, <1>3, <1>4, OpGoesOn DEF Holding
<1>6. StoreBelow'
  BY <1>2, StoreSame
<1> QED BY <1>1, <1>2, <1>4, <1>5, <1>6, HQuiet DEF TaskKnows

LEMMA FailAtCoreKnows ==
  ASSUME TasksOK, IInv, IInv', HInv, NEW p \in Ops, FailAtCore(p) PROVE HInv'
<1>1. p \in Tasks /\ p \notin Visits \cup Lists \cup Statuses
  BY Sorts
<1>2. pc[p] = "running"
      /\ UNCHANGED <<exists, rev, ctl, queue, writing, deleted, disk, recorded>>
  BY DEF FailAtCore, core, store
<1>3. CASE Finish(p)
  <2>1. OthersStay(p) /\ pc'[p] = "done"
    BY <1>1, <1>3, FinishFacts DEF IInv
  <2>2. OpKnows(p)'
    BY <1>2, <2>1, OpGoesOn DEF Holding
  <2>3. StoreBelow'
    BY <1>2, StoreSame
  <2> QED BY <1>1, <1>2, <2>1, <2>2, <2>3, HQuiet DEF TaskKnows
<1>4. CASE /\ at[p].kind = "change" /\ Goto(p, "answered") /\ UNCHANGED at
           /\ answer' = [answer EXCEPT ![p] = rev[at[p].source][at[p].server]]
  <2>1. pc'[p] = "answered" /\ \A u \in Tasks : u # p => pc'[u] = pc[u]
    BY <1>1, <1>4, GotoFacts DEF IInv, Places
  <2>2. answer'[p] = rev[at[p].source][at[p].server] /\ \A u \in Tasks : u # p => answer'[u] = answer[u]
    BY <1>1, <1>4 DEF IInv, Types
  <2>3. OthersStay(p)
    BY <1>4, <2>1, <2>2 DEF OthersStay
  <2>4. OpKnows(p)'
    <3>1. OpKnows(p) /\ Holding(p)
      BY <1>2, <1>4 DEF HInv, Holding
    <3>2. \A r \in Ops : r \in Tasks
      BY DEF Tasks
    <3>3. \A r \in Ops : Holding(r)' => Holding(r)
      BY <1>2, <1>4, <2>1, <3>1, <3>2 DEF Holding
    <3> QED BY <1>2, <1>4, <2>1, <2>2, <3>1, <3>3 DEF OpKnows
  <2>5. StoreBelow'
    BY <1>2, StoreSame
  <2> QED BY <1>1, <1>2, <2>3, <2>4, <2>5, HQuiet DEF TaskKnows
<1> QED BY <1>3, <1>4 DEF FailAtCore

LEMMA BeginKnows ==
  ASSUME TasksOK, IInv, IInv', HInv, NEW p \in Ops, Begin(p) PROVE HInv'
<1>1. p \in Tasks /\ p \notin Visits \cup Lists \cup Statuses
  BY Sorts
<1>2. pc[p] = "idle" /\ ctl.source # None /\ Goto(p, "opening")
      /\ UNCHANGED <<exists, rev, ctl, answer, queue, writing, deleted, disk, recorded>>
  BY DEF Begin, core, store
<1>3. PICK s \in Servers, kind \in OpKinds :
        /\ kind = "create" <=> <<ctl.source, s>> \notin ctl.manifests
        /\ kind # "create" => ~Locked(ctl.source, s)
        /\ at' = [at EXCEPT ![p] = [Nothing EXCEPT
             !.source = ctl.source, !.sourceRevision = ctl.sourceRevision,
             !.server = s, !.kind = kind]]
  BY DEF Begin, OpKinds
<1>4. pc'[p] = "opening" /\ \A u \in Tasks : u # p => pc'[u] = pc[u]
  BY <1>1, <1>2, GotoFacts DEF IInv, Places
<1>5. at'[p].source = ctl.source /\ at'[p].server = s /\ at'[p].kind = kind
      /\ \A u \in Tasks : u # p => at'[u] = at[u]
  BY <1>1, <1>3 DEF IInv, Types, Nothing
<1>6. OthersStay(p)
  BY <1>2, <1>4, <1>5 DEF OthersStay
<1>7. OpKnows(p)'
  <2> SUFFICES ASSUME kind # "create"
               PROVE  /\ rev[ctl.source][s] > 0
                      /\ \A r \in Ops : Holding(r)' /\ at'[r].source = ctl.source
                                        /\ at'[r].server = s => r = p
    BY <1>2, <1>4, <1>5 DEF OpKnows, Holding
  <2>1. <<ctl.source, s>> \in ctl.manifests
    BY <1>3
  <2>2. rev[ctl.source][s] > 0
    <3>1. \A m \in ctl.manifests : rev[m[1]][m[2]] > 0
      BY DEF IInv, ListedInv, OwnSourceOnly
    <3> QED BY <2>1, <3>1
  <2>3. \A r \in Ops : r \in Tasks
    BY DEF Tasks
  <2>4. ~Locked(ctl.source, s)
    BY <1>3
  <2>5. \A r \in Ops : Holding(r)' /\ at'[r].source = ctl.source
                                        /\ at'[r].server = s => r = p
    BY <1>4, <1>5, <2>3, <2>4 DEF Holding, Locked
  <2> QED BY <2>2, <2>5
<1>8. StoreBelow'
  BY <1>2, StoreSame
<1> QED BY <1>1, <1>2, <1>6, <1>7, <1>8, HQuiet DEF TaskKnows

-----------------------------------------------------------------------------
(* The store, and the end and the beginning of a visit.                    *)

LEMMA HStoreOnly ==
  ASSUME TasksOK, IInv, IInv', HInv, NEW t, t = None \/ t \in Sources, OthersStay(t),
         UNCHANGED <<ctl, exists, rev, recorded>>, StoreBelow'
  PROVE  HInv'
BY HQuiet, NoTask

LEMMA BeginWriteKnows == ASSUME TasksOK, IInv, IInv', HInv, BeginWrite PROVE HInv'
<1>1. queue # <<>> /\ writing = None
      /\ UNCHANGED <<exists, rev, ctl, pc, at, answer, queue, disk, recorded>>
      /\ writing' = IF Head(queue).kind = "write" THEN ToWrite(Head(queue)) ELSE Filtered(disk)
  BY DEF BeginWrite, core, tasks
<1>2. disk \in Caches /\ queue \in Seq(Items) /\ StoreBelow
  BY DEF IInv, Types, HInv
<1>3. Head(queue) = queue[1] /\ 1 \in 1..Len(queue) /\ queue[1] \in Items
  BY <1>1, <1>2
<1>4. Head(queue).kind = "write" => Head(queue).cache \in Caches /\ Below(Head(queue).cache)
  BY <1>2, <1>3 DEF StoreBelow, Items
<1>5. PICK c \in Caches : writing' = Filtered(c) /\ Below(c)
  BY <1>1, <1>2, <1>4 DEF ToWrite, StoreBelow
<1>6. Below(Filtered(c))
  BY <1>5, FilteredFacts
<1>7. StoreBelow'
  BY <1>1, <1>2, <1>5, <1>6 DEF StoreBelow, Below
<1>8. OthersStay(None)
  BY <1>1 DEF OthersStay
<1> QED BY <1>1, <1>7, <1>8, HStoreOnly

LEMMA EndWriteKnows == ASSUME TasksOK, IInv, IInv', HInv, EndWrite PROVE HInv'
<1>1. PICK ok \in BOOLEAN :
        /\ disk' = IF ok THEN writing ELSE disk
        /\ pc' = [t \in Tasks |-> IF Head(queue).kind # "write" /\ Head(queue).endpoint = t
                                  THEN IF ok THEN "cleaned" ELSE "done" ELSE pc[t]]
  BY DEF EndWrite
<1>2. writing # None /\ writing' = None /\ queue' = Tail(queue)
      /\ UNCHANGED <<exists, rev, ctl, at, answer, recorded>>
  BY DEF EndWrite, core
<1>3. queue # <<>> /\ queue \in Seq(Items) /\ StoreBelow
  BY <1>2 DEF IInv, Types, StoreInv, HInv
<1>4. Head(queue) \in Items
      /\ \A i \in 1..Len(queue') : i + 1 \in 1..Len(queue) /\ queue'[i] = queue[i + 1]
  BY <1>2, <1>3
<1>5. Head(queue).kind # "write" => Head(queue).endpoint \in Sources
  BY <1>4 DEF Items
<1>6. StoreBelow'
  <2>1. \A i \in 1..Len(queue') : queue'[i].kind = "write" => Below(queue[i].cache)'
    BY <1>2, <1>3, <1>4 DEF StoreBelow, Below
  <2>2. Below(ctl.cache)' /\ Below(disk)'
    BY <1>1, <1>2, <1>3 DEF StoreBelow, Below
  <2> QED BY <1>2, <2>1, <2>2 DEF StoreBelow
<1> DEFINE t == IF Head(queue).kind # "write" THEN Head(queue).endpoint ELSE None
<1>7. OthersStay(t)
  BY <1>1, <1>2 DEF OthersStay
<1>8. t = None \/ t \in Sources
  BY <1>5
<1> HIDE DEF t
<1> QED BY <1>2, <1>6, <1>7, <1>8, HStoreOnly

LEMMA CleanupKnows == ASSUME TasksOK, IInv, IInv', HInv, NEW e \in Sources \ {Local}, Cleanup(e) PROVE HInv'
<1> DEFINE x == [kind |-> "cleanup", endpoint |-> e]
<1>1. Goto(e, "cleaning") /\ queue' = Append(queue, x)
      /\ UNCHANGED <<exists, rev, ctl, at, answer, writing, disk, recorded>>
  BY DEF Cleanup, core
<1>2. e \in Tasks
  BY DEF Tasks
<1>3. \A u \in Tasks : u # e => pc'[u] = pc[u]
  BY <1>1, <1>2, GotoFacts DEF IInv, Places
<1>4. x.kind = "cleanup" /\ queue \in Seq(Items) /\ StoreBelow
  BY DEF IInv, Types, HInv
<1> HIDE DEF x
<1>5. \A i \in 1..Len(queue') : (i \in 1..Len(queue) /\ queue'[i] = queue[i]) \/ queue'[i] = x
  BY <1>1, <1>4
<1>6. StoreBelow'
  <2>1. \A i \in 1..Len(queue') : queue'[i].kind = "write" => Below(queue[i].cache)'
    BY <1>1, <1>4, <1>5 DEF StoreBelow, Below
  <2>2. Below(ctl.cache)' /\ Below(disk)' /\ (writing' # None => Below(writing)')
    BY <1>1, <1>4 DEF StoreBelow, Below
  <2> QED BY <2>1, <2>2 DEF StoreBelow
<1>7. OthersStay(e)
  BY <1>1, <1>3 DEF OthersStay
<1> QED BY <1>1, <1>6, <1>7, HStoreOnly

LEMMA LeftMore ==
  ASSUME NEW c \in Ctls, NEW e
  PROVE  /\ Reset(c, e).cache = EmptyCache /\ Reset(c, e).startupLoading = (e # None)
         /\ Reset(c, e).statusIds = [s \in Servers |-> None]
         /\ Reset(c, e).revision = c.revision + 1
BY DEF Reset, NoController

LEMMA HLeft ==
  ASSUME TasksOK, IInv, IInv', HInv, NEW t, OthersStay(t),
         ctl'.sourceRevision = ctl.sourceRevision + 1, ctl'.activeList = None, ctl'.cache = EmptyCache,
         NothingRecorded', UNCHANGED <<exists, rev, queue, writing, disk>>, TaskKnows(t)'
  PROVE  HInv'
<1>1. RevGrows
  BY DEF RevGrows, IInv, Types
<1>2. ctl'.sourceRevision > ctl.sourceRevision
  BY Revisions DEF IInv
<1>3. VisitsCalm(t) /\ ListsCalm(t) /\ OpsCalm(t) /\ \A s \in Servers : StatusCalm(t, s)
  BY <1>2 DEF VisitsCalm, ListsCalm, OpsCalm, StatusCalm
<1>4. Gone'
  BY DEF Gone, NothingRecorded
<1>5. StoreBelow'
  <2>1. Below(ctl.cache)'
    BY BelowEmpty DEF Below
  <2> QED BY <1>1, <2>1, StoreKeeps
<1> QED BY <1>1, <1>3, <1>4, <1>5, HCombine

LEMMA SelectKnows == ASSUME TasksOK, IInv, IInv', HInv, NEW e \in Sources, Select(e) PROVE HInv'
<1>1. ctl' = Reset(ctl, None) /\ UNCHANGED <<exists, rev, pc, at, answer, queue, writing, disk>>
      /\ NothingRecorded'
  BY DEF Select, core, tasks, store, NothingRecorded
<1>2. None \in SourceIds /\ ctl \in Ctls
  BY DEF SourceIds, IInv, Types
<1>3. Left(None) /\ ctl'.cache = EmptyCache
  BY <1>1, <1>2, LeftFacts, LeftMore
<1>4. OthersStay(None)
  BY <1>1 DEF OthersStay
<1> QED BY <1>1, <1>3, <1>4, NoTask, HLeft DEF Left

LEMMA PrepareKnows ==
  ASSUME TasksOK, IInv, IInv', HInv, NEW e \in Sources \ {Local}, Prepare(e) PROVE HInv'
<1>1. Goto(e, "barrier") /\ UNCHANGED <<exists, rev, at, answer, queue, writing, disk>>
  BY DEF Prepare, core
<1>2. e \in Tasks
  BY DEF Tasks
<1>3. \A u \in Tasks : u # e => pc'[u] = pc[u]
  BY <1>1, <1>2, GotoFacts DEF IInv, Places
<1>4. OthersStay(e)
  BY <1>1, <1>3 DEF OthersStay
<1>5. CASE ctl' = Reset(ctl, None) /\ recorded' = [s \in Servers |-> "nothing"]
  <2>1. None \in SourceIds /\ ctl \in Ctls
    BY DEF SourceIds, IInv, Types
  <2>2. Left(None) /\ ctl'.cache = EmptyCache
    BY <1>5, <2>1, LeftFacts, LeftMore
  <2>3. NothingRecorded'
    BY <1>5 DEF NothingRecorded
  <2> QED BY <1>1, <1>4, <2>2, <2>3, NoTask, HLeft DEF Left
<1>6. CASE UNCHANGED <<ctl, recorded>>
  <2>1. StoreBelow'
    BY <1>1, <1>6, StoreSame
  <2> QED BY <1>1, <1>4, <1>6, <2>1, HStoreOnly
<1> QED BY <1>5, <1>6 DEF Prepare

LEMMA StartKnows == ASSUME TasksOK, IInv, IInv', HInv, NEW v \in Visits, Start(v) PROVE HInv'
<1>1. v \in Tasks /\ v \notin Lists \cup Statuses \cup Ops
  BY Sorts
<1>2. /\ wanted \in Sources /\ ctl \in Ctls /\ ctl' = Reset(ctl, wanted) /\ Goto(v, "barrier")
      /\ ctl.source = None
      /\ at' = [at EXCEPT ![v] = [Nothing EXCEPT
             !.source = wanted, !.sourceRevision = ctl'.sourceRevision,
             !.revision = ctl'.revision]]
      /\ UNCHANGED <<exists, rev, answer, queue, writing, disk, recorded>>
  BY DEF Start, core, store, IInv, Types
<1>3. Left(wanted) /\ ctl'.cache = EmptyCache /\ ctl'.startupLoading
      /\ ctl'.statusIds = [s \in Servers |-> None]
  <2>1. wanted \in SourceIds /\ wanted # None
    BY <1>2 DEF SourceIds, TasksOK
  <2>2. ctl'.startupLoading = (wanted # None)
    BY <1>2, LeftMore
  <2>3. Left(wanted) /\ ctl'.cache = EmptyCache /\ ctl'.statusIds = [s \in Servers |-> None]
    BY <1>2, <2>1, LeftFacts, LeftMore
  <2> QED BY <2>1, <2>2, <2>3
<1>4. pc'[v] = "barrier" /\ \A u \in Tasks : u # v => pc'[u] = pc[u]
  BY <1>1, <1>2, GotoFacts DEF IInv, Places
<1>5. \A u \in Tasks : u # v => at'[u] = at[u]
  BY <1>1, <1>2 DEF IInv, Types
<1>6. OthersStay(v)
  BY <1>2, <1>4, <1>5 DEF OthersStay
<1>7. NothingRecorded'
  BY <1>2 DEF IInv, ListedInv, NothingRecorded
<1>8. VisitKnows(v)'
  <2>1. \A w \in Visits : Starting(w)' => w = v
    <3> SUFFICES ASSUME NEW w \in Visits, w # v PROVE at'[w].sourceRevision # ctl'.sourceRevision
      BY DEF Starting, Current
    <3>1. w \in Tasks
      BY DEF Tasks
    <3>2. at'[w] = at[w] /\ at[w].sourceRevision \in Nat /\ at[w].sourceRevision <= ctl.sourceRevision
          /\ ctl.sourceRevision \in Nat
      BY <1>5, <3>1, Revisions DEF IInv, TaskInv
    <3> QED BY <1>3, <3>2 DEF Left
  <2> QED BY <1>3, <1>4, <2>1 DEF VisitKnows, Left
<1> QED BY <1>1, <1>2, <1>3, <1>6, <1>7, <1>8, HLeft DEF Left, TaskKnows

-----------------------------------------------------------------------------
(* The lists and the startup.                                              *)

LEMMA ShownSame ==
  ASSUME ctl'.source = ctl.source, ctl'.cache = ctl.cache
  PROVE  \A s \in Servers : Shown(ctl', s) = Shown(ctl, s)
BY DEF Shown

LEMMA ShownReconciled ==
  ASSUME Types, TasksOK, ctl.source \in Sources, ctl'.source = ctl.source,
         NEW ids, ctl'.cache = Reconcile(ctl.cache, ctl.source, ids)
  PROVE  \A s \in Servers : Shown(ctl', s) \in {None, Shown(ctl, s)}
<1>1. ctl.cache \in Caches /\ ctl.source # None
  BY DEF Types, Ctls, TasksOK
<1>2. \A s \in Servers : ctl'.cache[ctl.source][s]
                           \in {None, IF ctl.cache[ctl.source] = None THEN None ELSE ctl.cache[ctl.source][s]}
  BY <1>1, ReconcileFacts
<1> QED BY <1>1, <1>2 DEF Shown

LEMMA ShownSet ==
  ASSUME Types, TasksOK, ctl.source \in Sources, ctl'.source = ctl.source,
         NEW s \in Servers, NEW value \in Nat \cup {None},
         ctl'.cache = SetEntry(ctl.cache, ctl.source, s, value)
  PROVE  /\ \A u \in Servers : u # s => Shown(ctl', u) \in {None, Shown(ctl, u)}
         /\ Shown(ctl', s) \in {None, value}
<1>1. ctl.cache \in Caches /\ ctl.source # None
  BY DEF Types, Ctls, TasksOK
<1>2. /\ ctl'.cache[ctl.source][s] = value
      /\ \A u \in Servers : u # s => ctl'.cache[ctl.source][u]
           = IF ctl.cache[ctl.source] = None THEN None ELSE ctl.cache[ctl.source][u]
  BY <1>1, SetEntryFacts
<1> QED BY <1>1, <1>2 DEF Shown

LEMMA RevSame == ASSUME IInv, UNCHANGED rev PROVE RevGrows
BY DEF IInv, Types, RevGrows

LEMMA RefreshListCtl ==
  ASSUME IInv, NEW l \in Lists, RefreshList(l)
  PROVE  /\ ctl'.source = ctl.source /\ ctl'.sourceRevision = ctl.sourceRevision
         /\ ctl'.startupLoading = ctl.startupLoading /\ ctl'.revision = ctl.revision
         /\ ctl'.manifests = ctl.manifests /\ ctl'.cache = ctl.cache
         /\ ctl'.statusIds = ctl.statusIds /\ ctl'.generations = ctl.generations
         /\ ctl'.activeList = l
<1>1. ctl' = [ctl EXCEPT !.activeList = l, !.loading = TRUE] /\ ctl \in Ctls
  BY DEF RefreshList, IInv, Types
<1> QED BY <1>1 DEF Ctls

LEMMA RefreshListKnows ==
  ASSUME TasksOK, IInv, IInv', HInv, NEW l \in Lists, RefreshList(l) PROVE HInv'
<1>1. l \in Tasks /\ l \notin Visits \cup Statuses \cup Ops
  BY Sorts
<1>2. Goto(l, "listing") /\ UNCHANGED <<exists, rev, answer, queue, writing, disk, recorded>>
      /\ \E r : at' = [at EXCEPT ![l] = r]
  BY DEF RefreshList, core, store
<1>3. pc'[l] = "listing" /\ \A u \in Tasks : u # l => pc'[u] = pc[u]
  BY <1>1, <1>2, GotoFacts DEF IInv, Places
<1>4. OthersStay(l)
  BY <1>1, <1>2, <1>3 DEF OthersStay, IInv, Types
<1>5. ListKnows(l)'
  BY <1>3 DEF ListKnows
<1>6. VisitsCalm(l) /\ ListsCalm(l) /\ OpsCalm(l)
  BY <1>2, RefreshListCtl DEF VisitsCalm, ListsCalm, OpsCalm
<1>7. \A s \in Servers : StatusCalm(l, s)
  BY RefreshListCtl, ShownSame DEF StatusCalm
<1>8. Gone'
  BY <1>2, RefreshListCtl, GoneKeeps
<1>9. RevGrows
  BY <1>2, RevSame
<1>10. StoreBelow'
  BY <1>2, <1>9, RefreshListCtl, StoreKeeps
<1> QED BY <1>1, <1>4, <1>5, <1>6, <1>7, <1>8, <1>9, <1>10, HCombine DEF TaskKnows

LEMMA FinishStartCtl ==
  ASSUME IInv, NEW v \in Visits, v \in Tasks, pc[v] = "answered", Current(v), ctl' = Started(ctl, answer[v], v)
  PROVE  /\ ~ctl'.startupLoading /\ ctl'.generations = ctl.generations
         /\ ctl'.cache = IF at[v].revision = ctl.revision THEN answer[v].cache
                         ELSE Reconcile(ctl.cache, ctl.source,
                                Ids({<<ctl.source, s>> : s \in answer[v].ids} \cup ctl.manifests, ctl.source))
<1>1. ctl \in Ctls
  BY DEF IInv, Types
<1> QED BY <1>1 DEF Ctls, Started

\* What the startup shows is what it read before anything was shown, or shown already.
LEMMA StartedShown ==
  ASSUME TasksOK, IInv, HInv, NEW v \in Visits, v \in Tasks, pc[v] = "answered", Current(v),
         ctl' = Started(ctl, answer[v], v)
  PROVE  /\ ctl.startupLoading
         /\ \/ \A s \in Servers : Shown(ctl', s) \in {None, Shown(ctl, s)}
            \/ \A s \in Servers : Shown(ctl, s) = None /\ ctl.statusIds[s] = None
<1>1. Starting(v) /\ VisitKnows(v)
  BY DEF Starting, HInv
<1>2. ctl'.source = ctl.source /\ ctl.source \in Sources
  BY StartedFacts
<1>3. CASE at[v].revision = ctl.revision
  <2>1. ctl.cache = EmptyCache /\ \A s \in Servers : ctl.statusIds[s] = None
    BY <1>1, <1>3 DEF VisitKnows
  <2>2. \A s \in Servers : Shown(ctl, s) = None
    BY <1>2, <2>1 DEF Shown, EmptyCache
  <2> QED BY <1>1, <2>1, <2>2 DEF VisitKnows
<1>4. CASE at[v].revision # ctl.revision
  <2>1. \E ids : ctl'.cache = Reconcile(ctl.cache, ctl.source, ids)
    BY <1>4, FinishStartCtl
  <2>2. \A s \in Servers : Shown(ctl', s) \in {None, Shown(ctl, s)}
    BY <1>2, <2>1, ShownReconciled DEF IInv
  <2> QED BY <1>1, <2>2 DEF VisitKnows
<1> QED BY <1>3, <1>4

LEMMA FinishStartKnows ==
  ASSUME TasksOK, IInv, IInv', HInv, NEW v \in Visits, FinishStart(v) PROVE HInv'
<1>1. v \in Tasks /\ v \notin Lists \cup Statuses \cup Ops
  BY Sorts
<1>2. pc[v] = "answered" /\ Finish(v) /\ UNCHANGED <<exists, rev, writing, disk, recorded>>
  BY DEF FinishStart, core
<1>3. OthersStay(v) /\ pc'[v] = "done"
  BY <1>1, <1>2, FinishFacts DEF IInv
<1>4. VisitKnows(v)'
  BY <1>3 DEF VisitKnows, Starting
<1>5. CASE UNCHANGED <<ctl, queue>>
  <2>1. StoreBelow'
    BY <1>2, <1>5, StoreSame
  <2> QED BY <1>1, <1>2, <1>3, <1>4, <1>5, <2>1, HQuiet DEF TaskKnows
<1>6. CASE /\ Current(v) /\ ctl' = Started(ctl, answer[v], v)
           /\ queue' = queue \/ Enqueue(ctl'.cache)
  <2>1. /\ ctl'.activeList = ctl.activeList /\ ctl.source \in Sources
        /\ ctl'.source = ctl.source /\ ctl'.sourceRevision = ctl.sourceRevision
        /\ ctl'.statusIds = ctl.statusIds /\ ctl'.manifestGeneration = ctl.manifestGeneration
    BY <1>1, <1>2, <1>6, StartedFacts
  <2>2. VisitsCalm(v)
    <3>1. \A w \in Visits : Starting(w) => w = v
      BY <1>2, <1>6 DEF HInv, VisitKnows, Starting
    <3> QED BY <2>1, <3>1 DEF VisitsCalm
  <2>3. ListsCalm(v) /\ OpsCalm(v)
    BY <1>2, <2>1 DEF ListsCalm, OpsCalm
  <2>4. \A s \in Servers : StatusCalm(v, s)
    <3>1. \/ \A s \in Servers : Shown(ctl', s) \in {None, Shown(ctl, s)}
          \/ \A s \in Servers : ctl.statusIds[s] = None
      BY <1>1, <1>2, <1>6, StartedShown
    <3>2. ctl'.generations = ctl.generations
      BY <1>1, <1>2, <1>6, FinishStartCtl
    <3> QED BY <2>1, <3>1, <3>2 DEF StatusCalm
  <2>5. Gone'
    BY <1>2, <2>1, GoneKeeps
  <2>6. RevGrows
    BY <1>2, RevSame
  <2>7. Below(ctl.cache)'
    <3>1. VisitInv(v) /\ VisitKnows(v) /\ Below(ctl.cache) /\ ctl.cache \in Caches
      BY <1>1 DEF IInv, TaskInv, HInv, StoreBelow, Types, Ctls
    <3>2. Below(answer[v].cache)
      BY <1>2, <3>1 DEF VisitKnows
    <3>3. \A ids : Below(Reconcile(ctl.cache, ctl.source, ids))
      BY <2>1, <3>1, ReconcileFacts DEF IInv
    <3>4. ctl'.cache = answer[v].cache \/ \E ids : ctl'.cache = Reconcile(ctl.cache, ctl.source, ids)
      BY <1>1, <1>2, <1>6, FinishStartCtl
    <3> QED BY <1>2, <3>2, <3>3, <3>4 DEF Below
  <2>8. StoreBelow'
    BY <1>2, <1>6, <2>6, <2>7, StoreKeeps
  <2> QED BY <1>1, <1>3, <1>4, <2>2, <2>3, <2>4, <2>5, <2>6, <2>8, HCombine DEF TaskKnows
<1> QED BY <1>5, <1>6 DEF FinishStart

LEMMA FinishListCtl ==
  ASSUME TasksOK, IInv, NEW l \in Lists, FinishList(l), ~UNCHANGED <<ctl, queue>>
  PROVE  /\ pc[l] = "answered" /\ ListApplies(l)
         /\ ctl'.source = ctl.source /\ ctl'.sourceRevision = ctl.sourceRevision
         /\ ctl.source \in Sources
         /\ ctl'.startupLoading = ctl.startupLoading
         /\ ctl'.statusIds = ctl.statusIds /\ ctl'.generations = ctl.generations
         /\ ctl'.activeList = None
         /\ \/ /\ ctl'.revision > ctl.revision
               /\ ctl'.manifests = {<<ctl.source, s>> : s \in answer[l]}
               /\ ctl'.cache = Reconcile(ctl.cache, ctl.source, answer[l])
               /\ Enqueue(ctl'.cache)
            \/ /\ ctl'.revision = ctl.revision /\ ctl'.manifests = ctl.manifests
               /\ ctl'.cache = ctl.cache /\ queue' = queue
<1>1. ctl \in Ctls /\ l \in Tasks /\ ctl.revision \in Nat
  BY DEF IInv, Types, Tasks, Ctls
<1>2. pc[l] = "answered" /\ ListApplies(l)
  BY DEF FinishList
<1>3. ctl.source \in Sources
  BY <1>1, <1>2 DEF IInv, TaskInv, ListInv, ListApplies, Current
<1> DEFINE c == [ctl EXCEPT !.activeList = None, !.loading = ctl.startupLoading]
<1>4. /\ c.source = ctl.source /\ c.sourceRevision = ctl.sourceRevision
      /\ c.startupLoading = ctl.startupLoading /\ c.revision = ctl.revision
      /\ c.manifests = ctl.manifests /\ c.cache = ctl.cache
      /\ c.statusIds = ctl.statusIds /\ c.generations = ctl.generations
      /\ c.activeList = None
      /\ DOMAIN c = DOMAIN ctl
  BY <1>1 DEF Ctls
<1> DEFINE d == [c EXCEPT !.manifests = {<<c.source, s>> : s \in answer[l]},
                          !.cache = Reconcile(@, c.source, answer[l]), !.revision = @ + 1]
<1>5. /\ d.source = ctl.source /\ d.sourceRevision = ctl.sourceRevision
      /\ d.startupLoading = ctl.startupLoading /\ d.revision = ctl.revision + 1
      /\ d.manifests = {<<ctl.source, s>> : s \in answer[l]}
      /\ d.cache = Reconcile(ctl.cache, ctl.source, answer[l])
      /\ d.statusIds = ctl.statusIds /\ d.generations = ctl.generations
      /\ d.activeList = None
  BY <1>1 DEF Ctls
<1>6. (ctl' = d /\ Enqueue(ctl'.cache)) \/ (ctl' = c /\ queue' = queue)
  BY DEF FinishList
<1> HIDE DEF c, d
<1> QED BY <1>1, <1>2, <1>3, <1>4, <1>5, <1>6

LEMMA FinishListKnows ==
  ASSUME TasksOK, IInv, IInv', HInv, NEW l \in Lists, FinishList(l) PROVE HInv'
<1>1. l \in Tasks /\ l \notin Visits \cup Statuses \cup Ops
  BY Sorts
<1>2. pc[l] = "answered" /\ Finish(l) /\ UNCHANGED <<exists, rev, writing, disk, recorded>>
  BY DEF FinishList, core
<1>3. OthersStay(l) /\ pc'[l] = "done"
  BY <1>1, <1>2, FinishFacts DEF IInv
<1>4. ListKnows(l)'
  BY <1>3 DEF ListKnows
<1>5. CASE UNCHANGED <<ctl, queue>>
  <2>1. StoreBelow'
    BY <1>2, <1>5, StoreSame
  <2> QED BY <1>1, <1>2, <1>3, <1>4, <1>5, <2>1, HQuiet DEF TaskKnows
<1>6. CASE ~UNCHANGED <<ctl, queue>>
  <2>1. /\ ctl'.source = ctl.source /\ ctl'.sourceRevision = ctl.sourceRevision
        /\ ctl.source \in Sources
        /\ ctl'.startupLoading = ctl.startupLoading
        /\ ctl'.statusIds = ctl.statusIds /\ ctl'.generations = ctl.generations
        /\ ctl'.activeList = None
        /\ \/ /\ ctl'.revision > ctl.revision
              /\ ctl'.cache = Reconcile(ctl.cache, ctl.source, answer[l])
              /\ Enqueue(ctl'.cache)
           \/ /\ ctl'.revision = ctl.revision /\ ctl'.manifests = ctl.manifests
              /\ ctl'.cache = ctl.cache /\ queue' = queue
    BY <1>6, FinishListCtl
  <2>2. VisitsCalm(l) /\ ListsCalm(l) /\ OpsCalm(l)
    BY <1>2, <2>1 DEF VisitsCalm, ListsCalm, OpsCalm
  <2>3. \A s \in Servers : StatusCalm(l, s)
    <3>1. \A s \in Servers : Shown(ctl', s) \in {None, Shown(ctl, s)}
      BY <2>1, ShownReconciled, ShownSame DEF IInv
    <3> QED BY <2>1, <3>1 DEF StatusCalm
  <2>4. Gone'
    BY <1>2, <2>1, GoneKeeps
  <2>5. RevGrows
    BY <1>2, RevSame
  <2>6. Below(ctl.cache)'
    <3>1. Below(ctl.cache) /\ ctl.cache \in Caches
      BY DEF IInv, HInv, StoreBelow, Types, Ctls
    <3>2. Below(Reconcile(ctl.cache, ctl.source, answer[l]))
      BY <2>1, <3>1, ReconcileFacts DEF IInv
    <3> QED BY <1>2, <2>1, <3>1, <3>2 DEF Below
  <2>7. StoreBelow'
    BY <1>2, <2>1, <2>5, <2>6, StoreKeeps
  <2> QED BY <1>1, <1>3, <1>4, <2>2, <2>3, <2>4, <2>5, <2>7, HCombine DEF TaskKnows
<1> QED BY <1>5, <1>6

-----------------------------------------------------------------------------
(* The statuses.                                                           *)

LEMMA RefreshStatusCtl ==
  ASSUME IInv, NEW q \in Statuses, RefreshStatus(q)
  PROVE  /\ ctl'.source = ctl.source /\ ctl'.sourceRevision = ctl.sourceRevision
         /\ ctl'.startupLoading = ctl.startupLoading /\ ctl'.revision = ctl.revision
         /\ ctl'.manifests = ctl.manifests /\ ctl'.cache = ctl.cache
         /\ ctl'.generations = ctl.generations
         /\ ctl'.activeList = ctl.activeList /\ ctl'.manifestGeneration = ctl.manifestGeneration
         /\ ctl.manifests # {}
         /\ \A u \in Servers : ctl'.statusIds[u] \in {q, ctl.statusIds[u]}
<1>1. PICK s \in Ids(ctl.manifests, ctl.source) :
        ctl' = [ctl EXCEPT !.statusIds[s] = q, !.pending = @ \cup {s}]
  BY DEF RefreshStatus
<1>2. ctl \in Ctls /\ ctl.statusIds \in StatusIds /\ ctl.manifests # {} /\ s \in Servers
  BY <1>1 DEF IInv, Types, Ctls, Ids
<1>3. ctl'.statusIds = [ctl.statusIds EXCEPT ![s] = q]
  BY <1>1, <1>2 DEF Ctls
<1>4. \A u \in Servers : ctl'.statusIds[u] \in {q, ctl.statusIds[u]}
  BY <1>2, <1>3 DEF StatusIds
<1> QED BY <1>1, <1>2, <1>4 DEF Ctls

LEMMA RefreshStatusKnows ==
  ASSUME TasksOK, IInv, IInv', HInv, NEW q \in Statuses, RefreshStatus(q) PROVE HInv'
<1>1. q \in Tasks /\ q \notin Visits \cup Lists \cup Ops
  BY Sorts
<1>2. Goto(q, "asking") /\ UNCHANGED <<exists, rev, answer, queue, writing, disk, recorded>>
  BY DEF RefreshStatus, core, store
<1>3. PICK s \in Ids(ctl.manifests, ctl.source) :
        at' = [at EXCEPT ![q] = [Nothing EXCEPT
            !.source = ctl.source, !.sourceRevision = ctl.sourceRevision,
            !.revision = ctl.generations[s], !.server = s]]
  BY DEF RefreshStatus
<1>4. pc'[q] = "asking" /\ \A u \in Tasks : u # q => pc'[u] = pc[u]
  BY <1>1, <1>2, GotoFacts DEF IInv, Places
<1>5. at'[q].source = ctl.source /\ at'[q].server = s /\ \A u \in Tasks : u # q => at'[u] = at[u]
  BY <1>1, <1>3 DEF IInv, Types, Nothing
<1>6. OthersStay(q)
  BY <1>2, <1>4, <1>5 DEF OthersStay
<1>7. StatusKnows(q)'
  <2>1. <<ctl.source, s>> \in ctl.manifests
    BY DEF Ids
  <2>2. rev[ctl.source][s] > 0
    <3>1. \A m \in ctl.manifests : rev[m[1]][m[2]] > 0
      BY DEF IInv, ListedInv, OwnSourceOnly
    <3> QED BY <2>1, <3>1
  <2> QED BY <1>2, <1>4, <1>5, <2>2 DEF StatusKnows
<1>8. VisitsCalm(q) /\ ListsCalm(q) /\ OpsCalm(q)
  BY <1>2, RefreshStatusCtl DEF VisitsCalm, ListsCalm, OpsCalm
<1>9. \A u \in Servers : StatusCalm(q, u)
  BY RefreshStatusCtl, ShownSame DEF StatusCalm
<1>10. Gone'
  BY <1>2, RefreshStatusCtl, GoneKeeps
<1>11. RevGrows
  BY <1>2, RevSame
<1>12. StoreBelow'
  BY <1>2, <1>11, RefreshStatusCtl, StoreKeeps
<1> QED BY <1>1, <1>6, <1>7, <1>8, <1>9, <1>10, <1>11, <1>12, HCombine DEF TaskKnows

LEMMA StatusArrivesCtl ==
  ASSUME TasksOK, IInv, NEW q \in Statuses, StatusArrives(q)
  PROVE  /\ ctl'.source = ctl.source /\ ctl'.sourceRevision = ctl.sourceRevision
         /\ ctl.source = at[q].source /\ ctl.source \in Sources /\ at[q].server \in Servers
         /\ answer[q] \in Nat
         /\ ctl'.startupLoading = ctl.startupLoading /\ ctl'.revision > ctl.revision
         /\ ctl'.manifests = ctl.manifests
         /\ ctl'.cache = SetEntry(ctl.cache, ctl.source, at[q].server, answer[q])
         /\ ctl'.generations = ctl.generations
         /\ ctl'.activeList = ctl.activeList /\ ctl'.manifestGeneration = ctl.manifestGeneration
         /\ ctl'.statusIds = ctl.statusIds /\ ctl.statusIds[at[q].server] = q
<1>1. ctl' = [ctl EXCEPT
       !.cache = SetEntry(@, ctl.source, at[q].server, answer[q]), !.revision = @ + 1]
  BY DEF StatusArrives
<1>2. ctl \in Ctls /\ ctl.revision \in Nat /\ q \in Tasks
  BY DEF IInv, Types, Ctls, Tasks
<1>3. StatusInv(q) /\ pc[q] = "answered" /\ StatusApplies(q)
  BY <1>2 DEF IInv, TaskInv, StatusArrives
<1> QED BY <1>1, <1>2, <1>3 DEF Ctls, StatusInv, StatusApplies, Current

LEMMA ShownType == ASSUME Types, NEW s \in Servers PROVE Shown(ctl, s) \in Nat \cup {None}
<1>1. ctl.cache \in Caches /\ ctl.source \in SourceIds
  BY DEF Types, Ctls
<1> QED BY <1>1 DEF Shown, Caches, SourceIds

LEMMA StatusArrivesShown ==
  ASSUME TasksOK, IInv, HInv, NEW q \in Statuses, StatusArrives(q)
  PROVE  /\ \A u \in Servers : u # at[q].server => Shown(ctl', u) \in {None, Shown(ctl, u)}
         /\ Shown(ctl', at[q].server) \in {None, answer[q]}
         /\ Shown(ctl, at[q].server) # None => answer[q] >= Shown(ctl, at[q].server)
<1> DEFINE s == at[q].server
<1>1. /\ \A u \in Servers : u # s => Shown(ctl', u) \in {None, Shown(ctl, u)}
      /\ Shown(ctl', s) \in {None, answer[q]}
  <2> HIDE DEF s
  <2>1. ctl.source \in Sources /\ ctl'.source = ctl.source /\ s \in Servers /\ answer[q] \in Nat \cup {None}
        /\ ctl'.cache = SetEntry(ctl.cache, ctl.source, s, answer[q])
    BY StatusArrivesCtl DEF s
  <2> QED BY <2>1, ShownSet DEF IInv
<1>2. Shown(ctl, s) # None => Shown(ctl, s) <= answer[q]
  BY DEF HInv, StatusKnows, StatusArrives
<1>3. Shown(ctl, s) # None => Shown(ctl, s) \in Nat
  BY StatusArrivesCtl, ShownType DEF IInv
<1>4. answer[q] \in Nat
  BY StatusArrivesCtl
<1> QED BY <1>1, <1>2, <1>3, <1>4

LEMMA StatusArrivesKnows ==
  ASSUME TasksOK, IInv, IInv', HInv, NEW q \in Statuses, StatusArrives(q) PROVE HInv'
<1>1. q \in Tasks /\ q \notin Visits \cup Lists \cup Ops
  BY Sorts
<1>2. Goto(q, "saving") /\ UNCHANGED <<exists, rev, at, answer, writing, disk, recorded>>
      /\ pc[q] = "answered" /\ Enqueue(ctl'.cache)
  BY DEF StatusArrives, core
<1>3. pc'[q] = "saving" /\ \A u \in Tasks : u # q => pc'[u] = pc[u]
  BY <1>1, <1>2, GotoFacts DEF IInv, Places
<1>4. OthersStay(q)
  BY <1>2, <1>3 DEF OthersStay
<1>5. StatusKnows(q)'
  BY <1>3 DEF StatusKnows
<1>6. VisitsCalm(q) /\ ListsCalm(q) /\ OpsCalm(q)
  BY <1>2, StatusArrivesCtl DEF VisitsCalm, ListsCalm, OpsCalm
<1>7. \A u \in Servers : StatusCalm(q, u)
  BY StatusArrivesCtl, StatusArrivesShown DEF StatusCalm
<1>8. Gone'
  BY <1>2, StatusArrivesCtl, GoneKeeps
<1>9. RevGrows
  BY <1>2, RevSame
<1>10. Below(ctl.cache)'
  <2>1. Below(ctl.cache) /\ ctl.cache \in Caches /\ ctl'.cache \in Caches
    BY DEF IInv, HInv, StoreBelow, Types, Ctls
  <2>2. answer[q] <= rev[at[q].source][at[q].server]
    BY <1>2 DEF HInv, StatusKnows
  <2> DEFINE s == at[q].server
             r == answer[q]
  <2>3. r \in Nat \cup {None} /\ r <= rev[ctl.source][s] /\ s \in Servers /\ ctl.source \in Sources
        /\ ctl'.cache = SetEntry(ctl.cache, ctl.source, s, r)
    BY <2>2, StatusArrivesCtl
  <2> HIDE DEF s, r
  <2>4. Below(SetEntry(ctl.cache, ctl.source, s, r))
    BY <2>1, <2>3, SetEntryFacts DEF IInv
  <2> QED BY <1>2, <2>3, <2>4 DEF Below
<1>11. StoreBelow'
  BY <1>2, <1>9, <1>10, StoreKeeps
<1> QED BY <1>1, <1>4, <1>5, <1>6, <1>7, <1>8, <1>9, <1>11, HCombine DEF TaskKnows

LEMMA SettleCtl ==
  ASSUME IInv, NEW q \in Statuses, FinishStatus(q)
  PROVE  /\ ctl'.source = ctl.source /\ ctl'.sourceRevision = ctl.sourceRevision
         /\ ctl'.startupLoading = ctl.startupLoading /\ ctl'.revision = ctl.revision
         /\ ctl'.manifests = ctl.manifests /\ ctl'.cache = ctl.cache
         /\ ctl'.generations = ctl.generations
         /\ ctl'.activeList = ctl.activeList /\ ctl'.manifestGeneration = ctl.manifestGeneration
         /\ \A u \in Servers : ctl'.statusIds[u] \in {None, ctl.statusIds[u]}
<1> DEFINE s == at[q].server
<1>1. ctl \in Ctls /\ ctl.statusIds \in StatusIds
  BY DEF IInv, Types, Ctls
<1>2. CASE ctl' = ctl
  BY <1>2
<1>3. CASE ctl' = [ctl EXCEPT !.statusIds[s] = None, !.pending = @ \ {s}]
  <2>1. ctl'.statusIds = [ctl.statusIds EXCEPT ![s] = None]
    BY <1>1, <1>3 DEF Ctls
  <2>2. \A u \in Servers : ctl'.statusIds[u] \in {None, ctl.statusIds[u]}
    BY <1>1, <2>1 DEF StatusIds
  <2> QED BY <1>1, <1>3, <2>2 DEF Ctls
<1> QED BY <1>2, <1>3 DEF FinishStatus, Settle

LEMMA FinishStatusKnows ==
  ASSUME TasksOK, IInv, IInv', HInv, NEW q \in Statuses, FinishStatus(q) PROVE HInv'
<1>1. q \in Tasks /\ q \notin Visits \cup Lists \cup Ops
  BY Sorts
<1>2. Finish(q) /\ UNCHANGED <<exists, rev, queue, writing, disk, recorded>>
  BY DEF FinishStatus, core, store
<1>3. OthersStay(q) /\ pc'[q] = "done"
  BY <1>1, <1>2, FinishFacts DEF IInv
<1>4. StatusKnows(q)'
  BY <1>3 DEF StatusKnows
<1>5. VisitsCalm(q) /\ ListsCalm(q) /\ OpsCalm(q)
  BY <1>2, SettleCtl DEF VisitsCalm, ListsCalm, OpsCalm
<1>6. \A u \in Servers : StatusCalm(q, u)
  BY SettleCtl, ShownSame DEF StatusCalm
<1>7. Gone'
  BY <1>2, SettleCtl, GoneKeeps
<1>8. RevGrows
  BY <1>2, RevSame
<1>9. StoreBelow'
  BY <1>2, <1>8, SettleCtl, StoreKeeps
<1> QED BY <1>1, <1>3, <1>4, <1>5, <1>6, <1>7, <1>8, <1>9, HCombine DEF TaskKnows

-----------------------------------------------------------------------------
(* The operations.                                                         *)

LEMMA DoAtCoreKnows ==
  ASSUME TasksOK, IInv, IInv', HInv, NEW p \in Ops, DoAtCore(p) PROVE HInv'
<1> DEFINE e == at[p].source
           s == at[p].server
           kind == at[p].kind
<1>1. p \in Tasks /\ p \notin Visits \cup Lists \cup Statuses
  BY Sorts
<1>2. /\ pc[p] = "running" /\ Allowed(p)
      /\ exists' = [exists EXCEPT ![e] = IF kind = "delete" THEN @ \ {s} ELSE @ \cup {s}]
      /\ rev' = [rev EXCEPT ![e][s] = @ + 1]
      /\ recorded' = [recorded EXCEPT ![s] = IF kind \in {"create", "delete"} THEN "nothing" ELSE @]
      /\ UNCHANGED <<ctl, queue, writing, disk>>
  BY DEF DoAtCore, store
<1>3. OpInv(p) /\ OpKnows(p)
  BY <1>1 DEF IInv, TaskInv, HInv
<1>4. e \in Sources /\ s \in Servers /\ kind \in OpKinds
      /\ rev \in [Sources -> [Servers -> Nat]] /\ exists \in [Sources -> SUBSET Servers]
      /\ recorded \in [Servers -> {"nothing", "create", "install", "delete"}]
  BY <1>2, <1>3 DEF OpInv, IInv, Types
<1>5. /\ rev'[e][s] = rev[e][s] + 1
      /\ \A f \in Sources, u \in Servers : f # e \/ u # s => rev'[f][u] = rev[f][u]
      /\ \A f \in Sources, u \in Servers : f # e \/ u # s => (u \in exists'[f] <=> u \in exists[f])
      /\ s \in exists'[e] <=> kind # "delete"
      /\ \A u \in Servers : u # s => recorded'[u] = recorded[u]
      /\ recorded'[s] = IF kind \in {"create", "delete"} THEN "nothing" ELSE recorded[s]
  <2> HIDE DEF e, s, kind
  <2> QED BY <1>2, <1>4
<1>6. RevGrows
  BY <1>4, <1>5 DEF RevGrows
<1>7. kind = "create" => rev[e][s] = 0
  BY <1>2 DEF Allowed
<1>8. kind # "create" => s \in exists[e] /\ Holding(p)
  BY <1>2 DEF Allowed, Holding
<1>9. OpsCalm(p)
  <2> SUFFICES ASSUME NEW r \in Ops, r # p, pc[r] = "answered", at[r].kind # "create"
               PROVE  at[r].source \in Sources /\ at[r].server \in Servers
                      /\ (at[r].source # e \/ at[r].server # s)
    BY <1>5 DEF OpsCalm
  <2>1. r \in Tasks
    BY DEF Tasks
  <2>2. OpInv(r) /\ OpKnows(r) /\ Holding(r)
    BY <2>1 DEF IInv, TaskInv, HInv, Holding
  <2>3. at[r].source \in Sources /\ at[r].server \in Servers /\ rev[at[r].source][at[r].server] > 0
    BY <2>2 DEF OpInv, OpKnows
  <2>4. ASSUME at[r].source = e, at[r].server = s PROVE FALSE
    <3>1. kind # "create"
      BY <1>7, <2>3, <2>4
    <3>2. Holding(p)
      BY <1>8, <3>1
    <3> QED BY <1>3, <2>2, <2>4, <3>2 DEF OpKnows
  <2> QED BY <2>3, <2>4
<1>10. Gone'
  <2> SUFFICES ASSUME NEW u \in Servers, recorded'[u] = "delete"
               PROVE  u \notin exists'[ctl.source] /\ rev'[ctl.source][u] > 0
    BY <1>2 DEF Gone
  <2>1. recorded[u] = "delete" /\ (u = s => kind \notin {"create", "delete"})
    BY <1>5
  <2>2. u \notin exists[ctl.source] /\ rev[ctl.source][u] > 0
    BY <2>1 DEF HInv, Gone
  <2>3. ctl.source \in Sources
    <3>1. ctl.source # None
      BY <2>1 DEF IInv, ListedInv, NothingRecorded
    <3> QED BY <3>1 DEF IInv, Types, Ctls, SourceIds
  <2>4. ~(ctl.source = e /\ u = s)
    BY <1>8, <2>1, <2>2
  <2> QED BY <1>5, <2>2, <2>3, <2>4
<1>11. StoreBelow'
  BY <1>2, <1>6, StoreKeeps
<1>12. VisitsCalm(p) /\ ListsCalm(p) /\ \A u \in Servers : StatusCalm(p, u)
  BY <1>2, <1>5 DEF VisitsCalm, ListsCalm, StatusCalm
<1>13. CASE Finish(p)
  <2>1. OthersStay(p) /\ pc'[p] = "done"
    BY <1>1, <1>13, FinishFacts DEF IInv
  <2>2. OpKnows(p)'
    BY <2>1 DEF OpKnows, Holding
  <2> QED BY <1>1, <1>6, <1>9, <1>10, <1>11, <1>12, <2>1, <2>2, HCombine DEF TaskKnows
<1>14. CASE Goto(p, "answered") /\ answer' = [answer EXCEPT ![p] = rev'[e][s]] /\ UNCHANGED at
  <2>1. pc'[p] = "answered" /\ \A u \in Tasks : u # p => pc'[u] = pc[u]
    BY <1>1, <1>14, GotoFacts DEF IInv, Places
  <2>2. answer'[p] = rev'[e][s] /\ \A u \in Tasks : u # p => answer'[u] = answer[u]
    <3> HIDE DEF e, s
    <3> QED BY <1>1, <1>14 DEF IInv, Types
  <2>3. OthersStay(p)
    BY <1>14, <2>1, <2>2 DEF OthersStay
  <2>4. OpKnows(p)'
    <3>1. Holding(p)' => /\ rev'[e][s] > 0
                         /\ \A r \in Ops : Holding(r)' /\ at'[r].source = e /\ at'[r].server = s => r = p
      <4> SUFFICES ASSUME Holding(p)'
                   PROVE  /\ rev'[e][s] > 0
                          /\ \A r \in Ops : Holding(r)' /\ at'[r].source = e /\ at'[r].server = s => r = p
        OBVIOUS
      <4>1. Holding(p)
        BY <1>2, <1>14 DEF Holding
      <4>2. \A r \in Ops : r \in Tasks
        BY DEF Tasks
      <4>3. \A r \in Ops : Holding(r)' => Holding(r)
        BY <1>14, <2>1, <4>1, <4>2 DEF Holding
      <4>4. rev'[e][s] > 0
        BY <1>4, <1>5
      <4> QED BY <1>3, <1>14, <4>1, <4>3, <4>4 DEF OpKnows
    <3>2. answer'[p] = IF kind = "create" THEN 1 ELSE rev'[e][s]
      BY <1>5, <1>7, <2>2
    <3>3. (kind = "delete" => s \notin exists'[e]) /\ (kind = "install" => s \in exists'[e])
      BY <1>5
    <3> QED BY <1>14, <3>1, <3>2, <3>3 DEF OpKnows
  <2> QED BY <1>1, <1>6, <1>9, <1>10, <1>11, <1>12, <2>3, <2>4, HCombine DEF TaskKnows
<1> QED BY <1>13, <1>14 DEF DoAtCore

LEMMA RecordMore ==
  ASSUME NEW c \in Ctls, c.source \in Sources, NEW kind \in OpKinds, NEW s \in Servers, NEW r \in Nat
  PROVE  LET d == Record(c, kind, s, r)
         IN /\ d.cache = SetEntry(c.cache, c.source, s, IF kind = "delete" THEN None ELSE r)
            /\ d.startupLoading = c.startupLoading
            /\ kind # "create" => d.statusIds[s] = None
            /\ \A u \in Servers : u # s \/ kind = "create" =>
                 d.statusIds[u] = c.statusIds[u] /\ d.generations[u] = c.generations[u]
<1>1. ASSUME NEW w \in Ctls
      PROVE  LET i == InvalidateList(w)
             IN /\ i \in Ctls /\ i.cache = w.cache /\ i.startupLoading = w.startupLoading
                /\ i.statusIds = w.statusIds /\ i.generations = w.generations
  <2>1. InvalidateList(w) \in Ctls
    BY InvalidateFacts
  <2> QED BY <2>1 DEF InvalidateList, Ctls
<1>2. ASSUME NEW w \in Ctls, w.source = c.source, w.cache = c.cache, w.startupLoading = c.startupLoading,
             w.statusIds = c.statusIds, w.generations = c.generations, NEW value
      PROVE  LET d == Transition(w, s, value)
             IN /\ d.cache = SetEntry(c.cache, c.source, s, value)
                /\ d.startupLoading = c.startupLoading
                /\ d.statusIds[s] = None
                /\ \A u \in Servers : u # s =>
                     d.statusIds[u] = c.statusIds[u] /\ d.generations[u] = c.generations[u]
  <2> DEFINE i == InvalidateList(w)
             d == Transition(w, s, value)
  <2>1. i \in Ctls /\ i.cache = c.cache /\ i.startupLoading = c.startupLoading
        /\ i.statusIds = c.statusIds /\ i.generations = c.generations
    BY <1>1, <1>2
  <2>2. d = [i EXCEPT
     !.generations[s] = @ + 1, !.statusIds[s] = None, !.pending = @ \ {s},
     !.cache = SetEntry(@, w.source, s, value), !.revision = @ + 1]
    BY DEF Transition
  <2> HIDE DEF i, d
  <2>3. /\ d.cache = SetEntry(i.cache, w.source, s, value) /\ d.startupLoading = i.startupLoading
        /\ d.statusIds = [i.statusIds EXCEPT ![s] = None]
        /\ d.generations = [i.generations EXCEPT ![s] = @ + 1]
    BY <2>1, <2>2 DEF Ctls
  <2>4. c.statusIds \in StatusIds /\ c.generations \in Generations
    BY DEF Ctls
  <2>5. /\ d.statusIds[s] = None
        /\ \A u \in Servers : u # s =>
             d.statusIds[u] = c.statusIds[u] /\ d.generations[u] = c.generations[u]
    BY <2>1, <2>3, <2>4 DEF StatusIds, Generations
  <2>6. d.cache = SetEntry(c.cache, c.source, s, value) /\ d.startupLoading = c.startupLoading
    BY <1>2, <2>1, <2>3
  <2> QED BY <2>5, <2>6 DEF d
<1>3. ASSUME NEW w \in {WithManifest(c, s), NoManifest(c, s)}
      PROVE  w \in Ctls /\ w.source = c.source /\ w.cache = c.cache /\ w.startupLoading = c.startupLoading
             /\ w.statusIds = c.statusIds /\ w.generations = c.generations
  <2>1. w \in Ctls /\ w.source = c.source /\ w.cache = c.cache /\ w.statusIds = c.statusIds
    BY ManifestFacts
  <2> QED BY <2>1 DEF WithManifest, NoManifest, Ctls
<1>4. CASE kind = "create"
  <2> DEFINE w == WithManifest(c, s)
             i == InvalidateList(w)
             d == [i EXCEPT !.cache = SetEntry(@, c.source, s, r), !.revision = @ + 1]
  <2>1. w \in Ctls /\ w.cache = c.cache /\ w.startupLoading = c.startupLoading
        /\ w.statusIds = c.statusIds /\ w.generations = c.generations
    BY <1>3
  <2> HIDE DEF w
  <2>2. i \in Ctls /\ i.cache = c.cache /\ i.startupLoading = c.startupLoading
        /\ i.statusIds = c.statusIds /\ i.generations = c.generations
    BY <1>1, <2>1
  <2>3. Record(c, kind, s, r) = d
    BY <1>4 DEF Record, RecordCreated, w
  <2> HIDE DEF i
  <2>4. /\ d.cache = SetEntry(i.cache, c.source, s, r) /\ d.startupLoading = i.startupLoading
        /\ d.statusIds = i.statusIds /\ d.generations = i.generations
    BY <2>2 DEF Ctls
  <2> HIDE DEF d
  <2> QED BY <1>4, <2>2, <2>3, <2>4
<1>5. CASE kind = "install"
  <2> DEFINE w == WithManifest(c, s)
  <2>1. Record(c, kind, s, r) = Transition(w, s, r)
    BY <1>5 DEF Record
  <2>2. w \in Ctls /\ w.source = c.source /\ w.cache = c.cache /\ w.startupLoading = c.startupLoading
        /\ w.statusIds = c.statusIds /\ w.generations = c.generations
    BY <1>3
  <2> HIDE DEF w
  <2> QED BY <1>2, <1>5, <2>1, <2>2
<1>6. CASE kind = "change"
  <2>1. Record(c, kind, s, r) = Transition(c, s, r)
    BY <1>6 DEF Record
  <2> QED BY <1>2, <1>6, <2>1
<1>7. CASE kind = "delete"
  <2> DEFINE w == NoManifest(c, s)
  <2>1. Record(c, kind, s, r) = Transition(w, s, None)
    BY <1>7 DEF Record
  <2>2. w \in Ctls /\ w.source = c.source /\ w.cache = c.cache /\ w.startupLoading = c.startupLoading
        /\ w.statusIds = c.statusIds /\ w.generations = c.generations
    BY <1>3
  <2> HIDE DEF w
  <2> QED BY <1>2, <1>7, <2>1, <2>2
<1> QED BY <1>4, <1>5, <1>6, <1>7 DEF OpKinds

LEMMA RecordResultCtl ==
  ASSUME TasksOK, IInv, HInv, NEW p \in Ops, RecordResult(p), Current(p)
  PROVE  /\ ctl.source = at[p].source /\ ctl.source \in Sources /\ at[p].server \in Servers
         /\ at[p].kind \in OpKinds /\ answer[p] \in Nat /\ pc[p] = "answered" /\ pc'[p] = "saving"
         /\ answer[p] <= rev[ctl.source][at[p].server]
         /\ ctl'.source = ctl.source /\ ctl'.sourceRevision = ctl.sourceRevision
         /\ ctl'.startupLoading = ctl.startupLoading /\ ctl'.revision > ctl.revision
         /\ ctl'.activeList = None
         /\ at[p].kind \in {"create", "install"} =>
              ctl'.manifests = ctl.manifests \cup {<<ctl.source, at[p].server>>}
         /\ at[p].kind \in {"change", "delete"} => ctl'.manifests \subseteq ctl.manifests
         /\ ctl'.cache = SetEntry(ctl.cache, ctl.source, at[p].server,
                           IF at[p].kind = "delete" THEN None ELSE answer[p])
         /\ at[p].kind # "create" => ctl'.statusIds[at[p].server] = None
         /\ \A u \in Servers : u # at[p].server \/ at[p].kind = "create" =>
              ctl'.statusIds[u] = ctl.statusIds[u] /\ ctl'.generations[u] = ctl.generations[u]
<1> DEFINE s == at[p].server
           kind == at[p].kind
           r == answer[p]
<1>1. p \in Tasks /\ p \notin Visits \cup Lists \cup Statuses
  BY Sorts
<1>2. pc[p] = "answered" /\ Goto(p, "saving") /\ ctl' = Record(ctl, kind, s, r)
  BY DEF RecordResult
<1>3. OpInv(p) /\ OpKnows(p)
  BY <1>1 DEF IInv, TaskInv, HInv
<1>4. at[p].source \in Sources /\ s \in Servers /\ kind \in OpKinds /\ r \in Nat
      /\ (kind \in {"create", "install"} => rev[at[p].source][s] > 0)
      /\ r = (IF kind = "create" THEN 1 ELSE rev[at[p].source][s])
  BY <1>2, <1>3 DEF OpInv, OpKnows
<1>5. ctl \in Ctls /\ ctl.source = at[p].source /\ ctl.revision \in Nat
      /\ rev[ctl.source][s] \in Nat
  BY <1>4 DEF IInv, Types, Current, Ctls
<1>6. pc'[p] = "saving"
  BY <1>1, <1>2, GotoFacts DEF IInv, Places
<1>7. r <= rev[ctl.source][s]
  BY <1>4, <1>5
<1> HIDE DEF s, kind, r
<1>8. /\ ctl'.activeList = None
      /\ ctl'.source = ctl.source /\ ctl'.sourceRevision = ctl.sourceRevision
      /\ ctl'.revision = ctl.revision + 1
      /\ kind \in {"create", "install"} => ctl'.manifests = ctl.manifests \cup {<<ctl.source, s>>}
      /\ kind = "change" => ctl'.manifests = ctl.manifests
      /\ kind = "delete" => ctl'.manifests = ctl.manifests \ {<<ctl.source, s>>}
  BY <1>2, <1>4, <1>5, RecordFacts
<1>9. /\ ctl'.cache = SetEntry(ctl.cache, ctl.source, s, IF kind = "delete" THEN None ELSE r)
      /\ ctl'.startupLoading = ctl.startupLoading
      /\ kind # "create" => ctl'.statusIds[s] = None
      /\ \A u \in Servers : u # s \/ kind = "create" =>
           ctl'.statusIds[u] = ctl.statusIds[u] /\ ctl'.generations[u] = ctl.generations[u]
  BY <1>2, <1>4, <1>5, RecordMore
<1>10. ctl'.revision > ctl.revision
  BY <1>5, <1>8
<1>11. kind \in {"change", "delete"} => ctl'.manifests \subseteq ctl.manifests
  BY <1>8
<1> QED BY <1>2, <1>4, <1>5, <1>6, <1>7, <1>8, <1>9, <1>10, <1>11 DEF s, kind, r

LEMMA RecordResultShown ==
  ASSUME TasksOK, IInv, HInv, NEW p \in Ops, RecordResult(p), Current(p)
  PROVE  /\ \A u \in Servers : u # at[p].server => Shown(ctl', u) \in {None, Shown(ctl, u)}
         /\ at[p].kind = "delete" => Shown(ctl', at[p].server) = None
         /\ at[p].kind # "delete" => Shown(ctl', at[p].server) \in {None, answer[p]}
<1> DEFINE s == at[p].server
           value == IF at[p].kind = "delete" THEN None ELSE answer[p]
<1>1. ctl.source \in Sources /\ ctl'.source = ctl.source /\ s \in Servers /\ value \in Nat \cup {None}
      /\ ctl'.cache = SetEntry(ctl.cache, ctl.source, s, value)
  BY RecordResultCtl
<1> HIDE DEF s, value
<1>2. /\ \A u \in Servers : u # s => Shown(ctl', u) \in {None, Shown(ctl, u)}
      /\ Shown(ctl', s) \in {None, value}
  BY <1>1, ShownSet DEF IInv
<1> QED BY <1>2 DEF s, value

LEMMA RecordResultKnows ==
  ASSUME TasksOK, IInv, IInv', HInv, NEW p \in Ops, RecordResult(p) PROVE HInv'
<1> DEFINE s == at[p].server
           kind == at[p].kind
<1>1. p \in Tasks /\ p \notin Visits \cup Lists \cup Statuses
  BY Sorts
<1>2. pc[p] = "answered" /\ Goto(p, "saving") /\ UNCHANGED <<exists, rev, at, answer, writing, disk>>
  BY DEF RecordResult, core
<1>3. pc'[p] = "saving" /\ \A u \in Tasks : u # p => pc'[u] = pc[u]
  BY <1>1, <1>2, GotoFacts DEF IInv, Places
<1>4. OthersStay(p)
  BY <1>2, <1>3 DEF OthersStay
<1>5. OpKnows(p)'
  BY <1>2, <1>3, <1>4, OpGoesOn DEF Holding
<1>6. CASE UNCHANGED <<ctl, queue, recorded>>
  <2>1. StoreBelow'
    BY <1>2, <1>6, StoreSame
  <2> QED BY <1>1, <1>2, <1>4, <1>5, <1>6, <2>1, HQuiet DEF TaskKnows
<1>7. CASE /\ Current(p) /\ Enqueue(ctl'.cache)
           /\ recorded' = [recorded EXCEPT ![s] = IF kind = "change" THEN @ ELSE kind]
  <2>1. VisitsCalm(p) /\ ListsCalm(p) /\ OpsCalm(p)
    BY <1>2, <1>7, RecordResultCtl DEF VisitsCalm, ListsCalm, OpsCalm
  <2>2. ASSUME NEW u \in Servers PROVE StatusCalm(p, u)
    <3>1. CASE u # s
      BY <1>7, <3>1, RecordResultCtl, RecordResultShown DEF StatusCalm
    <3>2. CASE u = s /\ kind # "create"
      BY <1>7, <3>2, RecordResultCtl DEF StatusCalm
    <3>3. CASE u = s /\ kind = "create"
      <4>1. answer[p] = 1
        BY <1>2, <3>3 DEF HInv, OpKnows
      <4> QED BY <1>7, <3>3, <4>1, RecordResultCtl, RecordResultShown DEF StatusCalm
    <3> QED BY <3>1, <3>2, <3>3
  <2>3. Gone'
    <3> SUFFICES ASSUME NEW u \in Servers, recorded'[u] = "delete"
                 PROVE  u \notin exists[ctl.source] /\ rev[ctl.source][u] > 0
      BY <1>2, <1>7, RecordResultCtl DEF Gone
    <3>1. recorded[u] = "delete" \/ (u = s /\ kind = "delete")
      BY <1>7 DEF IInv, Types
    <3>2. CASE recorded[u] = "delete"
      BY <3>2 DEF HInv, Gone
    <3>3. CASE u = s /\ kind = "delete"
      <4>1. OpKnows(p) /\ Holding(p)
        BY <1>2, <3>3 DEF HInv, Holding
      <4> QED BY <1>2, <1>7, <3>3, <4>1, RecordResultCtl DEF OpKnows
    <3> QED BY <3>1, <3>2, <3>3
  <2>4. RevGrows
    BY <1>2, RevSame
  <2>5. Below(ctl.cache)'
    <3> DEFINE r == IF kind = "delete" THEN None ELSE answer[p]
    <3>1. Below(ctl.cache) /\ ctl.cache \in Caches
      BY DEF IInv, HInv, StoreBelow, Types, Ctls
    <3>2. r \in Nat \cup {None} /\ (r # None => r <= rev[ctl.source][s]) /\ s \in Servers
          /\ ctl.source \in Sources /\ ctl'.cache = SetEntry(ctl.cache, ctl.source, s, r)
      BY <1>7, RecordResultCtl
    <3> HIDE DEF s, r
    <3>3. Below(SetEntry(ctl.cache, ctl.source, s, r))
      BY <3>1, <3>2, SetEntryFacts DEF IInv
    <3> QED BY <1>2, <3>2, <3>3 DEF Below
  <2>6. StoreBelow'
    BY <1>2, <1>7, <2>4, <2>5, StoreKeeps
  <2> QED BY <1>1, <1>4, <1>5, <2>1, <2>2, <2>3, <2>4, <2>6, HCombine DEF TaskKnows
<1> QED BY <1>6, <1>7 DEF RecordResult

-----------------------------------------------------------------------------
LEMMA InitKnows == ASSUME TasksOK, Init PROVE HInv
<1>1. \A t \in Tasks : pc[t] = "idle"
  BY DEF Init
<1>2. ctl.cache = EmptyCache /\ ctl.source = None
  BY DEF Init, NoController
<1>3. Below(disk)
  <2>1. \A e \in Sources, s \in Servers : disk[e] # None => disk[e][s] = None
    BY DEF Init, EmptyScope
  <2> QED BY <2>1 DEF Below
<1>4. StoreBelow
  BY <1>2, <1>3, BelowEmpty DEF Init, StoreBelow
<1>5. Gone
  BY DEF Init, Gone
<1>6. /\ \A v \in Visits : VisitKnows(v)
      /\ \A l \in Lists : ListKnows(l)
      /\ \A q \in Statuses : StatusKnows(q)
      /\ \A p \in Ops : OpKnows(p)
  BY <1>1, Sorts DEF VisitKnows, Starting, ListKnows, StatusKnows, OpKnows, Holding
<1> QED BY <1>4, <1>5, <1>6 DEF HInv

LEMMA NextKnows == ASSUME TasksOK, IInv, IInv', HInv, [Next]_vars PROVE HInv'
<1>1. ASSUME NEW e \in Sources, Select(e) PROVE HInv'
  BY <1>1, SelectKnows
<1>2. ASSUME NEW v \in Visits, Start(v) \/ StartStep(v) PROVE HInv'
  BY <1>2, StartKnows, LoadCacheKnows, ListAtStartKnows, FinishStartKnows DEF StartStep
<1>3. ASSUME NEW l \in Lists, RefreshList(l) \/ ListStep(l) PROVE HInv'
  BY <1>3, RefreshListKnows, ListAtCoreKnows, FinishListKnows DEF ListStep
<1>4. ASSUME NEW q \in Statuses, RefreshStatus(q) \/ StatusStep(q) PROVE HInv'
  BY <1>4, RefreshStatusKnows, StatusAtCoreKnows, StatusArrivesKnows, FinishStatusKnows DEF StatusStep
<1>5. ASSUME NEW p \in Ops, Begin(p) \/ OpStep(p) PROVE HInv'
  BY <1>5, BeginKnows, OpEndsKnows, OpenedKnows, DoAtCoreKnows, FailAtCoreKnows, RecordResultKnows
     DEF OpStep
<1>6. ASSUME NEW e \in Sources \ {Local}, Prepare(e) \/ Cleanup(e) PROVE HInv'
  BY <1>6, PrepareKnows, CleanupKnows
<1>7. CASE WriteStep
  BY <1>7, BeginWriteKnows, EndWriteKnows DEF WriteStep
<1>8. CASE UNCHANGED vars
  <2>1. UNCHANGED <<exists, rev, ctl, pc, at, answer, queue, writing, disk, recorded>>
    BY <1>8 DEF vars, core, tasks, store
  <2>2. StoreBelow' /\ OthersStay(None)
    BY <2>1, StoreSame DEF OthersStay
  <2> QED BY <2>1, <2>2, HStoreOnly
<1> QED BY <1>1, <1>2, <1>3, <1>4, <1>5, <1>6, <1>7, <1>8 DEF Next

-----------------------------------------------------------------------------
(* What a step does to the list and to what is shown.                      *)

LEMMA CtlMoves ==
  ASSUME TasksOK, IInv, [Next]_vars
  PROVE  \/ ctl' = ctl
         \/ ctl'.sourceRevision > ctl.sourceRevision /\ ctl'.manifests = {}
         \/ \E v \in Visits : v \in Tasks /\ pc[v] = "answered" /\ Current(v) /\ ctl' = Started(ctl, answer[v], v)
         \/ \E l \in Lists : RefreshList(l)
         \/ \E l \in Lists : FinishList(l) /\ ctl' # ctl /\ UNCHANGED recorded
         \/ \E q \in Statuses : RefreshStatus(q)
         \/ \E q \in Statuses : StatusArrives(q)
         \/ \E q \in Statuses : FinishStatus(q)
         \/ \E p \in Ops : RecordResult(p) /\ Current(p)
<1>1. ASSUME NEW e \in SourceIds, ctl' = Reset(ctl, e)
      PROVE  ctl'.sourceRevision > ctl.sourceRevision /\ ctl'.manifests = {}
  BY <1>1, LeftFacts, Revisions DEF Left, IInv
<1>2. ASSUME NEW e \in Sources, Select(e) PROVE ctl' = Reset(ctl, None) /\ None \in SourceIds
  BY <1>2 DEF Select, SourceIds
<1>3. ASSUME NEW v \in Visits, Start(v) PROVE ctl' = Reset(ctl, wanted) /\ wanted \in SourceIds
  BY <1>3 DEF Start, SourceIds, IInv, Types
<1>4. ASSUME NEW v \in Visits, StartStep(v)
      PROVE  ctl' = ctl \/ (v \in Tasks /\ pc[v] = "answered" /\ Current(v) /\ ctl' = Started(ctl, answer[v], v))
  BY <1>4 DEF StartStep, LoadCache, ListAtStart, FinishStart, Tasks
<1>5. ASSUME NEW l \in Lists, ListStep(l)
      PROVE  ctl' = ctl \/ (FinishList(l) /\ ctl' # ctl /\ UNCHANGED recorded)
  BY <1>5 DEF ListStep, ListAtCore, FinishList
<1>6. ASSUME NEW q \in Statuses, StatusStep(q)
      PROVE  ctl' = ctl \/ StatusArrives(q) \/ FinishStatus(q)
  BY <1>6 DEF StatusStep, StatusAtCore
<1>7. ASSUME NEW p \in Ops, Begin(p) \/ OpStep(p)
      PROVE  ctl' = ctl \/ (RecordResult(p) /\ Current(p))
  <2>1. CASE RecordResult(p)
    BY <2>1 DEF RecordResult
  <2>2. CASE ~RecordResult(p)
    BY <1>7, <2>2 DEF Begin, OpStep, GiveUp, Opened, DoAtCore, FailAtCore, Release
  <2> QED BY <2>1, <2>2
<1>8. ASSUME NEW e \in Sources \ {Local}, Prepare(e) \/ Cleanup(e)
      PROVE  ctl' = ctl \/ (ctl' = Reset(ctl, None) /\ None \in SourceIds)
  BY <1>8 DEF Prepare, Cleanup, SourceIds
<1>9. WriteStep \/ UNCHANGED vars => ctl' = ctl
  BY DEF WriteStep, BeginWrite, EndWrite, vars
<1> QED BY <1>1, <1>2, <1>3, <1>4, <1>5, <1>6, <1>7, <1>8, <1>9 DEF Next

LEMMA CtlSteps ==
  ASSUME TasksOK, IInv, HInv, [Next]_vars, NEW s \in Servers, ~CreationArrives(s)
  PROVE  /\ ctl'.sourceRevision = ctl.sourceRevision =>
              \/ Shown(ctl', s) \in {None, Shown(ctl, s)}
              \/ Shown(ctl, s) = None
              \/ Shown(ctl', s) >= Shown(ctl, s)
         /\ recorded[s] = "delete" /\ <<ctl.source, s>> \notin ctl.manifests =>
              <<ctl.source, s>> \notin ctl'.manifests \/ StartupArrives
<1>1. CASE ctl' = ctl
  BY <1>1 DEF Shown
<1>2. CASE ctl'.sourceRevision > ctl.sourceRevision /\ ctl'.manifests = {}
  BY <1>2, Revisions DEF IInv
<1>3. ASSUME NEW v \in Visits, v \in Tasks, pc[v] = "answered", Current(v), ctl' = Started(ctl, answer[v], v)
      PROVE  StartupArrives /\ (Shown(ctl', s) \in {None, Shown(ctl, s)} \/ Shown(ctl, s) = None)
  BY <1>3, StartedShown, FinishStartCtl DEF StartupArrives
<1>4. ASSUME NEW l \in Lists, RefreshList(l)
      PROVE  Shown(ctl', s) = Shown(ctl, s) /\ ctl'.manifests = ctl.manifests
  BY <1>4, RefreshListCtl, ShownSame
<1>5. ASSUME NEW l \in Lists, FinishList(l), ctl' # ctl
      PROVE  /\ Shown(ctl', s) \in {None, Shown(ctl, s)}
             /\ recorded[s] = "delete" /\ <<ctl.source, s>> \notin ctl.manifests =>
                  <<ctl.source, s>> \notin ctl'.manifests
  <2>1. Shown(ctl', s) \in {None, Shown(ctl, s)}
    BY <1>5, FinishListCtl, ShownSame, ShownReconciled DEF IInv
  <2>2. \/ ctl'.manifests = {<<ctl.source, u>> : u \in answer[l]}
        \/ ctl'.manifests = ctl.manifests
    BY <1>5, FinishListCtl
  <2>3. \A u \in answer[l] : recorded[u] # "delete"
    BY <1>5, FinishListCtl DEF HInv, ListKnows
  <2> QED BY <2>1, <2>2, <2>3
<1>6. ASSUME NEW q \in Statuses, RefreshStatus(q)
      PROVE  Shown(ctl', s) = Shown(ctl, s) /\ ctl'.manifests = ctl.manifests
  BY <1>6, RefreshStatusCtl, ShownSame
<1>7. ASSUME NEW q \in Statuses, StatusArrives(q)
      PROVE  /\ ctl'.manifests = ctl.manifests
             /\ \/ Shown(ctl', s) \in {None, Shown(ctl, s)}
                \/ Shown(ctl, s) = None
                \/ Shown(ctl', s) >= Shown(ctl, s)
  BY <1>7, StatusArrivesCtl, StatusArrivesShown
<1>8. ASSUME NEW q \in Statuses, FinishStatus(q)
      PROVE  Shown(ctl', s) = Shown(ctl, s) /\ ctl'.manifests = ctl.manifests
  BY <1>8, SettleCtl, ShownSame
<1>9. ASSUME NEW p \in Ops, RecordResult(p), Current(p)
      PROVE  /\ \/ Shown(ctl', s) \in {None, Shown(ctl, s)}
                \/ Shown(ctl, s) = None
                \/ Shown(ctl', s) >= Shown(ctl, s)
             /\ recorded[s] = "delete" /\ <<ctl.source, s>> \notin ctl.manifests =>
                  <<ctl.source, s>> \notin ctl'.manifests
  <2>1. OpKnows(p) /\ at[p].kind \in OpKinds /\ pc[p] = "answered" /\ pc'[p] = "saving"
        /\ ctl.source = at[p].source
    BY <1>9, RecordResultCtl DEF HInv
  <2>2. CASE at[p].server # s
    BY <1>9, <2>1, <2>2, RecordResultCtl, RecordResultShown DEF OpKinds
  <2>3. CASE at[p].server = s
    <3>1. at[p].kind # "create"
      BY <2>1, <2>3 DEF CreationArrives
    <3>2. answer[p] = rev[ctl.source][s]
      BY <2>1, <2>3, <3>1 DEF OpKnows
    <3>3. Shown(ctl, s) # None => Shown(ctl, s) <= rev[ctl.source][s]
      <4> SUFFICES ASSUME Shown(ctl, s) # None PROVE Shown(ctl, s) <= rev[ctl.source][s]
        OBVIOUS
      <4>1. ctl.source \in Sources /\ ctl.cache[ctl.source] # None /\ Shown(ctl, s) = ctl.cache[ctl.source][s]
        BY <1>9, RecordResultCtl DEF Shown
      <4> QED BY <4>1 DEF HInv, StoreBelow, Below
    <3>4. Shown(ctl, s) # None => Shown(ctl, s) \in Nat /\ rev[ctl.source][s] >= Shown(ctl, s)
      <4>1. rev[ctl.source][s] \in Nat
        BY <1>9, <3>2, RecordResultCtl
      <4> QED BY <3>3, <4>1, ShownType DEF IInv
    <3>5. Shown(ctl', s) \in {None, answer[p]}
      BY <1>9, <2>3, RecordResultShown
    <3>6. at[p].kind = "install" => recorded[s] # "delete"
      <4> SUFFICES ASSUME at[p].kind = "install" PROVE s \in exists[ctl.source]
        BY <1>9 DEF HInv, Gone
      <4> QED BY <2>1, <2>3 DEF OpKnows
    <3>7. at[p].kind \in {"change", "delete"} => ctl'.manifests \subseteq ctl.manifests
      BY <1>9, RecordResultCtl
    <3> QED BY <2>1, <3>1, <3>2, <3>4, <3>5, <3>6, <3>7 DEF OpKinds
  <2> QED BY <2>2, <2>3
<1> QED BY <1>1, <1>2, <1>3, <1>4, <1>5, <1>6, <1>7, <1>8, <1>9, CtlMoves

LEMMA HInvariance == Spec => [](IInv /\ HInv)
<1>. TasksOK
  BY TasksAssumption DEF TasksOK
<1>1. Init => HInv
  BY InitKnows
<1>2. IInv /\ IInv' /\ HInv /\ [Next]_vars => HInv'
  BY NextKnows
<1> QED BY <1>1, <1>2, Invariance, PTL DEF Spec

(***************************************************************************)
(* The status shown for a server does not go back while the source stays,  *)
(* for any number of operations, lists and status requests at once, except *)
(* by the late answer to the creation of that server.                      *)
(***************************************************************************)
THEOREM StatusNeverGoesBackHolds == Spec => StatusNeverGoesBack
<1>. TasksOK
  BY TasksAssumption DEF TasksOK
<1>1. IInv /\ HInv /\ [Next]_vars =>
        [ctl'.sourceRevision = ctl.sourceRevision =>
           \A s \in Servers :
             Shown(ctl, s) # None /\ Shown(ctl', s) # None /\ ~CreationArrives(s) =>
               Shown(ctl', s) >= Shown(ctl, s)]_vars
  <2> SUFFICES ASSUME IInv, HInv, [Next]_vars, ctl'.sourceRevision = ctl.sourceRevision,
                      NEW s \in Servers, Shown(ctl, s) # None, Shown(ctl', s) # None, ~CreationArrives(s)
               PROVE  Shown(ctl', s) >= Shown(ctl, s)
    OBVIOUS
  <2>1. Shown(ctl, s) \in Nat
    BY ShownType DEF IInv
  <2>2. \/ Shown(ctl', s) \in {None, Shown(ctl, s)}
        \/ Shown(ctl, s) = None
        \/ Shown(ctl', s) >= Shown(ctl, s)
    BY CtlSteps
  <2>3. Shown(ctl, s) >= Shown(ctl, s)
    BY <2>1
  <2> QED BY <2>2, <2>3
<1> QED BY <1>1, HInvariance, PTL DEF Spec, StatusNeverGoesBack

(***************************************************************************)
(* No list that was asked for before a deletion brings the server back:    *)
(* after it was recorded only the startup's own list can, or the late      *)
(* answer to the creation of that server.                                  *)
(***************************************************************************)
THEOREM RefreshKeepsDeletedHolds == Spec => RefreshKeepsDeleted
<1>. TasksOK
  BY TasksAssumption DEF TasksOK
<1>1. IInv /\ HInv /\ [Next]_vars =>
        [\A s \in Servers :
           recorded[s] = "delete" /\ <<ctl.source, s>> \notin ctl.manifests
             => <<ctl.source, s>> \notin ctl'.manifests \/ StartupArrives \/ CreationArrives(s)]_vars
  BY CtlSteps
<1> QED BY <1>1, HInvariance, PTL DEF Spec, RefreshKeepsDeleted
=============================================================================
