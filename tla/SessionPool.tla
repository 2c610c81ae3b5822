---------------------------- MODULE SessionPool ----------------------------
(***************************************************************************)
(* The registry of live sessions (src-tauri/src/pool.rs), the commands     *)
(* that use it (core_open, endpoint_session_open, core_request, core_close *)
(* and endpoint_sessions_close of lib.rs), clear on exit and on update,    *)
(* and the endpoint deletion that calls it (endpointManagerTransactions).  *)
(*                                                                         *)
(* PoolState is behind one async mutex: every critical section is a step,  *)
(* and whatever the code awaits outside it is a step of its own.  A        *)
(* session is named by the open that established it.                       *)
(***************************************************************************)
EXTENDS Naturals

CONSTANTS
  Opens,         \* calls of open and open_endpoint
  Ordinary,      \* calls of core_request
  Credentialed,  \* calls of core_request that carry the CurseForge key
  Closers,       \* calls of core_close
  Clears,        \* calls of clear
  Endpoints,     \* the saved SSH endpoints; each names its own deletion, too
  Local,         \* the owner of the sessions of open
  None,          \* no session
  MaxId          \* session ids are 1..MaxId (u64 in the code)

Requests == Ordinary \cup Credentialed
Sources == Endpoints \cup {Local}
Ids == 1..MaxId
Tasks == Opens \cup Requests \cup Closers \cup Clears \cup Endpoints

ASSUME PoolAssumption ==
  /\ MaxId \in Nat
  /\ None \notin Opens \cup Sources
  /\ Local \notin Endpoints
  /\ Ordinary \cap Credentialed = {}
  /\ Opens \cap (Requests \cup Closers \cup Clears \cup Endpoints) = {}
  /\ Requests \cap (Closers \cup Clears \cup Endpoints) = {}
  /\ Closers \cap (Clears \cup Endpoints) = {}
  /\ Clears \cap Endpoints = {}

VARIABLES
  pc,                \* pc[t]: where task t stands
  source,            \* source[o]: the endpoint open o was called for
  captured,          \* captured[o]: the generation open o captured
  id,                \* id[o]: the id of the session of open o, 0 before
  child,             \* child[o]: its core and session
  sessions,          \* PoolState::sessions, None where a key is absent
  owners,            \* PoolState::owners, likewise
  endpointSessions,  \* PoolState::endpoint_sessions, {} where a key is absent
  generation,        \* PoolState::endpoint_generations, 0 where absent
  nextId,            \* SessionPool::next_id
  configured,        \* the SSH endpoints of the saved configuration
  held,              \* held[q]: the session whose Arc request q holds
  todo               \* todo[t]: sessions task t took out and has yet to close

registry == <<sessions, owners, endpointSessions>>
opening  == <<source, captured, id, nextId>>
vars == <<pc, opening, child, registry, generation, configured, held, todo>>

PC == {"idle", "capturing", "reading", "spawning", "establishing", "established",
       "allocated", "holding", "running", "reaping", "committed", "removed",
       "closing", "failed", "done"}

TypeOK ==
  /\ pc \in [Tasks -> PC]
  /\ source \in [Opens -> Sources]
  /\ captured \in [Opens -> Nat]
  /\ id \in [Opens -> Ids \cup {0}]
  /\ child \in [Opens -> {"none", "running", "signalled", "closed"}]
  /\ sessions \in [Ids -> Opens \cup {None}]
  /\ owners \in [Ids -> Sources \cup {None}]
  /\ endpointSessions \in [Sources -> SUBSET Ids]
  /\ generation \in [Endpoints -> Nat]
  /\ nextId \in 0..MaxId
  /\ configured \in SUBSET Endpoints
  /\ held \in [Requests -> Opens \cup {None}]
  /\ todo \in [Tasks -> SUBSET Opens]

Init ==
  /\ pc = [t \in Tasks |-> "idle"]
  /\ source = [o \in Opens |-> Local]
  /\ captured = [o \in Opens |-> 0]
  /\ id = [o \in Opens |-> 0]
  /\ child = [o \in Opens |-> "none"]
  /\ sessions = [i \in Ids |-> None]
  /\ owners = [i \in Ids |-> None]
  /\ endpointSessions = [s \in Sources |-> {}]
  /\ generation = [e \in Endpoints |-> 0]
  /\ nextId = 0
  /\ configured = Endpoints
  /\ held = [q \in Requests |-> None]
  /\ todo = [t \in Tasks |-> {}]

Goto(t, there) == pc' = [pc EXCEPT ![t] = there]

-----------------------------------------------------------------------------
(* Opening a session                                                       *)

Begin(o) ==
  /\ pc[o] = "idle"
  /\ \E s \in Sources :
       /\ source' = [source EXCEPT ![o] = s]
       /\ Goto(o, IF s = Local THEN "spawning" ELSE "capturing")
  /\ UNCHANGED <<captured, id, nextId, child, registry, generation, configured,
                 held, todo>>

\* "Capture before reading configuration or starting SSH."
Capture(o) ==
  /\ pc[o] = "capturing"
  /\ captured' = [captured EXCEPT ![o] = generation[source[o]]]
  /\ Goto(o, "reading")
  /\ UNCHANGED <<source, id, nextId, child, registry, generation, configured,
                 held, todo>>

\* The strict reader may fail; an endpoint that is not saved is refused.
ReadConfig(o) ==
  /\ pc[o] = "reading"
  /\ \/ source[o] \in configured /\ Goto(o, "spawning")
     \/ Goto(o, "failed")
  /\ UNCHANGED <<opening, child, registry, generation, configured, held, todo>>

\* Slip: the generation is captured only when SSH is started.
SpawnSlip(o) ==
  /\ pc[o] = "spawning"
  /\ child' = [child EXCEPT ![o] = "running"]
  /\ captured' = [captured EXCEPT
       ![o] = IF source[o] = Local THEN @ ELSE generation[source[o]]]
  /\ Goto(o, "establishing")
  /\ UNCHANGED <<source, id, nextId, registry, generation, configured, held, todo>>

Spawn(o) ==
  /\ pc[o] = "spawning"
  /\ \/ child' = [child EXCEPT ![o] = "running"] /\ Goto(o, "establishing")
     \/ Goto(o, "failed") /\ UNCHANGED child
  /\ UNCHANGED <<opening, registry, generation, configured, held, todo>>

\* A handshake that fails aborts the transport and drops it with the session.
Establish(o) ==
  /\ pc[o] = "establishing"
  /\ \/ Goto(o, "established") /\ UNCHANGED child
     \/ child' = [child EXCEPT ![o] = "closed"] /\ Goto(o, "failed")
  /\ UNCHANGED <<opening, registry, generation, configured, held, todo>>

\* Slip: the counter before fetch_add, which the code adds one to.
FreshIdSlip == nextId

FreshId == nextId + 1

\* Slip: the counter is loaded and not advanced.
TakeIdSlip(o) ==
  /\ nextId < MaxId
  /\ id' = [id EXCEPT ![o] = FreshId]
  /\ UNCHANGED <<source, captured, nextId>>

\* next_id.fetch_add(1) + 1
TakeId(o) ==
  /\ nextId < MaxId
  /\ id' = [id EXCEPT ![o] = FreshId]
  /\ nextId' = nextId + 1
  /\ UNCHANGED <<source, captured>>

\* The three inserts, under the pool's lock.
Register(o, i) ==
  /\ sessions' = [sessions EXCEPT ![i] = o]
  /\ owners' = [owners EXCEPT ![i] = source[o]]
  /\ endpointSessions' = [endpointSessions EXCEPT ![source[o]] = @ \cup {i}]

\* insert_established takes its id before it waits for the lock...
AllocateLocal(o) ==
  /\ pc[o] = "established" /\ source[o] = Local
  /\ TakeId(o)
  /\ Goto(o, "allocated")
  /\ UNCHANGED <<child, registry, generation, configured, held, todo>>

InsertLocal(o) ==
  /\ pc[o] = "allocated"
  /\ Register(o, id[o])
  /\ Goto(o, "done")
  /\ UNCHANGED <<opening, child, generation, configured, held, todo>>

IsCurrent(o) == generation[source[o]] = captured[o]

\* ...insert_established_if_current under it.
InsertIfCurrent(o) ==
  /\ pc[o] = "established" /\ source[o] # Local
  /\ IsCurrent(o)
  /\ TakeId(o)
  /\ Register(o, FreshId)
  /\ Goto(o, "done")
  /\ UNCHANGED <<child, generation, configured, held, todo>>

\* Slip: a session that is refused is dropped, not closed.
RefuseStaleSlip(o) ==
  /\ pc[o] = "established" /\ source[o] # Local
  /\ ~IsCurrent(o)
  /\ Goto(o, "failed")
  /\ UNCHANGED <<opening, registry, child, generation, configured, held, todo>>

\* An open that a deletion of its endpoint has overtaken closes its session.
RefuseStale(o) ==
  /\ pc[o] = "established" /\ source[o] # Local
  /\ ~IsCurrent(o)
  /\ todo' = [todo EXCEPT ![o] = {o}]
  /\ Goto(o, "removed")
  /\ UNCHANGED <<opening, registry, child, generation, configured, held>>

-----------------------------------------------------------------------------
(* Taking sessions out and closing them                                    *)

\* Slip: the id stays in the set of its endpoint.
RemoveSlip(t, ids) ==
  /\ todo' = [todo EXCEPT ![t] = {sessions[i] : i \in ids} \ {None}]
  /\ sessions' = [i \in Ids |-> IF i \in ids THEN None ELSE sessions[i]]
  /\ owners' = [i \in Ids |-> IF i \in ids THEN None ELSE owners[i]]
  /\ Goto(t, "removed")
  /\ UNCHANGED endpointSessions

\* Take ids out of the three maps, under the lock; t keeps the sessions.
Remove(t, ids) ==
  /\ todo' = [todo EXCEPT ![t] = {sessions[i] : i \in ids} \ {None}]
  /\ sessions' = [i \in Ids |-> IF i \in ids THEN None ELSE sessions[i]]
  /\ owners' = [i \in Ids |-> IF i \in ids THEN None ELSE owners[i]]
  /\ endpointSessions' = [s \in Sources |-> endpointSessions[s] \ ids]
  /\ Goto(t, "removed")

\* core_close, with an id that some open handed out.
Close(c) ==
  /\ pc[c] = "idle"
  /\ \E i \in 1..nextId : Remove(c, {i})
  /\ UNCHANGED <<opening, child, generation, configured, held>>

\* The first half of deleting endpoint e: the configuration is written.
Commit(e) ==
  /\ pc[e] = "idle"
  /\ configured' = configured \ {e}
  /\ Goto(e, "committed")
  /\ UNCHANGED <<opening, child, registry, generation, held, todo>>

CloseEndpoint(e) ==
  /\ pc[e] = "committed"
  /\ generation' = [generation EXCEPT ![e] = @ + 1]
  /\ Remove(e, endpointSessions[e])
  /\ UNCHANGED <<opening, child, configured, held>>

\* clear drains the maps; it leaves the generations alone.
Clear(x) ==
  /\ pc[x] = "idle"
  /\ Remove(x, Ids)
  /\ UNCHANGED <<opening, child, generation, configured, held>>

\* signal_close on every session taken out...
SignalAll(t) ==
  /\ pc[t] = "removed"
  /\ child' = [o \in Opens |->
       IF o \in todo[t] /\ child[o] = "running" THEN "signalled" ELSE child[o]]
  /\ Goto(t, "closing")
  /\ UNCHANGED <<opening, registry, generation, configured, held, todo>>

Busy(o) == \E q \in Requests : pc[q] = "running" /\ held[q] = o

\* ...then close, one by one: each waits for the session's transport lock.
CloseNext(t) ==
  /\ pc[t] = "closing"
  /\ \E o \in todo[t] :
       /\ ~Busy(o)
       /\ child' = [child EXCEPT ![o] = "closed"]
       /\ todo' = [todo EXCEPT ![t] = @ \ {o}]
  /\ UNCHANGED <<pc, opening, registry, generation, configured, held>>

Return(t) ==
  /\ pc[t] = "closing" /\ todo[t] = {}
  /\ Goto(t, IF t \in Opens THEN "failed" ELSE "done")
  /\ UNCHANGED <<opening, child, registry, generation, configured, held, todo>>

-----------------------------------------------------------------------------
(* core_request                                                            *)

\* pool.get clones the Arc: from here on the maps no longer protect q.
Get(q) ==
  /\ pc[q] = "idle"
  /\ \E i \in 1..nextId :
       \/ /\ sessions[i] # None
          /\ held' = [held EXCEPT ![q] = sessions[i]]
          /\ Goto(q, "holding")
       \/ /\ sessions[i] = None
          /\ Goto(q, "done")
          /\ UNCHANGED held
  /\ UNCHANGED <<opening, child, registry, generation, configured, todo>>

\* The session lets one request run at a time, and none once it is closed.
Start(q) ==
  /\ pc[q] = "holding"
  /\ child[held[q]] = "running" /\ ~Busy(held[q])
  /\ Goto(q, "running")
  /\ UNCHANGED <<opening, child, registry, generation, configured, held, todo>>

\* The session is closed, or a credential-bearing request has claimed it.
Claimed(q) ==
  \/ child[held[q]] # "running"
  \/ \E k \in Credentialed \ {q} : held[k] = held[q]

\* The session refuses q; core_request closes it all the same if q has a key.
Refused(q) ==
  /\ pc[q] = "holding" /\ Claimed(q)
  /\ Goto(q, IF q \in Credentialed THEN "reaping" ELSE "done")
  /\ UNCHANGED <<opening, child, registry, generation, configured, held, todo>>

\* The parameters, the preflight or the key: q ends before it is sent.
NoKey(q) ==
  /\ pc[q] = "holding" /\ q \in Credentialed
  /\ Goto(q, "done")
  /\ UNCHANGED <<opening, child, registry, generation, configured, held, todo>>

\* The request ends.  A credential-bearing one has signalled its session, and
\* core_request closes it by its id before it returns.
Answer(q) ==
  /\ pc[q] = "running"
  /\ Goto(q, IF q \in Credentialed THEN "reaping" ELSE "done")
  /\ child' = [child EXCEPT ![held[q]] =
       IF q \in Credentialed /\ @ = "running" THEN "signalled" ELSE @]
  /\ UNCHANGED <<opening, registry, generation, configured, held, todo>>

\* What ends q when its session was signalled while it ran.
Cancel(q) == pc[q] = "running" /\ child[held[q]] # "running" /\ Answer(q)

Reap(q) ==
  /\ pc[q] = "reaping"
  /\ Remove(q, {id[held[q]]})
  /\ UNCHANGED <<opening, child, generation, configured, held>>

-----------------------------------------------------------------------------
OpenStep(o) ==
  \/ Capture(o) \/ ReadConfig(o) \/ Spawn(o) \/ Establish(o)
  \/ AllocateLocal(o) \/ InsertLocal(o) \/ InsertIfCurrent(o) \/ RefuseStale(o)

CloseStep(t) == SignalAll(t) \/ CloseNext(t) \/ Return(t)

Next ==
  \/ \E o \in Opens : Begin(o) \/ OpenStep(o)
  \/ \E c \in Closers : Close(c)
  \/ \E e \in Endpoints : Commit(e) \/ CloseEndpoint(e)
  \/ \E x \in Clears : Clear(x)
  \/ \E q \in Requests :
       Get(q) \/ Start(q) \/ Refused(q) \/ NoKey(q) \/ Answer(q) \/ Reap(q)
  \/ \E t \in Tasks : CloseStep(t)

\* Whoever took a session out goes on to close it, and a request on a session
\* that was signalled is cancelled (Session.tla, CloseEndsRequests).
Fairness ==
  /\ \A t \in Tasks : WF_vars(CloseStep(t))
  /\ \A q \in Requests : WF_vars(Reap(q))
  /\ \A q \in Requests : WF_vars(Cancel(q))

Spec == Init /\ [][Next]_vars
FairSpec == Spec /\ Fairness

-----------------------------------------------------------------------------
(* Properties                                                              *)

(***************************************************************************)
(* The three maps tell one story: whatever order opens, closes, deletions  *)
(* and clears come in, a session has an owner exactly while it is          *)
(* registered, under its own id, and is listed under that owner only.      *)
(***************************************************************************)
IndexAgreement ==
  /\ \A i \in Ids : sessions[i] # None =>
       id[sessions[i]] = i /\ owners[i] = source[sessions[i]]
  /\ \A i \in Ids : (sessions[i] = None) <=> (owners[i] = None)
  /\ \A s \in Sources : endpointSessions[s] = {i \in Ids : owners[i] = s}

(***************************************************************************)
(* An id stands for one session forever: the GUI may keep it and use it    *)
(* late without reaching a session it was not given.                       *)
(***************************************************************************)
OneSessionPerId ==
  \A o, p \in Opens : id[o] # 0 /\ id[o] = id[p] => o = p

(***************************************************************************)
(* Deleting an endpoint overtakes every open already in flight: once its   *)
(* endpoint_sessions_close has returned, no session of the endpoint is     *)
(* registered, ever, and one that had been is closed, or is being closed   *)
(* by a call that took it out before.                                      *)
(***************************************************************************)
DeletedEndpointIsQuiet ==
  \A e \in Endpoints : pc[e] = "done" =>
    /\ \A i \in Ids : owners[i] # e
    /\ \A o \in Opens : source[o] = e /\ id[o] # 0 =>
         child[o] = "closed" \/ \E t \in Tasks : o \in todo[t]

\* A session whose open has returned, or was refused, and that no id reaches.
Unreachable(o) ==
  /\ child[o] \in {"running", "signalled"}
  /\ pc[o] \in {"removed", "closing", "failed", "done"}
  /\ \A i \in Ids : sessions[i] # o

(***************************************************************************)
(* No core is left behind: a session that can no longer be reached by its  *)
(* id is closed by whoever took it out or was refused it.                  *)
(***************************************************************************)
NoOrphans == \A o \in Opens : Unreachable(o) ~> (child[o] = "closed")
=============================================================================
