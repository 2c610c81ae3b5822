------------------------- MODULE SessionPoolProofs -------------------------
(***************************************************************************)
(* The registry's invariants hold for any number of opens, requests,       *)
(* closers, clears and endpoints.  IInv adds to the properties what makes  *)
(* them inductive: where an open stands tells whether it has an id and a   *)
(* place in the maps (IdInv), a session that was taken out is in somebody's*)
(* hands until it is closed (TodoInv), and an open that read the           *)
(* configuration before an endpoint's deletion carries an old generation   *)
(* (GenInv).                                                               *)
(***************************************************************************)
EXTENDS SessionPool, TLAPS

\* The places each kind of task can be in.
PCInv ==
  /\ \A o \in Opens : pc[o] \in
       {"idle", "capturing", "reading", "spawning", "establishing", "established",
        "allocated", "removed", "closing", "failed", "done"}
  /\ \A e \in Endpoints : pc[e] \in {"idle", "committed", "removed", "closing", "done"}
  /\ \A o \in Opens : pc[o] \in {"capturing", "reading"} => source[o] # Local
  /\ \A q \in Requests : pc[q] \in {"holding", "running", "reaping"} => held[q] # None

IdInv ==
  /\ \A o \in Opens : id[o] # 0 <=> pc[o] \in {"allocated", "done"}
  /\ \A o \in Opens : id[o] <= nextId
  /\ \A o \in Opens : pc[o] = "allocated" =>
       source[o] = Local /\ sessions[id[o]] = None
  /\ \A i \in Ids : sessions[i] # None => pc[sessions[i]] = "done"
  /\ \A q \in Requests : held[q] # None => pc[held[q]] = "done"

TodoInv ==
  /\ \A t \in Tasks : pc[t] \notin {"removed", "closing"} => todo[t] = {}
  /\ \A o \in Opens : pc[o] = "done" =>
       \/ sessions[id[o]] = o
       \/ child[o] = "closed"
       \/ \E t \in Tasks : o \in todo[t]

\* Endpoint e has been deleted and its sessions were taken out.
Swept(e) == pc[e] \in {"removed", "closing", "done"}

GenInv ==
  /\ \A e \in Endpoints : pc[e] # "idle" => e \notin configured
  /\ \A o \in Opens : pc[o] = "idle" => captured[o] = 0
  /\ \A o \in Opens : source[o] # Local => captured[o] <= generation[source[o]]
  /\ \A e \in Endpoints : Swept(e) =>
       /\ \A i \in Ids : owners[i] # e
       /\ \A o \in Opens :
            source[o] = e /\ pc[o] \in {"spawning", "establishing", "established"}
              => captured[o] < generation[e]

IInv ==
  /\ TypeOK /\ PCInv /\ IdInv /\ OneSessionPerId /\ IndexAgreement /\ TodoInv
  /\ GenInv

-----------------------------------------------------------------------------
(* Init establishes the invariant and every action keeps it: one lemma per *)
(* action, one step per part.                                              *)

LEMMA InitInv == Init => IInv
<1> SUFFICES ASSUME Init PROVE IInv
  OBVIOUS
<1> USE PoolAssumption DEF Init, Requests, Sources, Ids, Tasks
<1>1. TypeOK  BY DEF TypeOK, PC
<1>2. PCInv  BY DEF PCInv
<1>3. IdInv  BY DEF IdInv
<1>4. OneSessionPerId  BY DEF OneSessionPerId
<1>5. IndexAgreement  BY DEF IndexAgreement
<1>6. TodoInv  BY DEF TodoInv
<1>7. GenInv  BY DEF GenInv, Swept
<1> QED BY <1>1, <1>2, <1>3, <1>4, <1>5, <1>6, <1>7 DEF IInv

\* A session that Remove takes out of the maps is in the hands of its task.
LEMMA RemoveTodo ==
  ASSUME IInv, NEW t \in Tasks \ Opens, NEW ids \in SUBSET Ids, Remove(t, ids),
         pc[t] \notin {"removed", "closing"}, UNCHANGED <<id, child>>
  PROVE  TodoInv'
<1> USE DEF IInv, TypeOK, Remove, Goto
<1>1. todo[t] = {}
  BY DEF TodoInv
<1>2. \A u \in Tasks : pc'[u] \notin {"removed", "closing"} => todo'[u] = {}
  BY DEF TodoInv
<1>3. ASSUME NEW o \in Opens, pc'[o] = "done"
      PROVE  \/ sessions'[id'[o]] = o
             \/ child'[o] = "closed"
             \/ \E u \in Tasks : o \in todo'[u]
  <2>1. pc[o] = "done" /\ id[o] \in Ids
    BY <1>3 DEF IdInv
  <2>2. CASE sessions[id[o]] = o /\ id[o] \in ids
    <3>1. o \in todo'[t]
      BY <2>1, <2>2, PoolAssumption
    <3> QED BY <3>1
  <2>3. CASE sessions[id[o]] = o /\ id[o] \notin ids
    BY <2>1, <2>3
  <2>4. CASE child[o] = "closed"
    BY <2>4
  <2>5. ASSUME NEW u \in Tasks, o \in todo[u] PROVE o \in todo'[u]
    BY <1>1, <2>5
  <2> QED BY <2>1, <2>2, <2>3, <2>4, <2>5 DEF TodoInv
<1> QED BY <1>2, <1>3 DEF TodoInv

\* What a lookup leaves: q holds a registered session h, or has been refused.
LEMMA GetFacts ==
  ASSUME IInv, NEW q \in Requests, Get(q)
  PROVE  \E h \in Opens \cup {None}, n \in {"holding", "done"} :
           /\ pc' = [pc EXCEPT ![q] = n]
           /\ held' = [held EXCEPT ![q] = h]
           /\ n = "holding" => h # None
           /\ h # None => pc[h] = "done"
<1>1. 1..nextId \subseteq Ids
  BY PoolAssumption DEF IInv, TypeOK, Ids
<1>2. PICK i \in Ids :
        \/ /\ sessions[i] # None
           /\ held' = [held EXCEPT ![q] = sessions[i]]
           /\ pc' = [pc EXCEPT ![q] = "holding"]
        \/ pc' = [pc EXCEPT ![q] = "done"] /\ held' = held
  BY <1>1 DEF Get, Goto
<1>3. CASE sessions[i] # None /\ pc' = [pc EXCEPT ![q] = "holding"]
  <2>1. sessions[i] \in Opens /\ pc[sessions[i]] = "done"
    BY <1>3 DEF IInv, TypeOK, IdInv
  <2>2. pc[q] = "idle"
    BY DEF Get
  <2> QED BY <1>2, <1>3, <2>1, <2>2 DEF IInv, TypeOK, Tasks
<1>4. CASE pc' = [pc EXCEPT ![q] = "done"] /\ held' = held
  <2>1. held[q] \in Opens \cup {None} /\ held' = [held EXCEPT ![q] = held[q]]
    BY <1>4 DEF IInv, TypeOK
  <2>2. held[q] # None => pc[held[q]] = "done"
    BY DEF IInv, IdInv
  <2> QED BY <1>4, <2>1, <2>2
<1> QED BY <1>2, <1>3, <1>4

LEMMA GetKeeps ==
  ASSUME IInv, NEW q \in Requests, Get(q)
  PROVE  IInv'
<1>0. /\ UNCHANGED <<opening, child, registry, generation, configured, todo>>
      /\ pc[q] = "idle"
  BY DEF Get
<1>00. PICK h \in Opens \cup {None}, n \in {"holding", "done"} :
         /\ pc' = [pc EXCEPT ![q] = n]
         /\ held' = [held EXCEPT ![q] = h]
         /\ n = "holding" => h # None
         /\ h # None => pc[h] = "done"
  BY GetFacts
<1> USE <1>0, <1>00, PoolAssumption DEF IInv, TypeOK, Requests, Sources, Ids, Tasks, opening, registry
<1>1. TypeOK'
  BY DEF PC
<1>2. PCInv'
  BY DEF PCInv
<1>3. IdInv'
  <2>1. \A o \in Opens : pc'[o] = pc[o]
    OBVIOUS
  <2>2. \A p \in Requests : held'[p] # None => pc[held'[p]] = "done"
    BY DEF IdInv
  <2> QED BY <2>1, <2>2 DEF IdInv
<1>4. OneSessionPerId'
  BY DEF OneSessionPerId
<1>5. IndexAgreement'
  BY DEF IndexAgreement
<1>6. TodoInv'
  <2>1. \A o \in Opens : pc'[o] = pc[o]
    OBVIOUS
  <2> QED BY <2>1 DEF TodoInv
<1>7. GenInv'
  BY DEF GenInv, Swept
<1> QED BY <1>1, <1>2, <1>3, <1>4, <1>5, <1>6, <1>7 DEF IInv

LEMMA BeginKeeps ==
  ASSUME IInv, NEW o \in Opens, Begin(o)
  PROVE  IInv'
<1> USE PoolAssumption DEF IInv, TypeOK, Requests, Sources, Ids, Tasks, opening, registry, Begin, Goto
<1>1. TypeOK'
  BY DEF PC
<1>2. PCInv'
  BY DEF PCInv
<1>3. IdInv'
  BY DEF IdInv
<1>4. OneSessionPerId'
  BY DEF OneSessionPerId
<1>5. IndexAgreement'
  BY DEF IndexAgreement, IdInv
<1>6. TodoInv'
  BY DEF TodoInv
<1>7. GenInv'
  BY DEF GenInv, Swept, PCInv
<1> QED BY <1>1, <1>2, <1>3, <1>4, <1>5, <1>6, <1>7 DEF IInv

LEMMA CaptureKeeps ==
  ASSUME IInv, NEW o \in Opens, Capture(o)
  PROVE  IInv'
<1> USE PoolAssumption DEF IInv, TypeOK, Requests, Sources, Ids, Tasks, opening, registry, Capture, Goto
<1>1. TypeOK'
  BY DEF PC, PCInv
<1>2. PCInv'
  BY DEF PCInv
<1>3. IdInv'
  BY DEF IdInv
<1>4. OneSessionPerId'
  BY DEF OneSessionPerId
<1>5. IndexAgreement'
  BY DEF IndexAgreement
<1>6. TodoInv'
  BY DEF TodoInv
<1>7. GenInv'
  BY DEF GenInv, Swept
<1> QED BY <1>1, <1>2, <1>3, <1>4, <1>5, <1>6, <1>7 DEF IInv

LEMMA ReadConfigKeeps ==
  ASSUME IInv, NEW o \in Opens, ReadConfig(o)
  PROVE  IInv'
<1> USE PoolAssumption DEF IInv, TypeOK, Requests, Sources, Ids, Tasks, opening, registry, ReadConfig, Goto
<1>1. TypeOK'
  BY DEF PC
<1>2. PCInv'
  <2>1. CASE pc' = [pc EXCEPT ![o] = "spawning"]
    BY <2>1 DEF PCInv
  <2>2. CASE pc' = [pc EXCEPT ![o] = "failed"]
    BY <2>2 DEF PCInv
  <2> QED BY <2>1, <2>2
<1>3. IdInv'
  <2>1. CASE pc' = [pc EXCEPT ![o] = "spawning"]
    BY <2>1 DEF IdInv
  <2>2. CASE pc' = [pc EXCEPT ![o] = "failed"]
    BY <2>2 DEF IdInv
  <2> QED BY <2>1, <2>2
<1>4. OneSessionPerId'
  BY DEF OneSessionPerId
<1>5. IndexAgreement'
  BY DEF IndexAgreement
<1>6. TodoInv'
  BY DEF TodoInv, PCInv
<1>7. GenInv'
  <2>1. CASE source[o] \in configured /\ pc' = [pc EXCEPT ![o] = "spawning"]
    <3>1. ~Swept(source[o])
      BY <2>1 DEF GenInv, Swept
    <3> QED BY <2>1, <3>1 DEF GenInv, Swept, PCInv
  <2>2. CASE pc' = [pc EXCEPT ![o] = "failed"]
    BY <2>2 DEF GenInv, Swept, PCInv
  <2> QED BY <2>1, <2>2
<1> QED BY <1>1, <1>2, <1>3, <1>4, <1>5, <1>6, <1>7 DEF IInv

\* Between the configuration and the registration an open changes only its
\* own place and its own core.
LEMMA ProgressKeeps ==
  ASSUME IInv, NEW o \in Opens,
         NEW n \in {"establishing", "established", "failed"},
         NEW c \in {"none", "running", "signalled", "closed"},
         pc[o] \in {"spawning", "establishing"},
         pc' = [pc EXCEPT ![o] = n], child' = [child EXCEPT ![o] = c],
         UNCHANGED <<opening, registry, generation, configured, held, todo>>
  PROVE  IInv'
<1> USE DEF opening, registry
<1>0. o \in Tasks /\ n \in PC /\ pc \in [Tasks -> PC] /\ Opens \subseteq Tasks
  BY DEF IInv, TypeOK, Tasks, PC
<1>1. /\ pc'[o] = n
      /\ \A t \in Tasks \ {o} : pc'[t] = pc[t]
      /\ \A p \in Opens \ {o} : pc'[p] = pc[p]
  BY <1>0
<1>2. \A p \in Opens \ {o} : child'[p] = child[p]
  BY DEF IInv, TypeOK
<1>3. TypeOK'
  BY <1>0 DEF IInv, TypeOK
<1>4. PCInv'
  <2>1. PCInv
    BY DEF IInv
  <2>2. Requests \subseteq Tasks \ {o} /\ Endpoints \subseteq Tasks \ {o}
    BY PoolAssumption DEF Tasks, Requests
  <2> QED BY <1>1, <2>1, <2>2 DEF PCInv
<1>5. IdInv'
  <2>1. IdInv
    BY DEF IInv
  <2>2. id[o] = 0
    BY <2>1 DEF IdInv
  <2>3. \A i \in Ids : sessions[i] # o
    BY <2>1, PoolAssumption DEF IdInv
  <2>4. \A i \in Ids : sessions[i] # None => sessions[i] \in Opens \ {o}
    BY <2>3 DEF IInv, TypeOK
  <2>5. \A q \in Requests : held[q] # None => held[q] \in Opens \ {o}
    BY <2>1 DEF IdInv, IInv, TypeOK
  <2> QED BY <1>1, <2>1, <2>2, <2>4, <2>5 DEF IdInv
<1>6. OneSessionPerId' /\ IndexAgreement'
  BY DEF IInv, OneSessionPerId, IndexAgreement
<1>7. TodoInv'
  <2>1. TodoInv
    BY DEF IInv
  <2>2. \A t \in Tasks : pc'[t] \notin {"removed", "closing"} => todo'[t] = {}
    BY <1>0, <1>1, <2>1 DEF TodoInv
  <2> QED BY <1>1, <1>2, <2>1, <2>2 DEF TodoInv
<1>8. GenInv'
  <2>1. GenInv /\ \A e \in Endpoints : pc'[e] = pc[e]
    BY <1>1, PoolAssumption DEF IInv, Tasks
  <2> QED BY <1>1, <2>1 DEF GenInv, Swept
<1> QED BY <1>3, <1>4, <1>5, <1>6, <1>7, <1>8 DEF IInv

LEMMA SpawnKeeps ==
  ASSUME IInv, NEW o \in Opens, Spawn(o)
  PROVE  IInv'
<1>1. child[o] \in {"none", "running", "signalled", "closed"}
  BY DEF IInv, TypeOK
<1>2. child = [child EXCEPT ![o] = child[o]]
  BY DEF IInv, TypeOK
<1>3. CASE child' = [child EXCEPT ![o] = "running"] /\ Goto(o, "establishing")
  BY <1>3, ProgressKeeps DEF Spawn, Goto
<1>4. CASE Goto(o, "failed") /\ UNCHANGED child
  BY <1>1, <1>2, <1>4, ProgressKeeps DEF Spawn, Goto
<1> QED BY <1>3, <1>4 DEF Spawn

LEMMA EstablishKeeps ==
  ASSUME IInv, NEW o \in Opens, Establish(o)
  PROVE  IInv'
<1>1. child[o] \in {"none", "running", "signalled", "closed"}
  BY DEF IInv, TypeOK
<1>2. child = [child EXCEPT ![o] = child[o]]
  BY DEF IInv, TypeOK
<1>3. CASE Goto(o, "established") /\ UNCHANGED child
  BY <1>1, <1>2, <1>3, ProgressKeeps DEF Establish, Goto
<1>4. CASE child' = [child EXCEPT ![o] = "closed"] /\ Goto(o, "failed")
  BY <1>4, ProgressKeeps DEF Establish, Goto
<1> QED BY <1>3, <1>4 DEF Establish

LEMMA AllocateLocalKeeps ==
  ASSUME IInv, NEW o \in Opens, AllocateLocal(o)
  PROVE  IInv'
<1> USE PoolAssumption DEF IInv, TypeOK, Requests, Sources, Ids, Tasks, opening, registry, AllocateLocal, Goto, TakeId, FreshId
<1>1. TypeOK'
  BY DEF PC
<1>2. PCInv'
  BY DEF PCInv
<1>3. IdInv'
  BY DEF IdInv, PCInv, IndexAgreement, OneSessionPerId
<1>4. OneSessionPerId'
  BY DEF OneSessionPerId, IdInv
<1>5. IndexAgreement'
  BY DEF IndexAgreement, IdInv
<1>6. TodoInv'
  <2>1. \A p \in Opens : pc'[p] = "done" => p # o /\ pc[p] = "done"
    OBVIOUS
  <2>2. \A p \in Opens : p # o => id'[p] = id[p]
    OBVIOUS
  <2>3. \A t \in Tasks : pc'[t] \notin {"removed", "closing"} => todo'[t] = {}
    BY DEF TodoInv
  <2> QED BY <2>1, <2>2, <2>3 DEF TodoInv
<1>7. GenInv'
  BY DEF GenInv, Swept
<1> QED BY <1>1, <1>2, <1>3, <1>4, <1>5, <1>6, <1>7 DEF IInv

LEMMA InsertLocalKeeps ==
  ASSUME IInv, NEW o \in Opens, InsertLocal(o)
  PROVE  IInv'
<1> USE PoolAssumption DEF IInv, TypeOK, Requests, Sources, Ids, Tasks, opening, registry, InsertLocal, Goto, Register
<1>1. TypeOK'
  BY DEF PC, PCInv, IdInv
<1>2. PCInv'
  BY DEF PCInv
<1>3. IdInv'
  BY DEF IdInv, PCInv, IndexAgreement, OneSessionPerId
<1>4. OneSessionPerId'
  BY DEF OneSessionPerId
<1>5. IndexAgreement'
  BY DEF IndexAgreement, IdInv
<1>6. TodoInv'
  BY DEF TodoInv, PCInv, IdInv
<1>7. GenInv'
  BY DEF GenInv, Swept, PCInv, IdInv
<1> QED BY <1>1, <1>2, <1>3, <1>4, <1>5, <1>6, <1>7 DEF IInv

LEMMA InsertIfCurrentKeeps ==
  ASSUME IInv, NEW o \in Opens, InsertIfCurrent(o)
  PROVE  IInv'
<1> USE PoolAssumption DEF IInv, TypeOK, Requests, Sources, Ids, Tasks, opening, registry, InsertIfCurrent, Goto, IsCurrent, TakeId, FreshId, Register
<1>1. TypeOK'
  BY DEF PC
<1>2. PCInv'
  BY DEF PCInv
<1>3. IdInv'
  BY DEF IdInv
<1>4. OneSessionPerId'
  BY DEF OneSessionPerId, IdInv
<1>5. IndexAgreement'
  BY DEF IndexAgreement, IdInv
<1>6. TodoInv'
  <2>1. \A t \in Tasks : pc'[t] \notin {"removed", "closing"} => todo'[t] = {}
    BY DEF TodoInv
  <2>2. id'[o] \in Ids /\ sessions'[id'[o]] = o
    OBVIOUS
  <2>3. ASSUME NEW p \in Opens \ {o}, pc'[p] = "done"
        PROVE  /\ pc[p] = "done"
               /\ sessions'[id'[p]] = sessions[id[p]]
    <3>1. pc[p] = "done" /\ id'[p] = id[p] /\ id[p] \in Ids /\ id[p] <= nextId
      BY <2>3 DEF IdInv
    <3> QED BY <3>1
  <2> QED BY <2>1, <2>2, <2>3 DEF TodoInv
<1>7. GenInv'
  BY DEF GenInv, Swept
<1> QED BY <1>1, <1>2, <1>3, <1>4, <1>5, <1>6, <1>7 DEF IInv

LEMMA RefuseStaleKeeps ==
  ASSUME IInv, NEW o \in Opens, RefuseStale(o)
  PROVE  IInv'
<1> USE PoolAssumption DEF IInv, TypeOK, Requests, Sources, Ids, Tasks, opening, registry, RefuseStale, Goto, IsCurrent
<1>1. TypeOK'
  BY DEF PC
<1>2. PCInv'
  BY DEF PCInv
<1>3. IdInv'
  BY DEF IdInv
<1>4. OneSessionPerId'
  BY DEF OneSessionPerId
<1>5. IndexAgreement'
  BY DEF IndexAgreement
<1>6. TodoInv'
  BY DEF TodoInv
<1>7. GenInv'
  BY DEF GenInv, Swept
<1> QED BY <1>1, <1>2, <1>3, <1>4, <1>5, <1>6, <1>7 DEF IInv

LEMMA CloseKeeps ==
  ASSUME IInv, NEW c \in Closers, Close(c)
  PROVE  IInv'
<1> USE PoolAssumption DEF IInv, TypeOK, Requests, Sources, Ids, Tasks, opening, registry, Close, Goto, Remove
<1>1. TypeOK'
  BY DEF PC
<1>2. PCInv'
  BY DEF PCInv
<1>3. IdInv'
  BY DEF IdInv
<1>4. OneSessionPerId'
  BY DEF OneSessionPerId
<1>5. IndexAgreement'
  BY DEF IndexAgreement
<1>6. TodoInv'
  <2> HIDE DEF IInv, TypeOK, Goto, Remove, Ids, Tasks, Requests
  <2>1. c \in Tasks \ Opens
    BY PoolAssumption DEF Tasks, Requests
  <2>2. PICK ids \in SUBSET Ids : Remove(c, ids)
    BY DEF Ids, IInv, TypeOK
  <2>3. pc[c] \notin {"removed", "closing"} /\ UNCHANGED <<id, child>>
    OBVIOUS
  <2> QED BY <2>1, <2>2, <2>3, RemoveTodo
<1>7. GenInv'
  BY DEF GenInv, Swept
<1> QED BY <1>1, <1>2, <1>3, <1>4, <1>5, <1>6, <1>7 DEF IInv

LEMMA CommitKeeps ==
  ASSUME IInv, NEW e \in Endpoints, Commit(e)
  PROVE  IInv'
<1> USE PoolAssumption DEF IInv, TypeOK, Requests, Sources, Ids, Tasks, opening, registry, Commit, Goto
<1>1. TypeOK'
  BY DEF PC
<1>2. PCInv'
  BY DEF PCInv
<1>3. IdInv'
  BY DEF IdInv
<1>4. OneSessionPerId'
  BY DEF OneSessionPerId
<1>5. IndexAgreement'
  BY DEF IndexAgreement
<1>6. TodoInv'
  BY DEF TodoInv
<1>7. GenInv'
  BY DEF GenInv, Swept
<1> QED BY <1>1, <1>2, <1>3, <1>4, <1>5, <1>6, <1>7 DEF IInv

LEMMA CloseEndpointKeeps ==
  ASSUME IInv, NEW e \in Endpoints, CloseEndpoint(e)
  PROVE  IInv'
<1> USE PoolAssumption DEF IInv, TypeOK, Requests, Sources, Ids, Tasks, opening, registry, CloseEndpoint, Goto, Remove
<1>1. TypeOK'
  BY DEF PC
<1>2. PCInv'
  BY DEF PCInv
<1>3. IdInv'
  BY DEF IdInv
<1>4. OneSessionPerId'
  BY DEF OneSessionPerId
<1>5. IndexAgreement'
  BY DEF IndexAgreement
<1>6. TodoInv'
  <2> HIDE DEF IInv, TypeOK, Goto, Remove, Ids, Tasks, Requests
  <2>1. e \in Tasks \ Opens
    BY PoolAssumption DEF Tasks, Requests
  <2>2. PICK ids \in SUBSET Ids : Remove(e, ids)
    BY DEF IInv, TypeOK, Sources
  <2>3. pc[e] \notin {"removed", "closing"} /\ UNCHANGED <<id, child>>
    OBVIOUS
  <2> QED BY <2>1, <2>2, <2>3, RemoveTodo
<1>7. GenInv'
  BY DEF GenInv, Swept, PCInv, IdInv, IndexAgreement
<1> QED BY <1>1, <1>2, <1>3, <1>4, <1>5, <1>6, <1>7 DEF IInv

LEMMA ClearKeeps ==
  ASSUME IInv, NEW x \in Clears, Clear(x)
  PROVE  IInv'
<1> USE PoolAssumption DEF IInv, TypeOK, Requests, Sources, Ids, Tasks, opening, registry, Clear, Goto, Remove
<1>1. TypeOK'
  BY DEF PC
<1>2. PCInv'
  BY DEF PCInv
<1>3. IdInv'
  BY DEF IdInv
<1>4. OneSessionPerId'
  BY DEF OneSessionPerId
<1>5. IndexAgreement'
  BY DEF IndexAgreement
<1>6. TodoInv'
  <2> HIDE DEF IInv, TypeOK, Goto, Remove, Ids, Tasks, Requests
  <2>1. x \in Tasks \ Opens
    BY PoolAssumption DEF Tasks, Requests
  <2>2. PICK ids \in SUBSET Ids : Remove(x, ids)
    BY DEF Ids
  <2>3. pc[x] \notin {"removed", "closing"} /\ UNCHANGED <<id, child>>
    OBVIOUS
  <2> QED BY <2>1, <2>2, <2>3, RemoveTodo
<1>7. GenInv'
  BY DEF GenInv, Swept
<1> QED BY <1>1, <1>2, <1>3, <1>4, <1>5, <1>6, <1>7 DEF IInv

LEMMA SignalAllKeeps ==
  ASSUME IInv, NEW t \in Tasks, SignalAll(t)
  PROVE  IInv'
<1> USE PoolAssumption DEF IInv, TypeOK, Requests, Sources, Ids, Tasks, opening, registry, SignalAll, Goto
<1>1. TypeOK'
  BY DEF PC
<1>2. PCInv'
  BY DEF PCInv
<1>3. IdInv'
  BY DEF IdInv
<1>4. OneSessionPerId'
  BY DEF OneSessionPerId
<1>5. IndexAgreement'
  BY DEF IndexAgreement
<1>6. TodoInv'
  BY DEF TodoInv
<1>7. GenInv'
  BY DEF GenInv, Swept
<1> QED BY <1>1, <1>2, <1>3, <1>4, <1>5, <1>6, <1>7 DEF IInv

LEMMA CloseNextKeeps ==
  ASSUME IInv, NEW t \in Tasks, CloseNext(t)
  PROVE  IInv'
<1> USE PoolAssumption DEF IInv, TypeOK, Requests, Sources, Ids, Tasks, opening, registry, CloseNext, Goto
<1>1. TypeOK'
  BY DEF PC
<1>2. PCInv'
  BY DEF PCInv
<1>3. IdInv'
  BY DEF IdInv
<1>4. OneSessionPerId'
  BY DEF OneSessionPerId
<1>5. IndexAgreement'
  BY DEF IndexAgreement
<1>6. TodoInv'
  BY DEF TodoInv, PCInv
<1>7. GenInv'
  BY DEF GenInv, Swept
<1> QED BY <1>1, <1>2, <1>3, <1>4, <1>5, <1>6, <1>7 DEF IInv

LEMMA ReturnKeeps ==
  ASSUME IInv, NEW t \in Tasks, Return(t)
  PROVE  IInv'
<1> USE PoolAssumption DEF IInv, TypeOK, Requests, Sources, Ids, Tasks, opening, registry, Return, Goto
<1>1. TypeOK'
  BY DEF PC
<1>2. PCInv'
  BY DEF PCInv
<1>3. IdInv'
  BY DEF IdInv
<1>4. OneSessionPerId'
  BY DEF OneSessionPerId
<1>5. IndexAgreement'
  BY DEF IndexAgreement
<1>6. TodoInv'
  BY DEF TodoInv
<1>7. GenInv'
  BY DEF GenInv, Swept
<1> QED BY <1>1, <1>2, <1>3, <1>4, <1>5, <1>6, <1>7 DEF IInv

LEMMA StartKeeps ==
  ASSUME IInv, NEW q \in Requests, Start(q)
  PROVE  IInv'
<1> USE PoolAssumption DEF IInv, TypeOK, Requests, Sources, Ids, Tasks, opening, registry, Start, Goto
<1>1. TypeOK'
  BY DEF PC, PCInv
<1>2. PCInv'
  BY DEF PCInv
<1>3. IdInv'
  BY DEF IdInv
<1>4. OneSessionPerId'
  BY DEF OneSessionPerId
<1>5. IndexAgreement'
  BY DEF IndexAgreement
<1>6. TodoInv'
  BY DEF TodoInv, PCInv
<1>7. GenInv'
  BY DEF GenInv, Swept, PCInv
<1> QED BY <1>1, <1>2, <1>3, <1>4, <1>5, <1>6, <1>7 DEF IInv

LEMMA RefusedKeeps ==
  ASSUME IInv, NEW q \in Requests, Refused(q)
  PROVE  IInv'
<1> USE PoolAssumption DEF IInv, TypeOK, Requests, Sources, Ids, Tasks, opening, registry, Refused, Goto
<1>1. TypeOK'
  BY DEF PC, PCInv
<1>2. PCInv'
  BY DEF PCInv
<1>3. IdInv'
  BY DEF IdInv
<1>4. OneSessionPerId'
  BY DEF OneSessionPerId
<1>5. IndexAgreement'
  BY DEF IndexAgreement
<1>6. TodoInv'
  BY DEF TodoInv, PCInv
<1>7. GenInv'
  BY DEF GenInv, Swept, PCInv
<1> QED BY <1>1, <1>2, <1>3, <1>4, <1>5, <1>6, <1>7 DEF IInv

LEMMA NoKeyKeeps ==
  ASSUME IInv, NEW q \in Requests, NoKey(q)
  PROVE  IInv'
<1> USE PoolAssumption DEF IInv, TypeOK, Requests, Sources, Ids, Tasks, opening, registry, NoKey, Goto
<1>1. TypeOK'
  BY DEF PC, PCInv
<1>2. PCInv'
  BY DEF PCInv
<1>3. IdInv'
  BY DEF IdInv
<1>4. OneSessionPerId'
  BY DEF OneSessionPerId
<1>5. IndexAgreement'
  BY DEF IndexAgreement
<1>6. TodoInv'
  BY DEF TodoInv, PCInv
<1>7. GenInv'
  BY DEF GenInv, Swept, PCInv
<1> QED BY <1>1, <1>2, <1>3, <1>4, <1>5, <1>6, <1>7 DEF IInv

LEMMA AnswerKeeps ==
  ASSUME IInv, NEW q \in Requests, Answer(q)
  PROVE  IInv'
<1> USE PoolAssumption DEF IInv, TypeOK, Requests, Sources, Ids, Tasks, opening, registry, Answer, Goto
<1>1. TypeOK'
  BY DEF PC
<1>2. PCInv'
  BY DEF PCInv
<1>3. IdInv'
  BY DEF IdInv
<1>4. OneSessionPerId'
  BY DEF OneSessionPerId
<1>5. IndexAgreement'
  BY DEF IndexAgreement
<1>6. TodoInv'
  BY DEF TodoInv, PCInv
<1>7. GenInv'
  BY DEF GenInv, Swept
<1> QED BY <1>1, <1>2, <1>3, <1>4, <1>5, <1>6, <1>7 DEF IInv

LEMMA ReapKeeps ==
  ASSUME IInv, NEW q \in Requests, Reap(q)
  PROVE  IInv'
<1> USE PoolAssumption DEF IInv, TypeOK, Requests, Sources, Ids, Tasks, opening, registry, Reap, Goto, Remove
<1>1. TypeOK'
  BY DEF PC, PCInv, IdInv
<1>2. PCInv'
  BY DEF PCInv
<1>3. IdInv'
  BY DEF IdInv
<1>4. OneSessionPerId'
  BY DEF OneSessionPerId
<1>5. IndexAgreement'
  BY DEF IndexAgreement
<1>6. TodoInv'
  <2> HIDE DEF IInv, TypeOK, Goto, Remove, Ids, Tasks, Requests
  <2>1. q \in Tasks \ Opens
    BY PoolAssumption DEF Tasks, Requests
  <2>2. PICK ids \in SUBSET Ids : Remove(q, ids)
    BY DEF IInv, TypeOK, PCInv, IdInv
  <2>3. pc[q] \notin {"removed", "closing"} /\ UNCHANGED <<id, child>>
    OBVIOUS
  <2> QED BY <2>1, <2>2, <2>3, RemoveTodo
<1>7. GenInv'
  BY DEF GenInv, Swept
<1> QED BY <1>1, <1>2, <1>3, <1>4, <1>5, <1>6, <1>7 DEF IInv

-----------------------------------------------------------------------------
\* The inductive invariant holds in every reachable state.
THEOREM Invariance == Spec => []IInv
<1>1. IInv /\ [Next]_vars => IInv'
  <2> SUFFICES ASSUME IInv, [Next]_vars PROVE IInv'
    OBVIOUS
  <2>1. ASSUME NEW o \in Opens, Begin(o) \/ OpenStep(o) PROVE IInv'
    BY <2>1, BeginKeeps, CaptureKeeps, ReadConfigKeeps, SpawnKeeps, EstablishKeeps,
       AllocateLocalKeeps, InsertLocalKeeps, InsertIfCurrentKeeps, RefuseStaleKeeps
    DEF OpenStep
  <2>2. ASSUME NEW c \in Closers, Close(c) PROVE IInv'
    BY <2>2, CloseKeeps
  <2>3. ASSUME NEW e \in Endpoints, Commit(e) \/ CloseEndpoint(e) PROVE IInv'
    BY <2>3, CommitKeeps, CloseEndpointKeeps
  <2>4. ASSUME NEW x \in Clears, Clear(x) PROVE IInv'
    BY <2>4, ClearKeeps
  <2>5. ASSUME NEW q \in Requests,
         Get(q) \/ Start(q) \/ Refused(q) \/ NoKey(q) \/ Answer(q) \/ Reap(q)
       PROVE IInv'
    BY <2>5, GetKeeps, StartKeeps, RefusedKeeps, NoKeyKeeps, AnswerKeeps, ReapKeeps
  <2>6. ASSUME NEW t \in Tasks, CloseStep(t) PROVE IInv'
    BY <2>6, SignalAllKeeps, CloseNextKeeps, ReturnKeeps DEF CloseStep
  <2>7. CASE UNCHANGED vars
    BY <2>7 DEF vars, opening, registry, IInv, TypeOK, PCInv, IdInv, OneSessionPerId,
                IndexAgreement, TodoInv, GenInv, Swept
  <2> QED BY <2>1, <2>2, <2>3, <2>4, <2>5, <2>6, <2>7 DEF Next
<1> QED BY <1>1, InitInv, PTL DEF Spec

\* The types of the registry, for any number of tasks.
THEOREM TypeCorrect == Spec => []TypeOK
<1>1. IInv => TypeOK
  BY DEF IInv
<1> QED BY <1>1, Invariance, PTL

\* The three maps of PoolState agree.
THEOREM MapsAgree == Spec => []IndexAgreement
<1>1. IInv => IndexAgreement
  BY DEF IInv
<1> QED BY <1>1, Invariance, PTL

\* An id is never given to a second session.
THEOREM IdsUnique == Spec => []OneSessionPerId
<1>1. IInv => OneSessionPerId
  BY DEF IInv
<1> QED BY <1>1, Invariance, PTL

LEMMA SweptIsQuiet ==
  ASSUME IInv, NEW e \in Endpoints, pc[e] = "done"
  PROVE  /\ \A i \in Ids : owners[i] # e
         /\ \A o \in Opens : source[o] = e /\ id[o] # 0 =>
              child[o] = "closed" \/ \E t \in Tasks : o \in todo[t]
<1>1. \A i \in Ids : owners[i] # e
  BY DEF IInv, GenInv, Swept
<1>2. ASSUME NEW o \in Opens, source[o] = e, id[o] # 0
      PROVE  child[o] = "closed" \/ \E t \in Tasks : o \in todo[t]
  <2>1. pc[o] = "done"
    BY <1>2, PoolAssumption DEF IInv, IdInv
  <2>2. id[o] \in Ids
    BY <1>2 DEF IInv, TypeOK
  <2>3. sessions[id[o]] # o
    BY <1>1, <1>2, <2>2, PoolAssumption DEF IInv, IndexAgreement
  <2> QED BY <2>1, <2>3 DEF IInv, TodoInv
<1> QED BY <1>1, <1>2

\* Deleting an endpoint overtakes the opens in flight, however many there are.
THEOREM DeletionWins == Spec => []DeletedEndpointIsQuiet
<1>1. IInv => DeletedEndpointIsQuiet
  BY SweptIsQuiet DEF DeletedEndpointIsQuiet
<1> QED BY <1>1, Invariance, PTL
=============================================================================
