------------------------------ MODULE CoreClient ------------------------------
(***************************************************************************)
(* The GUI's RPC client, src/src/lib/rpc.ts, between the pages and the     *)
(* desktop bridge: the catalogue of its methods, which of them take the    *)
(* instance's lease (instanceCoordinator.ts), the gate for the CurseForge  *)
(* key, and the bridge's own check of the same requests (lib.rs            *)
(* core_request, curseforge.rs validate_injection).                        *)
(*                                                                         *)
(* A method is a pair <<of, verb>>: "server.mods.set-version" is           *)
(* <<"server.mods", "set-version">>.  Sessions are the bridge's: each      *)
(* runs one request at a time, and they run at the same time as each       *)
(* other, which is why the lease is kept above them.  A modpack import     *)
(* takes the lease itself and sends its requests with coordinate: false.   *)
(***************************************************************************)
CONSTANTS
  Instances,  \* instances of one instances directory, by their lease key
  Sessions,   \* sessions, each opened once
  Calls,      \* calls of CoreSession.request
  Used,       \* the methods the pages call in an instance of the model
  None

VARIABLES
  active,   \* instance -> the mutation that holds its lease, or None
  call,     \* call -> what it is and how far it is
  session,  \* session -> "new", "open", "keyed", "closed"
  importer, \* instance -> a modpack import of it is running
  key       \* a CurseForge key is stored

vars == <<active, call, session, importer, key>>

-----------------------------------------------------------------------------
\* The catalogue.

VersionMethods == {"version"} \X {"list", "get", "resolve"}

InstallMethods == {"install"} \X {"plan", "execute", "prepare"}

JavaMethods ==
  ({"java"} \X {"detect", "select"})
    \cup ({"java.runtime"} \X {"list", "install", "remove"})

LaunchMethods == {"launch"} \X {"plan", "execute"}

InstanceMethods == {"instance"} \X {"create", "list", "get", "delete"}

ServerMethods ==
  ({"server"} \X {"create", "list", "get", "delete", "install", "start", "stop",
                  "restart", "status", "logs", "command", "query"})
    \cup {<<"server.rcon", "command">>} \cup ({"server.properties"} \X {"get", "set"})

ServerWorldMethods ==
  ({"server.worlds"} \X {"list", "get", "rename", "delete", "backup", "backups", "restore"})
    \cup {<<"server.worlds.backups", "delete">>}

ContentVerbs == {"list", "install", "set-version", "enable", "disable", "remove", "adopt"}

ServerContentMethods == {"server.mods", "server.datapacks"} \X ContentVerbs

ContentMethods == {"mods", "resourcepacks", "shaderpacks"} \X ContentVerbs

DatapackMethods == {"datapacks"} \X ContentVerbs

WorldMethods ==
  ({"worlds"} \X {"list", "get", "rename", "duplicate", "delete", "export", "import",
                  "backup", "backups", "restore"})
    \cup {<<"worlds.backups", "delete">>}

ModpackMethods == {<<"modpack", "install">>, <<"store", "gc">>}

AuthMethods ==
  ({"auth.microsoft.device"} \X {"begin", "poll"})
    \cup ({"auth.minecraft"} \X {"exchange", "refresh_exchange"})

AccountMethods == {"account.microsoft"} \X {"save", "list", "get", "delete"}

Methods ==
  VersionMethods \cup InstallMethods \cup JavaMethods \cup LaunchMethods
    \cup InstanceMethods \cup ServerMethods \cup ServerWorldMethods
    \cup ServerContentMethods \cup ContentMethods \cup DatapackMethods
    \cup WorldMethods \cup ModpackMethods \cup AuthMethods \cup AccountMethods
    \cup {<<"core", "ping">>}

\* Reads: they never take the lease, in any family.
Reads == {"list", "get", "backups", "plan"}

\* Slip: the world-scoped datapacks were left out when the lease was added.
CoordinatedSlip(m) ==
  \/ m \in ContentMethods \cup WorldMethods /\ m[2] \notin Reads
  \/ m \in {<<"install", "execute">>, <<"install", "prepare">>, <<"launch", "execute">>,
            <<"instance", "create">>, <<"instance", "delete">>, <<"modpack", "install">>}

\* What the mutation options name, by family: the calls that take the lease
\* of their instance.  install.execute and install.prepare take it when they
\* are given a game directory, which is how the model's calls give it.
Coordinated(m) ==
  \/ m \in ContentMethods \cup DatapackMethods \cup WorldMethods /\ m[2] \notin Reads
  \/ m \in {<<"install", "execute">>, <<"install", "prepare">>, <<"launch", "execute">>,
            <<"instance", "create">>, <<"instance", "delete">>, <<"modpack", "install">>}

\* What the core does to an instance's directory: its calls that write there.
\* A server is not an instance, and the core guards its own servers.
Writes(m) ==
  \/ m[1] \in {"mods", "resourcepacks", "shaderpacks", "datapacks"}
     /\ m[2] \in {"install", "set-version", "enable", "disable", "remove", "adopt"}
  \/ m[1] = "worlds" /\ m[2] \in {"rename", "duplicate", "delete", "import", "backup", "restore"}
  \/ m \in {<<"worlds.backups", "delete">>, <<"install", "execute">>,
            <<"install", "prepare">>, <<"launch", "execute">>, <<"instance", "create">>,
            <<"instance", "delete">>, <<"modpack", "install">>}

-----------------------------------------------------------------------------
\* The key: the client's gate, what it leaves of the provider, and the bridge.

KeyedFamilies == {"mods", "resourcepacks", "shaderpacks", "datapacks"}

GateAllows(m, keyed) ==
  keyed =>
    \/ m = <<"modpack", "install">>
    \/ m[1] \in KeyedFamilies \cup {"server.mods", "server.resourcepacks",
                                    "server.shaderpacks", "server.datapacks"}
       /\ m[2] \in {"install", "set-version"}

\* Whether params.provider still says "curseforge" on the wire.
WireProvider(m, keyed) ==
  keyed /\ m[2] # "set-version" /\ m # <<"modpack", "install">>

BridgeAllows(m, keyed, provider) ==
  /\ ~keyed => ~provider
  /\ keyed =>
       \/ m = <<"modpack", "install">>
       \/ /\ m[1] \in KeyedFamilies \cup {"server.mods", "server.datapacks"}
          /\ m[2] \in {"install", "set-version"}
          /\ m[2] = "install" => provider

-----------------------------------------------------------------------------
\* What a modpack import registers: no request has it as its method.
Import == <<"modpack", "import">>

Idle == [state |-> "idle", method |-> None, inst |-> None, on |-> None,
         keyed |-> FALSE, leased |-> FALSE]

Asked == [state : {"sent", "queued", "core"}, method : Used, inst : Instances,
          on : Sessions, keyed : BOOLEAN, leased : BOOLEAN]

TypeOK ==
  /\ active \in [Instances -> Used \cup {None, Import}]
  /\ call \in [Calls -> Asked \cup {Idle}]
  /\ session \in [Sessions -> {"new", "open", "keyed", "closed"}]
  /\ importer \in [Instances -> BOOLEAN]
  /\ key \in BOOLEAN

Init ==
  /\ active = [i \in Instances |-> None]
  /\ call = [c \in Calls |-> Idle]
  /\ session = [s \in Sessions |-> "new"]
  /\ importer = [i \in Instances |-> FALSE]
  /\ key \in BOOLEAN

\* The release of a lease: by the call that took it, and only if the mutation
\* registered is still its own.
Released(c) ==
  IF call[c].leased /\ active[call[c].inst] = call[c].method
  THEN [active EXCEPT ![call[c].inst] = None] ELSE active

\* CoreSession.open and openSshEndpoint.
Open(s) ==
  /\ session[s] = "new"
  /\ session' = [session EXCEPT ![s] = "open"]
  /\ UNCHANGED <<active, call, importer, key>>

\* CoreSession.close: a request already at the core finishes first.
Close(s) ==
  /\ session[s] \in {"open", "keyed"}
  /\ session' = [session EXCEPT ![s] = "closed"]
  /\ UNCHANGED <<active, call, importer, key>>

\* CoreSession.request: the gate, then the lease, then the bridge's command.
\* A call the gate or a busy instance refuses changes nothing.
Request(c, m, i, s, keyed) ==
  /\ call[c] = Idle /\ session[s] # "new"
  /\ GateAllows(m, keyed)
  /\ Coordinated(m) => active[i] = None
  /\ active' = IF Coordinated(m) THEN [active EXCEPT ![i] = m] ELSE active
  /\ call' = [call EXCEPT ![c] = [state |-> "sent", method |-> m, inst |-> i, on |-> s,
                                  keyed |-> keyed, leased |-> Coordinated(m)]]
  /\ UNCHANGED <<session, importer, key>>

\* A modpack import starts: it registers its own mutation.
StartImport(i) ==
  /\ ~importer[i] /\ active[i] = None
  /\ importer' = [importer EXCEPT ![i] = TRUE]
  /\ active' = [active EXCEPT ![i] = Import]
  /\ UNCHANGED <<call, session, key>>

ImportMethods ==
  {<<"modpack", "install">>, <<"install", "execute">>, <<"install", "prepare">>}

\* It awaits each of its requests before the next one.
OfImport(i) ==
  {c \in Calls : call[c] # Idle /\ call[c].inst = i /\ ~call[c].leased
                   /\ call[c].method \in ImportMethods}

ImportRequest(c, m, i, s, keyed) ==
  /\ importer[i] /\ OfImport(i) = {}
  /\ call[c] = Idle /\ session[s] # "new"
  /\ m \in ImportMethods /\ GateAllows(m, keyed)
  /\ call' = [call EXCEPT ![c] = [state |-> "sent", method |-> m, inst |-> i, on |-> s,
                                  keyed |-> keyed, leased |-> FALSE]]
  /\ UNCHANGED <<active, session, importer, key>>

EndImport(i) ==
  /\ importer[i] /\ OfImport(i) = {}
  /\ importer' = [importer EXCEPT ![i] = FALSE]
  /\ active' = IF active[i] = Import THEN [active EXCEPT ![i] = None] ELSE active
  /\ UNCHANGED <<call, session, key>>

\* A call ends without having reached the core.
Refuse(c) ==
  /\ active' = Released(c)
  /\ call' = [call EXCEPT ![c] = Idle]

\* core_request: the session must be open, the bridge must admit the request,
\* and a keyed one needs the stored key and a session that was never keyed.
Admit(c) ==
  /\ call[c].state = "sent"
  /\ LET q == call[c]
         fits == /\ session[q.on] = "open"
                 /\ BridgeAllows(q.method, q.keyed, WireProvider(q.method, q.keyed))
                 /\ q.keyed => key
     IN IF fits
        THEN /\ call' = [call EXCEPT ![c].state = "queued"]
             /\ session' = IF q.keyed THEN [session EXCEPT ![q.on] = "keyed"] ELSE session
             /\ UNCHANGED active
        ELSE Refuse(c) /\ UNCHANGED session
  /\ UNCHANGED <<importer, key>>

\* The session's lock: one request at the core at a time.  After the wait the
\* session is looked at again.
Enter(c) ==
  /\ call[c].state = "queued"
  /\ \A d \in Calls : call[d] # Idle /\ call[d].on = call[c].on => call[d].state # "core"
  /\ IF session[call[c].on] = "open" \/ (session[call[c].on] = "keyed" /\ call[c].keyed)
     THEN call' = [call EXCEPT ![c].state = "core"] /\ UNCHANGED active
     ELSE Refuse(c)
  /\ UNCHANGED <<session, importer, key>>

\* The terminal answer, success or error.  A keyed session is closed first.
Answer(c) ==
  /\ call[c].state = "core"
  /\ session' = IF call[c].keyed THEN [session EXCEPT ![call[c].on] = "closed"] ELSE session
  /\ Refuse(c)
  /\ UNCHANGED <<importer, key>>

\* The core of a session dies: the request there fails.
Lost(s) ==
  /\ session[s] \in {"open", "keyed"}
  /\ session' = [session EXCEPT ![s] = "closed"]
  /\ \/ \E c \in Calls : call[c] # Idle /\ call[c].on = s /\ call[c].state = "core" /\ Refuse(c)
     \/ (\A c \in Calls : call[c] # Idle /\ call[c].on = s => call[c].state # "core")
          /\ UNCHANGED <<active, call>>
  /\ UNCHANGED <<importer, key>>

\* The settings page stores or deletes the key.
SetKey ==
  /\ key' = ~key
  /\ UNCHANGED <<active, call, session, importer>>

Next ==
  \/ SetKey
  \/ \E s \in Sessions : Open(s) \/ Close(s) \/ Lost(s)
  \/ \E i \in Instances : StartImport(i) \/ EndImport(i)
  \/ \E c \in Calls : Admit(c) \/ Enter(c) \/ Answer(c)
  \/ \E c \in Calls, m \in Used, i \in Instances, s \in Sessions, k \in BOOLEAN :
       Request(c, m, i, s, k) \/ ImportRequest(c, m, i, s, k)

Spec == Init /\ [][Next]_vars

-----------------------------------------------------------------------------
AtCore == {c \in Calls : call[c].state = "core"}

\* At most one request that writes to an instance is at a core at any time,
\* whatever sessions the pages and the modpack import use: "never mutate the
\* same instance directory from two sessions at once" (rpc.ts, CoreSession).
WritersAlone ==
  \A c, d \in AtCore :
    call[c].inst = call[d].inst /\ Writes(call[c].method) /\ Writes(call[d].method) => c = d

\* The client's gate and the bridge agree over the whole catalogue: what the
\* gate lets through with the key is never refused by the bridge afterwards,
\* when the lease has already been taken.
GateAgrees ==
  \A m \in Methods, k \in BOOLEAN :
    GateAllows(m, k) => BridgeAllows(m, k, WireProvider(m, k))

\* Inductive part of WritersAlone: a coordinated call or an import in
\* progress is the one the lease is registered for.
LeaseHeld ==
  /\ \A c \in Calls : call[c] # Idle /\ call[c].leased
       => active[call[c].inst] = call[c].method
  /\ \A i \in Instances : importer[i] => active[i] = Import
=============================================================================
