---------------------------- MODULE Connections ----------------------------
(***************************************************************************)
(* The parts of the program that talk to a core or a service and must not  *)
(* take a late answer for a current one, from the transports to the pages, *)
(* and the mock core that stands in for one.  They share no state: in      *)
(* their disjoint sum one part is chosen and moves, as in Changes.         *)
(***************************************************************************)
EXTENDS Naturals, FiniteSets, Sequences

CONSTANTS
  \* The transports: see Transport.
  Capacity, MaxOutput,
  \* The Microsoft accounts: see MicrosoftLogin.
  Logins, Launches, Accounts, MaxTokens,
  \* The console of a server: see ServerLog.
  MaxLogs, MaxLog, Chunk, MaxText, MaxVisits, MaxOvertaken,
  \* The session owner, the connection tests and the cleanup of the store.
  Opens, MaxEdits, Tests, Scopes, Valid, Cleanups,
  \* The RPC client: see CoreClient.
  Instances, Sessions, Calls, Used,
  \* The saves of an instance: see WorldsPage.
  Saved, Contents, Iconed, SaveBackups, MaxRuns, MaxLoads,
  \* The content of an instance: see ContentPage.
  ContentFiles, MaxChanges,
  \* The catalog dialog and the content of the mock core: see ContentSearch and
  \* MockContent.
  Projects, Catalogs, Queries, Versions, MaxCalls, MaxEntries,
  \* The data packs of a world: see ClientDatapacks.
  WorldPacks, Mounts, MaxElsewhere,
  \* The servers of the mock core: see MockServers.
  Servers, Limits, MaxStarts, MaxFiles, MaxBytes,
  \* The worlds of its servers: see MockWorlds.
  Bases, Suffixes, ServerPacks, MaxBackups,
  \* Its instances: see MockInstances.
  Worlds, Survival, InstancePacks, Exports,
  None

VARIABLES
  part,
  child_kind, child_child, child_killed, child_success,
  child_held, child_pipe, child_written, child_reader,
  child_sending, child_lost, child_queue, child_corruption,
  child_terminal, child_stdin, child_errors, child_op,
  child_answers,
  login_cancelled, login_ref, login_dialog, login_logins, login_launches,
  login_removal, login_keychain, login_core, login_active, login_issued,
  login_spent, login_crossed,
  console_rev, console_log, console_running, console_c,
  owner_saved, owner_shown, owner_opens, owner_current, owner_session,
  owner_status,
  test_tests, test_current, test_shows,
  gc_scope, gc_gc, gc_runs,
  client_active, client_call, client_session, client_importer, client_key,
  saves_core, saves_page, saves_dialog, saves_queue, saves_alive, saves_runs,
  saves_untold,
  content_core, content_panel, content_queue, content_install, content_orphan,
  content_alive, content_changes, content_untold,
  catalog_dialog, catalog_calls, catalog_current, catalog_install,
  catalog_installed,
  datapacks_core, datapacks_view, datapacks_run, datapacks_live,
  datapacks_mount, datapacks_elsewhere, datapacks_touched,
  servers_servers, servers_nextPid, servers_nextFile, servers_client,
  worlds_base, worlds_running, worlds_worlds, worlds_locked, worlds_packs,
  worlds_backups,
  mods_kind, mods_loader, mods_running, mods_entries, mods_loose,
  instance_manifest, instance_content, instance_worlds, instance_packs,
  instance_backups, instance_archives

transportVars == <<child_kind, child_child, child_killed, child_success,
                   child_held, child_pipe, child_written,
                   child_reader, child_sending, child_lost,
                   child_queue, child_corruption, child_terminal,
                   child_stdin, child_errors, child_op,
                   child_answers>>
loginVars == <<login_cancelled, login_ref, login_dialog, login_logins, login_launches,
               login_removal, login_keychain, login_core, login_active,
               login_issued, login_spent, login_crossed>>
consoleVars == <<console_rev, console_log, console_running, console_c>>
ownerVars == <<owner_saved, owner_shown, owner_opens, owner_current, owner_session,
               owner_status>>
testVars == <<test_tests, test_current, test_shows>>
gcVars == <<gc_scope, gc_gc, gc_runs>>
clientVars == <<client_active, client_call, client_session, client_importer, client_key>>
savesVars == <<saves_core, saves_page, saves_dialog, saves_queue, saves_alive, saves_runs,
               saves_untold>>
contentVars == <<content_core, content_panel, content_queue, content_install, content_orphan,
                 content_alive, content_changes, content_untold>>
catalogVars == <<catalog_dialog, catalog_calls, catalog_current, catalog_install,
                 catalog_installed>>
datapacksVars == <<datapacks_core, datapacks_view, datapacks_run, datapacks_live,
                   datapacks_mount, datapacks_elsewhere, datapacks_touched>>
serversVars == <<servers_servers, servers_nextPid, servers_nextFile, servers_client>>
worldsVars == <<worlds_base, worlds_running, worlds_worlds, worlds_locked, worlds_packs,
                worlds_backups>>
modsVars == <<mods_kind, mods_loader, mods_running, mods_entries, mods_loose>>
instanceVars == <<instance_manifest, instance_content, instance_worlds, instance_packs,
                  instance_backups, instance_archives>>

Child == INSTANCE Transport WITH
  kind <- child_kind,
  child <- child_child, killed <- child_killed,
  success <- child_success, held <- child_held,
  pipe <- child_pipe, written <- child_written,
  reader <- child_reader, sending <- child_sending,
  lost <- child_lost, queue <- child_queue,
  corruption <- child_corruption, terminal <- child_terminal,
  stdin <- child_stdin, errors <- child_errors, op <- child_op,
  answers <- child_answers

Login == INSTANCE MicrosoftLogin WITH
  cancelled <- login_cancelled, ref <- login_ref, dialog <- login_dialog,
  logins <- login_logins, launches <- login_launches,
  removal <- login_removal, keychain <- login_keychain, core <- login_core,
  active <- login_active, issued <- login_issued,
  spent <- login_spent, crossed <- login_crossed

Console == INSTANCE ServerLog WITH
  MaxFiles <- MaxLogs, MaxBytes <- MaxLog, rev <- console_rev, log <- console_log,
  running <- console_running, c <- console_c

Owner == INSTANCE SessionOwner WITH
  saved <- owner_saved, shown <- owner_shown, opens <- owner_opens, current <- owner_current,
  session <- owner_session, status <- owner_status

Test == INSTANCE ConnectionTest WITH
  tests <- test_tests, current <- test_current, shows <- test_shows

Gc == INSTANCE StoreGc WITH
  Runs <- Cleanups, scope <- gc_scope, gc <- gc_gc, runs <- gc_runs

Client == INSTANCE CoreClient WITH
  active <- client_active, call <- client_call, session <- client_session,
  importer <- client_importer, key <- client_key

Saves == INSTANCE WorldsPage WITH
  Names <- Saved, Files <- SaveBackups, core <- saves_core,
  page <- saves_page, dialog <- saves_dialog, queue <- saves_queue,
  alive <- saves_alive, runs <- saves_runs, untold <- saves_untold

Content == INSTANCE ContentPage WITH
  Files <- ContentFiles, core <- content_core,
  panel <- content_panel, queue <- content_queue, install <- content_install,
  orphan <- content_orphan, alive <- content_alive, changes <- content_changes,
  untold <- content_untold

Catalog == INSTANCE ContentSearch WITH
  Providers <- Catalogs, dialog <- catalog_dialog, calls <- catalog_calls,
  current <- catalog_current, install <- catalog_install,
  installed <- catalog_installed

Datapacks == INSTANCE ClientDatapacks WITH
  Files <- WorldPacks, core <- datapacks_core,
  view <- datapacks_view, run <- datapacks_run, live <- datapacks_live,
  mount <- datapacks_mount, elsewhere <- datapacks_elsewhere,
  touched <- datapacks_touched

FakeServers == INSTANCE MockServers WITH
  Ids <- Servers, servers <- servers_servers,
  nextPid <- servers_nextPid, nextFile <- servers_nextFile,
  client <- servers_client

FakeWorlds == INSTANCE MockWorlds WITH
  Files <- ServerPacks,
  base <- worlds_base, running <- worlds_running, worlds <- worlds_worlds,
  locked <- worlds_locked, packs <- worlds_packs, backups <- worlds_backups

FakeMods == INSTANCE MockContent WITH
  kind <- mods_kind, loader <- mods_loader, running <- mods_running,
  entries <- mods_entries, loose <- mods_loose

FakeInstance == INSTANCE MockInstances WITH
  Packs <- InstancePacks,
  manifest <- instance_manifest, content <- instance_content,
  worlds <- instance_worlds, packs <- instance_packs,
  backups <- instance_backups, archives <- instance_archives

\* What the parts need of these; nothing bounds them.
ASSUME TransportAssumption == Capacity \in Nat /\ MaxOutput \in Nat
ASSUME LoginAssumption ==
  /\ MaxTokens \in Nat /\ None \notin Accounts \cup Logins \cup Login!Tokens
  /\ "pending" \notin Accounts
ASSUME OwnerAssumption == None \notin Opens /\ MaxEdits \in Nat
ASSUME TestAssumption == None \notin Tests
ASSUME ClientAssumption == Used \subseteq Client!Methods /\ None \notin Used /\ None # Client!Import
ASSUME CatalogAssumption == None \notin Catalog!Asks
ASSUME ConsoleAssumption ==
  /\ MaxLogs \in Nat \ {0} /\ MaxLog \in Nat /\ Chunk \in Nat /\ MaxText \in Nat
  /\ MaxVisits \in Nat \ {0} /\ None \notin (1 .. MaxLogs) \X (0 .. MaxLog)
ASSUME SavesAssumption == MaxRuns \in Nat /\ IsFiniteSet(Saved) /\ None \notin Iconed
ASSUME ContentAssumption == MaxChanges \in Nat
ASSUME DatapacksAssumption == Mounts \in Nat \ {0} /\ MaxElsewhere \in Nat
\* A server's log has room for a character of two bytes, and the default
\* scenario gives a file its id.
ASSUME FakeServersAssumption ==
  /\ Limits \subseteq Nat /\ MaxStarts \in Nat /\ MaxFiles \in Nat \ {0} /\ MaxBytes \in Nat \ {0, 1}
  /\ None \notin 0 .. MaxStarts
  /\ None \notin [file : 0 .. MaxFiles, bytes : Seq({"a", "c", "d"})]
ASSUME FakeWorldsAssumption ==
  None \notin Bases /\ FakeWorlds!NoSuffix \notin Suffixes /\ MaxBackups \in Nat \ {0}
ASSUME FakeModsAssumption == None \notin Versions /\ IsFiniteSet(Projects) /\ MaxEntries \in Nat

Parts == {"transport", "login", "console", "owner", "test", "gc", "client",
          "saves", "content", "catalog", "datapacks", "servers", "worlds",
          "mods", "instance"}

\* One part is chosen and moves; the others rest where they began.
Init ==
  /\ part \in Parts
  /\ Child!Init
  /\ part # "transport" => child_kind = "local" /\ ~child_success /\ ~child_held
  /\ Login!Init
  /\ Console!Init
  /\ Owner!Init
  /\ Test!Init
  /\ Gc!Init
  /\ part # "gc" => gc_scope = CHOOSE s \in Scopes : TRUE
  /\ Client!Init
  /\ part # "client" => client_key
  /\ Saves!Init
  /\ part # "saves" => \A n \in Saved : saves_core.worlds[n] = None
  /\ Content!Init
  /\ part # "content" => \A f \in ContentFiles : content_core[f] = "none"
  /\ Catalog!Init
  /\ part # "catalog" => /\ catalog_dialog.provider = CHOOSE p \in Catalogs : TRUE
                         /\ catalog_dialog.query = CHOOSE q \in Queries : TRUE
  /\ Datapacks!Init
  /\ part # "datapacks" => ~datapacks_core.locked /\ \A f \in WorldPacks : datapacks_core.packs[f] = "none"
  /\ FakeServers!Init
  /\ part # "servers" => \A i \in Servers : servers_servers[i] = None
  /\ FakeWorlds!Init
  /\ part # "worlds" => worlds_base = None
  /\ FakeMods!Init
  /\ part # "mods" => mods_kind = "mods" /\ mods_loader /\ mods_loose = {}
  /\ FakeInstance!Init
  /\ part # "instance" => instance_manifest = "none"

Next ==
  \/ part = "transport" /\ Child!Next /\ UNCHANGED <<part, loginVars,
                 consoleVars, ownerVars, testVars, gcVars, clientVars,
                 savesVars, contentVars, catalogVars, datapacksVars,
                 serversVars, worldsVars, modsVars, instanceVars>>
  \/ part = "login" /\ Login!Next /\ UNCHANGED <<part, transportVars,
                 consoleVars, ownerVars, testVars, gcVars, clientVars,
                 savesVars, contentVars, catalogVars, datapacksVars,
                 serversVars, worldsVars, modsVars, instanceVars>>
  \/ part = "console" /\ Console!Next /\ UNCHANGED <<part, transportVars,
                 loginVars, ownerVars, testVars, gcVars, clientVars,
                 savesVars, contentVars, catalogVars, datapacksVars,
                 serversVars, worldsVars, modsVars, instanceVars>>
  \/ part = "owner" /\ Owner!Next /\ UNCHANGED <<part, transportVars,
                 loginVars, consoleVars, testVars, gcVars, clientVars,
                 savesVars, contentVars, catalogVars, datapacksVars,
                 serversVars, worldsVars, modsVars, instanceVars>>
  \/ part = "test" /\ Test!Next /\ UNCHANGED <<part, transportVars, loginVars,
                 consoleVars, ownerVars, gcVars, clientVars, savesVars,
                 contentVars, catalogVars, datapacksVars, serversVars,
                 worldsVars, modsVars, instanceVars>>
  \/ part = "gc" /\ Gc!Next /\ UNCHANGED <<part, transportVars, loginVars,
                 consoleVars, ownerVars, testVars, clientVars, savesVars,
                 contentVars, catalogVars, datapacksVars, serversVars,
                 worldsVars, modsVars, instanceVars>>
  \/ part = "client" /\ Client!Next /\ UNCHANGED <<part, transportVars,
                 loginVars, consoleVars, ownerVars, testVars, gcVars,
                 savesVars, contentVars, catalogVars, datapacksVars,
                 serversVars, worldsVars, modsVars, instanceVars>>
  \/ part = "saves" /\ Saves!Next /\ UNCHANGED <<part, transportVars,
                 loginVars, consoleVars, ownerVars, testVars, gcVars,
                 clientVars, contentVars, catalogVars, datapacksVars,
                 serversVars, worldsVars, modsVars, instanceVars>>
  \/ part = "content" /\ Content!Next /\ UNCHANGED <<part, transportVars,
                 loginVars, consoleVars, ownerVars, testVars, gcVars,
                 clientVars, savesVars, catalogVars, datapacksVars,
                 serversVars, worldsVars, modsVars, instanceVars>>
  \/ part = "catalog" /\ Catalog!Next /\ UNCHANGED <<part, transportVars,
                 loginVars, consoleVars, ownerVars, testVars, gcVars,
                 clientVars, savesVars, contentVars, datapacksVars,
                 serversVars, worldsVars, modsVars, instanceVars>>
  \/ part = "datapacks" /\ Datapacks!Next /\ UNCHANGED <<part, transportVars,
                 loginVars, consoleVars, ownerVars, testVars, gcVars,
                 clientVars, savesVars, contentVars, catalogVars, serversVars,
                 worldsVars, modsVars, instanceVars>>
  \/ part = "servers" /\ FakeServers!Next /\ UNCHANGED <<part, transportVars,
                 loginVars, consoleVars, ownerVars, testVars, gcVars,
                 clientVars, savesVars, contentVars, catalogVars,
                 datapacksVars, worldsVars, modsVars, instanceVars>>
  \/ part = "worlds" /\ FakeWorlds!Next /\ UNCHANGED <<part, transportVars,
                 loginVars, consoleVars, ownerVars, testVars, gcVars,
                 clientVars, savesVars, contentVars, catalogVars,
                 datapacksVars, serversVars, modsVars, instanceVars>>
  \/ part = "mods" /\ FakeMods!Next /\ UNCHANGED <<part, transportVars,
                 loginVars, consoleVars, ownerVars, testVars, gcVars,
                 clientVars, savesVars, contentVars, catalogVars,
                 datapacksVars, serversVars, worldsVars, instanceVars>>
  \/ part = "instance" /\ FakeInstance!Next /\ UNCHANGED <<part,
                 transportVars, loginVars, consoleVars, ownerVars, testVars,
                 gcVars, clientVars, savesVars, contentVars, catalogVars,
                 datapacksVars, serversVars, worldsVars, modsVars>>

vars == <<part, transportVars, loginVars, consoleVars, ownerVars, testVars,
          gcVars, clientVars, savesVars, contentVars, catalogVars,
          datapacksVars, serversVars, worldsVars, modsVars, instanceVars>>

Spec == Init /\ [][Next]_vars
        /\ WF_transportVars(part = "transport" /\ Child!Cleanup)

\* Each property is that of the part that moves: the others rest in a state
\* that is an initial state of their own.
TypeOK ==
  /\ part = "transport" => Child!TypeOK
  /\ part = "login" => Login!TypeOK
  /\ part = "console" => Console!TypeOK
  /\ part = "owner" => Owner!TypeOK
  /\ part = "test" => Test!TypeOK
  /\ part = "gc" => Gc!TypeOK
  /\ part = "client" => Client!TypeOK
  /\ part = "saves" => Saves!TypeOK
  /\ part = "content" => Content!TypeOK
  /\ part = "catalog" => Catalog!TypeOK
  /\ part = "datapacks" => Datapacks!TypeOK
  /\ part = "servers" => FakeServers!TypeOK
  /\ part = "worlds" => FakeWorlds!TypeOK
  /\ part = "mods" => FakeMods!TypeOK
  /\ part = "instance" => FakeInstance!TypeOK

\* The end of a transport is told as what it was, once, and the cleanup of an
\* ssh transport ends.
EndIsFinal == Child!EndIsFinal /\ Child!CleanupEnds

\* A cancelled login opens its dialog no more; what the keychain has is each
\* account's own token, and a used-up one only until its launch has kept the
\* new one.
TokensAreKept ==
  part = "login" => /\ Login!CancelledStaysClosed /\ Login!SpentIsReplaced
                    /\ Login!TokensAreOwn /\ Login!ListedHaveTokens

\* Answers for an earlier edit, test, scope, or search change nothing.
LateAnswersDropped ==
  /\ part = "owner" => Owner!SessionFollowsEdit
  /\ part = "test" => Test!OneTestShown
  /\ part = "gc" => Gc!DeletesWhatWasPreviewed
  /\ part = "catalog" => Catalog!OffersWhatWasAsked

\* One request at a time writes in the directory of an instance, and the gate
\* for the CurseForge key lets through what the bridge does.
WritersAlone == part = "client" => Client!WritersAlone /\ Client!GateAgrees

\* The console shows a contiguous piece of the log, to its last line; a page
\* at rest shows the saves and the content of an instance and of a world as
\* they are, unless something changed that it was not told.
PagesAreTrue ==
  /\ part = "console" => Console!TextIsContiguous /\ Console!LastLinesRead
  /\ part = "saves" => Saves!ListsCatchUp
  /\ part = "content" => Content!PanelCatchesUp
  /\ part = "datapacks" => Datapacks!ShownAreThere /\ Datapacks!NoSessionLeft

\* The mock core keeps its servers, worlds, content and instances as a core
\* does, over every sequence of requests.
MockIsSound ==
  /\ part = "servers" => FakeServers!LogFollows /\ FakeServers!RunningIsWhole
  /\ part = "worlds" => FakeWorlds!OneWorldPerName /\ FakeWorlds!LockedStays
  /\ part = "mods" => FakeMods!ManualStaysManual
  /\ part = "instance" => FakeInstance!PacksFollowWorlds
=============================================================================
