# JMCL frontend: TLA+ models and proofs

JMCL is a Minecraft launcher. This repository holds its desktop application: a
Tauri bridge in Rust (`src-tauri/src`) that runs `core` processes, locally or
over SSH, and speaks a line-based RPC protocol with them, and a React GUI in
TypeScript (`src/`) that calls the bridge. This directory specifies the
concurrent heart of both halves, checks it with TLC on small instances and
proves its main results with TLAPS for instances of any size.

Paths below are relative to the repository.

## 1. The system

    GUI (one JavaScript thread)                 bridge (tokio tasks)              outside
    ServerController, operations,   core_open   SessionPool     Session           core process
    tasks, panels, login, pages --- core_request ---> map id -> Arc<Session> ---> child, pipes
    (through rpc.ts)                core_close  generations     transport lock    ssh child
    endpoint manager
         |                          endpoint_sessions_close         |
         +--- server_status_cache_*, endpoint_config_*,             +--> events to the GUI
              update_*, diagnostics_*, credentials ---> app data files, keychain
              pack activation, under a lock shared with core_request ---> instance files

The GUI opens a session (a core child) for a purpose, sends requests on it and
closes it. A session runs one request at a time. All awaits on either side are
points where another request, another page, a deletion or an exit comes in
between; hardly any of these orders has a test.

### 1.1 Inventory

| Component | State | Operations | Talks to | What makes it correct |
|---|---|---|---|---|
| **RPC session** `session.rs` | transport lock, `sequence`, `closed`, `credentialed`, cancel watch | `establish`, `request`, `request_credentialed`, `signal_close`, `close` | a `LineTransport` | a line reaches the request it answers and no other; nothing follows a secret; close ends everything; nothing is sent on a dead transport |
| **Session pool** `pool.rs` | `sessions`, `owners`, `endpoint_sessions`, `endpoint_generations`, `next_id` | `open`, `open_endpoint`, `get`, `close`, `close_endpoint`, `clear` | sessions, endpoint file | maps agree; ids are unique; deletion of an endpoint overtakes opens in flight; no core is orphaned |
| **Tauri commands** `lib.rs` | progress throttle | `core_open`, `endpoint_session_open`, `core_request`, `core_close`, `endpoint_sessions_close`, exit | pool, activation lock, diagnostics | a session that carried a key is closed before the key is dropped |
| **Local transport** `transport.rs` | child, unbounded channel of lines | `spawn`, `write_line`, `next_event`, `close`, `abort` | core child | the end of the output is the end; the child is reaped or killed |
| **SSH transport** `ssh_transport.rs` | child, bounded channel, `protocol_corruption`, `terminal` | the same | ssh child | corruption is never mistaken for data or for a lost connection; nothing follows the end; the cleanup ends |
| **Server list** `servers.tsx`, `serverStatusCache.ts` | snapshot (manifests, cache, pending), revisions and generations, write queue, deleted endpoints | `start`, `setUnavailable`, `refreshList`, `refreshServerStatus`, `record*`, `prepareEndpointDeletion`, `cleanupEndpointCache` | a core session, cache file | no late answer overwrites newer knowledge; spinners stop; deleted scopes stay gone |
| **Server operations** `serverOperations.tsx`, `serverTargetLock.ts`, `serverCreate.ts` | operations by target, set of locked targets | `run` (install, start, stop, restart, delete), `submitServerCreate` | server list, a session of its own | one operation per target; results go to the visit that asked |
| **Endpoint deletion** `endpointManagerTransactions.ts` | mutation queue | save, delete | configuration file, pool, server list | after the commit nothing of the endpoint comes back |
| **Endpoint configuration** `endpoints.rs`, `endpoints.ts`, `endpointContext.tsx`, `EndpointManager.tsx` | a file, its published copy, the selected endpoint | strict and lenient read, atomic write, save, delete, select | pool | two changes do not overwrite each other; a crash leaves a whole file |
| **Cache file** `server_status_cache.rs` | a file | read, atomic write | server list | a crash leaves the old or the new file |
| **Updater** `updater.rs`, `update_config.rs`, `updates.ts` | phase, resources, operation lock, the page's snapshot | check, download, install, restart, dismiss | pool (`clear`) | a phase is left only by an action allowed in it; what is installed is what was confirmed |
| **Pack activation** `pack_activation.rs`, `windows.rs`, the two editors | requests lock, snapshots by revision | prepare, execute (resource packs, shaders) | instance files, `core_request` | a revision is used once, against the files it was made for |
| **Diagnostics** `diagnostics.rs`, its panel | bounded queue, dropped count, consent, files | event, enable, export, clear, rotate | everything | never blocks; nothing without consent; what is lost is counted |
| **Instance tasks** `tasks.tsx`, `instanceCoordinator.ts`, `launchRunner.ts`, `modpackTasks.tsx`, `modpackImport.ts`, the import dialog | leases, flights, task records, drafts | install, launch, preview, import, resume | sessions | one mutation per instance; no line of an earlier launch in the log; an archive goes in once |
| **Microsoft login** `auth.tsx`, `credentials.rs` | device-code loop, accounts, keychain | login, cancel, launch session, removal | keychain, core | a refresh token is kept before what came with it is used |
| **RPC client** `rpc.ts`, `curseforge.rs` | leases by instance, session by purpose, the key | every method of the catalogue | sessions, coordinator | one writer per instance; the gate and the bridge agree |
| **Session owners** `sessionLifecycle.ts`, `endpointConnectionTest.ts`, `storeGc.ts` | a generation, a session | open, close, test, collect | sessions | a session that outlives its owner is closed; what is deleted was previewed |
| **Other server controllers** `serverWorlds.tsx`, `serverAdvanced.tsx`, `serverContent.tsx`, `serverLogController.ts` | snapshots, cursors, pending flags | load, change, follow a log, send a command | sessions, target lock | changes only of a stopped server; the log has no gap and nothing twice |
| **CurseForge relay, modpack preview** `curseforge.rs`, `modpack_preview.rs` | the key | check and scrub requests, parse archives | session | the key goes only where it may |
| **Pages of an instance** `WorldsManager.tsx`, `ContentManager.tsx`, `ContentSearchDialog.tsx`, `clientDatapacks.ts` | lists, dialogs, pending marks, requests in flight | load, change, search, install | the launcher's shared session or one of their own | what is shown at rest is what is there; late answers are dropped |
| **Mock core** `serverMock.ts`, `mockTransport.ts` | servers, logs, worlds, content, instances | the requests of a core | the GUI in development and its tests | it behaves as a core: what the tests of the GUI see can happen |
| **Settings, texts, rendering** `src/components`, `src/pages`, `i18n.ts`, `settings.tsx` | view state | - | the above | out of scope |

What is hard to test in this code, each with its line and the property that
would notice, is the list `hazards` in `PROJECT.json`.

## 2. Modules

| Module | Content |
|---|---|
| `RpcChannel` | abstract specification: what one session promises |
| `Session` | `session.rs` in detail; implements `RpcChannel` |
| `SessionProofs` | TLAPS proofs about `Session` |
| `SessionPool` | `pool.rs`, the commands of `lib.rs`, the order of an endpoint's deletion |
| `SessionPoolProofs` | TLAPS proofs about `SessionPool` |
| `ServerController` | `servers.tsx`, `serverStatusCache.ts`, operations and creation, the cache's write queue |
| `InstanceTasks` | `instanceCoordinator.ts`, `tasks.tsx`, `launchRunner.ts`, `modpackImport.ts`, `modpackTasks.tsx`, the leases of `rpc.ts` |
| `InstanceTasksProofs` | TLAPS proofs about `InstanceTasks` |
| `ServerControllerProofs` | TLAPS proofs about `ServerController` |
| `Transport` | `transport.rs`, `ssh_transport.rs` |
| `PackActivation`, `PackActivationProofs` | `pack_activation.rs`, `windows.rs`, the lock in `lib.rs`, the two editors, and proofs |
| `Diagnostics` | `diagnostics.rs` and its panel |
| `EndpointConfig`, `EndpointConfigProofs` | `endpoints.rs`, `endpointContext.tsx`, `EndpointManager.tsx`, `endpointManagerTransactions.ts`, and proofs |
| `Updater` | `updater.rs`, `updates.ts`, `UpdateSettings.tsx` |
| `MicrosoftLogin` | `auth.tsx`, `credentials.rs` |
| `SessionOwner`, `ConnectionTest`, `StoreGc` | `sessionLifecycle.ts`, `endpointConnectionTest.ts`, `storeGc.ts` with what uses them |
| `CoreClient` | `rpc.ts`, the lease of `instanceCoordinator.ts`, the checks of `curseforge.rs` |
| `ModpackImport` | the import dialog, `modpackTasks.tsx`, `modpackImport.ts` step by step |
| `ServerPanels` | `serverWorlds.tsx`, `serverContent.tsx`, `serverAdvanced.tsx` under `serverTargetLock.ts` |
| `ServerLog` | `serverLogController.ts` and the console panel |
| `WorldsPage`, `ContentPage`, `ContentSearch`, `ClientDatapacks` | the pages of an instance |
| `MockServers`, `MockWorlds`, `MockContent`, `MockInstances` | `serverMock.ts` and the instances of `mockTransport.ts` |
| `Changes`, `Connections` | the disjoint sums of the smaller components, see 2.12 |
| `ChangesProofs`, `ConnectionsProofs` | TLAPS proofs about every part of the sums |
| `MCSession`, `MCSessionPool`, `MCServerController`, `MCInstanceTasks`, `MCChanges`, `MCConnections` | instances for TLC |
| `MCPoolClear` | `SessionPool` with a history of the cores alive when `clear` began |
| `MCEndpointMounts` | `EndpointConfig` with a settings page that is left and entered again |

A definition whose name ends in `Slip` is the definition without that suffix
after a plausible mistake in the code; no specification uses it. Putting it in
the other's place must break one property: this is how each property is known
to depend on the code.

### 2.1 Session

Every call of `request`, `request_credentialed` and `close`, and the handshake,
is a task with a program counter:

| Code | Model |
|---|---|
| flag swap in `request_credentialed` | `Submit` |
| the check on entry, and again with the lock (`cancel`, `closed`, `credentialed`) | `Rejected` in `Enter` and `Acquire` |
| `select!` between cancel and the lock | `LeaveQueue` / `Acquire` |
| `sequence.fetch_add`, the check of the line's length | `NextId`, `Acquire` |
| `select!` between cancel and `write_line`, `next_event` | `CancelInFlight` / `Write`, `WriteFails`, `Hear*` |
| skip foreign lines, forward events, terminal lines, malformed lines, end of stream | `Mine`, `HearEvent`, `HearTerminal`, `HearGarbage`, `HearEnd` |
| `best_effort_abort` (done, or one second has passed) | `StartAbort`, `AbortReturns` |
| identity and deadline in `establish_inner` | `AcceptIdentity`, `RejectIdentity`, `HandshakeDeadline` |
| `signal_close`, then the lock, then `transport.close` | `Close`, `CloseTransport` |

The core may stay silent, die, or send any line about any request it was sent,
as often as it likes. `RpcChannel` abstracts a session to the status of each
request and one bit, whether the channel is live.

### 2.2 SessionPool

Critical sections of the pool's mutex are single steps; everything awaited
outside it is a step of its own: an SSH open captures the generation, reads the
configuration, spawns, shakes hands, then inserts if the generation is still
current. A session is `running`, `signalled` or `closed` here; its inside is
`Session`, from which the pool takes two facts: one request at a time (`Busy`),
and a request on a signalled session ends (`Cancel`, the fairness of which is
`CloseEndsRequests` of `Session`). `core_request` clones the `Arc` (`Get`), so a
session may be taken out of the maps while it is used. Deleting endpoint `e` is
`Commit(e)` (the configuration is written) and then `CloseEndpoint(e)`.

### 2.3 ServerController

JavaScript runs from one await to the next, so each handler is cut at its
awaits and nowhere else: `start` is `Start`, `LoadCache`, `ListAtStart`,
`FinishStart`; `refreshList` is `RefreshList`, `ListAtCore`, `FinishList`;
`refreshServerStatus` is `RefreshStatus`, `StatusAtCore`, `StatusArrives`,
`FinishStatus`; an operation is `Begin`, `GiveUp` or `Opened`, `DoAtCore` or
`FailAtCore`, `RecordResult`, `Release`. The controller's fields are the record
`ctl`, and its synchronous methods are operators from `ctl` to `ctl`. What the
core knows of a server is a revision that each operation advances, so that "an
older status overwrote a newer one" is a comparison of numbers. The write queue
is a sequence whose head is written (`BeginWrite`, `EndWrite`); whoever awaits
it counts the writes ahead of itself.

### 2.4 InstanceTasks

Each installation, launch, import and single request is a task with a program
counter; `at` is the instance it is about, `active` the coordinator's map.

| Code | Model |
|---|---|
| `startInstall`, `startLaunch` up to `withOpenedSession` | `StartJob` |
| the open fails, or returns and the first request asks for its lease | `JobNotOpened`, `JobOpened` |
| `installExecute` and then `installPrepare`; `launchExecute` | `ExecuteDone`, `RequestEnds` |
| `session.close`, then `patch` and `finally` | `JobClosed` |
| `runLaunchRequest`'s `active`, `appendLine` | `Heard`, `Output` |
| `CoreSession.request` with a mutation; `confirmDelete` | `Ask`, `Created`, `Deleted`, `Answered` |
| `ModpackTaskRegistry.start`, `dismiss`; the button for `run` | `StartImport`, `Dismiss`, `Resume` |
| the awaits of `ModpackImportController.run`, in order | `ImportOpened`, `Listed`, `Archive*`, `Read`, `Executed`, `Prepared`, `ImportClosed` |
| its `catch` | `ImportNotOpened`, `ImportFails`, `ArchiveLost` |

Two points decide the grain. An installation gives its lease up between its two
requests, but only microtasks run between the answer of the first and the
sending of the second, so nobody can take it there: `ExecuteDone` keeps it. An
import holds one lease from before its session opens until after it closes, and
sends its requests with `coordinate: false`; that these never meet another
mutation is what `OneMutation` has to show. The core is external: it makes an
instance, deletes it, or fails, and after a broken stream nobody knows
(`ArchiveLost`).

The controller's `outcome` stands for `phase`, `error`, `canResume` and `canEdit`
together: a failure is `known`, `unknown` or `invalid`
(`modpackImportErrorCode`), and the two flags follow from it and `confirmed`.

### 2.5 Transport

One child, local or ssh. The session has one operation under way (`op`) and may
drop it at any await (`Drop`). The ssh reader is a task of its own: `ReadLine`
takes a line from the pipe, `Deliver` puts it into the queue or waits while it
is full, a corrupt line sets `corruption`. `Cleanup` is the chain of limited
waits that close, abort and every failure end in: input closed, child reaped or
killed, reader joined or left, standard error read, and the end classified. A
descendant that keeps the output open (`held`) and a child that survives its kill
are among the behaviours, so every wait needs its deadline.

### 2.6 Files, log and updates

| Code | Model |
|---|---|
| `PackActivation`: `prepare`, `execute`, up to the snapshot, the comparison, the rename, on both platforms | `Load`, `Save`, `Choose`, and the places of `CallStep` |
| `requests.read()` in `core_request`, `try_write` | `Begin`, `End`, `readers`, `writer` |
| the game rewriting its file, which takes no lock | `External` |
| `Diagnostics`: `emit`, the writer's loop, a record split by a failed write | `Emit`, `Worker`, lines that are pieces |
| `EndpointConfig`: temporary file, sync, rename (with Windows' replacement), sync of the directory | `Prepare`, `Rename`, `SyncDirectory`, `WriteFails` |
| a kill, or a power failure that keeps any content not yet synced | `Restart` over `lasting` |
| `EndpointMutationQueue.run`, a queue of each mount | `Submit`, `Turn`, `Leave` |
| `Updater`: `begin`/`finish` under the operation's lock | `Begin`, `Act`, `End`; the page's calls outlive it (`Reload`) |

In `EndpointConfig` the set `possible` is a history: what the file may hold
according to what the user was told. `lasting` is what a power failure may leave
under the file's name: until the directory is synced the old file or the new one,
and of a file that was renamed before it was synced itself (`synced`) also a
damaged one (`Landed`). The mutant of `OwnChangeOnly` leaves the sync out.

### 2.7 Microsoft login

A login is a loop with its own session. All loops share one flag (`cancelled`),
one reference to the session in use (`ref`) and one dialog, as in the provider; a
second login begins while the loop of the first is at an await. A launch
captures the account and reads its token, the service rotates it, and the launch
writes the new one back under the account it captured; several launches may do so
with one token, in any order, while another account is chosen, this one removed,
or logged in again. A login saves its token, clears the pending key, and has the
account listed, in three steps; the removal of an account is two. The keychain
and every request may fail, and the program may be closed anywhere. A token is
its account's (`of`) and has a number. Two histories are kept: `spent`, the tokens
that were rotated (unless the new one was lost with its launch), and `crossed`,
the accounts whose new token was deleted by a removal that their login overtook.

### 2.8 Sessions of the GUI

`SessionOwner` is the owner in the hands of `ServersProvider`: the bridge reads
the destination when it opens a session, the page learns of an edit later.
`ConnectionTest` and `StoreGc` are cut at their awaits likewise. `CoreClient` has
the catalogue of methods with the lease each takes; `Used` bounds it for TLC and is
arbitrary in the proofs. `Request` asks for the lease, `Admit` is the gate, `Enter`
is the bridge's turn on the session, `Answer` gives the lease back; an import
takes the lease itself and sends with `coordinate: false`. `ModpackImport` looks
at what `InstanceTasks` leaves out of an import: the dialog, its draft and
preview, and the controller's phases step by step; the other operations are reduced to what
they do to the instance while no import holds its lease.

### 2.9 Panels and console of a server

A controller of `ServerPanels` runs one call: `Call` takes the target lock,
`Opened`, `Manifest`, `Checked`, `Acted`, `Retired`, `Reopened`, `Listed`, `Stated`
and `Closed` are its awaits. `Cancel` and `Unmount` forget the call but leave it
at the core with its lock. `ServerLog` has a log of files and bytes, reads that
carry the generation they were sent in, and a text that is trimmed at its limit.

### 2.10 Pages of an instance

The launcher's shared session answers in order, so the pages' requests are a
queue (`queue`) whose head is answered; the session may die (`Die`), and is never
replaced, so that a retry fails too. Requests to the catalogs are a set, and
any of them may be answered next. `ClientDatapacks` has one controller per mount
of its panel; a run goes on after it was cancelled.

A change that failed may have been done in part (`Partly`, `Installed`), and the
worlds and files may be changed from elsewhere, by the game or the user
(`Elsewhere`). The pages read their lists after a change that was done only. The
catalog dialog is a child of the panel of `ContentManager`, which returns before it
while its list is being loaded or could not be read: `Unmounts` drops an install
that is being opened, and leaves one that is at the core to end as `OrphanDone`,
which tells nobody, as the code's `alive.current` has it. The history `untold`
says that something was changed since the last list and the page was not told;
`ListsCatchUp` and `PanelCatchesUp` speak of the states in which it is false, and
every list that is read makes it false again.

### 2.11 Mock core

Each request is one action, with the refusals of the code as its guard: a
refused request changes nothing and is no action. The four modules split the
state by what the requests relate: servers with their logs, worlds with backups,
content with its registry, and instances.

### 2.12 Sums

`Changes` and `Connections` instantiate small components that share no state.
Their constants are those of the parts. One part is chosen at the beginning
(`part`) and moves; the others stay in a fixed initial state of theirs. The
reachable states are the disjoint union of those of the parts, so a run or a
theorem shows of each part what one of its own would, and each invariant is
guarded by the part it is about. Properties of related parts are conjoined under
the name of what they have in common (`PagesAreTrue` is about the console, the
saves, the content and the data packs). `MCChanges` and `MCConnections` only give
the constants values for TLC. What a part needs of its constants is an `ASSUME` of
the sum.

## 3. Runs

| Run | Instance | Shows |
|---|---|---|
| `session` | handshake, 2 ordinary, 2 credential-bearing requests, 1 close; 46,000 states | lines reach their own request (`OwnLinesOnly`), nothing follows a secret (`SecretIsLast`), refinement (`ImplementsRpcChannel`), close ends every request and reaches the transport |
| `session_comment` | 1 + 1 requests, 1 close | `rpc.ts:357` says an in-flight request finishes before the close; it is cancelled |
| `pool` | 2 opens (each local or SSH), 1 endpoint and its deletion, 1 credential-bearing request, 1 close, 1 clear; 200,000 states | `IndexAgreement`, `OneSessionPerId`, `DeletedEndpointIsQuiet`, `NoOrphans` |
| `pool_clear` | 2 opens, 1 clear | "kill every core child before the process exits" fails for an open in flight |
| `servers` | 1 endpoint, 1 server, 1 visit, 1 list, 2 status requests, 1 operation, reads that fail; 353,000 states | `CreatedStaysListed`, `SpinnersHaveRequests`, `StatusNeverGoesBack`, `RefreshKeepsDeleted`, `LoadingEnds` |
| `servers_switch` | 2 endpoints, 2 visits, 1 operation, 1 deletion; 1.1 million states | `OwnSourceOnly`, `DeletedScopeGone` |
| `servers_deleted` | 1 list, 1 operation | "a list started before delete cannot restore the deleted manifest" fails for the startup's list |
| `servers_local_cache` | 2 endpoints, 1 operation, no failures | "local cache survives remote startup" fails if a server is created meanwhile |
| `tasks` | 1 instance, 1 installation, 2 launches, 2 imports, 1 source of single requests, 2 identities; 515,000 states | `OneMutation`, `LeaseHasHolder`, `RecordsFollowJobs`, `LaunchesOwnRecord`, `ArchiveNotReplayed`, `SetsUpItsOwn` |
| `changes` | pack activation (twice: options and shader), diagnostics, endpoint file, modpack import, updater, server panels; 1.26 million states | `SaveKeepsUnknown`, `LogIsHonest`, `OwnChangeOnly`, `ArchiveOnce`, `ConfirmedIsDone`, `ChangedWhileStopped` |
| `connections` | transports, Microsoft login, console, session owner, connection test, store cleanup, RPC client, pages of an instance, mock core; 798,000 states | `EndIsFinal`, `TokensAreKept`, `LateAnswersDropped`, `WritersAlone`, `PagesAreTrue`, `MockIsSound` |
| `endpoint_mounts` | `EndpointConfig`, 2 endpoints, 2 mounts of the manager | "two UI actions cannot overwrite one another" fails across mounts |

### 3.1 Why the bounds are enough

- `session`. Two ordinary requests give one that holds the lock and one that
  waits; two credential-bearing ones give one that wins the swap and one that
  loses. Ids come from the number of requests, so nothing is cut off. The
  handshake adds a fifth sender. For more callers there are the proofs.
- `pool`. Two opens meet in every map, as two owners or as two ids of one. A
  deletion, a close and a clear each may take out what another looks for. `MaxId`
  equals the number of opens, hence is never reached by a task that still needs
  an id. For more there are the proofs.
- `servers`. `MaxVisits` bounds `sourceRevision`: two is one effect and its
  start; four (`servers_switch`) is going to an endpoint, leaving and coming
  back or going elsewhere. One server suffices because no reducer relates two
  servers except by filtering each by itself. With one list, one operation and
  two status requests every pair of handlers overlaps in both orders; two lists
  at once are told apart by the same comparison that the slip of `ListApplies`
  removes.
- The runs of `servers_switch` permute the names of the two calls of `start`,
  which are interchangeable; it checks no liveness.
- `tasks`. Leases, flights and records are kept per instance and no step touches
  two, so one instance shows every interference; the proofs cover any number.
  Two launches give an old record and its replacement, two imports a former job
  and its successor, and the source of single requests may delete and create as
  often as it likes. Two identities suffice for "not the one that was read".
  Tasks of one kind and identities are permuted; no liveness is checked.

- `changes`. Two calls of the editors, one request and one change by the game let
  each of them come between the comparison and the rename; one snapshot is the
  limit of 64 made small, so that it overflows. The log has a queue of 2, files of
  2 lines, 2 files and 3 records: the queue overflows, a file is rotated and the
  oldest dropped. Two mutations of two endpoints meet in the queue of a mount. Two
  imports, two archives (one of which needs the key) and one id give a job and the
  one that would repeat it. Two versions and two calls are the candidate that was
  shown and one that replaces it. Two controllers, two visits and one change of
  each panel: one that acts and one that waits or was thrown away.
- `connections`. The transport has a queue of 1 and a child that writes 2 lines,
  so the reader blocks and the end meets a full queue. Two logins and two launches
  on two accounts with 3 tokens: the loop that was cancelled and its successor, two
  launches that rotate one token or those of two accounts, a rotation that meets a
  login, a removal or the choice of the other account. The constraint `TwoCalls` of
  `MCConnections` keeps the login's part small: of loops, launches and removals two
  are under way at a time; two loops only until the second token is given out, as
  loops meet in the flag, the dialog and the pending key and not in the tokens of
  accounts; no loop any more when the last token is given out and both accounts
  have had one; the first token is for `"a"`, as the accounts are interchangeable.
  The constraint `OneOfEach` drops initial states of the saves and of a panel's
  content that differ from another one in the names only. Both are true of every
  state of the transport, so the liveness property, which is about it, is checked
  over all of its states. The console has 2 files, 3 bytes in each, reads of 2 and a
  text of 2, one read that was overtaken and 2 visits. Three opens and 3
  edits of the owner, 3 tests, 3 scopes (2 of them valid) and 2 runs of the cleanup
  are one more than the pairs that interfere. Two calls, 2 sessions and an import
  on one instance, with a method of each kind of the catalogue. The pages run 2
  operations, or changes from elsewhere, over 2 names, files, projects and
  versions; the panel of data packs is mounted twice over one file that somebody
  else changes once. Each mock has two or three of whatever its requests relate. For more of anything there are the
  proofs, of every part of both sums.

`CHECK_DEADLOCK FALSE` is set throughout: every task ends, and a state in which
all have ended is where these systems are meant to stop.

### 3.2 Fairness

- `Session`: weak fairness of the steps a task takes by itself. The runtime polls
  whatever can run, `write_line` ends (or is cancelled), and the abort is bounded
  by one second. Nothing is asked of the core: `Hear` has no fairness, so a core
  that falls silent is among the behaviours for which `CloseEndsRequests` holds.
- `SessionPool`: whoever took a session out goes on; a request on a signalled
  session ends. Opens have none: a spawn may hang.
- `ServerController`: the core and the disk answer, with an error if need be. A
  list that never returns would spin for ever in the code too. Operations have
  no fairness, as no property needs them to end.
- `InstanceTasks`: none; its properties are about safety, and a core that never
  answers keeps its instance busy in the code too.
- `Transport`: weak fairness of `Cleanup`, that is, timers fire. Every wait of the
  cleanup is limited in the code (`timeout`), and nothing is asked of the child,
  of its descendants or of the reader. `Connections` states the same fairness for
  the part that is a transport.
- All others: none. Their properties are about safety.

## 4. Proofs

`tlapm` checks everything below, for every value of the constants. Every
invariant and action property of the passing runs is proved; liveness is not (see
the end of this section). What is assumed of the constants is an `ASSUME` of the
module that declares them, which TLC evaluates in the runs: bounds are numbers,
`None` and the like are no members, some sets are not empty or finite
(`TasksAssumption`, `PoolAssumption`, `ControllerAssumption`; in `Changes`
`PacksAssumption`, `LogAssumption`, `ConfigAssumption`, `PackAssumption`,
`UpdateAssumption`, `PanelsAssumption`; in `Connections` an assumption for each of
its parts). `EndpointConfigProofs` and `PackActivationProofs` are about modules that
are instantiated, so their theorems carry the same as a hypothesis (`DataOK`, and
`OneManager` where it is needed); `ChangesProofs` discharges it from the `ASSUME`s
(`PartsFacts`).

**SessionProofs.** The inductive invariant is
`IInv == TypeOK /\ LockInv /\ IdInv /\ WireInv /\ FlagInv /\ SecretInv`.
`OwnLinesOnly` and `SecretIsLast` are not inductive by themselves:
`OwnLinesOnly` needs that ids are never taken twice (`IdInv`), and `SecretIsLast`
needs that the lock is held exactly by the request that writes, reads or aborts
(`LockInv`), that only one request ever wins the swap, and that whoever waits
when it wins is turned away when it gets the lock (`SecretInv`). `FlagInv` says
that an end of stream (`closed` without `cancel`) leaves nobody on the wire. Each
action has a lemma with one step per part.

- `TypeCorrect`, `OwnLines`, `SecretTail`: the run's `TypeOK`, `OwnLinesOnly`,
  `SecretIsLast` for any number of callers.
- `Implements`: `Spec => ImplementsRpcChannel`. Each action maps to a step of
  `RpcChannel` or to a stutter, from lemmas on how the status of one request
  changes (`StatusEnds`, `StatusStays`, `RefuseStep`, `LoseStep`, `ShutStep`).

**SessionPoolProofs.** `IInv` adds to the properties the places of each kind of
task (`PCInv`), that an id belongs to an open that is allocated or done and not
above the counter (`IdInv`), that a session that was handed out is registered,
closed, or in somebody's hands (`TodoInv`), and that an open which read the
configuration before a deletion carries an older generation than the deletion
left behind (`GenInv`), which is what makes `InsertIfCurrent` refuse it.

- `TypeCorrect`, `MapsAgree`, `IdsUnique`, `DeletionWins`: the run's `TypeOK`,
  `IndexAgreement`, `OneSessionPerId`, `DeletedEndpointIsQuiet`.

**InstanceTasksProofs.** `IInv == TypeOK /\ PlaceInv /\ HoldInv /\ SetupInv`.
`OneMutation` is not inductive: it needs that whoever holds a lease is alone at
its instance and that the coordinator's map names its operation (`HoldInv`).
Most of the argument is the lemma `LeaseStep`: a step in which one task moves,
and takes a free lease, keeps what it has or gives it up, keeps `HoldInv`; each
action is then one of these. `SetupInv` says what an import has read while it
installs, which `HoldInv` protects from the others.

On top of `IInv` stand two more invariants. `RecordInv` is about what the GUI
shows: a running job has its flight and nobody else has it (`FlightInv`), so the
record of an instance is of the job that was begun there last, its status
follows that job, and its lines are of that launch (`ShownInv`). `ArchiveInv` is
about the one submission: an import that was dropped from the list came to a safe
end, and whoever is on its way to submitting has seen such an end of all other
imports of the instance (`SettledInv`); while somebody submits, the lease keeps
everybody else idle or parked there (`BusyIsAlone`), and a parked import that
could be resumed contradicts `SettledInv`.

- `TypeCorrect`, `LeasesHaveHolders`, `MutationsExclusive`,
  `ImportsSetUpTheirOwn`: the run's `TypeOK`, `LeaseHasHolder`, `OneMutation`,
  `SetsUpItsOwn`.
- `RecordsFollowTheirJobs`, `LaunchesKeepTheirRecords`, `ArchivesGoInOnce`: the
  run's `RecordsFollowJobs`, `LaunchesOwnRecord`, `ArchiveNotReplayed`.

**ServerControllerProofs.** `IInv == Types /\ CoreInv /\ StoreInv /\ ListedInv /\
SpinnersHaveRequests /\ \A t \in Tasks : TaskInv(t)`. `OwnSourceOnly`,
`CreatedStaysListed` and `DeletedScopeGone` are not inductive: a call that is under
way may write what it captured before. `TaskInv` says what each call still knows, provided that its visit is the
current one; a call of a former visit carries a smaller `sourceRevision` and
writes nothing. The lemma `Combine` joins two facts: a step either begins another
visit or is `Calm` (it leaves or only extends what calls of this visit rely on),
which keeps `TaskInv` of everybody else; and the task that moves has its own
`TaskInv`, which is proved per action. `StoreInv` says that a queued cleanup is of
an endpoint that is marked deleted already, so its write and each later one leave
the endpoint's scope out.

`StatusNeverGoesBack` and `RefreshKeepsDeleted` are about two states, and need
what the calls under way know of the revisions of the servers (`HInv`): no status
in the snapshot, on disk, in the write queue or in an answer is above the core's
revision; the answer of an operation that holds its target's lock is that
revision, since nobody else can advance it; an answer to a status request that
would still be applied is not older than what is shown, because each recorded
operation advances the generation (`StatusKnows`); the manifests and the cache of
a startup nothing was recorded during are empty (`VisitKnows`); a list that would
be applied has no server in it that was deleted (`ListKnows`). Each action keeps what
the others rely on (`VisitsCalm`, `ListsCalm`, ...). The proof attempt showed that
both properties are false of one step, which they now except by name: the answer
to a creation (`CreationArrives`). `recordCreated` neither checks nor advances the
server's generation, and a creation holds no target lock, so its answer may arrive
after those of later operations on the server it made. The runs have one operation
and never reach the exception; TLC found no other with two (1.1 million states,
without the liveness property).

- `TypesHold`, `OwnSourceOnlyHolds`, `CreatedStaysListedHolds`,
  `SpinnersHaveRequestsHolds`, `DeletedScopeGoneHolds`,
  `StatusNeverGoesBackHolds`, `RefreshKeepsDeletedHolds`.

**EndpointConfigProofs.** `OwnChangeOnly` needs that an operation which has begun
is at the head of its manager's queue; with one manager (`OneManager`) it is alone
between its read and its write, so what it read is still in the file. Without
that hypothesis it is false (`endpoint_mounts`). `SavedSurvives` follows the
content through temporary file, rename and sync, and holds for any number of
mounts; it needs that whatever is renamed was synced before (`OneWrite`). What the
page shows is in the file, or a write has failed since and nobody knows what the
file has (`ShownInv`); a configuration that is saved and not yet
shown is its operation's.

- `TypesHold`, `SavedSurvivesHolds`, `OwnChangeOnlyHolds`.

**PackActivationProofs.** The argument runs along the revision of a snapshot:
whoever holds one, the table, the editor, a command or its answer, means the same
content by it (`SnapshotInv`, `ViewInv`, `CallInv`). No request runs while a
command holds the lock (`LockInv`), so what it compared last is what it replaces,
unless others wrote in between, which is what `raced` records.

**ChangesProofs.** One part moves and the others rest in an initial state, so the
invariant of the sum is that of the part that moves (`SumInv`). The parts:

- *Packs and shader, endpoint file*: from the two modules above.
- *Updater* (`UpdateIInv`): the page sends one command at a time, and a command
  that the bridge has admitted keeps the others out (`UpdateLockInv`,
  `UpdateCallInv`), so a snapshot that offers to go on is of the version the
  bridge has unless a command that replaces it is on its way (`UpdatePageInv`).
- *Import* (`PackIInv`): an import that may still act holds the lease (`LeaseInv`),
  and of two imports of one instance one has ended in a way after which it does
  nothing any more (`SafeInv`).
- *Panels* (`PanelsIInv`, `ShowInv`): whoever is under way holds the target lock,
  cancelled, unmounted or not (`OneHolder`), so the status it read is still true
  when it acts (`StillStopped`); a panel that shows a result has seen it made
  (`PanelsOwnInv`).
- *Diagnostics* (`LogIInv`): a line holds one record at most (`DiskOK`), the queue is
  in order and newer than the files (`QueueInv`), and a record that is neither on
  its way, nor in a file, nor old is counted (`CountInv`). A rotation that was cut
  short moves files and mixes none.

The theorems are the properties of the run: `TypesHold`, `SaveKeepsUnknownHolds`,
`LogIsHonestHolds`, `OwnChangeOnlyHolds`, `ArchiveOnceHolds`, `ConfirmedIsDoneHolds`,
`ChangedWhileStoppedHolds`.

**ConnectionsProofs.** The same scheme over fifteen parts.

- *Transport* (`ChildIInv`): nothing but diagnostics follows an end in the channel,
  whose reader is done by then, and once the end is told, or being told, no line is
  left in it (`Sound`); how far an operation came tells what became of the child,
  of its input and of the reader (`Far`).
- *Login* (`LoginIInv`): `SpentIsReplaced` needs to know who may still spend or keep
  a token. A token that a login or a launch has still to keep is in nobody else's
  hands (`Apart`), which rests on every token in use having been given out before
  (`Given`), so that the next one is new; and while a keychain's token is used up,
  the launch that will replace it is one that read that very token (`Replaced`).
  `TokensAreOwn` needs that what a login or a launch carries belongs to the account
  it has captured (`LoginNamed`), `ListedHaveTokens` that a login past `SaveToken`
  still has its token in the keychain (`HaveTokens`).
- *Session owner* (`OwnerIInv`): the session shown is that of the open of the
  current generation, which read a configuration no older than the one the page
  knows (`Followed`).
- *Connection test, store cleanup, catalog dialog*: the test that is not aborted is
  the current one; a change of the scope clears the preview and what was confirmed
  (`GcOwn`); the request in force is what the dialog asks for (`CatalogInForce`).
- *RPC client* (`ClientIInv`): a call that took the lease of an instance is the only
  one (`OneLease`); one that writes without it belongs to the import that holds it
  (`ClientCovered`), which sends one at a time (`OneOfImport`).
- *Console* (`ConsoleIInv`): the text is a piece of one log that ends at the cursor,
  which is where the read under way begins; while lines of a stopped server are
  unread, its session has a last read under way.
- *Saves, content* (`SavesUpToDate`, `ContentUpToDate`): the page shows an error, or
  what the core has, or a request that will load the lists again waits in its
  queue, or something was changed that the page was not told (`untold`).
- *Data packs* (`DatapacksIInv`): the run of the current mount is the one that is
  pending (`RunInv`), an open session is that of a run which has still to close it
  (`LiveInv`), and what was read last is what the core has unless something failed
  or changed behind the panel (`RestInv`). It is proved for any number of mounts.
- *Mocks*: the record of a server is whole (`Row`), no two that run share a process,
  and a client's text is the piece of the file it follows (`ClientOK`); one world
  per name, for which a rename has to find its siblings' names free; one record
  of a project, and a version in it exactly if the file is not one that was copied
  in by hand (`Sorted`); a pack, backup or archive only with its world and
  instance.

The theorems: `TypesHold`, `TokensAreKeptHolds`, `LateAnswersDroppedHolds`,
`WritersAloneHolds`, `PagesAreTrueHolds`, `MockIsSoundHolds`, which are the run's
properties of almost the same names, and `EndStaysFinal`, the safety half of its
`EndIsFinal`: the end of a child is told once, as what it was, and no line follows.

That a finite set of numbers has a least and a greatest element, which `Min` and
`Max` of the mocks need, is proved from the library's `WFMin`; cardinalities are
followed with the theorems on finite sets. No model here has a recursive operator,
so nothing had to be left out for that reason.

**Only model-checked:** liveness, which is out of the prover's reach
(`CloseEndsRequests`, `CloseReachesTransport`, `NoOrphans`, `LoadingEnds`, and
`CleanupEnds` inside `EndIsFinal`). The runs that expect a violation are TLC's too.

## 5. Disagreements found

1. `rpc.ts:357` promises that an in-flight request finishes before a session
   closes; `signal_close` cancels it (`session_comment`).
2. `clear` misses the cores whose open is under way, and leaves the generations
   as they are, so these opens succeed afterwards (`pool_clear`).
3. The startup's list restores a server deleted while it was under way, if
   anything was recorded meanwhile: `start` merges where `refreshList`
   discards (`servers_deleted`).
4. An operation recorded during a startup persists the cache that `start`
   emptied: the scopes of all other endpoints leave the file
   (`servers_local_cache`).

5. `endpointManagerTransactions.ts:81` promises that two UI actions cannot
   overwrite one another. The queue is a ref of one mount of the settings page: a
   change that is still being written when the page is left, and the first change
   after it is entered again, are in different queues, and the later write drops
   the earlier change (`endpoint_mounts`). With one mount it holds, and is proved.

Seen while modelling, and modelled as the code does it; no run is about them,
as no text of the repository says otherwise, or (of the catalog dialog) only in part:

- The mock core gives the file id 1 to the log of its default running server and
  again to the first log it makes, so a client that follows the first by id may be
  answered from the second (`FileGivenTwice`, excepted in `LogFollows`).
- The shared session of `launcher.tsx` is never replaced once its core died: the
  pages' retry fails until the program is restarted.
- In `WorldsManager.tsx` the tick "replace" of a refused import stays when the name
  in the dialog is changed, and then replaces a world of that other name.
- `clientDatapacks.ts`: when the session for reading again cannot be opened after a
  change, the old packs stay on the screen beside an error, and a later failed
  load clears `refreshError`. A load after a cancel is refused in silence while
  the cancelled run ends.
- The answer to a server's creation may arrive after those of later operations on
  that server (`recordCreated` neither checks nor advances its generation), and
  then shows an older status, or a deleted server, until the next refresh
  (`CreationArrives`, excepted in `StatusNeverGoesBack` and `RefreshKeepsDeleted`).
- The comment at `ContentSearchDialog.tsx:60` says of `onChanged` that it is "called
  after a successful install/set-version so the list refreshes". It is not when the
  dialog was unmounted meanwhile: a read of the list that fails while the install
  is under way takes the dialog away, Retry shows the list as it was, and the end of
  the install is told to nobody (`OrphanDone`). Nor is anything read after a change
  or an install that failed when it was done in part (`untold`).
- A device login that was cancelled is revived if another login resets the flag
  before its loop looked at it. Two loops then share the reference to the session,
  and the end of either clears it.
- The token under the pending key (`auth.tsx:228`) is never read: what a crash
  leaves there is of no use, and of two loops one clears what the other has kept.
- Of two launches that rotate one token the one that writes last decides which of
  the two new tokens is kept. Neither is used up; that the service honours both is
  assumed.
- A launch that is under way when its account is removed writes the rotated token
  back into the keychain. A removal that is under way when its account is logged
  in again deletes the new token, and the account stays in the list without one
  (`crossed`, excepted in `ListedHaveTokens`).

## 6. What the models leave out

- Texts, codes of errors beyond the kinds the code tells apart, wall-clock time.
  A timeout is a step that may come at any moment.
- In `Session`: diagnostics lines of the core (forwarded, no state).
- In `SessionPool`: an endpoint is saved or not; that it may be edited while a
  session opens is listed as a hazard. Generations do not wrap (`u64`).
- In `ServerController`: one directory per endpoint; the registry that shares one
  startup between the two mounts of React's StrictMode; a second window. An id
  is given to one server only: `recordCreated` does not overtake status
  requests, so if the core gave the id of a deleted server to a new one, a late
  status of the old could be shown for the new.
- In `InstanceTasks`: `startValidate`, which takes no lease; the stage and the
  progress of an installation, whose late events have no flag like `active` but
  touch these fields only; the drafts of the import dialog; `dispose`, which only
  tests call; leases of `content-*`, `world-*` and `pack-activation` are one kind.
  An import whose first `instance.get` fails has read no identity, so when it is
  resumed it accepts whatever has that id by then: `SetsUpItsOwn` speaks of the
  instance it read first, not of the one its archive made.
- In `PackActivation`: the leases of the GUI, as the lock has to hold without them.
- In `EndpointConfig` and `Updater`: what makes a destination, a port or a signature
  valid. Two data of each kind are told apart, and damaged ones.
- In `Diagnostics`, `ServerLog`, `MicrosoftLogin`: what records, lines and tokens say.
- In the mocks: refusals (they change nothing), texts, sizes and times.
- The parts of the sums are taken alone: that they do not share state is read off
  the code (each keeps its own fields; they meet in the session pool, in the
  leases and in the target lock, which `SessionPool`, `CoreClient` and
  `ServerPanels` have).

## 7. Not modelled

- **Server status cache file** (`server_status_cache.rs`): temporary file, sync and
  rename are those of `endpoints.rs`, which `EndpointConfig` models; what is above
  them, an atomic read and write that may fail, is in `ServerController`.
- **Tauri set-up and the progress throttle** (`lib.rs`): wiring of plugins and
  windows; the throttle drops progress events by the clock, and nothing reads them
  but the rendering.
- **Parsing and building of data** (`modpack_preview.rs`, the requests of
  `curseforge.rs`, `serverState.ts`, `installProgress.ts`, `logBuffer.ts`, `md5.ts`,
  `offline.ts`): functions of their arguments with unit tests beside them. They
  have no order of steps that a test would miss.
- **Catalog of the data pack panel** (`clientDatapackCatalog.ts`), **shader advice**
  (`shaderRuntime.ts`), **`startValidate`**: reads that only inform.
- **Fixed answers of the mock** (accounts, Java, versions) and the mock of the
  endpoint file, which has no failures.
- **Rendering, texts and settings of the browser**: they show the state of the parts
  above.
- **The core** is not in this repository. It is external in every module: it may
  answer, fail or stay silent at any moment, and does what the requests are named
  for.
