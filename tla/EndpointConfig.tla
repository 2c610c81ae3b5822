---------------------------- MODULE EndpointConfig ----------------------------
(***************************************************************************)
(* The saved SSH endpoints: the file (endpoints.rs), which the commands    *)
(* read and replace, and the settings page (EndpointManager.tsx,           *)
(* endpointContext.tsx, endpointManagerTransactions.ts), which reads,      *)
(* changes and writes it back.                                             *)
(*                                                                         *)
(* The commands are synchronous: they run on the main thread, one at a     *)
(* time.  An endpoint is its id and its destination; the local one is      *)
(* always there and left out.  The program may be killed, or the power     *)
(* fail, between any two steps.                                            *)
(***************************************************************************)
EXTENDS Naturals, Sequences, FiniteSets

CONSTANTS
  Ids,      \* ids of SSH endpoints
  Dests,    \* what an endpoint says
  Calls,    \* operations of the settings page
  Mounts,   \* mounts of the EndpointManager: 1, 2, ...
  Damaged,  \* a file that does not parse, is too large or does not validate
  None

VARIABLES
  platform,  \* unix: a directory has to be synced; windows: written through
  file,      \* what endpoints.v1.json holds; a missing file is the canonical one
  lasting,   \* what it may hold after the power failed
  main,      \* the write on the main thread: its call, how far it is, whether synced
  ops,       \* ops[c]: an operation of the page
  queues,    \* queues[m]: the EndpointMutationQueue of a mount
  mount,     \* the manager on the screen
  shown,     \* config of the context, None before it was read or if it cannot be
  selected,  \* settings.selectedServerEndpointId
  possible   \* history: the last configuration told saved, and those tried since

vars == <<platform, file, lasting, main, ops, queues, mount, shown, selected, possible>>

Configs == [Ids -> Dests \cup {None}]
Contents == Configs \cup {Damaged}
Canonical == [i \in Ids |-> None]

\* endpoint_config_read falls back to the canonical configuration, the reader
\* that opens sessions refuses.
Lenient(content) == IF content = Damaged THEN Canonical ELSE content
Strict(content) == IF content = Damaged THEN None ELSE content

Kinds == {"add", "edit", "delete"}
Idle == [pc |-> "idle", kind |-> "add", id |-> CHOOSE i \in Ids : TRUE, dest |-> None,
         next |-> Canonical, selected |-> "local", mount |-> 1]
Resting == [call |-> None, stage |-> "none", synced |-> FALSE]

TypeOK ==
  /\ platform \in {"unix", "windows"}
  /\ file \in Contents /\ lasting \in SUBSET Contents /\ possible \in SUBSET Contents
  /\ main \in [call : Calls \cup {None}, synced : BOOLEAN,
               stage : {"none", "create", "write", "sync", "rename", "directory"}]
  /\ ops \in [Calls -> [pc : {"idle", "queued", "write", "writing", "saved", "failed", "cleanup"},
                        kind : Kinds, id : Ids, dest : Dests \cup {None}, next : Configs,
                        selected : Ids \cup {"local"}, mount : Mounts]]
  /\ queues \in [Mounts -> Seq(Calls)] /\ mount \in Mounts
  /\ shown \in Configs \cup {None}
  /\ selected \in Ids \cup {"local"}

Fresh == /\ main' = Resting /\ ops' = [c \in Calls |-> Idle]
         /\ queues' = [m \in Mounts |-> <<>>] /\ mount' = 1 /\ shown' = None

Init ==
  /\ platform \in {"unix", "windows"}
  /\ file \in Contents /\ lasting = {file} /\ possible = {file}
  /\ main = Resting /\ ops = [c \in Calls |-> Idle]
  /\ queues = [m \in Mounts |-> <<>>] /\ mount = 1 /\ shown = None
  /\ selected \in Ids \cup {"local"}

-----------------------------------------------------------------------------
(* The context and the page.                                                *)

Load ==
  /\ shown = None /\ main = Resting
  /\ shown' = Lenient(file)
  /\ UNCHANGED <<platform, file, lasting, main, ops, queues, mount, selected, possible>>

Known(id) == id \in {"local"} \cup {i \in Ids : shown # None /\ shown[i] # None}
Reconcile ==
  /\ shown # None /\ ~Known(selected) /\ selected' = "local"
  /\ UNCHANGED <<platform, file, lasting, main, ops, queues, mount, shown, possible>>
Select(id) ==
  /\ shown # None /\ Known(id) /\ selected' = id
  /\ UNCHANGED <<platform, file, lasting, main, ops, queues, mount, shown, possible>>

\* The page is left and opened again: another manager, another queue.
Remount ==
  /\ mount + 1 \in Mounts /\ mount' = mount + 1
  /\ UNCHANGED <<platform, file, lasting, main, ops, queues, shown, selected, possible>>

\* saving and deleting: one of each at a time.  A new id is a new one.
Deletes(c) == ops[c].kind = "delete"
Busy(kind) == \E c \in Calls :
  ops[c].pc # "idle" /\ ops[c].mount = mount /\ (Deletes(c) <=> kind = "delete")
Unused(id) == Lenient(file)[id] = None /\ shown[id] = None /\ \A c \in Calls : ops[c].next[id] = None

Submit(c, kind, id, dest) ==
  /\ ops[c].pc = "idle" /\ shown # None /\ ~Busy(kind)
  /\ IF kind = "add" THEN Unused(id) /\ (\A d \in Calls : ops[d].pc # "idle" => ops[d].id # id) ELSE shown[id] # None
  /\ (dest = None) = (kind = "delete")
  /\ ops' = [ops EXCEPT ![c] = [Idle EXCEPT !.pc = "queued", !.kind = kind, !.id = id, !.dest = dest,
       !.selected = IF kind = "delete" /\ Known(selected) THEN selected ELSE "local", !.mount = mount]]
  /\ queues' = [queues EXCEPT ![mount] = Append(@, c)]
  /\ UNCHANGED <<platform, file, lasting, main, mount, shown, selected, possible>>

-----------------------------------------------------------------------------
(* The transactions.                                                        *)

TurnSlip(c) == TRUE
Turn(c) == queues[ops[c].mount] # <<>> /\ Head(queues[ops[c].mount]) = c

Leave(c) == /\ ops' = [ops EXCEPT ![c] = Idle]
            /\ queues' = [queues EXCEPT ![ops[c].mount] = Tail(@)]

Changed(config, op) == [config EXCEPT ![op.id] = op.dest]

\* The latest configuration is read and the change made to it; the endpoint may
\* be gone, the configuration full, the file unreadable.
ReadLatest(c) == LET latest == Lenient(file) IN
  /\ ops[c].pc = "queued" /\ Turn(c) /\ main = Resting
  /\ \/ /\ ops[c].kind # "add" => latest[ops[c].id] # None
        /\ ops' = [ops EXCEPT ![c].pc = "write", ![c].next = Changed(latest, ops[c])]
     \/ ops' = [ops EXCEPT ![c].pc = "failed"]
  /\ UNCHANGED <<platform, file, lasting, main, queues, mount, shown, selected, possible>>

BeginWrite(c) ==
  /\ ops[c].pc = "write" /\ main = Resting
  /\ main' = [call |-> c, stage |-> "create", synced |-> FALSE]
  /\ ops' = [ops EXCEPT ![c].pc = "writing"]
  /\ possible' = possible \cup {ops[c].next}
  /\ UNCHANGED <<platform, file, lasting, queues, mount, shown, selected>>

\* The configuration is published when its write was answered; a deletion then
\* moves the selection and cleans up, well or badly, before the queue goes on.
PublishedSlip(c) == IF Deletes(c) THEN ops[c].next ELSE shown
Published(c) == ops[c].next
Publish(c) ==
  /\ ops[c].pc = "saved"
  /\ shown' = Published(c)
  /\ selected' = IF Deletes(c) /\ ops[c].selected = ops[c].id THEN "local" ELSE selected
  /\ IF Deletes(c) THEN ops' = [ops EXCEPT ![c].pc = "cleanup"] /\ queues' = queues ELSE Leave(c)
  /\ UNCHANGED <<platform, file, lasting, main, mount, possible>>

Finish(c) ==
  /\ ops[c].pc \in {"failed", "cleanup"} /\ Leave(c)
  /\ UNCHANGED <<platform, file, lasting, main, mount, shown, selected, possible>>

-----------------------------------------------------------------------------
(* write_endpoint_config_to_dir: a temporary file is created, written and   *)
(* synced, renamed over the old one, and the directory synced.              *)

LaterSlip(stage) ==
  CASE stage = "create" -> "write" [] stage = "write" -> "rename" [] stage = "rename" -> "directory"
Later(stage) ==
  CASE stage = "create" -> "write" [] stage = "write" -> "sync"
    [] stage = "sync" -> "rename"  [] stage = "rename" -> "directory"

Answer(pc) == ops' = [ops EXCEPT ![main.call].pc = pc] /\ main' = Resting

Prepare ==
  /\ main.stage \in {"create", "write", "sync"}
  /\ main' = [main EXCEPT !.stage = Later(@), !.synced = (main.stage = "sync")]
  /\ UNCHANGED <<platform, file, lasting, ops, queues, mount, shown, selected, possible>>

\* Until the directory is synced either name may come back, and the content of
\* a file that was not synced itself may be gone.
Landed(content) == IF main.synced THEN {content} ELSE {content, Damaged}
Rename ==
  /\ main.stage = "rename"
  /\ file' = ops[main.call].next
  /\ IF platform = "windows"
     THEN /\ lasting' = Landed(ops[main.call].next)
          /\ possible' = {ops[main.call].next} /\ Answer("saved")
     ELSE /\ lasting' = lasting \cup Landed(ops[main.call].next) /\ main' = [main EXCEPT !.stage = Later(@)]
          /\ UNCHANGED <<ops, possible>>
  /\ UNCHANGED <<platform, queues, mount, shown, selected>>

SettledSlip == lasting
Settled == Landed(file)
SyncDirectory ==
  /\ main.stage = "directory"
  /\ lasting' = Settled /\ possible' = {file} /\ Answer("saved")
  /\ UNCHANGED <<platform, file, queues, mount, shown, selected>>

\* A step fails: the temporary file is removed, if it still has its name.
WriteFails ==
  /\ main # Resting /\ Answer("failed")
  /\ UNCHANGED <<platform, file, lasting, queues, mount, shown, selected, possible>>

\* The page's state is gone, the selection is in the settings.
Restart(cut) ==
  /\ Fresh /\ UNCHANGED <<platform, selected, possible>>
  /\ file' \in IF cut THEN lasting ELSE {file}
  /\ lasting' = IF cut THEN {file'} ELSE lasting

Next ==
  \/ Load \/ Reconcile \/ Remount \/ Prepare \/ Rename \/ SyncDirectory \/ WriteFails
  \/ \E cut \in BOOLEAN : Restart(cut)
  \/ \E i \in Ids \cup {"local"} : Select(i)
  \/ \E c \in Calls : \/ ReadLatest(c) \/ BeginWrite(c) \/ Publish(c) \/ Finish(c)
                      \/ \E k \in Kinds, i \in Ids, d \in Dests \cup {None} : Submit(c, k, i, d)

Spec == Init /\ [][Next]_vars

-----------------------------------------------------------------------------
(***************************************************************************)
(* Killed or cut off anywhere, the program finds a whole configuration:    *)
(* the one last told saved, or one that was being written or whose write   *)
(* failed since; a configuration told saved is what a session opens by.    *)
(***************************************************************************)
SavedSurvives ==
  /\ {file} \cup lasting \subseteq possible
  /\ \A c \in Calls : ops[c].pc = "saved" /\ possible = {ops[c].next} => Strict(file) = ops[c].next

(***************************************************************************)
(* A transaction changes its own endpoint only: what it is about to write  *)
(* is the configuration in the file with its own change, and nothing that  *)
(* another one has replaced since it read.                                 *)
(***************************************************************************)
OwnChangeOnly == \A c \in Calls :
  ops[c].pc = "write" \/ (ops[c].pc = "writing" /\ main.stage # "directory") =>
    ops[c].next = Changed(Lenient(file), ops[c])

(***************************************************************************)
(* When nothing is under way and no write has failed, the page shows what  *)
(* is saved, whatever was deleted, saved and selected in between.          *)
(***************************************************************************)
ShownIsSaved ==
  shown # None /\ Cardinality(possible) = 1 /\ (\A c \in Calls : ops[c].pc = "idle") =>
    shown = Lenient(file)
=============================================================================
