------------------------------ MODULE Changes ------------------------------
(***************************************************************************)
(* The parts of the program that change something on disk or in a core for *)
(* good: pack and shader activation, the diagnostic log, the endpoint      *)
(* configuration, the import of a modpack, the updater, and the panels of  *)
(* a server.  They share no state: in their disjoint sum one part is       *)
(* chosen and moves, and what holds of the sum holds of each.              *)
(***************************************************************************)
EXTENDS Naturals, Sequences

CONSTANTS
  \* Pack and shader activation: see PackActivation.
  ShaderFiles, Packs, Lists, Rests, Edits, Requests, MaxSnapshots, MaxSequence, MaxWrites,
  \* The diagnostic log: see Diagnostics.
  QueueSize, MaxLines, MaxFiles, MaxRecords, Readings,
  \* The endpoint configuration, with one mount of its page: see EndpointConfig.
  Endpoints, Dests, Mutations, Damaged,
  \* The import of a modpack: see ModpackImport.
  Instances, Archives, Keyed, Imports, Manifests,
  \* The updater: see Updater.
  Versions, Updates,
  \* The panels of a server: see ServerPanels.
  Controllers, MaxRevisions, MaxChanges,
  None

VARIABLES
  part,
  options_platform, options_files, options_installed, options_readers,
  options_writer, options_snapshots, options_sequence, options_edits,
  options_calls, options_view,
  shader_platform, shader_files, shader_installed, shader_readers,
  shader_writer, shader_snapshots, shader_sequence, shader_edits,
  shader_calls, shader_view,
  log_saved, log_disk, log_store, log_shared, log_queue, log_calls, log_panel,
  log_emitted, log_gone, log_wish,
  config_platform, config_file, config_lasting, config_main, config_ops,
  config_queues, config_mount, config_shown, config_selected, config_possible,
  pack_task, pack_dialog, pack_draft, pack_pick, pack_lease, pack_core,
  update_native, update_calls, update_page, update_read,
  panels_rev, panels_locked, panels_ctl, panels_op, panels_running,
  panels_version

optionsVars == <<options_platform, options_files, options_installed, options_readers,
                 options_writer, options_snapshots, options_sequence,
                 options_edits, options_calls, options_view>>
shaderVars == <<shader_platform, shader_files, shader_installed, shader_readers,
                shader_writer, shader_snapshots, shader_sequence,
                shader_edits, shader_calls, shader_view>>
logVars == <<log_saved, log_disk, log_store, log_shared, log_queue, log_calls, log_panel,
             log_emitted, log_gone, log_wish>>
configVars == <<config_platform, config_file, config_lasting, config_main, config_ops,
                config_queues, config_mount, config_shown, config_selected,
                config_possible>>
packVars == <<pack_task, pack_dialog, pack_draft, pack_pick, pack_lease, pack_core>>
updateVars == <<update_native, update_calls, update_page, update_read>>
panelsVars == <<panels_rev, panels_locked, panels_ctl, panels_op, panels_running,
                panels_version>>

Options == INSTANCE PackActivationProofs WITH
  Targets <- {"options"}, Shaders <- {}, Calls <- Edits, MaxEdits <- MaxWrites,
  platform <- options_platform, files <- options_files,
  installed <- options_installed, readers <- options_readers,
  writer <- options_writer, snapshots <- options_snapshots,
  sequence <- options_sequence, edits <- options_edits,
  calls <- options_calls, view <- options_view

Shader == INSTANCE PackActivationProofs WITH
  Targets <- ShaderFiles, Shaders <- ShaderFiles, Calls <- Edits, MaxEdits <- MaxWrites,
  platform <- shader_platform, files <- shader_files,
  installed <- shader_installed, readers <- shader_readers,
  writer <- shader_writer, snapshots <- shader_snapshots,
  sequence <- shader_sequence, edits <- shader_edits, calls <- shader_calls,
  view <- shader_view

Log == INSTANCE Diagnostics WITH
  Calls <- Readings, saved <- log_saved, disk <- log_disk, store <- log_store,
  shared <- log_shared, queue <- log_queue, calls <- log_calls,
  panel <- log_panel, emitted <- log_emitted, gone <- log_gone,
  wish <- log_wish

Config == INSTANCE EndpointConfigProofs WITH
  Ids <- Endpoints, Calls <- Mutations, Mounts <- {1},
  platform <- config_platform, file <- config_file, lasting <- config_lasting,
  main <- config_main, ops <- config_ops, queues <- config_queues,
  mount <- config_mount, shown <- config_shown, selected <- config_selected,
  possible <- config_possible

Pack == INSTANCE ModpackImport WITH
  Ids <- Instances, Files <- Archives, Tasks <- Imports, task <- pack_task, dialog <- pack_dialog,
  draft <- pack_draft, pick <- pack_pick, lease <- pack_lease,
  core <- pack_core

Update == INSTANCE Updater WITH
  Calls <- Updates, native <- update_native,
  calls <- update_calls, page <- update_page, read <- update_read

Panels == INSTANCE ServerPanels WITH
  rev <- panels_rev, locked <- panels_locked, ctl <- panels_ctl,
  op <- panels_op, running <- panels_running, version <- panels_version

\* What the parts need of these; nothing bounds them.
ASSUME PacksAssumption ==
  /\ ShaderFiles # {} /\ Rests # {} /\ None \notin Edits
  /\ Lists \subseteq Seq(Packs) /\ \E l \in Lists : Len(l) = 1
ASSUME LogAssumption ==
  /\ {QueueSize, MaxRecords} \subseteq Nat
  /\ {MaxLines, MaxFiles} \subseteq Nat \ {0}
ASSUME ConfigAssumption ==
  /\ Endpoints # {} /\ "local" \notin Endpoints
  /\ None \notin Mutations /\ None \notin Config!Configs
  /\ Damaged \notin Config!Configs \cup {None}
ASSUME PackAssumption == 0 \notin Imports /\ None \notin Instances /\ None \notin Manifests
ASSUME UpdateAssumption == None \notin Versions /\ None \notin Updates
ASSUME PanelsAssumption == MaxRevisions \in Nat \ {0} /\ MaxChanges \in Nat

Parts == {"options", "shader", "log", "config", "pack", "update", "panels"}

\* One part is chosen and moves; the others rest where they began.
Init ==
  /\ part \in Parts
  /\ Options!Init
  /\ part # "options" => options_platform = "unix"
  /\ Shader!Init
  /\ part # "shader" => shader_platform = "unix" /\ \A t \in ShaderFiles : ~shader_files[t].content.on
  /\ Log!Init
  /\ part # "log" => log_store = "off"
  /\ Config!Init
  /\ part # "config" => config_platform = "unix" /\ config_file = Config!Canonical /\ config_selected = "local"
  /\ Pack!Init
  /\ part # "pack" => pack_core = [i \in Instances |-> None]
  /\ Update!Init
  /\ part # "update" => update_native.phase = "idle"
  /\ Panels!Init

Next ==
  \/ part = "options" /\ Options!Next /\ UNCHANGED <<part, shaderVars,
                 logVars, configVars, packVars, updateVars, panelsVars>>
  \/ part = "shader" /\ Shader!Next /\ UNCHANGED <<part, optionsVars, logVars,
                 configVars, packVars, updateVars, panelsVars>>
  \/ part = "log" /\ Log!Next /\ UNCHANGED <<part, optionsVars, shaderVars,
                 configVars, packVars, updateVars, panelsVars>>
  \/ part = "config" /\ Config!Next /\ UNCHANGED <<part, optionsVars,
                 shaderVars, logVars, packVars, updateVars, panelsVars>>
  \/ part = "pack" /\ Pack!Next /\ UNCHANGED <<part, optionsVars, shaderVars,
                 logVars, configVars, updateVars, panelsVars>>
  \/ part = "update" /\ Update!Next /\ UNCHANGED <<part, optionsVars,
                 shaderVars, logVars, configVars, packVars, panelsVars>>
  \/ part = "panels" /\ Panels!Next /\ UNCHANGED <<part, optionsVars,
                 shaderVars, logVars, configVars, packVars, updateVars>>

vars == <<part, optionsVars, shaderVars, logVars, configVars, packVars,
          updateVars, panelsVars>>

Spec == Init /\ [][Next]_vars

\* Each property is that of the part that moves: the others rest in a state
\* that is an initial state of their own.
TypeOK ==
  /\ part = "options" => Options!TypeOK
  /\ part = "shader" => Shader!TypeOK
  /\ part = "log" => Log!TypeOK
  /\ part = "config" => Config!TypeOK
  /\ part = "pack" => Pack!TypeOK
  /\ part = "update" => Update!TypeOK
  /\ part = "panels" => Panels!TypeOK

\* What a save of a pack or shader selection may not lose.
SaveKeepsUnknown == Options!SaveKeepsUnknown /\ Shader!SaveKeepsUnknown

\* The log counts what it lost, and no line reaches it against the consent.
LogIsHonest == part = "log" => Log!LogIsHonest /\ Log!ConsentSurvives

\* An endpoint that was saved is there after a crash; a mutation makes its own
\* change only, and what is shown is what is saved.
OwnChangeOnly ==
  part = "config" => Config!OwnChangeOnly /\ Config!ShownIsSaved /\ Config!SavedSurvives

\* An archive that was previewed is imported once, and its import sets up the
\* instance it made.
ArchiveOnce ==
  part = "pack" => Pack!ArchiveOnce /\ Pack!SetsUpItsOwn /\ Pack!PreviewOfFile

\* An installed or discarded update is the one the user confirmed.
ConfirmedIsDone == part = "update" => Update!ConfirmedIsDone

\* A server is changed while it is stopped, and its panels show the result.
ChangedWhileStopped ==
  part = "panels" => Panels!ChangedWhileStopped /\ Panels!ShownIsCurrent
=============================================================================
