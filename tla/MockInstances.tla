---------------------------- MODULE MockInstances ----------------------------
(***************************************************************************)
(* One instance in the mock core (mockTransport.ts): its manifest, its     *)
(* content, its worlds with their data packs, and the backups and exported *)
(* archives.  Worlds are kept by the game directory of the instance, which *)
(* need not be listed for a request on them.  Content is kept by the id    *)
(* alone.  A refused request changes nothing and is not an action.         *)
(***************************************************************************)
EXTENDS Naturals

CONSTANTS
  Worlds,      \* names of worlds
  Survival,    \* the one the default fixture has, with a data pack
  Packs,       \* data packs
  Exports,     \* files that worlds are exported to
  MaxBackups,  \* bound on the backups of a world
  None

VARIABLES
  manifest,  \* "none", "created", "installed"
  content,   \* fixture.contents[id]: it was asked for, or is the fixture's
  worlds,    \* worlds[w]: "none", "free" or "locked"
  packs,     \* datapacks[scope][w]: the packs of w, or None
  backups,   \* backups[w]: how many have the one file name a world's get
  archives   \* datapackArchives: of a backup, by its world, or an export

vars == <<manifest, content, worlds, packs, backups, archives>>

Exists(w) == worlds[w] # "none"
Mutable(w) == worlds[w] = "free"

TypeOK ==
  /\ manifest \in {"none", "created", "installed"} /\ content \in BOOLEAN
  /\ worlds \in [Worlds -> {"none", "free", "locked"}]
  /\ packs \in [Worlds -> (SUBSET Packs) \cup {None}]
  /\ backups \in [Worlds -> 0..MaxBackups]
  /\ archives \in [Worlds \cup Exports -> (SUBSET Packs) \cup {None}]

\* The default scenario: a world to play, and perhaps one that is in use; the
\* empty scenario.
Init ==
  /\ \/ /\ manifest = "installed" /\ content = TRUE
        /\ \E other \in {"none", "locked"} :
             worlds = [w \in Worlds |-> IF w = Survival THEN "free" ELSE other]
        /\ backups = [w \in Worlds |-> IF w = Survival THEN 1 ELSE 0]
     \/ /\ manifest = "none" /\ content = FALSE
        /\ worlds = [w \in Worlds |-> "none"] /\ backups = [w \in Worlds |-> 0]
  /\ packs = [w \in Worlds |-> None]
  /\ archives = [f \in Worlds \cup Exports |-> None]

-----------------------------------------------------------------------------
(* Instances and their content                                             *)

\* instance.create and modpack.install; install.execute.
Create ==
  /\ manifest = "none" /\ manifest' = "created"
  /\ UNCHANGED <<content, worlds, packs, backups, archives>>
Install ==
  /\ manifest # "none" /\ manifest' = "installed"
  /\ UNCHANGED <<content, worlds, packs, backups, archives>>

\* The worlds go with the instance, so that the next one of the id begins with
\* none; the archives stay.
DeleteInstance ==
  /\ manifest # "none" /\ manifest' = "none" /\ content' = FALSE
  /\ worlds' = [w \in Worlds |-> "none"] /\ backups' = [w \in Worlds |-> 0]
  /\ packs' = [w \in Worlds |-> None]
  /\ UNCHANGED archives

\* mods, resourcepacks and shaderpacks, the list included: entryFor.
UseContent ==
  /\ content' = TRUE
  /\ UNCHANGED <<manifest, worlds, packs, backups, archives>>

-----------------------------------------------------------------------------
(* Worlds                                                                  *)

\* datapacksFor: the store is made when it is first asked for.
Default(w) == IF w = Survival THEN Packs ELSE {}
PacksOf(w) == IF packs[w] = None THEN Default(w) ELSE packs[w]

\* datapacks.list, and the requests that change them.
ListPacks(w) ==
  /\ Exists(w) /\ packs' = [packs EXCEPT ![w] = PacksOf(w)]
  /\ UNCHANGED <<manifest, content, worlds, backups, archives>>
ChangePacks(w, s) ==
  /\ Mutable(w) /\ packs' = [packs EXCEPT ![w] = s]
  /\ UNCHANGED <<manifest, content, worlds, backups, archives>>

Rename(old, new) ==
  /\ Mutable(old) /\ (new # old => ~Exists(new))
  /\ packs' = [w \in Worlds |-> IF w = new THEN PacksOf(old) ELSE IF w = old THEN None ELSE packs[w]]
  /\ worlds' = [w \in Worlds |-> IF w = new THEN "free" ELSE IF w = old THEN "none" ELSE worlds[w]]
  /\ UNCHANGED <<manifest, content, backups, archives>>

\* replaceWorld: a locked world stays, another one goes only when told.
Replaces(w, replace) == Mutable(w) => replace
Put(w, replace, s) ==
  /\ worlds[w] # "locked" /\ Replaces(w, replace)
  /\ worlds' = [worlds EXCEPT ![w] = "free"]
  /\ packs' = [packs EXCEPT ![w] = s]

Duplicate(w, new) ==
  /\ Mutable(w) /\ ~Exists(new)
  /\ worlds' = [worlds EXCEPT ![new] = "free"]
  /\ packs' = [packs EXCEPT ![new] = PacksOf(w), ![w] = PacksOf(w)]
  /\ UNCHANGED <<manifest, content, backups, archives>>

\* A file that was not exported here holds no packs.
Archived(f) == IF archives[f] = None THEN {} ELSE archives[f]

Import(f, w, replace) ==
  /\ Put(w, replace, Archived(f))
  /\ UNCHANGED <<manifest, content, backups, archives>>

Restore(backup, w, replace) ==
  /\ backups[backup] > 0 /\ Put(w, replace, Archived(backup))
  /\ UNCHANGED <<manifest, content, backups, archives>>

DeleteWorldSlip(w) ==
  /\ Mutable(w)
  /\ worlds' = [worlds EXCEPT ![w] = "none"]
  /\ UNCHANGED <<manifest, content, packs, backups, archives>>

DeleteWorld(w) ==
  /\ Mutable(w)
  /\ worlds' = [worlds EXCEPT ![w] = "none"] /\ packs' = [packs EXCEPT ![w] = None]
  /\ UNCHANGED <<manifest, content, backups, archives>>

Export(w, f) ==
  /\ Mutable(w) /\ archives' = [archives EXCEPT ![f] = PacksOf(w)]
  /\ packs' = [packs EXCEPT ![w] = PacksOf(w)]
  /\ UNCHANGED <<manifest, content, worlds, backups>>

\* The file name has no number: the archive of the last backup is theirs all,
\* and deleting one deletes them all.
Backup(w) ==
  /\ Mutable(w) /\ backups[w] < MaxBackups
  /\ backups' = [backups EXCEPT ![w] = @ + 1]
  /\ archives' = [archives EXCEPT ![w] = PacksOf(w)]
  /\ packs' = [packs EXCEPT ![w] = PacksOf(w)]
  /\ UNCHANGED <<manifest, content, worlds>>

DeleteBackup(w) ==
  /\ backups[w] > 0
  /\ backups' = [backups EXCEPT ![w] = 0] /\ archives' = [archives EXCEPT ![w] = None]
  /\ UNCHANGED <<manifest, content, worlds, packs>>

Next ==
  \/ Create \/ Install \/ DeleteInstance \/ UseContent
  \/ \E w \in Worlds :
       \/ ListPacks(w) \/ DeleteWorld(w) \/ Backup(w) \/ DeleteBackup(w)
       \/ \E s \in SUBSET Packs : ChangePacks(w, s)
       \/ \E f \in Exports : Export(w, f)
       \/ \E new \in Worlds : Rename(w, new) \/ Duplicate(w, new)
       \/ \E replace \in BOOLEAN :
            \/ \E f \in Exports : Import(f, w, replace)
            \/ \E b \in Worlds : Restore(b, w, replace)

Spec == Init /\ [][Next]_vars

-----------------------------------------------------------------------------
\* Data packs do not outlive their world, so none that comes later under its
\* name, made from another one, an archive or a backup, has them.
PacksFollowWorlds == \A w \in Worlds : packs[w] # None => Exists(w)
=============================================================================
