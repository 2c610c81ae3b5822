----------------------------- MODULE MockWorlds -----------------------------
(***************************************************************************)
(* The worlds of one server of the mock core (serverMock.ts) and their     *)
(* backups.  The base world, named by level-name, has up to two dimensions *)
(* beside it that are renamed, deleted, archived and restored with it.     *)
(* The data packs of a world are a set of files here; MockContent has      *)
(* their records.  A refused request changes nothing and is not an action. *)
(***************************************************************************)
EXTENDS Naturals, FiniteSets

CONSTANTS
  Bases,       \* names of worlds that are given as level-name or new name
  Suffixes,    \* of the dimensions: "_nether" and "_the_end"
  Files,       \* data packs
  MaxBackups,  \* bound on the backups that exist
  None

VARIABLES
  base,     \* properties["level-name"]; None before the installation
  running,
  worlds,   \* worlds[n]: how many worlds have the name
  locked,   \* names of locked worlds
  packs,    \* datapacks_by_world: the files a world's store has, or None
  backups   \* backups with their sets, entries and data pack files

vars == <<base, running, worlds, locked, packs, backups>>

\* A world's name: of itself, and the dimension's suffix.
NoSuffix == ""
Names == Bases \X ({NoSuffix} \cup Suffixes)
World(b) == <<b, NoSuffix>>
Family(n) == {n} \cup (IF n[2] = NoSuffix THEN {m \in Names : m[1] = n[1]} ELSE {})
Exists(n) == worlds[n] > 0
IsBase(n) == n = World(base)

TypeOK ==
  /\ base \in Bases \cup {None} /\ running \in BOOLEAN
  /\ worlds \in [Names -> 0..3] /\ locked \subseteq Names
  /\ packs \in [Names -> (SUBSET Files) \cup {None}]
  /\ \A b \in backups : b.names \subseteq Names /\ b.names # {}
                        /\ b.packs \in [b.names -> SUBSET Files]
  /\ Cardinality(backups) <= MaxBackups

\* A server without a world, or with a base world and its dimensions.
Init ==
  /\ base \in Bases \cup {None} /\ running = FALSE
  /\ \E s \in {{}, Family(World(base))} :
       worlds = [n \in Names |-> IF base # None /\ n \in s THEN 1 ELSE 0]
  /\ locked = {} /\ packs = [n \in Names |-> None] /\ backups = {}

Install ==
  /\ base = None /\ \E b \in Bases : base' = b
  /\ UNCHANGED <<running, worlds, locked, packs, backups>>
StartOrStop ==
  /\ base # None /\ running' = ~running
  /\ UNCHANGED <<base, worlds, locked, packs, backups>>

\* The fixtures of a test: one world is in use.
Lock(n) ==
  /\ Exists(n) /\ locked = {} /\ locked' = {n}
  /\ UNCHANGED <<base, running, worlds, packs, backups>>

\* server.properties.set gives the name of another base world.
SelectWorld(b) ==
  /\ base \notin {None, b} /\ ~running /\ base' = b
  /\ UNCHANGED <<running, worlds, locked, packs, backups>>

\* A change of the data packs, which are those of the base world: its store
\* is made for the first one.
ChangePacks(files) ==
  /\ base # None /\ ~running
  /\ packs' = [packs EXCEPT ![World(base)] = files]
  /\ UNCHANGED <<base, running, worlds, locked, backups>>

\* With the base world the dimensions it has move, and must find their names
\* free.
Moved(old, n) == IF IsBase(old) THEN {m \in Family(old) : Exists(m)} ELSE {old}
NewName(old, n, m) == IF m = old THEN n ELSE <<n[1], m[2]>>
SiblingsFreeSlip(old, n) == TRUE
SiblingsFree(old, n) == \A m \in Moved(old, n) : ~Exists(NewName(old, n, m))

\* How many worlds keep the name x, and how many get it.
Staying(old, n, x) == IF x \in Moved(old, n) THEN 0 ELSE worlds[x]
Arriving(old, n, x) ==
  IF \E m \in Moved(old, n) : NewName(old, n, m) = x
  THEN worlds[CHOOSE m \in Moved(old, n) : NewName(old, n, m) = x] ELSE 0

Rename(old, n) ==
  /\ ~running /\ Exists(old) /\ old # n /\ ~Exists(n)
  /\ IsBase(old) => n[2] = NoSuffix
  /\ (IF IsBase(old) THEN Family(old) ELSE {old}) \cap locked = {}
  /\ SiblingsFree(old, n)
  /\ worlds' = [x \in Names |-> Staying(old, n, x) + Arriving(old, n, x)]
  /\ packs' = IF packs[old] = None THEN packs
              ELSE [packs EXCEPT ![n] = packs[old], ![old] = None]
  /\ base' = IF IsBase(old) THEN n[1] ELSE base
  /\ UNCHANGED <<running, locked, backups>>

Without(f, s, none) == [n \in Names |-> IF n \in s THEN none ELSE f[n]]

Delete(n) ==
  /\ ~running /\ Exists(n)
  /\ LET gone == IF IsBase(n) THEN Family(n) ELSE {n}
     IN /\ gone \cap locked = {}
        /\ worlds' = Without(worlds, gone, 0) /\ packs' = Without(packs, gone, None)
  /\ UNCHANGED <<base, running, locked, backups>>

\* One world, or the base world with its dimensions.  The archive has the
\* files of the packs and none of their records.
Backup(chosen) ==
  /\ ~running /\ base # None /\ Cardinality(backups) < MaxBackups
  /\ LET n == IF chosen = None THEN World(base) ELSE chosen
         names == IF chosen = None THEN {m \in Family(n) : Exists(m)} ELSE {n}
     IN /\ Exists(n) /\ names \cap locked = {}
        /\ backups' = backups \cup
             {[names |-> names,
               packs |-> [m \in names |-> IF packs[m] = None THEN {} ELSE packs[m]]]}
  /\ UNCHANGED <<base, running, worlds, locked, packs>>

Restore(b, replace) ==
  /\ ~running /\ (replace \/ \A n \in b.names : ~Exists(n))
  /\ b.names \cap locked = {}
  /\ worlds' = Without(worlds, b.names, 1)
  /\ packs' = [n \in Names |-> IF n \in b.names THEN b.packs[n] ELSE packs[n]]
  /\ UNCHANGED <<base, running, locked, backups>>

DeleteBackup(b) ==
  /\ ~running /\ backups' = backups \ {b}
  /\ UNCHANGED <<base, running, worlds, locked, packs>>

Next ==
  \/ Install \/ StartOrStop \/ \E b \in Bases : SelectWorld(b)
  \/ \E files \in SUBSET Files : ChangePacks(files)
  \/ \E n \in Names : Lock(n) \/ Delete(n) \/ \E old \in Names : Rename(old, n)
  \/ \E n \in Names \cup {None} : Backup(n)
  \/ \E b \in backups : DeleteBackup(b) \/ \E replace \in BOOLEAN : Restore(b, replace)

Spec == Init /\ [][Next]_vars

-----------------------------------------------------------------------------
\* No two worlds of a server come to have one name, whatever is renamed with
\* its dimensions, restored over what is there, or made base in between.
OneWorldPerName == \A n \in Names : worlds[n] <= 1

\* A locked world is neither renamed, deleted nor replaced, alone or with its
\* family.
LockedStays == \A n \in locked : Exists(n)
=============================================================================
