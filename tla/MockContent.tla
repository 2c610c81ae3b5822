----------------------------- MODULE MockContent -----------------------------
(***************************************************************************)
(* The mods, or the data packs of the base world, of one server of the     *)
(* mock core (serverMock.ts): what the registry has of them, the files     *)
(* beside it, and the requests on both.  A refused request changes nothing *)
(* and is not an action.                                                   *)
(***************************************************************************)
EXTENDS Naturals, Sequences, FiniteSetsExt

CONSTANTS
  Projects,    \* of the providers; the file of one is named after it
  Versions,    \* version ids
  MaxEntries,  \* bound on the records
  None

VARIABLES
  kind,     \* "mods" or "datapacks"
  loader,   \* the server has a mod loader
  running,  \* the server runs
  entries,  \* the store's records
  loose     \* unmanaged: files without a record, by the project they look like

vars == <<kind, loader, running, entries, loose>>

Providers == {"modrinth", "curseforge"}

TypeOK ==
  /\ kind \in {"mods", "datapacks"} /\ {loader, running} \subseteq BOOLEAN
  /\ entries \in Seq([provider : Providers \cup {"manual"}, slug : Projects,
                      version : Versions \cup {None}, on : BOOLEAN])
  /\ Len(entries) <= MaxEntries /\ loose \subseteq Projects

Record(provider, p, v) == [provider |-> provider, slug |-> p, version |-> v, on |-> TRUE]

Init ==
  /\ kind \in {"mods", "datapacks"} /\ loader \in BOOLEAN /\ running = FALSE
  /\ entries = <<>> /\ loose \in SUBSET Projects

StartOrStop == running' = ~running /\ UNCHANGED <<kind, loader, entries, loose>>

\* contentMutationServer
MayChange == ~running
Same == UNCHANGED <<kind, loader, running>>

\* contentTarget: the first record of the project, or of the file, which every
\* record has.
MatchesSlip(e, by, p) == e.slug = p
Matches(e, by, p) == e.slug = p /\ (by = "project" => e.provider \in Providers)
First(s) == IF s = {} THEN 0 ELSE Min(s)
Target(by, p) == First({k \in DOMAIN entries : Matches(entries[k], by, p)})
Selects(by, p) == MayChange /\ Target(by, p) # 0

\* A project the registry has keeps its record; a manual one has no project.
\* curseforge must come with a key or the relay's word for it, modrinth
\* without.
Install(p, v, provider, key) ==
  /\ MayChange /\ (kind = "mods" => loader) /\ key = (provider = "curseforge")
  /\ LET k == First({j \in DOMAIN entries : entries[j].slug = p /\ entries[j].provider \in Providers})
     IN IF k # 0 THEN entries' = [entries EXCEPT ![k].version = v]
        ELSE Len(entries) < MaxEntries /\ entries' = Append(entries, Record(provider, p, v))
  /\ Same /\ UNCHANGED loose

\* set-version: by project only.
SetVersion(p, v) ==
  /\ Selects("project", p)
  /\ entries' = [entries EXCEPT ![Target("project", p)].version = v]
  /\ Same /\ UNCHANGED loose

Toggle(by, p, on) ==
  /\ Selects(by, p)
  /\ entries' = [entries EXCEPT ![Target(by, p)].on = on]
  /\ Same /\ UNCHANGED loose

ContentRemove(by, p) ==
  /\ Selects(by, p)
  /\ LET k == Target(by, p)
     IN entries' = SubSeq(entries, 1, k - 1) \o SubSeq(entries, k + 1, Len(entries))
  /\ Same /\ UNCHANGED loose

\* The files without a record get manual ones, in some order.
Adopted ==
  CHOOSE q \in [1 .. Cardinality(loose) -> {Record("manual", p, None) : p \in loose}] :
    \A p \in loose : \E k \in DOMAIN q : q[k].slug = p
Adopt ==
  /\ MayChange /\ Len(entries) + Cardinality(loose) <= MaxEntries
  /\ entries' = entries \o Adopted
  /\ loose' = {} /\ Same

Next ==
  \/ StartOrStop \/ Adopt
  \/ \E p \in Projects :
       \/ \E v \in Versions : \/ SetVersion(p, v)
                              \/ \E provider \in Providers, key \in BOOLEAN : Install(p, v, provider, key)
       \/ \E by \in {"project", "file"} : ContentRemove(by, p) \/ \E on \in BOOLEAN : Toggle(by, p, on)

Spec == Init /\ [][Next]_vars

-----------------------------------------------------------------------------
\* A file the user put there is never taken for a project of the same name: it
\* has no version and no request by project reaches it; and a project has one
\* record, after any order of adoption, installation and removal.
ManualStaysManual ==
  /\ \A k \in DOMAIN entries : entries[k].provider = "manual" <=> entries[k].version = None
  /\ \A j, k \in DOMAIN entries :
       entries[j].provider # "manual" /\ entries[k].provider # "manual"
         /\ entries[j].slug = entries[k].slug => j = k
=============================================================================
