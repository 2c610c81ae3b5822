---------------------------- MODULE ContentSearch ----------------------------
(***************************************************************************)
(* The catalog dialog, ContentSearchDialog.tsx: the search, the versions   *)
(* of the project that is opened, and the install of one of them.          *)
(*                                                                         *)
(* Every search and every list of versions is a request of an effect; when *)
(* what the effect depends on changes, the request in flight is no longer  *)
(* the current one, and its answer must not be shown.                      *)
(***************************************************************************)
EXTENDS Naturals, FiniteSets

CONSTANTS
  Projects,  \* projects of either catalog
  Providers, \* Modrinth and CurseForge
  Queries,   \* what the user may type
  Versions,  \* numbers of a project's versions
  MaxCalls,  \* bound: requests to a catalog in flight
  None

VARIABLES
  dialog,   \* what the dialog shows
  calls,    \* requests to the catalogs in flight
  current,  \* the one whose effect is still in force, or None
  install,  \* the install: step and what it installs
  installed \* project -> the version registered for it, or None

vars == <<dialog, calls, current, install, installed>>

Asks == [kind : {"search"}, provider : Providers, of : Queries]
          \cup [kind : {"versions"}, provider : Providers, of : Projects]
NoInstall == [step |-> "none", project |-> None, version |-> None, how |-> None]

TypeOK ==
  /\ dialog \in [open : BOOLEAN, provider : Providers, query : Queries,
                 detail : Projects \cup {None}, results : Asks \cup {None},
                 searching : BOOLEAN, versions : Asks \cup {None}, error : BOOLEAN]
  /\ calls \in SUBSET (Asks \X BOOLEAN)
  /\ current \in Asks \cup {None}
  /\ install \in [step : {"opening", "core"}, project : Projects, version : Versions,
                  how : {"install", "set-version", "nothing"}] \cup {NoInstall}
  /\ installed \in [Projects -> Versions \cup {None}]

Init ==
  /\ \E p \in Providers, q \in Queries :
       dialog = [open |-> FALSE, provider |-> p, query |-> q, detail |-> None, results |-> None,
                 searching |-> FALSE, versions |-> None, error |-> FALSE]
  /\ calls = {} /\ current = None
  /\ install = NoInstall
  /\ installed = [p \in Projects |-> None]

-----------------------------------------------------------------------------
\* What the effects ask for when the dialog shows d.
Asked(d) ==
  IF ~d.open THEN None
  ELSE IF d.detail = None THEN [kind |-> "search", provider |-> d.provider, of |-> d.query]
  ELSE [kind |-> "versions", provider |-> d.provider, of |-> d.detail]

\* What an effect sets when it starts.
Starting(d) ==
  IF d.detail = None THEN [d EXCEPT !.searching = TRUE, !.error = FALSE]
  ELSE [d EXCEPT !.versions = None, !.error = FALSE]

\* Slip: the effect that ends does not disown its request.
DisownedSlip == calls

\* The clean-up of the effects: no request in flight is current any more.
Disowned == {<<c[1], FALSE>> : c \in calls}

\* The dialog shows d from now on: the old effect ends, the new one starts.
Becomes(d) ==
  LET ask == Asked(d)
  IN /\ Cardinality(calls) < MaxCalls
     /\ current' = ask
     /\ IF ask = None THEN dialog' = d /\ calls' = Disowned
        ELSE dialog' = Starting(d) /\ calls' = Disowned \cup {<<ask, TRUE>>}
     /\ UNCHANGED <<install, installed>>

Open == ~dialog.open /\ Becomes([dialog EXCEPT !.open = TRUE, !.detail = None])

\* Not while an install runs.
Close == dialog.open /\ install.step = "none" /\ Becomes([dialog EXCEPT !.open = FALSE])

Type(q) ==
  /\ dialog.open /\ dialog.detail = None /\ q # dialog.query
  /\ Becomes([dialog EXCEPT !.query = q])

ChooseProvider(p) ==
  /\ dialog.open /\ install.step = "none" /\ p # dialog.provider
  /\ Becomes([dialog EXCEPT !.provider = p, !.detail = None, !.results = None, !.versions = None])

\* A result is opened; results of the last search are shown while one runs.
OpenProject(p) ==
  /\ dialog.open /\ dialog.detail = None /\ dialog.results # None /\ ~dialog.error
  /\ Becomes([dialog EXCEPT !.detail = p])

Back ==
  /\ dialog.open /\ dialog.detail # None /\ install.step = "none"
  /\ Becomes([dialog EXCEPT !.detail = None])

\* A catalog answers.  Only the current request's answer is shown.
Answer(c) ==
  /\ c \in calls /\ calls' = calls \ {c}
  /\ dialog' \in
       IF ~c[2] THEN {dialog}
       ELSE IF c[1].kind = "search"
       THEN {[dialog EXCEPT !.results = c[1], !.searching = FALSE],
             [dialog EXCEPT !.error = TRUE, !.searching = FALSE]}
       ELSE {[dialog EXCEPT !.versions = c[1]], [dialog EXCEPT !.error = TRUE]}
  /\ UNCHANGED <<current, install, installed>>

-----------------------------------------------------------------------------
\* install: a project that is registered gets another version, one that is
\* not is installed, and the version it has is left alone.
How(p, v) ==
  IF installed[p] = None THEN "install"
  ELSE IF installed[p] = v THEN "nothing" ELSE "set-version"

Install(v) ==
  /\ dialog.open /\ dialog.detail # None /\ dialog.versions # None /\ ~dialog.error
  /\ install.step = "none" /\ How(dialog.detail, v) # "nothing"
  /\ install' = [step |-> "opening", project |-> dialog.detail, version |-> v,
                 how |-> How(dialog.detail, v)]
  /\ UNCHANGED <<dialog, calls, current, installed>>

\* The dedicated session is open, or cannot be opened.
SessionOpened ==
  /\ install.step = "opening"
  /\ install' \in {[install EXCEPT !.step = "core"], NoInstall}
  /\ UNCHANGED <<dialog, calls, current, installed>>

\* The core is done, the panel reads its list, the session is closed.
Installed ==
  /\ install.step = "core" /\ install' = NoInstall
  /\ installed' \in {installed, [installed EXCEPT ![install.project] = install.version]}
  /\ UNCHANGED <<dialog, calls, current>>

Next ==
  \/ Open \/ Close \/ Back \/ SessionOpened \/ Installed
  \/ \E q \in Queries : Type(q)
  \/ \E p \in Providers : ChooseProvider(p)
  \/ \E p \in Projects : OpenProject(p)
  \/ \E c \in calls : Answer(c)
  \/ \E v \in Versions : Install(v)

Spec == Init /\ [][Next]_vars

-----------------------------------------------------------------------------
\* What the dialog offers is what it asked for last: the versions shown, and
\* installable, are of the open project in the chosen catalog, and results
\* shown at rest answer the query as typed, whatever order answers come in.
OffersWhatWasAsked ==
  dialog.open =>
    /\ dialog.detail # None => dialog.versions \in {None, Asked(dialog)}
    /\ (dialog.detail = None /\ ~dialog.searching /\ ~dialog.error)
         => dialog.results = Asked(dialog)
=============================================================================
