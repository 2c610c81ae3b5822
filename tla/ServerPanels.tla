------------------------------ MODULE ServerPanels ------------------------------
(***************************************************************************)
(* The panels of one server: the worlds (serverWorlds.tsx), the mods and   *)
(* data packs (serverContent.tsx) and the properties, RCON and query       *)
(* (serverAdvanced.tsx).  A panel's controller runs one call at a time, on *)
(* a session of its own and under the lock of the physical server          *)
(* (serverTargetLock.ts), which it shares with the other panels, the       *)
(* operations of serverOperations.tsx, and with controllers that were      *)
(* thrown away while their call goes on.                                   *)
(***************************************************************************)
EXTENDS Naturals

CONSTANTS
  Controllers,   \* controllers; one that is done with is used again
  MaxRevisions,  \* bound on the visits to the server's endpoint
  MaxChanges,    \* bound on the changes of one panel's data
  None

VARIABLES
  rev,      \* ServerController.sourceRevision
  locked,   \* the target is in serverTargetLock's active set
  ctl,      \* ctl[c]: the controller, its snapshot and the call it runs
  op,       \* the operation on the server: start, stop, or none
  running,  \* the server runs
  version   \* version[p]: what the core has for panel p

vars == <<rev, locked, ctl, op, running, version>>

Panels == {"worlds", "content", "advanced"}

\* load and get only read; ask is RCON and query; fresh is a change whose
\* session carries a credential and is not used again.
Kinds(p) ==
  CASE p = "worlds"   -> {"load", "get", "change"}
    [] p = "content"  -> {"load", "change", "fresh"}
    [] p = "advanced" -> {"load", "change", "ask"}

Changes == {"change", "fresh"}

Steps == {"idle", "opening", "manifest", "checking", "acting", "retiring",
          "reopening", "listing", "stating", "closing"}

\* kept: the generation of the call is the controller's; warned: the snapshot
\* has an error or a refreshError.
Blank == [alive |-> FALSE, panel |-> "worlds", scope |-> 0, list |-> None,
          kind |-> "load", step |-> "idle", kept |-> FALSE, warned |-> FALSE]

\* A controller, with the call it runs.
States == [alive : BOOLEAN, panel : Panels, scope : 0..MaxRevisions,
           list : 0..MaxChanges \cup {None},
           kind : {"load", "get", "change", "fresh", "ask"}, step : Steps,
           kept : BOOLEAN, warned : BOOLEAN]

TypeOK ==
  /\ rev \in 1..MaxRevisions /\ {locked, running} \subseteq BOOLEAN
  /\ ctl \in [Controllers -> States]
  /\ op \in [kind : {"start", "stop"}, step : {"idle", "opening", "running", "closing"}]
  /\ version \in [Panels -> 0..MaxChanges]

Init ==
  /\ rev = 1 /\ locked = FALSE /\ running = FALSE
  /\ ctl = [c \in Controllers |-> Blank]
  /\ op = [kind |-> "stop", step |-> "idle"]
  /\ version = [p \in Panels |-> 0]

-----------------------------------------------------------------------------
(* The page                                                                *)

Mount(c) ==
  /\ ctl[c] = Blank
  /\ \E p \in Panels :
       /\ \A d \in Controllers : ctl[d].alive => ctl[d].panel # p
       /\ ctl' = [ctl EXCEPT ![c].alive = TRUE, ![c].panel = p, ![c].scope = rev]
  /\ UNCHANGED <<rev, locked, op, running, version>>

\* The user goes to another endpoint and comes back.
Visit ==
  /\ rev < MaxRevisions /\ rev' = rev + 1
  /\ UNCHANGED <<locked, ctl, op, running, version>>

\* cancel: a new generation and an empty snapshot.  The session is being
\* closed, the call in flight ends when it does.
Emptied(r) == [r EXCEPT !.kept = FALSE, !.list = None, !.warned = FALSE]

\* Slip: the cancelled call gives its lock back at once.
CancelSlip(c) ==
  /\ ctl[c].alive
  /\ ctl' = [ctl EXCEPT ![c] = Emptied(@)]
  /\ locked' = (locked /\ ctl[c].step = "idle")
  /\ UNCHANGED <<rev, op, running, version>>

Cancel(c) ==
  /\ ctl[c].alive
  /\ ctl' = [ctl EXCEPT ![c] = Emptied(@)]
  /\ UNCHANGED <<rev, locked, op, running, version>>

\* The panel goes, or is made anew for another scope: the effect cancels the
\* controller, which nobody can call any more.
Unmount(c) ==
  /\ ctl[c].alive
  /\ ctl' = [ctl EXCEPT ![c] = IF @.step = "idle" THEN Blank
                               ELSE [Emptied(@) EXCEPT !.alive = FALSE]]
  /\ UNCHANGED <<rev, locked, op, running, version>>

-----------------------------------------------------------------------------
(* One call of a controller (run)                                          *)

Current(c) == ctl[c].kept /\ ctl[c].scope = rev

Goto(c, s) == [ctl EXCEPT ![c].step = s]

\* On with an error, which the snapshot of a current call shows.
Fail(c, s) == [Goto(c, s) EXCEPT ![c].warned = @ \/ Current(c)]

Call(c) ==
  /\ ctl[c].alive /\ ctl[c].step = "idle" /\ ctl[c].scope = rev /\ ~locked
  /\ locked' = TRUE
  /\ \E k \in Kinds(ctl[c].panel) :
       ctl' = [ctl EXCEPT ![c].kind = k, ![c].step = "opening", ![c].kept = TRUE,
                          ![c].warned = FALSE]
  /\ UNCHANGED <<rev, op, running, version>>

\* The lock is not to be had: BUSY.
Refused(c) ==
  /\ ctl[c].alive /\ ctl[c].step = "idle" /\ ctl[c].scope = rev /\ locked
  /\ ctl' = [ctl EXCEPT ![c].warned = TRUE]
  /\ UNCHANGED <<rev, locked, op, running, version>>

\* A change asks for the manifest (of content only) and the status first.
First(c) ==
  CASE ctl[c].kind \in Changes /\ ctl[c].panel = "content" -> "manifest"
    [] ctl[c].kind \in Changes /\ ctl[c].panel # "content" -> "checking"
    [] ctl[c].kind = "ask"  -> "checking"
    [] ctl[c].kind = "get"  -> "acting"
    [] ctl[c].kind = "load" -> IF ctl[c].panel = "advanced" THEN "acting" ELSE "listing"

\* refresh empties the lists before it reads them.
Refreshing(s, c, next) ==
  IF s = "listing" THEN [next EXCEPT ![c].list = None] ELSE next

Opened(c) ==
  /\ ctl[c].step = "opening"
  /\ \/ ctl' = IF Current(c) THEN Refreshing(First(c), c, Goto(c, First(c)))
                ELSE Goto(c, "closing")
     \/ ctl' = Fail(c, "closing")  \* no session opens
  /\ UNCHANGED <<rev, locked, op, running, version>>

\* What follows a change that was tried, whether it was made or not: the lists
\* are read again, after a credential on another session.
AfterChangeSlip(c, made) ==
  IF ~Current(c) \/ ctl[c].panel = "advanced" \/ ~made THEN "closing"
  ELSE IF ctl[c].kind = "fresh" THEN "retiring" ELSE "listing"

AfterChange(c, made) ==
  IF ~Current(c) \/ ctl[c].panel = "advanced" THEN "closing"
  ELSE IF ctl[c].kind = "fresh" THEN "retiring" ELSE "listing"

Manifest(c) ==
  /\ ctl[c].step = "manifest"
  /\ \/ ctl' = IF Current(c) THEN Goto(c, "checking") ELSE Goto(c, "closing")
     \/ LET s == AfterChange(c, FALSE) IN ctl' = Refreshing(s, c, Fail(c, s))
  /\ UNCHANGED <<rev, locked, op, running, version>>

\* The status allows it: an answer that says nothing clear does not.
Allows(c) == IF ctl[c].kind = "ask" THEN running ELSE ~running

\* The status on the same session, just before the request.
Checked(c) ==
  /\ ctl[c].step = "checking"
  /\ \/ Current(c) /\ Allows(c) /\ ctl' = Goto(c, "acting")
     \/ LET s == IF ctl[c].kind = "ask" THEN "closing" ELSE AfterChange(c, FALSE)
        IN ctl' = Refreshing(s, c, Fail(c, s))
  /\ UNCHANGED <<rev, locked, op, running, version>>

AfterRequest(c, answered) ==
  IF ctl[c].kind \in Changes THEN AfterChange(c, answered) ELSE "closing"

Went(c, s, answered) == Refreshing(s, c, IF answered THEN Goto(c, s) ELSE Fail(c, s))

\* The properties come with the answer.
ListAfter(c, answered, next) ==
  IF ctl[c].panel = "advanced" /\ Current(c) /\ answered /\ ctl[c].kind # "ask"
  THEN version'[ctl[c].panel] ELSE next[c].list

\* The answer, or the failure, of the request: one that fails may have been
\* carried out.
Acted(c) ==
  /\ ctl[c].step = "acting"
  /\ \E made \in BOOLEAN, answered \in BOOLEAN :
       /\ answered /\ ctl[c].kind \in Changes => made
       /\ made => ctl[c].kind \in Changes /\ version[ctl[c].panel] < MaxChanges
       /\ version' = IF made THEN [version EXCEPT ![ctl[c].panel] = @ + 1] ELSE version
       /\ LET next == Went(c, AfterRequest(c, answered), answered)
          IN ctl' = [next EXCEPT ![c].list = ListAfter(c, answered, next)]
  /\ UNCHANGED <<rev, locked, op, running>>

\* The credential-bearing session was closed; another one is opened to read.
Retired(c) ==
  /\ ctl[c].step = "retiring"
  /\ ctl' = Goto(c, IF Current(c) THEN "reopening" ELSE "closing")
  /\ UNCHANGED <<rev, locked, op, running, version>>

Reopened(c) ==
  /\ ctl[c].step = "reopening"
  /\ \/ ctl' = IF Current(c) THEN Refreshing("listing", c, Goto(c, "listing"))
                ELSE Goto(c, "closing")
     \/ ctl' = Fail(c, "closing")
  /\ UNCHANGED <<rev, locked, op, running, version>>

\* refresh: one read stands for the reads of the lists; then the status.  One
\* that fails leaves its part of the snapshot empty.
Listed(c) ==
  /\ ctl[c].step = "listing"
  /\ \E ok \in BOOLEAN :
       ctl' = [Goto(c, IF Current(c) THEN "stating" ELSE "closing")
                 EXCEPT ![c].list = IF Current(c) /\ ok THEN version[ctl[c].panel] ELSE @,
                        ![c].warned = @ \/ (Current(c) /\ ~ok)]
  /\ UNCHANGED <<rev, locked, op, running, version>>

Stated(c) ==
  /\ ctl[c].step = "stating"
  /\ ctl' = Goto(c, "closing")
  /\ UNCHANGED <<rev, locked, op, running, version>>

\* The session is closed, then the lock released; a call that is over leaves
\* no kind and no generation behind.
Closed(c) ==
  /\ ctl[c].step = "closing"
  /\ locked' = FALSE
  /\ ctl' = [ctl EXCEPT ![c] = IF @.alive
                               THEN [@ EXCEPT !.step = "idle", !.kind = "load", !.kept = FALSE]
                               ELSE Blank]
  /\ UNCHANGED <<rev, op, running, version>>

-----------------------------------------------------------------------------
(* The operations on the server, and the server                            *)

Operate(k) ==
  /\ op.step = "idle" /\ ~locked
  /\ locked' = TRUE /\ op' = [kind |-> k, step |-> "opening"]
  /\ UNCHANGED <<rev, ctl, running, version>>

\* Its scope may be found to be no longer current; the session is closed.
OperationOpened ==
  /\ op.step = "opening"
  /\ op' \in {[op EXCEPT !.step = s] : s \in {"running", "closing"}}
  /\ UNCHANGED <<rev, locked, ctl, running, version>>

\* Done, refused, or done with its answer lost.
OperationDone ==
  /\ op.step = "running"
  /\ running' \in {running, op.kind = "start"}
  /\ op' = [op EXCEPT !.step = "closing"]
  /\ UNCHANGED <<rev, locked, ctl, version>>

OperationClosed ==
  /\ op.step = "closing"
  /\ op' = [kind |-> "stop", step |-> "idle"]
  /\ locked' = FALSE
  /\ UNCHANGED <<rev, ctl, running, version>>

\* The server ends by itself.
Halt ==
  /\ running /\ running' = FALSE
  /\ UNCHANGED <<rev, locked, ctl, op, version>>

Next ==
  \/ Visit \/ OperationOpened \/ OperationDone \/ OperationClosed \/ Halt
  \/ \E k \in {"start", "stop"} : Operate(k)
  \/ \E c \in Controllers :
       \/ Mount(c) \/ Cancel(c) \/ Unmount(c) \/ Call(c) \/ Refused(c) \/ Opened(c) \/ Manifest(c)
       \/ Checked(c) \/ Acted(c) \/ Retired(c) \/ Reopened(c) \/ Listed(c)
       \/ Stated(c) \/ Closed(c)

Spec == Init /\ [][Next]_vars

-----------------------------------------------------------------------------
(* Properties                                                              *)

\* While a change of the worlds, the content or the properties is at the core,
\* this program neither runs nor starts the server, and makes no other change:
\* the status that allowed the change holds to its end, whatever was cancelled,
\* unmounted or visited meanwhile.
ChangedWhileStopped ==
  \A c \in Controllers :
    ctl[c].step = "acting" /\ ctl[c].kind \in Changes =>
      /\ ~running /\ op.step = "idle"
      /\ \A d \in Controllers \ {c} : ctl[d].step = "idle"

\* A list of worlds or content that a panel shows with no call under way and no
\* error is the one the core has, after changes that failed half-way as well.
ShownIsCurrent ==
  \A c \in Controllers :
    LET r == ctl[c]
    IN r.alive /\ r.scope = rev /\ r.step = "idle" /\ r.list # None
            /\ ~r.warned /\ r.panel # "advanced"
         => r.list = version[r.panel]
=============================================================================
