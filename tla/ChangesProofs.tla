---------------------------- MODULE ChangesProofs ----------------------------
(***************************************************************************)
(* What the parts of Changes promise, proved for every value of their      *)
(* constants.  Each part has an invariant of its own; those of the pack    *)
(* and shader activation and of the endpoint configuration are in modules  *)
(* of their own, the others follow here.  Since one part moves and the     *)
(* others rest, the invariant of the sum is that of the part that moves.   *)
(***************************************************************************)
EXTENDS Changes, FiniteSetTheorems, TLAPS

-----------------------------------------------------------------------------
(***************************************************************************)
(* The updater.  A snapshot that offers to go on is of the version that    *)
(* the bridge has, as long as no other command that could replace it is    *)
(* on its way (UpdatePageInv): the page sends one command at a time, and a *)
(* command that the bridge has admitted keeps the others out.              *)
(***************************************************************************)

UpdateDataOK == None \notin Versions \cup Updates

Natives == [phase : Update!Phases, version : Update!Offers, update : Update!Offers, bytes : Update!Offers,
            lock : Updates \cup {None}]
UpdateInvocations == [pc : {"idle", "sent", "running", "answer"}, act : Update!Actions,
                seen : Update!Offers, result : Update!Snapshots \cup {None}]
Pages == [snapshot : Update!Snapshots, pending : Updates \cup {None}, failed : BOOLEAN,
          asked : Update!Actions \cup {None}, about : Update!Snapshots]
Reads == [pc : {"none", "asked", "ok", "failed"}, snapshot : Update!Snapshots]

\* Each phase has what its next step needs and nothing left over.
Fits(n) ==
  /\ n.phase \in {"available", "downloading"} => n.update = n.version /\ n.update # None
  /\ n.phase = "downloaded" => n.update = n.version /\ n.bytes = n.version
  /\ n.phase \in {"idle", "checking", "current", "error", "installing", "installed"}
       => n.update = None /\ n.bytes = None

UpdateSent(c) == update_calls[c].pc = "sent"
UpdateRunning(c) == update_calls[c].pc = "running"

\* No check can replace the version v, which the bridge has or has given up.
Keeps(v) ==
  /\ \A c \in Updates : UpdateRunning(c) => update_calls[c].act # "check"
  /\ update_native.version \in {v, None}

\* What a snapshot of an update that can go on still says of the bridge.
Knows(s) == s.phase \in {"available", "downloaded"} =>
  /\ Keeps(s.version)
  /\ \A c \in Updates : UpdateSent(c) /\ update_calls[c].act = "check" => Update!Snapshot(update_native) = s

UpdateLockInv ==
  /\ (update_native.phase \in Update!Long) = (update_native.lock # None)
  /\ \A c \in Updates : UpdateRunning(c) =>
       /\ update_native.lock = c
       /\ <<update_calls[c].act, update_native.phase>> \in
            {<<"check", "checking">>, <<"download", "downloading">>, <<"install", "installing">>}

UpdateCallInv ==
  /\ \A c, d \in Updates : UpdateSent(c) /\ UpdateSent(d) => c = d
  /\ \A c \in Updates : update_calls[c].act \in {"download", "install"} =>
       /\ UpdateRunning(c) => update_native.version = update_calls[c].seen
       /\ UpdateSent(c) => Keeps(update_calls[c].seen)

\* The page waits for one call: no other is on its way, and its answer is of
\* the bridge as it is.
UpdatePageInv ==
  /\ Knows(update_page.snapshot)
  /\ update_read.pc = "ok" => Knows(update_read.snapshot)
  /\ update_page.pending # None =>
       /\ update_calls[update_page.pending].pc # "idle"
       /\ \A c \in Updates : UpdateSent(c) => c = update_page.pending
       /\ update_calls[update_page.pending].pc = "answer" /\ update_calls[update_page.pending].result # None =>
            /\ \A c \in Updates : ~UpdateRunning(c)
            /\ Update!Snapshot(update_native) = update_calls[update_page.pending].result

UpdateIInv == Update!TypeOK /\ Fits(update_native) /\ UpdateLockInv /\ UpdateCallInv /\ UpdatePageInv

-----------------------------------------------------------------------------
LEMMA UpdateTyped == Update!TypeOK <=> /\ update_native \in Natives /\ update_calls \in [Updates -> UpdateInvocations]
                                       /\ update_page \in Pages /\ update_read \in Reads
BY DEF Update!TypeOK, Natives, UpdateInvocations, Pages, Reads

LEMMA Constants ==
  /\ Update!Unknown \in Update!Snapshots /\ Update!Fresh \in Pages /\ Update!NoRead \in Reads /\ Update!Idle \in UpdateInvocations
  /\ Update!Fresh.pending = None /\ Update!Fresh.snapshot.phase = "unconfigured" /\ Update!NoRead.pc = "none"
  /\ Update!Idle.pc = "idle"
<1>1. Update!Unknown \in Update!Snapshots /\ Update!Unknown.phase = "unconfigured"
  BY DEF Update!Unknown, Update!Snapshots, Update!Phases, Update!Offers
<1>2. Update!Fresh \in Pages /\ Update!Fresh.pending = None /\ Update!Fresh.snapshot = Update!Unknown
  BY <1>1 DEF Update!Fresh, Pages
<1>3. Update!NoRead \in Reads /\ Update!NoRead.pc = "none"
  BY <1>1 DEF Update!NoRead, Reads
<1>4. Update!Idle \in UpdateInvocations /\ Update!Idle.pc = "idle"
  BY DEF Update!Idle, UpdateInvocations, Update!Actions, Update!Offers
<1> QED BY <1>1, <1>2, <1>3, <1>4

LEMMA SnapshotType == ASSUME NEW n \in Natives
  PROVE Update!Snapshot(n) \in Update!Snapshots /\ Update!Snapshot(n).phase = n.phase /\ Update!Snapshot(n).version = n.version
BY DEF Natives, Update!Snapshot, Update!Snapshots

LEMMA UpdateInitInv == ASSUME UpdateDataOK PROVE Update!Init => UpdateIInv
<1> SUFFICES ASSUME Update!Init PROVE UpdateIInv
  OBVIOUS
<1>1. update_native \in Natives /\ update_native.phase \in {"idle", "unconfigured"} /\ update_native.lock = None
      /\ update_native.update = None /\ update_native.bytes = None
  BY DEF Update!Init, Natives, Update!Phases, Update!Offers
<1>2. update_calls \in [Updates -> UpdateInvocations] /\ \A c \in Updates : update_calls[c].pc = "idle"
  BY Constants DEF Update!Init
<1>3. update_page = Update!Fresh /\ update_read = Update!NoRead
  BY DEF Update!Init
<1>4. Update!TypeOK
  BY <1>1, <1>2, <1>3, UpdateTyped, Constants
<1>5. Fits(update_native) /\ UpdateLockInv
  BY <1>1, <1>2 DEF Fits, UpdateLockInv, Update!Long, UpdateRunning
<1>6. UpdateCallInv
  BY <1>2 DEF UpdateCallInv, UpdateSent, UpdateRunning
<1>7. UpdatePageInv
  BY <1>3, Constants DEF UpdatePageInv, Knows
<1> QED BY <1>4, <1>5, <1>6, <1>7 DEF UpdateIInv

-----------------------------------------------------------------------------
(* The bridge.                                                             *)

LEMMA WithoutFacts ==
  ASSUME UpdateDataOK, update_native \in Natives, NEW phase \in {"idle", "error"}
  PROVE  LET n == Update!Without(update_native, phase)
         IN n \in Natives /\ n.phase = phase /\ n.version = None /\ Fits(n)
BY DEF Update!Without, Natives, Fits, Update!Phases, Update!Offers

LEMMA EnteredFacts ==
  ASSUME UpdateDataOK, update_native \in Natives, Fits(update_native), NEW act \in Update!Actions,
         Update!Allowed(update_native.phase, act), NEW n \in Update!Entered(act)
  PROVE  /\ n \in Natives /\ Fits(n) /\ n.version \in {update_native.version, None}
         /\ n.phase \in Update!Long =>
              /\ <<act, n.phase>> \in {<<"check", "checking">>, <<"download", "downloading">>,
                                       <<"install", "installing">>}
              /\ act # "check" => n.version = update_native.version /\ n.version # None
<1> USE DEF Update!Long
<1>1. CASE act = "check"
  <2>1. n = [update_native EXCEPT !.update = None, !.bytes = None, !.phase = "checking"]
    BY <1>1 DEF Update!Entered
  <2>2. n \in Natives /\ n.phase = "checking" /\ n.version = update_native.version
        /\ n.update = None /\ n.bytes = None
    BY <2>1 DEF Natives, Update!Phases, Update!Offers
  <2> QED BY <1>1, <2>2 DEF Fits
<1>2. CASE act = "download"
  <2>1. update_native.phase = "available"
    BY <1>2 DEF Update!Allowed
  <2>2. update_native.update # None /\ n = [update_native EXCEPT !.phase = "downloading"]
    BY <1>2, <2>1 DEF Update!Entered, Fits
  <2>3. n \in Natives /\ n.phase = "downloading" /\ n.version = update_native.version
        /\ n.update = update_native.update
    BY <2>2 DEF Natives, Update!Phases
  <2> QED BY <1>2, <2>1, <2>3 DEF Fits
<1>3. CASE act = "install"
  <2>1. update_native.phase = "downloaded"
    BY <1>3 DEF Update!Allowed
  <2>2. CASE n = Update!Without(update_native, "error")
    BY <2>2, WithoutFacts
  <2>3. CASE n # Update!Without(update_native, "error")
    <3>1. update_native.update # None
          /\ n = [update_native EXCEPT !.update = None, !.bytes = None, !.phase = "installing"]
      BY <1>3, <2>3 DEF Update!Entered
    <3>2. n \in Natives /\ n.phase = "installing" /\ n.version = update_native.version
          /\ n.update = None /\ n.bytes = None
      BY <3>1 DEF Natives, Update!Phases, Update!Offers
    <3> QED BY <1>3, <2>1, <3>1, <3>2 DEF Fits
  <2> QED BY <2>2, <2>3
<1>4. CASE act = "discard"
  <2>1. n = Update!Without(update_native, "idle")
    BY <1>4 DEF Update!Entered
  <2> QED BY <2>1, WithoutFacts
<1>5. CASE act = "restart"
  <2>1. n = [update_native EXCEPT !.phase = "ended"]
    BY <1>5 DEF Update!Entered
  <2>2. n \in Natives /\ n.phase = "ended" /\ n.version = update_native.version
    BY <2>1 DEF Natives, Update!Phases
  <2> QED BY <2>2 DEF Fits
<1> QED BY <1>1, <1>2, <1>3, <1>4, <1>5 DEF Update!Actions

LEMMA LeftFacts ==
  ASSUME UpdateDataOK, update_native \in Natives, Fits(update_native), NEW act, NEW n \in Update!Left(act),
         <<act, update_native.phase>> \in {<<"check", "checking">>, <<"download", "downloading">>,
                                    <<"install", "installing">>}
  PROVE  /\ n \in Natives /\ Fits(n) /\ n.phase \notin Update!Long
         /\ act # "check" => n.version \in {update_native.version, None}
<1> USE DEF Update!Long
<1>1. CASE n = Update!Without(update_native, "error")
  BY <1>1, WithoutFacts
<1>2. CASE n # Update!Without(update_native, "error") /\ act = "check"
  <2>1. update_native.phase = "checking" /\ update_native.update = None /\ update_native.bytes = None
    BY <1>2 DEF Fits
  <2>2. CASE n = [update_native EXCEPT !.phase = "current", !.version = None]
    <3>1. n \in Natives /\ n.phase = "current" /\ n.update = None /\ n.bytes = None
      BY <2>1, <2>2 DEF Natives, Update!Phases, Update!Offers
    <3> QED BY <1>2, <3>1 DEF Fits
  <2>3. ASSUME NEW v \in Versions,
               n = [update_native EXCEPT !.phase = "available", !.version = v, !.update = v]
        PROVE  n \in Natives /\ Fits(n) /\ n.phase \notin Update!Long
    <3>1. n \in Natives /\ n.phase = "available" /\ n.update = v /\ n.version = v /\ v # None
      BY <2>3 DEF Natives, Update!Phases, Update!Offers, UpdateDataOK
    <3> QED BY <3>1 DEF Fits
  <2>4. \/ n = [update_native EXCEPT !.phase = "current", !.version = None]
        \/ \E v \in Versions : n = [update_native EXCEPT !.phase = "available", !.version = v, !.update = v]
    BY <1>2 DEF Update!Left
  <2> QED BY <1>2, <2>2, <2>3, <2>4
<1>3. CASE n # Update!Without(update_native, "error") /\ act = "download"
  <2>1. update_native.phase = "downloading" /\ n = [update_native EXCEPT !.phase = "downloaded", !.bytes = update_native.update]
    BY <1>3 DEF Update!Left
  <2>2. n \in Natives /\ n.phase = "downloaded" /\ n.version = update_native.version
        /\ n.update = update_native.update /\ n.bytes = update_native.update
    BY <2>1 DEF Natives, Update!Phases, Update!Offers
  <2> QED BY <2>1, <2>2 DEF Fits
<1>4. CASE n # Update!Without(update_native, "error") /\ act = "install"
  <2>1. update_native.phase = "installing" /\ update_native.update = None /\ update_native.bytes = None
    BY <1>4 DEF Fits
  <2>2. PICK p \in {"installed", "ended"} : n = [update_native EXCEPT !.phase = p]
    BY <1>4 DEF Update!Left
  <2>3. n \in Natives /\ n.phase = p /\ n.version = update_native.version
        /\ n.update = None /\ n.bytes = None
    BY <2>1, <2>2 DEF Natives, Update!Phases
  <2> QED BY <2>3 DEF Fits
<1> QED BY <1>1, <1>2, <1>3, <1>4

\* The lock is set or freed, the rest stays.
LEMMA Locked ==
  ASSUME NEW n \in Natives, NEW l \in Updates \cup {None}, Fits(n)
  PROVE  LET m == [n EXCEPT !.lock = l]
         IN /\ m \in Natives /\ Fits(m) /\ m.lock = l
            /\ m.phase = n.phase /\ m.version = n.version
            /\ Update!Snapshot(m) = Update!Snapshot(n)
BY DEF Natives, Fits, Update!Snapshot

\* One call changes its step and its result.
LEMMA CallStep ==
  ASSUME update_calls \in [Updates -> UpdateInvocations], NEW c \in Updates,
         NEW result \in Update!Snapshots \cup {None},
         \/ update_calls' = [update_calls EXCEPT ![c].pc = "running"]
         \/ update_calls' = [update_calls EXCEPT ![c].pc = "answer", ![c].result = result]
  PROVE  /\ update_calls' \in [Updates -> UpdateInvocations]
         /\ update_calls'[c].act = update_calls[c].act /\ update_calls'[c].seen = update_calls[c].seen
         /\ \A d \in Updates \ {c} : update_calls'[d] = update_calls[d]
         /\ update_calls' = [update_calls EXCEPT ![c].pc = "running"] => update_calls'[c].pc = "running"
         /\ update_calls' = [update_calls EXCEPT ![c].pc = "answer", ![c].result = result] =>
              update_calls'[c].pc = "answer" /\ update_calls'[c].result = result
<1> DEFINE r == [update_calls[c] EXCEPT !.pc = "running"]
           a == [update_calls[c] EXCEPT !.pc = "answer", !.result = result]
<1>0. update_calls[c] \in UpdateInvocations
  OBVIOUS
<1>1. r \in UpdateInvocations /\ r.pc = "running" /\ r.act = update_calls[c].act /\ r.seen = update_calls[c].seen
  BY <1>0 DEF UpdateInvocations
<1>2. a \in UpdateInvocations /\ a.pc = "answer" /\ a.result = result
      /\ a.act = update_calls[c].act /\ a.seen = update_calls[c].seen
  BY <1>0 DEF UpdateInvocations
<1>3. update_calls' = [update_calls EXCEPT ![c].pc = "running"] => update_calls' = [update_calls EXCEPT ![c] = r]
  OBVIOUS
<1>4. update_calls' = [update_calls EXCEPT ![c].pc = "answer", ![c].result = result] =>
        update_calls' = [update_calls EXCEPT ![c] = a]
  OBVIOUS
<1> HIDE DEF r, a
<1> QED BY <1>1, <1>2, <1>3, <1>4

LEMMA RefusedInv == ASSUME UpdateDataOK, UpdateIInv, NEW c \in Updates, Update!Refused(c) PROVE UpdateIInv'
<1>1. UpdateSent(c) /\ UNCHANGED <<update_native, update_page, update_read>>
      /\ update_calls' = [update_calls EXCEPT ![c].pc = "answer", ![c].result = None]
  BY DEF Update!Refused, Update!Answer, UpdateSent
<1>2. update_calls \in [Updates -> UpdateInvocations]
  BY UpdateTyped DEF UpdateIInv
<1>3. update_calls' \in [Updates -> UpdateInvocations] /\ update_calls'[c].pc = "answer" /\ update_calls'[c].result = None
      /\ \A d \in Updates \ {c} : update_calls'[d] = update_calls[d]
  BY <1>1, <1>2, CallStep
<1>4. Update!TypeOK'
  BY <1>1, <1>3 DEF UpdateIInv, Update!TypeOK, UpdateInvocations
<1>5. Fits(update_native)' /\ UpdateLockInv'
  BY <1>1, <1>3 DEF UpdateIInv, Fits, UpdateLockInv, UpdateRunning
<1>6. UpdateCallInv'
  BY <1>1, <1>3 DEF UpdateIInv, UpdateCallInv, UpdateSent, UpdateRunning, Keeps
<1>7. UpdatePageInv'
  BY <1>1, <1>3 DEF UpdateIInv, UpdatePageInv, Knows, UpdateSent, UpdateRunning, Keeps
<1> QED BY <1>4, <1>5, <1>6, <1>7 DEF UpdateIInv

LEMMA UpdateBeginInv == ASSUME UpdateDataOK, UpdateIInv, NEW c \in Updates, Update!Begin(c) PROVE UpdateIInv'
<1> DEFINE act == update_calls[c].act
<1>1. /\ update_native \in Natives /\ update_calls \in [Updates -> UpdateInvocations] /\ act \in Update!Actions
      /\ Fits(update_native)
  BY UpdateTyped DEF UpdateIInv, UpdateInvocations
<1>2. UpdateSent(c) /\ update_native.lock = None /\ Update!Allowed(update_native.phase, act) /\ UNCHANGED <<update_page, update_read>>
  BY DEF Update!Begin, UpdateSent
<1>3. PICK n \in Update!Entered(act) :
        /\ update_native' = [n EXCEPT !.lock = IF n.phase \in Update!Long THEN c ELSE None]
        /\ IF n.phase \in Update!Long THEN update_calls' = [update_calls EXCEPT ![c].pc = "running"]
           ELSE Update!Answer(c, Update!Snapshot(n))
  BY DEF Update!Begin
<1>4. /\ n \in Natives /\ Fits(n) /\ n.version \in {update_native.version, None}
      /\ n.phase \in Update!Long =>
           /\ <<act, n.phase>> \in {<<"check", "checking">>, <<"download", "downloading">>,
                                    <<"install", "installing">>}
           /\ act # "check" => n.version = update_native.version /\ n.version # None
  BY <1>1, <1>2, EnteredFacts
<1>5. Update!Snapshot(n) \in Update!Snapshots
  BY <1>4, SnapshotType
<1>6. /\ update_native' \in Natives /\ Fits(update_native') /\ update_native'.phase = n.phase
      /\ update_native'.lock = (IF n.phase \in Update!Long THEN c ELSE None)
      /\ update_native'.version = n.version /\ Update!Snapshot(update_native') = Update!Snapshot(n)
  BY <1>3, <1>4, Locked
<1>7. /\ update_calls' \in [Updates -> UpdateInvocations]
      /\ update_calls'[c].act = act /\ update_calls'[c].seen = update_calls[c].seen
      /\ \A d \in Updates \ {c} : update_calls'[d] = update_calls[d]
      /\ n.phase \in Update!Long => update_calls'[c].pc = "running"
      /\ n.phase \notin Update!Long => update_calls'[c].pc = "answer" /\ update_calls'[c].result = Update!Snapshot(n)
  BY <1>1, <1>3, <1>5, CallStep DEF Update!Answer
<1>8. \A d \in Updates : ~UpdateRunning(d)
  BY <1>2 DEF UpdateIInv, UpdateLockInv, UpdateDataOK
<1>9. \A d \in Updates : UpdateSent(d) => d = c
  BY <1>2 DEF UpdateIInv, UpdateCallInv
<1>10. \A d \in Updates : ~UpdateSent(d)' /\ (UpdateRunning(d)' => d = c /\ n.phase \in Update!Long)
  BY <1>7, <1>8, <1>9 DEF UpdateSent, UpdateRunning
<1>11. Update!TypeOK'
  BY <1>2, <1>6, <1>7 DEF UpdateIInv, Update!TypeOK, Natives, UpdateInvocations
<1>12. Fits(update_native)'
  BY <1>6 DEF Fits
<1>13. UpdateLockInv'
  BY <1>4, <1>6, <1>7, <1>10 DEF UpdateLockInv, UpdateDataOK
<1>14. ASSUME NEW v, Keeps(v), act # "check" PROVE Keeps(v)'
  BY <1>4, <1>6, <1>7, <1>10, <1>14 DEF Keeps
<1>15. UpdateCallInv'
  <2>1. UpdateRunning(c)' /\ act \in {"download", "install"} => update_native'.version = update_calls[c].seen
    <3> SUFFICES ASSUME UpdateRunning(c)', act \in {"download", "install"}
                 PROVE  update_native'.version = update_calls[c].seen
      OBVIOUS
    <3>1. Keeps(update_calls[c].seen)
      BY <1>2 DEF UpdateIInv, UpdateCallInv
    <3> QED BY <1>4, <1>6, <1>10, <3>1 DEF Keeps
  <2> QED BY <1>7, <1>10, <2>1 DEF UpdateCallInv
<1>16. ASSUME NEW s, Knows(s) PROVE Knows(s)'
  <2> SUFFICES ASSUME s.phase \in {"available", "downloaded"}
               PROVE  Keeps(s.version)' /\ \A d \in Updates : ~UpdateSent(d)'
    BY DEF Knows
  <2>1. Keeps(s.version) /\ (act = "check" => Update!Snapshot(update_native) = s)
    BY <1>2, <1>16 DEF Knows
  <2>2. act # "check"
    <3> SUFFICES ASSUME act = "check" PROVE FALSE
      OBVIOUS
    <3>1. update_native.phase \in {"available", "downloaded"}
      BY <1>1, <2>1, SnapshotType
    <3> QED BY <1>2, <3>1 DEF Update!Allowed
  <2> QED BY <1>10, <1>14, <2>1, <2>2
<1>17. UpdatePageInv'
  <2>1. Knows(update_page.snapshot)' /\ (update_read'.pc = "ok" => Knows(update_read.snapshot)')
    <3>1. Knows(update_page.snapshot) /\ (update_read.pc = "ok" => Knows(update_read.snapshot))
      BY DEF UpdateIInv, UpdatePageInv
    <3> QED BY <1>2, <1>16, <3>1
  <2>2. ASSUME update_page.pending # None
        PROVE  /\ update_calls'[update_page.pending].pc # "idle"
               /\ update_calls'[update_page.pending].pc = "answer" /\ update_calls'[update_page.pending].result # None =>
                    /\ \A d \in Updates : ~UpdateRunning(d)'
                    /\ Update!Snapshot(update_native') = update_calls'[update_page.pending].result
    <3>1. update_page.pending = c
      BY <1>2, <2>2 DEF UpdateIInv, UpdatePageInv
    <3> QED BY <1>6, <1>7, <1>10, <3>1
  <2> QED BY <1>2, <1>10, <2>1, <2>2 DEF UpdatePageInv, Knows, Keeps
<1> QED BY <1>11, <1>12, <1>13, <1>15, <1>17 DEF UpdateIInv

LEMMA UpdateEndInv == ASSUME UpdateDataOK, UpdateIInv, NEW c \in Updates, Update!End(c) PROVE UpdateIInv'
<1> DEFINE act == update_calls[c].act
<1>1. update_native \in Natives /\ update_calls \in [Updates -> UpdateInvocations] /\ Fits(update_native)
  BY UpdateTyped DEF UpdateIInv
<1>2. UpdateRunning(c) /\ UNCHANGED <<update_page, update_read>>
  BY DEF Update!End, UpdateRunning
<1>3. PICK n \in Update!Left(act) : update_native' = [n EXCEPT !.lock = None] /\ Update!Answer(c, Update!Snapshot(n))
  BY DEF Update!End
<1>4. update_native.lock = c /\ <<act, update_native.phase>> \in
        {<<"check", "checking">>, <<"download", "downloading">>, <<"install", "installing">>}
  BY <1>2 DEF UpdateIInv, UpdateLockInv
<1>5. /\ n \in Natives /\ Fits(n) /\ n.phase \notin Update!Long
      /\ act # "check" => n.version \in {update_native.version, None}
  BY <1>1, <1>4, LeftFacts
<1>6. Update!Snapshot(n) \in Update!Snapshots
  BY <1>5, SnapshotType
<1>7. /\ update_native' \in Natives /\ Fits(update_native') /\ update_native'.phase = n.phase
      /\ update_native'.lock = None /\ update_native'.version = n.version /\ Update!Snapshot(update_native') = Update!Snapshot(n)
  BY <1>3, <1>5, Locked
<1>8. /\ update_calls' \in [Updates -> UpdateInvocations]
      /\ update_calls'[c].pc = "answer" /\ update_calls'[c].result = Update!Snapshot(n)
      /\ \A d \in Updates \ {c} : update_calls'[d] = update_calls[d]
  BY <1>1, <1>3, <1>6, CallStep DEF Update!Answer
<1>9. \A d \in Updates : UpdateRunning(d) => d = c
  BY <1>4 DEF UpdateIInv, UpdateLockInv
<1>10. \A d \in Updates : ~UpdateRunning(d)' /\ (UpdateSent(d)' => d # c /\ UpdateSent(d) /\ update_calls'[d] = update_calls[d])
  BY <1>8, <1>9 DEF UpdateSent, UpdateRunning
<1>11. Update!TypeOK'
  BY <1>2, <1>7, <1>8 DEF UpdateIInv, Update!TypeOK, Natives, UpdateInvocations
<1>12. Fits(update_native)'
  BY <1>7 DEF Fits
<1>13. UpdateLockInv'
  BY <1>5, <1>7, <1>10 DEF UpdateLockInv
<1>14. ASSUME NEW v, Keeps(v) PROVE Keeps(v)'
  BY <1>2, <1>5, <1>7, <1>10, <1>14 DEF Keeps
<1>15. UpdateCallInv'
  BY <1>10, <1>14 DEF UpdateIInv, UpdateCallInv
<1>16. ASSUME NEW s, Knows(s) PROVE Knows(s)'
  <2> SUFFICES ASSUME s.phase \in {"available", "downloaded"}
               PROVE  Keeps(s.version)' /\ \A d \in Updates : UpdateSent(d) => update_calls[d].act # "check"
    BY <1>10 DEF Knows
  <2>1. Update!Snapshot(update_native) # s
    <3> SUFFICES ASSUME Update!Snapshot(update_native) = s PROVE FALSE
      OBVIOUS
    <3>1. update_native.phase \in {"available", "downloaded"}
      BY <1>1, SnapshotType
    <3> QED BY <1>4, <3>1
  <2> QED BY <1>14, <1>16, <2>1 DEF Knows
<1>17. UpdatePageInv'
  <2>1. Knows(update_page.snapshot)' /\ (update_read'.pc = "ok" => Knows(update_read.snapshot)')
    <3>1. Knows(update_page.snapshot) /\ (update_read.pc = "ok" => Knows(update_read.snapshot))
      BY DEF UpdateIInv, UpdatePageInv
    <3> QED BY <1>2, <1>16, <3>1
  <2>2. ASSUME update_page.pending # None
        PROVE  /\ update_calls'[update_page.pending].pc # "idle"
               /\ \A d \in Updates : UpdateSent(d)' => d = update_page.pending
               /\ update_calls'[update_page.pending].pc = "answer" /\ update_calls'[update_page.pending].result # None =>
                    /\ \A d \in Updates : ~UpdateRunning(d)'
                    /\ Update!Snapshot(update_native') = update_calls'[update_page.pending].result
    <3>1. update_page.pending \in Updates
      BY <2>2, UpdateTyped DEF UpdateIInv, Pages
    <3>2. CASE update_page.pending = c
      BY <1>7, <1>8, <1>10, <2>2, <3>2 DEF UpdateIInv, UpdatePageInv
    <3>3. CASE update_page.pending # c
      <4>1. update_calls[update_page.pending].pc = "answer" => update_calls[update_page.pending].result = None
        BY <1>2, <2>2 DEF UpdateIInv, UpdatePageInv
      <4> QED BY <1>8, <1>10, <2>2, <3>1, <3>3, <4>1 DEF UpdateIInv, UpdatePageInv
    <3> QED BY <3>2, <3>3
  <2> QED BY <1>2, <2>1, <2>2 DEF UpdatePageInv, Knows, Keeps
<1> QED BY <1>11, <1>12, <1>13, <1>15, <1>17 DEF UpdateIInv

-----------------------------------------------------------------------------
(* The page.                                                               *)

\* The bridge and the calls rest, and what the page holds is known.
LEMMA PageStep ==
  ASSUME UpdateIInv, UNCHANGED <<update_native, update_calls>>, update_page' \in Pages, update_read' \in Reads,
         Knows(update_page'.snapshot), update_read'.pc = "ok" => Knows(update_read'.snapshot),
         update_page'.pending \in {update_page.pending, None}
  PROVE  UpdateIInv'
<1>1. Update!TypeOK'
  BY DEF UpdateIInv, Update!TypeOK, Pages, Reads
<1>2. Fits(update_native)' /\ UpdateLockInv' /\ UpdateCallInv'
  BY DEF UpdateIInv, Fits, UpdateLockInv, UpdateCallInv, UpdateSent, UpdateRunning, Keeps
<1>3. UpdatePageInv'
  BY DEF UpdateIInv, UpdatePageInv, Knows, UpdateSent, UpdateRunning, Keeps
<1> QED BY <1>1, <1>2, <1>3 DEF UpdateIInv

LEMMA ShowsInv ==
  ASSUME UpdateDataOK, UpdateIInv,
         Update!Refresh \/ Update!Status \/ Update!Deliver \/ Update!Reload \/ \E act \in Update!Actions : Update!Ask(act)
  PROVE  UpdateIInv'
<1>1. update_page \in Pages /\ update_read \in Reads /\ update_native \in Natives
  BY UpdateTyped DEF UpdateIInv
<1>2. Knows(update_page.snapshot) /\ (update_read.pc = "ok" => Knows(update_read.snapshot))
  BY DEF UpdateIInv, UpdatePageInv
<1>3. CASE Update!Refresh
  <2>1. update_read' \in Reads /\ update_read'.pc = "asked"
    BY <1>3, Constants DEF Update!Refresh, Reads
  <2> QED BY <1>1, <1>2, <1>3, <2>1, PageStep DEF Update!Refresh
<1>4. CASE Update!Status
  <2>1. Knows(Update!Snapshot(update_native))
    <3> SUFFICES ASSUME update_native.phase \in {"available", "downloaded"}
                 PROVE  Keeps(update_native.version)
      BY <1>1, SnapshotType DEF Knows
    <3>1. \A c \in Updates : ~UpdateRunning(c)
      BY DEF UpdateIInv, UpdateLockInv
    <3> QED BY <3>1 DEF Keeps
  <2>2. CASE update_read' = [pc |-> "ok", snapshot |-> Update!Snapshot(update_native)]
    <3>1. update_read' \in Reads /\ update_read'.snapshot = Update!Snapshot(update_native)
      BY <1>1, <2>2, SnapshotType DEF Reads
    <3> QED BY <1>1, <1>2, <1>4, <2>1, <3>1, PageStep DEF Update!Status
  <2>3. CASE update_read' = [Update!NoRead EXCEPT !.pc = "failed"]
    <3>1. update_read' \in Reads /\ update_read'.pc = "failed"
      BY <2>3, Constants DEF Reads
    <3> QED BY <1>1, <1>2, <1>4, <3>1, PageStep DEF Update!Status
  <2> QED BY <1>4, <2>2, <2>3 DEF Update!Status
<1>5. CASE Update!Deliver
  <2>1. update_read' \in Reads /\ update_read'.pc = "none" /\ UNCHANGED <<update_native, update_calls>>
    BY <1>5, Constants DEF Update!Deliver
  <2>2. CASE update_read.pc = "failed"
    <3>1. update_page' = [update_page EXCEPT !.failed = TRUE]
      BY <1>5, <2>2 DEF Update!Deliver
    <3>2. update_page' \in Pages /\ update_page'.snapshot = update_page.snapshot /\ update_page'.pending = update_page.pending
      BY <1>1, <3>1 DEF Pages
    <3> QED BY <1>2, <2>1, <3>2, PageStep
  <2>3. CASE update_read.pc = "ok"
    <3>1. update_page' = [update_page EXCEPT !.snapshot = update_read.snapshot, !.failed = FALSE]
      BY <1>5, <2>3 DEF Update!Deliver, Update!Shown
    <3>2. update_read.snapshot \in Update!Snapshots
      BY <1>1 DEF Reads
    <3>3. update_page' \in Pages /\ update_page'.snapshot = update_read.snapshot /\ update_page'.pending = update_page.pending
      BY <1>1, <3>1, <3>2 DEF Pages
    <3> QED BY <1>2, <2>1, <2>3, <3>3, PageStep
  <2> QED BY <1>5, <2>2, <2>3 DEF Update!Deliver
<1>6. CASE Update!Reload
  <2>1. update_page' \in Pages /\ update_read' \in Reads /\ update_page'.pending = None /\ update_read'.pc = "none"
        /\ update_page'.snapshot.phase = "unconfigured" /\ UNCHANGED <<update_native, update_calls>>
    BY <1>6, Constants DEF Update!Reload
  <2>2. Knows(update_page'.snapshot)
    BY <2>1 DEF Knows
  <2> QED BY <2>1, <2>2, PageStep
<1>7. ASSUME NEW act \in Update!Actions, Update!Ask(act) PROVE UpdateIInv'
  <2>1. update_page' = [update_page EXCEPT !.asked = act, !.about = update_page.snapshot]
        /\ UNCHANGED <<update_native, update_calls, update_read>>
    BY <1>7 DEF Update!Ask
  <2>2. update_page.snapshot \in Update!Snapshots
    BY <1>1 DEF Pages
  <2>3. update_page' \in Pages /\ update_page'.snapshot = update_page.snapshot /\ update_page'.pending = update_page.pending
    BY <1>1, <2>1, <2>2 DEF Pages
  <2> QED BY <1>1, <1>2, <2>1, <2>3, PageStep
<1> QED BY <1>3, <1>4, <1>5, <1>6, <1>7

LEMMA ActInv ==
  ASSUME UpdateDataOK, UpdateIInv, NEW c \in Updates, NEW act \in Update!Actions, Update!Act(c, act)
  PROVE  UpdateIInv'
<1> DEFINE r == [pc |-> "sent", act |-> act, seen |-> update_page.snapshot.version, result |-> None]
           s == update_page.snapshot
<1>1. update_page \in Pages /\ update_read \in Reads /\ update_calls \in [Updates -> UpdateInvocations] /\ s \in Update!Snapshots
  BY UpdateTyped DEF UpdateIInv, Pages
<1>2. /\ \A d \in Updates : ~UpdateSent(d)
      /\ update_calls[c].pc = "idle" /\ Update!Allowed(s.phase, act) /\ update_page.pending = None
      /\ update_calls' = [update_calls EXCEPT ![c] = r] /\ UNCHANGED update_native
      /\ update_page' = [update_page EXCEPT !.pending = c, !.failed = FALSE, !.asked = None, !.about = Update!Unknown]
      /\ update_read' = Update!NoRead
  BY DEF Update!Act, UpdateSent, Update!Busy, Update!Overtaken
<1>3. r \in UpdateInvocations /\ r.pc = "sent" /\ r.act = act /\ r.seen = s.version
  BY <1>1 DEF UpdateInvocations, Update!Snapshots, Update!Offers
<1> HIDE DEF r
<1>4. /\ update_calls' \in [Updates -> UpdateInvocations] /\ update_calls'[c] = r
      /\ \A d \in Updates \ {c} : update_calls'[d] = update_calls[d]
  BY <1>1, <1>2, <1>3
<1>5. update_page' \in Pages /\ update_page'.snapshot = s /\ update_page'.pending = c
  BY <1>1, <1>2, Constants DEF Pages
<1>6. \A d \in Updates : (UpdateRunning(d)' => UpdateRunning(d) /\ d # c) /\ (UpdateSent(d)' => d = c)
  BY <1>2, <1>3, <1>4 DEF UpdateSent, UpdateRunning
<1>7. Update!TypeOK'
  BY <1>2, <1>4, <1>5, Constants DEF UpdateIInv, Update!TypeOK, UpdateInvocations, Pages, Reads
<1>8. Fits(update_native)' /\ UpdateLockInv'
  <2>1. \A d \in Updates : UpdateRunning(d) => UpdateRunning(d)'
    BY <1>2, <1>4 DEF UpdateRunning
  <2> QED BY <1>2, <1>4, <1>6, <2>1 DEF UpdateIInv, Fits, UpdateLockInv
<1>9. ASSUME NEW v, Keeps(v) PROVE Keeps(v)'
  BY <1>2, <1>4, <1>6, <1>9 DEF Keeps
<1>10. UpdateCallInv'
  <2>1. act \in {"download", "install"} => Keeps(s.version)
    BY <1>2 DEF UpdateIInv, UpdatePageInv, Knows, Update!Allowed
  <2> QED BY <1>2, <1>3, <1>4, <1>6, <1>9, <2>1 DEF UpdateIInv, UpdateCallInv
<1>11. UpdatePageInv'
  <2>1. Knows(update_page.snapshot)'
    <3> SUFFICES ASSUME NEW v, v = s, v.phase \in {"available", "downloaded"}
                 PROVE  Keeps(v.version)' /\ \A d \in Updates : UpdateSent(d)' => update_calls'[d].act # "check"
      BY <1>5 DEF Knows
    <3>1. act # "check"
      BY <1>2 DEF Update!Allowed
    <3>2. Keeps(v.version)
      BY DEF UpdateIInv, UpdatePageInv, Knows
    <3>3. Keeps(v.version)'
      BY <1>9, <3>2
    <3> QED BY <1>3, <1>4, <1>6, <3>1, <3>3
  <2>2. update_read'.pc # "ok"
    BY <1>2, Constants
  <2> QED BY <1>3, <1>4, <1>5, <1>6, <2>1, <2>2 DEF UpdatePageInv
<1> QED BY <1>7, <1>8, <1>10, <1>11 DEF UpdateIInv

LEMMA AnsweredInv == ASSUME UpdateDataOK, UpdateIInv, NEW c \in Updates, Update!Answered(c) PROVE UpdateIInv'
<1> DEFINE result == update_calls[c].result
<1>1. update_page \in Pages /\ update_read \in Reads /\ update_calls \in [Updates -> UpdateInvocations]
      /\ result \in Update!Snapshots \cup {None} /\ update_native \in Natives
  BY UpdateTyped DEF UpdateIInv, UpdateInvocations
<1>2. update_calls[c].pc = "answer" /\ UNCHANGED update_native /\ update_calls' = [update_calls EXCEPT ![c] = Update!Idle]
  BY DEF Update!Answered
<1>3. update_calls' \in [Updates -> UpdateInvocations] /\ update_calls'[c].pc = "idle"
      /\ \A d \in Updates \ {c} : update_calls'[d] = update_calls[d]
  BY <1>1, <1>2, Constants
<1>4. \A d \in Updates : /\ UpdateSent(d)' = UpdateSent(d) /\ UpdateRunning(d)' = UpdateRunning(d)
                         /\ UpdateSent(d) \/ UpdateRunning(d) => update_calls'[d] = update_calls[d]
  BY <1>2, <1>3 DEF UpdateSent, UpdateRunning
<1>5. ASSUME NEW s, Knows(s) PROVE Knows(s)'
  BY <1>2, <1>4, <1>5 DEF Knows, Keeps
<1>6. Fits(update_native)' /\ UpdateLockInv'
  BY <1>2, <1>4 DEF UpdateIInv, Fits, UpdateLockInv
<1>7. UpdateCallInv'
  BY <1>2, <1>4 DEF UpdateIInv, UpdateCallInv, Keeps
<1>8. CASE update_page.pending # c
  <2>1. UNCHANGED <<update_page, update_read>>
    BY <1>8 DEF Update!Answered
  <2>2. Update!TypeOK'
    BY <1>2, <1>3, <2>1 DEF UpdateIInv, Update!TypeOK, UpdateInvocations
  <2>3. Knows(update_page.snapshot)' /\ (update_read'.pc = "ok" => Knows(update_read.snapshot)')
    <3>1. Knows(update_page.snapshot) /\ (update_read.pc = "ok" => Knows(update_read.snapshot))
      BY DEF UpdateIInv, UpdatePageInv
    <3> QED BY <1>5, <2>1, <3>1
  <2>4. update_page.pending \in Updates \cup {None}
    BY <1>1 DEF Pages
  <2>5. UpdatePageInv'
    BY <1>2, <1>3, <1>4, <1>8, <2>1, <2>3, <2>4 DEF UpdateIInv, UpdatePageInv
  <2> QED BY <1>6, <1>7, <2>2, <2>5 DEF UpdateIInv
<1>9. CASE update_page.pending = c
  <2>1. update_read' = Update!NoRead /\
        update_page' = [update_page EXCEPT !.pending = None, !.failed = (result = None),
                             !.snapshot = IF result = None THEN update_page.snapshot ELSE result]
    BY <1>9 DEF Update!Answered, Update!Overtaken
  <2> DEFINE s == IF result = None THEN update_page.snapshot ELSE result
             f == (result = None)
  <2>2. s \in Update!Snapshots /\ f \in BOOLEAN
    BY <1>1 DEF Pages
  <2> HIDE DEF s, f
  <2>3. update_page' \in Pages /\ update_page'.snapshot = s /\ update_page'.pending = None
    BY <1>1, <2>1, <2>2 DEF Pages, s, f
  <2>4. Update!TypeOK'
    BY <1>2, <1>3, <2>1, <2>3, Constants DEF UpdateIInv, Update!TypeOK, UpdateInvocations, Pages, Reads
  <2>5. Knows(s)
    <3>1. CASE result = None
      BY <3>1 DEF UpdateIInv, UpdatePageInv, s
    <3>2. CASE result # None
      <4>1. /\ \A d \in Updates : ~UpdateRunning(d) /\ ~UpdateSent(d)
            /\ Update!Snapshot(update_native) = s
        BY <1>2, <1>9, <3>2 DEF UpdateIInv, UpdatePageInv, UpdateSent, UpdateDataOK, s
      <4>2. update_native.version = s.version
        BY <1>1, <4>1, SnapshotType
      <4> QED BY <4>1, <4>2 DEF Knows, Keeps
    <3> QED BY <3>1, <3>2
  <2>6. Knows(update_page.snapshot)' /\ update_read'.pc # "ok"
    <3>1. PICK v : v = s
      OBVIOUS
    <3>2. Knows(v)'
      BY <1>5, <2>5, <3>1
    <3> QED BY <2>1, <2>3, <3>1, <3>2, Constants
  <2>7. UpdatePageInv'
    BY <2>3, <2>6 DEF UpdatePageInv
  <2> QED BY <1>6, <1>7, <2>4, <2>7 DEF UpdateIInv
<1> QED BY <1>8, <1>9

-----------------------------------------------------------------------------
LEMMA UpdateNextInv == ASSUME UpdateDataOK, UpdateIInv, [Update!Next]_(Update!vars) PROVE UpdateIInv'
<1>1. CASE UNCHANGED Update!vars
  BY <1>1 DEF Update!vars, UpdateIInv, Update!TypeOK, Fits, UpdateLockInv, UpdateCallInv, UpdatePageInv,
     Knows, Keeps, UpdateSent, UpdateRunning
<1>2. CASE Update!Refresh \/ Update!Status \/ Update!Deliver \/ Update!Reload \/ \E act \in Update!Actions : Update!Ask(act)
  BY <1>2, ShowsInv
<1>3. ASSUME NEW c \in Updates, Update!Refused(c) \/ Update!Begin(c) \/ Update!End(c) \/ Update!Answered(c) PROVE UpdateIInv'
  BY <1>3, RefusedInv, UpdateBeginInv, UpdateEndInv, AnsweredInv
<1>4. ASSUME NEW c \in Updates, NEW act \in Update!Actions, Update!Act(c, act) PROVE UpdateIInv'
  BY <1>4, ActInv
<1> QED BY <1>1, <1>2, <1>3, <1>4 DEF Update!Next

LEMMA InvConfirmedIsDone == ASSUME UpdateIInv PROVE Update!ConfirmedIsDone
BY DEF UpdateIInv, Fits, UpdateLockInv, UpdateCallInv, UpdateRunning, Update!ConfirmedIsDone

-----------------------------------------------------------------------------
(***************************************************************************)
(* The import of a modpack.  An import that may still act holds the lease  *)
(* of its instance, and of two imports of one instance one has ended in a  *)
(* way after which it does nothing any more (SafeInv).                     *)
(***************************************************************************)

PackDataOK == 0 \notin Imports /\ None \notin Instances \cup Manifests

PackRecords == [id : Instances \cup {None}, file : Archives \cup {None}, phase : Pack!Phases,
            step : Pack!Steps \cup {"none"}, error : Pack!Errors \cup {None},
            attempted : BOOLEAN, confirmed : BOOLEAN, installed : Manifests \cup {None},
            identity : Manifests \cup {None}]

\* An import that runs holds its instance's lease, and nobody else holds one.
LeaseInv ==
  /\ \A t \in Imports : Pack!Busy(t) => Pack!Started(t) /\ pack_lease[pack_task[t].id] = t
  /\ \A i \in Instances, t \in Imports : pack_lease[i] = t => Pack!Busy(t) /\ pack_task[t].id = i

\* What an import that is over, or about to be, has come to.
Over(r) == r.phase = "success" \/ (r.phase = "error" /\ r.error \in Pack!Errors)
PackEndInv == \A t \in Imports : Pack!Started(t) /\ pack_task[t].step \in {"none", "closing"} => Over(pack_task[t])

\* What an import has read of its instance.
PackOwn(r, instances) ==
  /\ r.installed # None => r.identity = r.installed
  /\ r.step \in {"installing", "preparing"} =>
       r.identity # None /\ instances[r.id] = r.identity
  /\ r.step = "preparing" => instances[r.id] = r.installed
PackOwnInv == \A t \in Imports : PackOwn(pack_task[t], pack_core)

\* An end after which the import does nothing any more.
Safe(t) == ~Pack!Busy(t) /\ (pack_task[t].phase = "success" \/ Pack!CanEdit(t))
SafeInv == \A t, u \in Imports :
  t # u /\ Pack!Started(t) /\ pack_task[t].id = pack_task[u].id => Safe(t) \/ Safe(u)

\* An import that was not begun has neither submitted nor failed.
FreshInv == \A t \in Imports : (pack_task[t].attempted \/ pack_task[t].phase = "error") => Pack!Started(t)

PackIInv == Pack!TypeOK /\ LeaseInv /\ PackEndInv /\ PackOwnInv /\ SafeInv /\ FreshInv /\ Pack!PreviewOfFile

-----------------------------------------------------------------------------
LEMMA TaskType == Pack!TypeOK => pack_task \in [Imports -> PackRecords]
BY DEF Pack!TypeOK, PackRecords

LEMMA FreshRecord ==
  /\ Pack!Fresh \in PackRecords /\ Pack!Fresh.step = "none" /\ Pack!Fresh.id = None /\ Pack!Fresh.installed = None
  /\ ~Pack!Fresh.attempted /\ Pack!Fresh.phase = "none"
BY DEF Pack!Fresh, PackRecords, Pack!Phases, Pack!Steps

LEMMA PackInitInv == ASSUME PackDataOK PROVE Pack!Init => PackIInv
<1> SUFFICES ASSUME Pack!Init PROVE PackIInv
  OBVIOUS
<1>1. pack_task \in [Imports -> PackRecords] /\ \A t \in Imports : pack_task[t] = Pack!Fresh
  BY FreshRecord DEF Pack!Init
<1>2. Pack!TypeOK
  BY <1>1 DEF Pack!Init, Pack!TypeOK, PackRecords
<1>3. \A t \in Imports : ~Pack!Busy(t) /\ ~Pack!Started(t)
  BY <1>1, FreshRecord DEF Pack!Busy, Pack!Started
<1>4. LeaseInv /\ PackEndInv /\ SafeInv
  BY <1>3 DEF Pack!Init, LeaseInv, PackEndInv, SafeInv, PackDataOK
<1>5. PackOwnInv /\ FreshInv
  BY <1>1, FreshRecord DEF PackOwnInv, PackOwn, FreshInv
<1>6. Pack!PreviewOfFile
  BY DEF Pack!Init, Pack!PreviewOfFile
<1> QED BY <1>2, <1>4, <1>5, <1>6 DEF PackIInv

-----------------------------------------------------------------------------
(* The dialog.                                                             *)

LEMMA DialogInv ==
  ASSUME PackIInv, UNCHANGED <<pack_task, pack_lease, pack_core>>,
         pack_dialog' \in [open : BOOLEAN, shows : Imports \cup {0}],
         pack_pick' \in [step : {"none", "choosing", "reading"}, file : Archives \cup {None}],
         pack_draft' \in [file : Archives \cup {None}, preview : Archives \cup {None}, id : Instances \cup {None}],
         pack_draft'.preview \in {None, pack_draft'.file}
  PROVE  PackIInv'
<1>1. Pack!TypeOK'
  BY DEF PackIInv, Pack!TypeOK
<1>2. LeaseInv' /\ PackEndInv' /\ PackOwnInv' /\ SafeInv' /\ FreshInv'
  BY DEF PackIInv, LeaseInv, PackEndInv, PackOwnInv, SafeInv, FreshInv, Pack!Busy, Pack!Started, Safe,
     Pack!CanEdit
<1>3. Pack!PreviewOfFile'
  BY DEF Pack!PreviewOfFile
<1> QED BY <1>1, <1>2, <1>3 DEF PackIInv

LEMMA DialogSteps ==
  ASSUME PackDataOK, PackIInv,
         \/ Pack!Hide \/ Pack!Pick
         \/ \E t \in Imports \cup {0} : Pack!Show(t)
         \/ \E f \in Archives : Pack!Choose(f)
         \/ \E i \in Instances : Pack!Preview(i) \/ Pack!EnterId(i)
  PROVE  PackIInv'
<1> DEFINE Dialogs == [open : BOOLEAN, shows : Imports \cup {0}]
           Picks == [step : {"none", "choosing", "reading"}, file : Archives \cup {None}]
           Drafts == [file : Archives \cup {None}, preview : Archives \cup {None}, id : Instances \cup {None}]
<1>1. pack_dialog \in Dialogs /\ pack_pick \in Picks /\ pack_draft \in Drafts
      /\ pack_draft.preview \in {None, pack_draft.file}
  BY DEF PackIInv, Pack!TypeOK, Pack!PreviewOfFile
<1>2. [step |-> "none", file |-> None] \in Picks
  OBVIOUS
<1>3. CASE Pack!Hide
  <2>1. pack_dialog' \in Dialogs
    BY <1>1, <1>3 DEF Pack!Hide
  <2> QED BY <1>1, <1>2, <1>3, <2>1, DialogInv DEF Pack!Hide
<1>4. CASE Pack!Pick
  BY <1>1, <1>4, DialogInv DEF Pack!Pick
<1>5. ASSUME NEW t \in Imports \cup {0}, Pack!Show(t) PROVE PackIInv'
  BY <1>1, <1>2, <1>5, DialogInv DEF Pack!Show
<1>6. ASSUME NEW f \in Archives, Pack!Choose(f) PROVE PackIInv'
  <2>1. CASE Pack!Chosen(f) /\ pack_pick' = [step |-> "reading", file |-> f]
    <3>1. pack_draft' \in Drafts /\ pack_draft'.preview = None
      BY <1>1, <2>1 DEF Pack!Chosen
    <3> QED BY <1>1, <1>6, <2>1, <3>1, DialogInv DEF Pack!Choose
  <2>2. CASE pack_pick' = [step |-> "none", file |-> None] /\ UNCHANGED pack_draft
    BY <1>1, <1>6, <2>2, DialogInv DEF Pack!Choose
  <2> QED BY <1>6, <2>1, <2>2 DEF Pack!Choose
<1>7. ASSUME NEW i \in Instances, Pack!Preview(i) PROVE PackIInv'
  <2>1. UNCHANGED <<pack_task, pack_dialog, pack_lease, pack_core>> /\ pack_pick' = [step |-> "none", file |-> None]
    BY <1>7 DEF Pack!Preview
  <2>2. CASE UNCHANGED pack_draft
    BY <1>1, <1>2, <2>1, <2>2, DialogInv
  <2>3. CASE pack_draft' = [file |-> pack_pick.file, preview |-> pack_pick.file,
                       id |-> IF pack_draft.id = None THEN i ELSE pack_draft.id]
    <3>1. pack_draft' \in Drafts /\ pack_draft'.preview = pack_draft'.file
      BY <1>1, <2>3
    <3> QED BY <1>1, <1>2, <2>1, <3>1, DialogInv
  <2> QED BY <1>7, <2>2, <2>3 DEF Pack!Preview
<1>8. ASSUME NEW i \in Instances, Pack!EnterId(i) PROVE PackIInv'
  <2>1. pack_draft' \in Drafts /\ pack_draft'.preview = pack_draft.preview /\ pack_draft'.file = pack_draft.file
    BY <1>1, <1>8 DEF Pack!EnterId
  <2> QED BY <1>1, <1>8, <2>1, DialogInv DEF Pack!EnterId
<1> QED BY <1>3, <1>4, <1>5, <1>6, <1>7, <1>8

-----------------------------------------------------------------------------
(* One import goes on: it holds the lease, so nobody else works on its     *)
(* instance.                                                               *)

LEMMA ImportStep ==
  ASSUME PackDataOK, PackIInv, NEW t \in Imports, Pack!Busy(t), NEW r \in PackRecords,
         pack_task' = [pack_task EXCEPT ![t] = r], r.id = pack_task[t].id, r.step # "none",
         r.step = "closing" => Over(r), PackOwn(r, pack_core'),
         pack_core' \in [Instances -> Manifests \cup {None}],
         \A i \in Instances \ {r.id} : pack_core'[i] = pack_core[i],
         UNCHANGED <<pack_dialog, pack_draft, pack_pick, pack_lease>>
  PROVE  PackIInv'
<1>1. pack_task \in [Imports -> PackRecords]
  BY TaskType DEF PackIInv
<1>2. pack_task' \in [Imports -> PackRecords] /\ pack_task'[t] = r /\ \A u \in Imports \ {t} : pack_task'[u] = pack_task[u]
  BY <1>1
<1>3. Pack!Started(t) /\ pack_lease[r.id] = t /\ r.id \in Instances
  BY <1>1 DEF PackIInv, LeaseInv, Pack!Started, PackRecords
<1>4. Pack!TypeOK'
  BY <1>2 DEF PackIInv, Pack!TypeOK, PackRecords
<1>5. \A u \in Imports : Pack!Started(u)' = Pack!Started(u) /\ pack_task'[u].id = pack_task[u].id /\ Pack!Busy(u)' = Pack!Busy(u)
  BY <1>1, <1>2, <1>3 DEF Pack!Started, Pack!Busy
<1>6. LeaseInv'
  <2>1. \A i \in Instances : pack_lease[i] # 0 => pack_lease[i] \in Imports
    BY DEF PackIInv, Pack!TypeOK
  <2> QED BY <1>5, <2>1 DEF PackIInv, LeaseInv
<1>7. PackEndInv'
  BY <1>2, <1>5 DEF PackIInv, PackEndInv
<1>8. PackOwnInv'
  <2> SUFFICES ASSUME NEW u \in Imports PROVE PackOwn(pack_task'[u], pack_core')
    BY DEF PackOwnInv
  <2>1. CASE u = t
    BY <1>2, <2>1
  <2>2. CASE u # t
    <3>1. pack_task'[u] = pack_task[u] /\ PackOwn(pack_task[u], pack_core)
      BY <1>2, <2>2 DEF PackIInv, PackOwnInv
    <3>2. Pack!Busy(u) => pack_task[u].id # r.id /\ pack_task[u].id \in Instances
      BY <1>1, <1>3, <2>2 DEF PackIInv, LeaseInv, Pack!Started, PackRecords
    <3> QED BY <3>1, <3>2 DEF PackOwn, Pack!Busy
  <2> QED BY <2>1, <2>2
<1>9. SafeInv'
  <2>1. ~Safe(t) /\ \A u \in Imports \ {t} : Safe(u)' = Safe(u)
    BY <1>2, <1>5 DEF Safe, Pack!CanEdit
  <2> QED BY <1>5, <2>1 DEF PackIInv, SafeInv
<1>10. FreshInv' /\ Pack!PreviewOfFile'
  BY <1>2, <1>3, <1>5 DEF PackIInv, FreshInv, Pack!PreviewOfFile
<1> QED BY <1>4, <1>6, <1>7, <1>8, <1>9, <1>10 DEF PackIInv

\* What a step of an import leaves in its record.
LEMMA GoesRecord ==
  ASSUME PackIInv, NEW t \in Imports, NEW step \in Pack!Steps, NEW phase \in Pack!Phases, Pack!Goes(t, step, phase)
  PROVE  \E r \in PackRecords :
           /\ pack_task' = [pack_task EXCEPT ![t] = r] /\ r.id = pack_task[t].id
           /\ r.step = step /\ r.phase = phase
           /\ r.installed = pack_task[t].installed /\ r.identity = pack_task[t].identity
<1> DEFINE r == [pack_task[t] EXCEPT !.step = step, !.phase = phase]
<1>1. pack_task \in [Imports -> PackRecords] /\ pack_task[t] \in PackRecords
  BY TaskType DEF PackIInv
<1>2. /\ r \in PackRecords /\ r.id = pack_task[t].id /\ r.step = step /\ r.phase = phase
      /\ r.installed = pack_task[t].installed /\ r.identity = pack_task[t].identity
  BY <1>1 DEF PackRecords
<1>3. pack_task' = [pack_task EXCEPT ![t] = r]
  BY <1>1 DEF Pack!Goes
<1> QED BY <1>2, <1>3

LEMMA FailsInv ==
  ASSUME PackDataOK, PackIInv, NEW t \in Imports, Pack!Busy(t), NEW e \in Pack!Errors, Pack!Fails(t, e),
         pack_core' \in [Instances -> Manifests \cup {None}],
         \A i \in Instances \ {pack_task[t].id} : pack_core'[i] = pack_core[i],
         UNCHANGED <<pack_dialog, pack_draft, pack_pick, pack_lease>>
  PROVE  PackIInv'
<1> DEFINE r == [pack_task[t] EXCEPT !.step = "closing", !.phase = "error", !.error = e]
<1>1. pack_task \in [Imports -> PackRecords] /\ pack_task[t] \in PackRecords
  BY TaskType DEF PackIInv
<1>2. /\ r \in PackRecords /\ r.id = pack_task[t].id /\ r.step = "closing" /\ r.phase = "error"
      /\ r.error = e /\ r.installed = pack_task[t].installed /\ r.identity = pack_task[t].identity
  BY <1>1 DEF PackRecords, Pack!Steps, Pack!Phases
<1>3. pack_task' = [pack_task EXCEPT ![t] = r]
  BY <1>1 DEF Pack!Fails
<1> HIDE DEF r
<1>4. Over(r) /\ PackOwn(r, pack_core')
  BY <1>2 DEF Over, PackIInv, PackOwnInv, PackOwn
<1> QED BY <1>2, <1>3, <1>4, ImportStep

LEMMA GoesInv ==
  ASSUME PackDataOK, PackIInv, NEW t \in Imports, Pack!Busy(t), NEW step \in Pack!Steps, NEW phase \in Pack!Phases,
         Pack!Goes(t, step, phase), step \notin {"installing", "preparing"},
         step = "closing" => phase = "success",
         UNCHANGED <<pack_dialog, pack_draft, pack_pick, pack_lease, pack_core>>
  PROVE  PackIInv'
<1>1. PICK r \in PackRecords :
        /\ pack_task' = [pack_task EXCEPT ![t] = r] /\ r.id = pack_task[t].id
        /\ r.step = step /\ r.phase = phase
        /\ r.installed = pack_task[t].installed /\ r.identity = pack_task[t].identity
  BY GoesRecord
<1>2. r.step # "none" /\ (r.step = "closing" => Over(r))
  BY <1>1 DEF Over, Pack!Steps
<1>3. PackOwn(r, pack_core)
  BY <1>1 DEF PackIInv, PackOwnInv, PackOwn
<1> QED BY <1>1, <1>2, <1>3, ImportStep DEF PackIInv, Pack!TypeOK

LEMMA ImportInv ==
  ASSUME PackDataOK, PackIInv, NEW t \in Imports,
         \/ Pack!Opened(t) \/ Pack!Listed(t) \/ Pack!Reopened(t) \/ Pack!ManifestRead(t) \/ Pack!Installed(t) \/ Pack!Prepared(t)
         \/ \E m \in Manifests : Pack!Imported(t, m)
         \/ \E m \in Manifests \cup {None} : Pack!ImportLost(t, m)
         \/ \E e \in {"known", "unknown"} : Pack!StepFails(t, e)
  PROVE  PackIInv'
<1>1. /\ pack_task \in [Imports -> PackRecords] /\ pack_task[t] \in PackRecords
      /\ pack_core \in [Instances -> Manifests \cup {None}] /\ PackOwn(pack_task[t], pack_core)
  BY TaskType DEF PackIInv, Pack!TypeOK, PackOwnInv
<1>2. UNCHANGED <<pack_dialog, pack_draft, pack_pick, pack_lease>> /\ Pack!Busy(t)
  BY DEF Pack!Opened, Pack!Listed, Pack!Reopened, Pack!ManifestRead, Pack!Installed, Pack!Prepared,
     Pack!Imported, Pack!ImportLost,
         Pack!StepFails, Pack!Busy, Pack!Steps
<1>3. pack_task[t].id \in Instances
  BY <1>1, <1>2 DEF PackIInv, LeaseInv, Pack!Started, PackRecords
<1> USE DEF Pack!Steps, Pack!Phases, Pack!Errors
<1>4. CASE Pack!Opened(t)
  BY <1>1, <1>2, <1>4, GoesInv DEF Pack!Opened
<1>5. CASE Pack!Listed(t)
  <2>1. CASE Pack!Fails(t, "known")
    BY <1>1, <1>2, <1>5, <2>1, FailsInv DEF Pack!Listed
  <2>2. CASE ~Pack!Fails(t, "known")
    <3> DEFINE r == [pack_task[t] EXCEPT !.step = "archive", !.phase = "archive", !.attempted = TRUE]
    <3>1. pack_task' = [pack_task EXCEPT ![t] = r] /\ UNCHANGED pack_core
      BY <1>1, <1>5, <2>2 DEF Pack!Listed
    <3>2. r \in PackRecords /\ r.id = pack_task[t].id /\ r.step = "archive"
          /\ r.installed = pack_task[t].installed /\ r.identity = pack_task[t].identity
      BY <1>1 DEF PackRecords
    <3> HIDE DEF r
    <3>3. PackOwn(r, pack_core)
      BY <1>1, <3>2 DEF PackOwn
    <3> QED BY <1>1, <1>2, <3>1, <3>2, <3>3, ImportStep
  <2> QED BY <2>1, <2>2
<1>6. CASE Pack!Reopened(t)
  BY <1>1, <1>2, <1>6, GoesInv DEF Pack!Reopened
<1>7. CASE Pack!ManifestRead(t)
  <2>1. UNCHANGED pack_core /\ pack_task[t].step = "manifest"
    BY <1>7 DEF Pack!ManifestRead
  <2>2. CASE ~Pack!SameInstance(t)
    <3>1. PICK e \in {"known", "invalid"} : Pack!Fails(t, e)
      BY <1>7, <2>2 DEF Pack!ManifestRead
    <3> QED BY <1>1, <1>2, <2>1, <3>1, FailsInv
  <2>3. CASE Pack!SameInstance(t)
    <3> DEFINE m == pack_core[pack_task[t].id]
               s == IF pack_task[t].installed = None THEN "installing" ELSE "preparing"
               p == IF pack_task[t].installed = None THEN "install" ELSE "prepare"
               r == [pack_task[t] EXCEPT !.identity = m, !.step = s, !.phase = p]
    <3>1. pack_task' = [pack_task EXCEPT ![t] = r]
      BY <1>1, <1>7, <2>3 DEF Pack!ManifestRead
    <3>2. m \in Manifests /\ s \in {"installing", "preparing"} /\ p \in {"install", "prepare"}
          /\ pack_task[t].identity \in {None, m}
      BY <1>1, <1>3, <2>3 DEF Pack!SameInstance
    <3>3. s = "preparing" => pack_task[t].installed # None
      OBVIOUS
    <3>8. PICK a \in Manifests, b \in {"installing", "preparing"}, c \in {"install", "prepare"} :
            a = m /\ b = s /\ c = p
      BY <3>2
    <3>9. PICK q : q = [pack_task[t] EXCEPT !.identity = a, !.step = b, !.phase = c]
      OBVIOUS
    <3>10. q = r
      BY <3>8, <3>9
    <3>11. /\ q \in PackRecords /\ q.id = pack_task[t].id /\ q.step = b
           /\ q.installed = pack_task[t].installed /\ q.identity = a
      BY <1>1, <3>9 DEF PackRecords
    <3> HIDE DEF s, p, m, r
    <3>4. r \in PackRecords /\ r.id = pack_task[t].id /\ r.step = s
          /\ r.installed = pack_task[t].installed /\ r.identity = m
      BY <3>8, <3>10, <3>11
    <3>5. pack_task[t].installed # None => pack_task[t].installed = m
      BY <1>1, <3>2 DEF PackOwn
    <3>6. PackOwn(r, pack_core)
      BY <3>2, <3>3, <3>4, <3>5 DEF PackOwn, PackDataOK, m
    <3> QED BY <1>1, <1>2, <2>1, <3>1, <3>2, <3>4, <3>6, ImportStep
  <2> QED BY <2>2, <2>3
<1>8. CASE Pack!Installed(t)
  <2> DEFINE m == pack_core[pack_task[t].id]
             r == [pack_task[t] EXCEPT !.installed = m, !.step = "preparing", !.phase = "prepare"]
  <2>1. pack_task' = [pack_task EXCEPT ![t] = r] /\ UNCHANGED pack_core /\ pack_task[t].step = "installing"
    BY <1>1, <1>8 DEF Pack!Installed
  <2>2. m = pack_task[t].identity /\ m # None /\ m \in Manifests
    BY <1>1, <1>3, <2>1 DEF PackOwn
  <2> HIDE DEF m
  <2>3. r \in PackRecords /\ r.id = pack_task[t].id /\ r.step = "preparing"
        /\ r.installed = m /\ r.identity = m
    BY <1>1, <2>2 DEF PackRecords
  <2> HIDE DEF r
  <2>4. PackOwn(r, pack_core)
    BY <2>2, <2>3 DEF PackOwn, m
  <2> QED BY <1>1, <1>2, <2>1, <2>3, <2>4, ImportStep
<1>9. CASE Pack!Prepared(t)
  BY <1>1, <1>2, <1>9, GoesInv DEF Pack!Prepared
<1>10. ASSUME NEW m \in Manifests, Pack!Imported(t, m) PROVE PackIInv'
  <2>1. pack_task[t].step = "archive" /\ pack_core' = [pack_core EXCEPT ![pack_task[t].id] = m]
    BY <1>10 DEF Pack!Imported
  <2>2. pack_core' \in [Instances -> Manifests \cup {None}]
        /\ \A i \in Instances \ {pack_task[t].id} : pack_core'[i] = pack_core[i]
    BY <1>1, <2>1
  <2> DEFINE done == [pack_task[t] EXCEPT !.confirmed = TRUE]
  <2>3. done \in PackRecords /\ done.id = pack_task[t].id /\ done.installed = pack_task[t].installed
        /\ done.identity = pack_task[t].identity
    BY <1>1 DEF PackRecords
  <2>4. \/ pack_task' = [pack_task EXCEPT ![t] = [done EXCEPT !.step = "reopening"]]
        \/ pack_task' = [pack_task EXCEPT ![t] = [done EXCEPT !.step = "manifest", !.phase = "manifest"]]
        \/ pack_task' = [pack_task EXCEPT ![t] = [done EXCEPT !.step = "closing", !.phase = "error",
                                                    !.error = "invalid"]]
    BY <1>10 DEF Pack!Imported
  <2> HIDE DEF done
  <2>5. PICK r \in PackRecords :
          /\ pack_task' = [pack_task EXCEPT ![t] = r] /\ r.id = pack_task[t].id
          /\ r.step \in {"reopening", "manifest", "closing"}
          /\ r.installed = pack_task[t].installed /\ r.identity = pack_task[t].identity
          /\ r.step = "closing" => r.phase = "error" /\ r.error = "invalid"
    <3>1. ASSUME NEW r, r = [done EXCEPT !.step = "reopening"]
          PROVE  r \in PackRecords /\ r.id = done.id /\ r.step = "reopening"
                 /\ r.installed = done.installed /\ r.identity = done.identity
      BY <2>3, <3>1 DEF PackRecords
    <3>2. ASSUME NEW r, r = [done EXCEPT !.step = "manifest", !.phase = "manifest"]
          PROVE  r \in PackRecords /\ r.id = done.id /\ r.step = "manifest"
                 /\ r.installed = done.installed /\ r.identity = done.identity
      BY <2>3, <3>2 DEF PackRecords
    <3>3. ASSUME NEW r,
                 r = [done EXCEPT !.step = "closing", !.phase = "error", !.error = "invalid"]
          PROVE  r \in PackRecords /\ r.id = done.id /\ r.step = "closing"
                 /\ r.phase = "error" /\ r.error = "invalid"
                 /\ r.installed = done.installed /\ r.identity = done.identity
      BY <2>3, <3>3 DEF PackRecords
    <3>4. PICK r : /\ pack_task' = [pack_task EXCEPT ![t] = r]
                  /\ \/ r = [done EXCEPT !.step = "reopening"]
                     \/ r = [done EXCEPT !.step = "manifest", !.phase = "manifest"]
                     \/ r = [done EXCEPT !.step = "closing", !.phase = "error", !.error = "invalid"]
      BY <2>4
    <3>5. /\ r \in PackRecords /\ r.id = pack_task[t].id
          /\ r.step \in {"reopening", "manifest", "closing"}
          /\ r.installed = pack_task[t].installed /\ r.identity = pack_task[t].identity
          /\ r.step = "closing" => (r.phase = "error" /\ r.error = "invalid")
      <4>1. CASE r = [done EXCEPT !.step = "reopening"]
        BY <2>3, <3>1, <4>1
      <4>2. CASE r = [done EXCEPT !.step = "manifest", !.phase = "manifest"]
        BY <2>3, <3>2, <4>2
      <4>3. CASE r = [done EXCEPT !.step = "closing", !.phase = "error", !.error = "invalid"]
        BY <2>3, <3>3, <4>3
      <4> QED BY <3>4, <4>1, <4>2, <4>3
    <3> QED BY <3>4, <3>5
  <2>6. PackOwn(r, pack_core') /\ (r.step = "closing" => Over(r)) /\ r.step # "none"
    BY <1>1, <2>5 DEF PackOwn, Over
  <2> QED BY <1>2, <2>2, <2>5, <2>6, ImportStep
<1>11. ASSUME NEW m \in Manifests \cup {None}, Pack!ImportLost(t, m) PROVE PackIInv'
  <2>1. pack_core' \in [Instances -> Manifests \cup {None}]
        /\ \A i \in Instances \ {pack_task[t].id} : pack_core'[i] = pack_core[i]
    BY <1>1, <1>11 DEF Pack!ImportLost
  <2> QED BY <1>2, <1>11, <2>1, FailsInv DEF Pack!ImportLost
<1>12. ASSUME NEW e \in {"known", "unknown"}, Pack!StepFails(t, e) PROVE PackIInv'
  BY <1>1, <1>2, <1>12, FailsInv DEF Pack!StepFails
<1> QED BY <1>4, <1>5, <1>6, <1>7, <1>8, <1>9, <1>10, <1>11, <1>12

-----------------------------------------------------------------------------
(* Imports begin, are retired and end.                                     *)

\* What begins: the import is the only one of its instance that is not safe.
LEMMA PackBeginInv ==
  ASSUME PackDataOK, PackIInv, NEW t \in Imports, ~Pack!Busy(t), NEW r \in PackRecords,
         r.id \in Instances, Pack!Started(t) => r.id = pack_task[t].id, r.step = "none",
         r.attempted => Pack!Started(t), PackOwn(r, pack_core), Pack!Begin(r, t),
         \A u \in Imports \ {t} : Pack!Started(u) /\ pack_task[u].id = r.id => Safe(u),
         pack_dialog' \in [open : BOOLEAN, shows : Imports \cup {0}],
         UNCHANGED <<pack_draft, pack_pick, pack_core>>
  PROVE  PackIInv'
<1>1. /\ pack_task \in [Imports -> PackRecords] /\ pack_task[t] \in PackRecords
      /\ pack_lease \in [Instances -> Imports \cup {0}] /\ t # 0
  BY TaskType DEF PackIInv, Pack!TypeOK, PackDataOK
<1> DEFINE q == pack_task'[t]
<1>2. /\ pack_task' = [pack_task EXCEPT ![t] = q] /\ q \in PackRecords /\ q.id = r.id
      /\ q.attempted = r.attempted /\ q.installed = r.installed /\ q.identity = r.identity
      /\ \/ /\ pack_lease[r.id] = 0 /\ pack_lease' = [pack_lease EXCEPT ![r.id] = t]
            /\ q.step = "opening"
         \/ /\ pack_lease[r.id] # 0 /\ pack_lease' = pack_lease
            /\ q.step = "none" /\ q.phase = "error" /\ q.error = "known"
  <2>1. CASE pack_lease[r.id] = 0
    <3> DEFINE o == [r EXCEPT !.step = "opening", !.error = None]
    <3>1. pack_task' = [pack_task EXCEPT ![t] = o] /\ pack_lease' = [pack_lease EXCEPT ![r.id] = t]
      BY <2>1 DEF Pack!Begin
    <3>2. /\ o \in PackRecords /\ o.id = r.id /\ o.step = "opening" /\ o.attempted = r.attempted
          /\ o.installed = r.installed /\ o.identity = r.identity
      BY DEF PackRecords, Pack!Steps
    <3> HIDE DEF o
    <3>3. pack_task'[t] = o
      BY <1>1, <3>1
    <3> QED BY <2>1, <3>1, <3>2, <3>3
  <2>2. CASE pack_lease[r.id] # 0
    <3> DEFINE o == [r EXCEPT !.phase = "error", !.error = "known"]
    <3>1. pack_task' = [pack_task EXCEPT ![t] = o] /\ pack_lease' = pack_lease
      BY <2>2 DEF Pack!Begin
    <3>2. /\ o \in PackRecords /\ o.id = r.id /\ o.step = "none" /\ o.attempted = r.attempted
          /\ o.installed = r.installed /\ o.identity = r.identity
          /\ o.phase = "error" /\ o.error = "known"
      BY DEF PackRecords, Pack!Phases, Pack!Errors
    <3> HIDE DEF o
    <3>3. pack_task'[t] = o
      BY <1>1, <3>1
    <3> QED BY <2>2, <3>1, <3>2, <3>3
  <2> QED BY <2>1, <2>2
<1> HIDE DEF q
<1>3. pack_task'[t] = q /\ \A u \in Imports \ {t} : pack_task'[u] = pack_task[u]
  BY <1>1, <1>2
<1>4. Pack!TypeOK'
  <2>1. pack_task' \in [Imports -> PackRecords] /\ pack_lease' \in [Instances -> Imports \cup {0}]
    BY <1>1, <1>2
  <2> QED BY <2>1 DEF PackIInv, Pack!TypeOK, PackRecords
<1>5. Pack!Started(t)' /\ \A u \in Imports \ {t} : Pack!Started(u)' = Pack!Started(u) /\ Pack!Busy(u)' = Pack!Busy(u)
                                              /\ Safe(u)' = Safe(u)
  BY <1>2, <1>3 DEF Pack!Started, Pack!Busy, Safe, Pack!CanEdit, PackDataOK
<1>6. LeaseInv'
  <2>1. \A i \in Instances : pack_lease[i] # 0 => pack_lease[i] \in Imports \ {t}
    BY <1>1 DEF PackIInv, LeaseInv
  <2>2. ASSUME NEW u \in Imports, Pack!Busy(u)' PROVE Pack!Started(u)' /\ pack_lease'[pack_task'[u].id] = u
    <3>1. CASE u = t
      BY <1>1, <1>2, <1>3, <1>5, <2>2, <3>1 DEF Pack!Busy
    <3>2. CASE u # t
      <4>1. Pack!Busy(u) /\ Pack!Started(u) /\ pack_lease[pack_task[u].id] = u /\ pack_task[u].id \in Instances
        BY <1>1, <1>5, <2>2, <3>2 DEF PackIInv, LeaseInv, Pack!Started, PackRecords
      <4>2. u # 0
        BY DEF PackDataOK
      <4> QED BY <1>1, <1>2, <1>3, <1>5, <3>2, <4>1, <4>2
    <3> QED BY <3>1, <3>2
  <2>3. ASSUME NEW i \in Instances, NEW u \in Imports, pack_lease'[i] = u PROVE Pack!Busy(u)' /\ pack_task'[u].id = i
    <3>1. CASE pack_lease[i] = u
      BY <1>3, <1>5, <2>1, <2>3, <3>1 DEF PackIInv, LeaseInv
    <3>2. CASE pack_lease[i] # u
      <4>1. i = r.id /\ u = t /\ q.step = "opening"
        BY <1>1, <1>2, <2>3, <3>2
      <4> QED BY <1>2, <1>3, <4>1 DEF Pack!Busy
    <3> QED BY <3>1, <3>2
  <2> QED BY <2>2, <2>3 DEF LeaseInv
<1>7. PackEndInv'
  BY <1>2, <1>3, <1>5 DEF PackIInv, PackEndInv, Over, Pack!Errors
<1>8. PackOwnInv'
  <2>1. PackOwn(q, pack_core)
    BY <1>2 DEF PackOwn
  <2> QED BY <1>3, <2>1 DEF PackIInv, PackOwnInv
<1>9. SafeInv'
  <2> SUFFICES ASSUME NEW u \in Imports, NEW v \in Imports, u # v, Pack!Started(u)',
                      pack_task'[u].id = pack_task'[v].id
               PROVE  Safe(u)' \/ Safe(v)'
    BY DEF SafeInv
  <2>0. r.id # None
    BY DEF PackDataOK
  <2>1. CASE u = t
    BY <1>2, <1>3, <1>5, <2>0, <2>1 DEF Pack!Started
  <2>2. CASE v = t
    BY <1>2, <1>3, <1>5, <2>0, <2>2 DEF Pack!Started
  <2>3. CASE u # t /\ v # t
    BY <1>3, <1>5, <2>3 DEF PackIInv, SafeInv
  <2> QED BY <2>1, <2>2, <2>3
<1>10. FreshInv' /\ Pack!PreviewOfFile'
  BY <1>2, <1>3, <1>5 DEF PackIInv, FreshInv, Pack!PreviewOfFile
<1> QED BY <1>4, <1>6, <1>7, <1>8, <1>9, <1>10 DEF PackIInv

\* An import that no longer keeps its instance has come to a safe end.
LEMMA KeepsSafe ==
  ASSUME PackIInv, NEW t \in Imports, Pack!Started(t), ~Pack!Keeps(t)
  PROVE  Safe(t)
<1>1. pack_task[t].step = "none" /\ Over(pack_task[t]) /\ pack_task[t].error \notin {"unknown", "invalid"}
  BY DEF PackIInv, PackEndInv, Pack!Keeps, Pack!Busy
<1>2. ~pack_task[t].confirmed \/ pack_task[t].phase # "error" \/ pack_task[t].error # "known"
  BY DEF Pack!Keeps, Pack!CanResume
<1> QED BY <1>1, <1>2 DEF Over, Pack!Errors, Safe, Pack!CanEdit, Pack!Busy

LEMMA StartInv ==
  ASSUME PackDataOK, PackIInv, NEW t \in Imports, Pack!Start(t)
  PROVE  PackIInv'
<1>1. /\ pack_task \in [Imports -> PackRecords] /\ pack_task[t] \in PackRecords
      /\ pack_dialog \in [open : BOOLEAN, shows : Imports \cup {0}]
      /\ pack_pick \in [step : {"none", "choosing", "reading"}, file : Archives \cup {None}]
      /\ pack_draft \in [file : Archives \cup {None}, preview : Archives \cup {None}, id : Instances \cup {None}]
      /\ pack_draft.preview \in {None, pack_draft.file}
  BY TaskType DEF PackIInv, Pack!TypeOK, Pack!PreviewOfFile
<1>2. pack_draft.id \in Instances /\ UNCHANGED <<pack_draft, pack_pick, pack_core>>
  BY <1>1 DEF Pack!Start
<1>3. CASE Pack!Existing(pack_draft.id) # {}
  <2>1. (CHOOSE u \in Pack!Existing(pack_draft.id) : TRUE) \in Imports
    BY <1>3 DEF Pack!Existing
  <2>2. pack_dialog' \in [open : BOOLEAN, shows : Imports \cup {0}] /\ UNCHANGED <<pack_task, pack_lease>>
    BY <1>1, <1>3, <2>1 DEF Pack!Start
  <2> QED BY <1>1, <1>2, <2>2, DialogInv
<1>4. CASE Pack!Existing(pack_draft.id) = {}
  <2> DEFINE r == [Pack!Fresh EXCEPT !.id = pack_draft.id, !.file = pack_draft.file, !.phase = "idle"]
  <2>1. ~Pack!Started(t) /\ Pack!Begin(r, t) /\ pack_dialog' = [pack_dialog EXCEPT !.shows = t]
    BY <1>4 DEF Pack!Start
  <2>2. /\ r \in PackRecords /\ r.id = pack_draft.id /\ r.step = "none" /\ ~r.attempted
        /\ r.installed = None
    BY <1>1, <1>2 DEF Pack!Fresh, PackRecords, Pack!Phases
  <2> HIDE DEF r
  <2>3. PackOwn(r, pack_core)
    BY <2>2 DEF PackOwn
  <2>4. ASSUME NEW u \in Imports \ {t}, Pack!Started(u), pack_task[u].id = r.id PROVE Safe(u)
    BY <1>4, <2>2, <2>4, KeepsSafe DEF Pack!Existing
  <2>5. pack_dialog' \in [open : BOOLEAN, shows : Imports \cup {0}]
    BY <1>1, <2>1
  <2>6. ~Pack!Busy(t)
    BY <2>1 DEF PackIInv, LeaseInv
  <2> QED BY <1>2, <2>1, <2>2, <2>3, <2>4, <2>5, <2>6, PackBeginInv
<1> QED BY <1>3, <1>4

LEMMA ResumeInv ==
  ASSUME PackDataOK, PackIInv, NEW t \in Imports, Pack!Resume(t)
  PROVE  PackIInv'
<1>1. /\ pack_task \in [Imports -> PackRecords] /\ pack_task[t] \in PackRecords /\ PackOwn(pack_task[t], pack_core)
      /\ pack_dialog \in [open : BOOLEAN, shows : Imports \cup {0}]
  BY TaskType DEF PackIInv, Pack!TypeOK, PackOwnInv
<1>2. Pack!CanResume(t) /\ ~Pack!Busy(t) /\ Pack!Begin(pack_task[t], t) /\ UNCHANGED <<pack_dialog, pack_draft, pack_pick, pack_core>>
  BY DEF Pack!Resume
<1>3. pack_task[t].attempted => Pack!Started(t)
  BY DEF PackIInv, FreshInv
<1>4. CASE Pack!Started(t)
  <2>1. ~Safe(t) /\ pack_task[t].id \in Instances
    BY <1>1, <1>2, <1>4 DEF Safe, Pack!CanResume, Pack!CanEdit, Pack!Started, PackRecords
  <2>2. \A u \in Imports \ {t} : Pack!Started(u) /\ pack_task[u].id = pack_task[t].id => Safe(u)
    BY <2>1 DEF PackIInv, SafeInv
  <2>3. pack_task[t].step = "none"
    BY <1>2 DEF Pack!Busy
  <2> QED BY <1>1, <1>2, <1>3, <2>1, <2>2, <2>3, PackBeginInv
<1>5. Pack!Started(t)
  BY <1>2 DEF Pack!CanResume, PackIInv, FreshInv
<1> QED BY <1>4, <1>5

LEMMA EditInv ==
  ASSUME PackDataOK, PackIInv, NEW t \in Imports, Pack!Edit(t)
  PROVE  PackIInv'
<1>1. /\ pack_task \in [Imports -> PackRecords] /\ pack_task[t] \in PackRecords
      /\ pack_dialog \in [open : BOOLEAN, shows : Imports \cup {0}]
  BY TaskType DEF PackIInv, Pack!TypeOK
<1> DEFINE r == [Pack!Fresh EXCEPT !.id = pack_task[t].id, !.phase = "success"]
<1>2. /\ pack_task' = [pack_task EXCEPT ![t] = r] /\ pack_dialog' = [pack_dialog EXCEPT !.shows = 0]
      /\ UNCHANGED <<pack_draft, pack_pick, pack_lease, pack_core>> /\ ~Pack!Busy(t) /\ Pack!CanEdit(t)
  BY DEF Pack!Edit
<1>3. /\ r \in PackRecords /\ r.id = pack_task[t].id /\ r.step = "none" /\ ~r.attempted
      /\ r.installed = None /\ r.phase = "success"
  BY <1>1 DEF Pack!Fresh, PackRecords, Pack!Phases
<1> HIDE DEF r
<1>4. pack_task' \in [Imports -> PackRecords] /\ pack_task'[t] = r /\ \A u \in Imports \ {t} : pack_task'[u] = pack_task[u]
  BY <1>1, <1>2, <1>3
<1>5. \A u \in Imports : /\ Pack!Started(u)' = Pack!Started(u) /\ pack_task'[u].id = pack_task[u].id
                         /\ Pack!Busy(u)' = Pack!Busy(u) /\ (Safe(u) => Safe(u)')
  <2> SUFFICES ASSUME NEW u \in Imports
               PROVE  /\ Pack!Started(u)' = Pack!Started(u) /\ pack_task'[u].id = pack_task[u].id
                      /\ Pack!Busy(u)' = Pack!Busy(u) /\ (Safe(u) => Safe(u)')
    OBVIOUS
  <2>1. CASE u = t
    BY <1>2, <1>3, <1>4, <2>1 DEF Pack!Started, Pack!Busy, Safe
  <2>2. CASE u # t
    BY <1>4, <2>2 DEF Pack!Started, Pack!Busy, Safe, Pack!CanEdit
  <2> QED BY <2>1, <2>2
<1>6. Pack!TypeOK'
  <2>1. pack_dialog' \in [open : BOOLEAN, shows : Imports \cup {0}]
    BY <1>1, <1>2
  <2> QED BY <1>2, <1>4, <2>1 DEF PackIInv, Pack!TypeOK, PackRecords
<1>7. LeaseInv'
  <2>1. \A i \in Instances : pack_lease[i] # 0 => pack_lease[i] \in Imports
    BY DEF PackIInv, Pack!TypeOK
  <2> QED BY <1>2, <1>5, <2>1 DEF PackIInv, LeaseInv
<1>8. PackEndInv' /\ PackOwnInv'
  BY <1>2, <1>3, <1>4, <1>5 DEF PackIInv, PackEndInv, Over, PackOwnInv, PackOwn
<1>9. SafeInv' /\ FreshInv' /\ Pack!PreviewOfFile'
  BY <1>2, <1>3, <1>4, <1>5 DEF PackIInv, SafeInv, FreshInv, Pack!PreviewOfFile
<1> QED BY <1>6, <1>7, <1>8, <1>9 DEF PackIInv

LEMMA PackClosedInv ==
  ASSUME PackDataOK, PackIInv, NEW t \in Imports, Pack!Closed(t)
  PROVE  PackIInv'
<1>1. /\ pack_task \in [Imports -> PackRecords] /\ pack_task[t] \in PackRecords /\ Pack!Busy(t)
      /\ pack_lease \in [Instances -> Imports \cup {0}] /\ t # 0
  BY TaskType DEF PackIInv, Pack!TypeOK, Pack!Closed, Pack!Busy, PackDataOK
<1> DEFINE r == [pack_task[t] EXCEPT !.step = "none"]
<1>2. /\ pack_task' = [pack_task EXCEPT ![t] = r] /\ pack_lease' = [pack_lease EXCEPT ![pack_task[t].id] = 0]
      /\ UNCHANGED <<pack_dialog, pack_draft, pack_pick, pack_core>> /\ pack_task[t].step = "closing"
  BY DEF Pack!Closed
<1>3. /\ r \in PackRecords /\ r.id = pack_task[t].id /\ r.step = "none" /\ r.phase = pack_task[t].phase
      /\ r.error = pack_task[t].error /\ r.attempted = pack_task[t].attempted
      /\ r.installed = pack_task[t].installed /\ r.identity = pack_task[t].identity
      /\ r.confirmed = pack_task[t].confirmed
  BY <1>1 DEF PackRecords
<1> HIDE DEF r
<1>4. pack_task' \in [Imports -> PackRecords] /\ pack_task'[t] = r /\ \A u \in Imports \ {t} : pack_task'[u] = pack_task[u]
  BY <1>1, <1>2, <1>3
<1>5. Pack!Started(t) /\ pack_lease[pack_task[t].id] = t /\ pack_task[t].id \in Instances
  BY <1>1 DEF PackIInv, LeaseInv, Pack!Started, PackRecords
<1>6. /\ \A u \in Imports : Pack!Started(u)' = Pack!Started(u) /\ pack_task'[u].id = pack_task[u].id
      /\ \A u \in Imports \ {t} : Pack!Busy(u)' = Pack!Busy(u) /\ Safe(u)' = Safe(u)
      /\ ~Pack!Busy(t)' /\ ~Safe(t)
  BY <1>1, <1>3, <1>4 DEF Pack!Started, Pack!Busy, Safe, Pack!CanEdit
<1>7. Pack!TypeOK'
  <2>1. pack_lease' \in [Instances -> Imports \cup {0}]
    BY <1>1, <1>2
  <2> QED BY <1>2, <1>4, <2>1 DEF PackIInv, Pack!TypeOK, PackRecords
<1>8. LeaseInv'
  <2>1. ASSUME NEW u \in Imports, Pack!Busy(u)' PROVE Pack!Started(u)' /\ pack_lease'[pack_task'[u].id] = u
    <3>1. u # t /\ Pack!Busy(u) /\ Pack!Started(u) /\ pack_lease[pack_task[u].id] = u /\ pack_task[u].id \in Instances
      BY <1>1, <1>6, <2>1 DEF PackIInv, LeaseInv, Pack!Started, PackRecords
    <3> QED BY <1>1, <1>2, <1>5, <1>6, <3>1
  <2>2. ASSUME NEW i \in Instances, NEW u \in Imports, pack_lease'[i] = u PROVE Pack!Busy(u)' /\ pack_task'[u].id = i
    <3>1. i # pack_task[t].id /\ pack_lease[i] = u
      BY <1>1, <1>2, <1>5, <2>2, PackDataOK DEF PackDataOK
    <3>2. Pack!Busy(u) /\ pack_task[u].id = i /\ u # t
      BY <3>1 DEF PackIInv, LeaseInv
    <3> QED BY <1>6, <3>2
  <2> QED BY <2>1, <2>2 DEF LeaseInv
<1>9. PackEndInv'
  <2>1. Over(pack_task[t])
    BY <1>2, <1>5 DEF PackIInv, PackEndInv
  <2>2. Over(r)
    BY <1>3, <2>1 DEF Over
  <2> QED BY <1>4, <1>6, <2>2 DEF PackIInv, PackEndInv
<1>10. PackOwnInv'
  <2>1. PackOwn(r, pack_core)
    BY <1>3 DEF PackIInv, PackOwnInv, PackOwn
  <2> QED BY <1>2, <1>4, <2>1 DEF PackIInv, PackOwnInv
<1>11. SafeInv'
  <2> SUFFICES ASSUME NEW u \in Imports, NEW v \in Imports, u # v, Pack!Started(u)',
                      pack_task'[u].id = pack_task'[v].id
               PROVE  Safe(u)' \/ Safe(v)'
    BY DEF SafeInv
  <2>1. Pack!Started(u) /\ Pack!Started(v) /\ pack_task[u].id = pack_task[v].id
    BY <1>6 DEF Pack!Started
  <2>2. Safe(u) \/ Safe(v)
    BY <2>1 DEF PackIInv, SafeInv
  <2> QED BY <1>6, <2>2
<1>12. FreshInv' /\ Pack!PreviewOfFile'
  BY <1>2, <1>3, <1>4, <1>6 DEF PackIInv, FreshInv, Pack!PreviewOfFile
<1> QED BY <1>7, <1>8, <1>9, <1>10, <1>11, <1>12 DEF PackIInv

LEMMA OtherInv ==
  ASSUME PackDataOK, PackIInv, NEW i \in Instances, NEW m \in Manifests \cup {None}, Pack!Other(i, m)
  PROVE  PackIInv'
<1>1. /\ UNCHANGED <<pack_task, pack_dialog, pack_draft, pack_pick, pack_lease>> /\ pack_lease[i] = 0
      /\ pack_core' = [pack_core EXCEPT ![i] = m] /\ pack_core \in [Instances -> Manifests \cup {None}]
      /\ pack_task \in [Imports -> PackRecords]
  BY TaskType DEF Pack!Other, PackIInv, Pack!TypeOK
<1>2. Pack!TypeOK'
  BY <1>1 DEF PackIInv, Pack!TypeOK
<1>3. LeaseInv' /\ PackEndInv' /\ SafeInv' /\ FreshInv' /\ Pack!PreviewOfFile'
  BY <1>1 DEF PackIInv, LeaseInv, PackEndInv, SafeInv, FreshInv, Pack!PreviewOfFile, Pack!Busy,
     Pack!Started, Safe, Pack!CanEdit
<1>4. PackOwnInv'
  <2> SUFFICES ASSUME NEW t \in Imports PROVE PackOwn(pack_task[t], pack_core')
    BY <1>1 DEF PackOwnInv
  <2>1. PackOwn(pack_task[t], pack_core)
    BY DEF PackIInv, PackOwnInv
  <2>2. CASE Pack!Busy(t)
    <3>1. pack_task[t].id \in Instances \ {i}
      BY <1>1, <2>2 DEF PackIInv, LeaseInv, Pack!Started, PackRecords, PackDataOK
    <3> QED BY <1>1, <2>1, <3>1 DEF PackOwn
  <2>3. CASE ~Pack!Busy(t)
    BY <2>1, <2>3 DEF PackOwn, Pack!Busy
  <2> QED BY <2>2, <2>3
<1> QED BY <1>2, <1>3, <1>4 DEF PackIInv

-----------------------------------------------------------------------------
LEMMA PackNextInv == ASSUME PackDataOK, PackIInv, [Pack!Next]_(Pack!vars) PROVE PackIInv'
<1>1. CASE UNCHANGED Pack!vars
  BY <1>1 DEF Pack!vars, PackIInv, Pack!TypeOK, LeaseInv, PackEndInv, PackOwnInv, SafeInv, FreshInv,
     Pack!PreviewOfFile,
              Pack!Busy, Pack!Started, Safe, Pack!CanEdit
<1>2. ASSUME NEW t \in Imports \cup {0}, Pack!Show(t) PROVE PackIInv'
  BY <1>2, DialogSteps
<1>3. ASSUME NEW f \in Archives, Pack!Choose(f) PROVE PackIInv'
  BY <1>3, DialogSteps
<1>4. ASSUME NEW i \in Instances, Pack!Preview(i) \/ Pack!EnterId(i) PROVE PackIInv'
  BY <1>4, DialogSteps
<1>5. CASE Pack!Hide \/ Pack!Pick
  BY <1>5, DialogSteps
<1>6. ASSUME NEW i \in Instances, NEW m \in Manifests \cup {None}, Pack!Other(i, m) PROVE PackIInv'
  BY <1>6, OtherInv
<1>7. ASSUME NEW t \in Imports, Pack!Start(t) \/ Pack!Resume(t) \/ Pack!Edit(t) \/ Pack!Closed(t) PROVE PackIInv'
  BY <1>7, StartInv, ResumeInv, EditInv, PackClosedInv
<1>8. ASSUME NEW t \in Imports,
             Pack!Opened(t) \/ Pack!Listed(t) \/ Pack!Reopened(t) \/ Pack!ManifestRead(t) \/ Pack!Installed(t) \/ Pack!Prepared(t)
      PROVE  PackIInv'
  BY <1>8, ImportInv
<1>9. ASSUME NEW t \in Imports, NEW m \in Manifests, Pack!Imported(t, m) PROVE PackIInv'
  BY <1>9, ImportInv
<1>10. ASSUME NEW t \in Imports, NEW m \in Manifests \cup {None}, Pack!ImportLost(t, m) PROVE PackIInv'
  BY <1>10, ImportInv
<1>11. ASSUME NEW t \in Imports, NEW e \in {"known", "unknown"}, Pack!StepFails(t, e) PROVE PackIInv'
  BY <1>11, ImportInv
<1>12. CASE Pack!Next
  BY <1>2, <1>3, <1>4, <1>5, <1>6, <1>7, <1>8, <1>9, <1>10, <1>11, <1>12 DEF Pack!Next
<1> QED BY <1>1, <1>12

LEMMA InvProperties ==
  ASSUME PackDataOK, PackIInv
  PROVE  Pack!ArchiveOnce /\ Pack!SetsUpItsOwn /\ Pack!PreviewOfFile
<1>1. Pack!ArchiveOnce
  BY DEF PackIInv, FreshInv, SafeInv, Safe, Pack!ArchiveOnce
<1>2. Pack!SetsUpItsOwn
  <2>1. \A t \in Imports : pack_task[t].step \in {"installing", "preparing"} => Pack!Busy(t)
    BY DEF Pack!Busy
  <2> QED BY <2>1 DEF PackIInv, PackOwnInv, PackOwn, LeaseInv, Pack!SetsUpItsOwn
<1> QED BY <1>1, <1>2 DEF PackIInv

-----------------------------------------------------------------------------
(***************************************************************************)
(* The panels of a server.  Whoever is under way holds the lock,           *)
(* cancelled, unmounted or not (OneHolder), so between the status that     *)
(* allowed a change and the change's end no operation can start the        *)
(* server; and no result of an earlier change is shown, since the panel    *)
(* that shows one has seen it made (PanelsOwnInv).                         *)
(***************************************************************************)

PanelsBoundsOK == MaxRevisions \in Nat \ {0} /\ MaxChanges \in Nat

\* The lock is held by one controller or by the operation, or by nobody.
OneHolder ==
  /\ \A c \in Controllers : panels_ctl[c].step # "idle" =>
       /\ panels_locked /\ panels_op.step = "idle"
       /\ \A d \in Controllers \ {c} : panels_ctl[d].step = "idle"
  /\ panels_op.step # "idle" => panels_locked

\* Nobody has started the server since the status said that it is stopped.
StillStopped ==
  \A c \in Controllers :
    (panels_ctl[c].step = "acting" /\ panels_ctl[c].kind \in Panels!Changes) => ~panels_running

PanelsIInv == Panels!TypeOK /\ OneHolder /\ StillStopped

-----------------------------------------------------------------------------
LEMMA BlankState == ASSUME PanelsBoundsOK PROVE Panels!Blank \in Panels!States
BY DEF PanelsBoundsOK, Panels!Blank, Panels!States, Panels!Panels, Panels!Steps

LEMMA PanelsInitInv == ASSUME PanelsBoundsOK PROVE Panels!Init => PanelsIInv
<1> SUFFICES ASSUME Panels!Init PROVE PanelsIInv
  OBVIOUS
<1>1. Panels!TypeOK
  <2>1. panels_ctl \in [Controllers -> Panels!States]
    BY BlankState DEF Panels!Init
  <2>2. {panels_locked, panels_running} \subseteq BOOLEAN
    BY DEF Panels!Init
  <2>3. panels_rev \in 1..MaxRevisions /\ panels_version \in [Panels!Panels -> 0..MaxChanges]
    BY DEF Panels!Init, PanelsBoundsOK
  <2> QED BY <2>1, <2>2, <2>3 DEF Panels!Init, Panels!TypeOK
<1>2. OneHolder /\ StillStopped
  BY DEF Panels!Init, Panels!Blank, OneHolder, StillStopped
<1> QED BY <1>1, <1>2 DEF PanelsIInv

-----------------------------------------------------------------------------
(* The steps of a call.                                                    *)

LEMMA WarnedState ==
  ASSUME NEW r \in Panels!States, NEW b \in BOOLEAN
  PROVE  /\ [r EXCEPT !.warned = b] \in Panels!States
         /\ [r EXCEPT !.warned = b].step = r.step
         /\ [r EXCEPT !.warned = b].kind = r.kind
BY DEF Panels!States

\* What one step of a call leaves of its controller: it goes from one step to
\* another, with a warning or without.
LEMMA GotoState ==
  ASSUME Panels!TypeOK, NEW c \in Controllers, NEW s \in Panels!Steps
  PROVE  /\ Panels!Goto(c, s) \in [Controllers -> Panels!States]
         /\ Panels!Fail(c, s) \in [Controllers -> Panels!States]
         /\ Panels!Goto(c, s)[c].step = s /\ Panels!Goto(c, s)[c].kind = panels_ctl[c].kind
         /\ Panels!Fail(c, s)[c].step = s /\ Panels!Fail(c, s)[c].kind = panels_ctl[c].kind
         /\ \A d \in Controllers \ {c} : Panels!Goto(c, s)[d] = panels_ctl[d] /\ Panels!Fail(c, s)[d] = panels_ctl[d]
<1>1. panels_ctl[c] \in Panels!States
  BY DEF Panels!TypeOK
<1>2. Panels!Current(c) \in BOOLEAN
  BY <1>1 DEF Panels!Current, Panels!States
<1>3. [panels_ctl[c] EXCEPT !.step = s] \in Panels!States
  BY <1>1 DEF Panels!States
<1>4. Panels!Goto(c, s) = [panels_ctl EXCEPT ![c] = [panels_ctl[c] EXCEPT !.step = s]]
  BY DEF Panels!Goto, Panels!TypeOK
<1>5. Panels!Goto(c, s) \in [Controllers -> Panels!States] /\ Panels!Goto(c, s)[c] = [panels_ctl[c] EXCEPT !.step = s]
      /\ \A d \in Controllers \ {c} : Panels!Goto(c, s)[d] = panels_ctl[d]
  BY <1>3, <1>4 DEF Panels!TypeOK
<1>6. Panels!Fail(c, s) = [Panels!Goto(c, s) EXCEPT ![c] =
                      [Panels!Goto(c, s)[c] EXCEPT !.warned = Panels!Goto(c, s)[c].warned \/ Panels!Current(c)]]
  BY <1>5 DEF Panels!Fail
<1>7. (Panels!Goto(c, s)[c].warned \/ Panels!Current(c)) \in BOOLEAN
  OBVIOUS
<1>8. PICK r \in Panels!States : /\ Panels!Fail(c, s) = [Panels!Goto(c, s) EXCEPT ![c] = r]
                         /\ r.step = Panels!Goto(c, s)[c].step /\ r.kind = Panels!Goto(c, s)[c].kind
  BY <1>5, <1>6, <1>7, WarnedState
<1>9. [panels_ctl[c] EXCEPT !.step = s].step = s /\ [panels_ctl[c] EXCEPT !.step = s].kind = panels_ctl[c].kind
  BY <1>1 DEF Panels!States
<1>10. Panels!Fail(c, s) \in [Controllers -> Panels!States] /\ Panels!Fail(c, s)[c] = r
       /\ \A d \in Controllers \ {c} : Panels!Fail(c, s)[d] = panels_ctl[d]
  BY <1>5, <1>8
<1> QED BY <1>5, <1>8, <1>9, <1>10

\* Emptying the list before it is read changes nothing else.
LEMMA RefreshingState ==
  ASSUME NEW next \in [Controllers -> Panels!States], NEW c \in Controllers, NEW s
  PROVE  /\ Panels!Refreshing(s, c, next) \in [Controllers -> Panels!States]
         /\ Panels!Refreshing(s, c, next)[c].step = next[c].step
         /\ Panels!Refreshing(s, c, next)[c].kind = next[c].kind
         /\ \A d \in Controllers \ {c} : Panels!Refreshing(s, c, next)[d] = next[d]
<1>1. next[c] \in Panels!States
  OBVIOUS
<1>2. [next[c] EXCEPT !.list = None] \in Panels!States
  BY <1>1 DEF Panels!States
<1> QED BY <1>1, <1>2 DEF Panels!Refreshing, Panels!States

\* A controller that holds the lock and stays under way, or goes on from what is
\* not a change, keeps the invariant; one may enter a change when the server
\* is stopped.
LEMMA StaysInv ==
  ASSUME PanelsBoundsOK, PanelsIInv, NEW c \in Controllers, panels_ctl[c].step # "idle",
         panels_ctl' \in [Controllers -> Panels!States], panels_ctl'[c].step # "idle",
         \A d \in Controllers \ {c} : panels_ctl'[d] = panels_ctl[d],
         (panels_ctl'[c].step = "acting" /\ panels_ctl'[c].kind \in Panels!Changes) => ~panels_running,
         panels_version' \in [Panels!Panels -> 0..MaxChanges],
         UNCHANGED <<panels_rev, panels_locked, panels_op, panels_running>>
  PROVE  PanelsIInv'
<1>1. Panels!TypeOK'
  BY DEF PanelsIInv, Panels!TypeOK
<1>2. OneHolder'
  BY DEF PanelsIInv, OneHolder
<1>3. StillStopped'
  BY DEF PanelsIInv, StillStopped
<1> QED BY <1>1, <1>2, <1>3 DEF PanelsIInv

\* The answer of the request: the controller goes on, with its list.
LEMMA ActedInv ==
  ASSUME PanelsBoundsOK, PanelsIInv, NEW c \in Controllers, Panels!Acted(c)
  PROVE  PanelsIInv'
<1>1. panels_ctl[c] \in Panels!States /\ panels_ctl[c].step = "acting"
  BY DEF PanelsIInv, Panels!TypeOK, Panels!Acted
<1>2. PICK made \in BOOLEAN, answered \in BOOLEAN :
        /\ made => panels_ctl[c].kind \in Panels!Changes /\ panels_version[panels_ctl[c].panel] < MaxChanges
        /\ panels_version' = IF made THEN [panels_version EXCEPT ![panels_ctl[c].panel] = @ + 1] ELSE panels_version
        /\ LET next == Panels!Went(c, Panels!AfterRequest(c, answered), answered)
           IN panels_ctl' = [next EXCEPT ![c].list = Panels!ListAfter(c, answered, next)]
  BY DEF Panels!Acted
<1> DEFINE s == Panels!AfterRequest(c, answered)
           next == Panels!Went(c, s, answered)
           l == Panels!ListAfter(c, answered, next)
<1>3. s \in {"closing", "retiring", "listing"}
  BY DEF Panels!AfterRequest, Panels!AfterChange
<1>4. panels_ctl[c].panel \in Panels!Panels /\ panels_version[panels_ctl[c].panel] \in 0..MaxChanges
  BY <1>1 DEF Panels!States, PanelsIInv, Panels!TypeOK
<1>5. panels_version' \in [Panels!Panels -> 0..MaxChanges]
  BY <1>2, <1>4 DEF PanelsIInv, Panels!TypeOK, PanelsBoundsOK
<1> HIDE DEF s
<1>6. next \in [Controllers -> Panels!States] /\ next[c].step = s
      /\ \A d \in Controllers \ {c} : next[d] = panels_ctl[d]
  <2>1. s \in Panels!Steps
    BY <1>3 DEF Panels!Steps
  <2>2. CASE answered
    BY <2>1, <2>2, GotoState, RefreshingState DEF PanelsIInv, Panels!Went
  <2>3. CASE ~answered
    BY <2>1, <2>3, GotoState, RefreshingState DEF PanelsIInv, Panels!Went
  <2> QED BY <2>2, <2>3
<1> HIDE DEF next
<1>7. l \in 0..MaxChanges \cup {None}
  BY <1>4, <1>5, <1>6 DEF Panels!ListAfter, Panels!States
<1>8. panels_ctl' = [next EXCEPT ![c].list = l]
  BY <1>2 DEF next, s
<1> HIDE DEF l
<1>9. next[c] \in Panels!States /\ panels_ctl' = [next EXCEPT ![c] = [next[c] EXCEPT !.list = l]]
  BY <1>6, <1>8
<1>10. [next[c] EXCEPT !.list = l] \in Panels!States /\ [next[c] EXCEPT !.list = l].step = s
  BY <1>6, <1>7, <1>9 DEF Panels!States
<1>11. panels_ctl' \in [Controllers -> Panels!States] /\ panels_ctl'[c].step = s
       /\ \A d \in Controllers \ {c} : panels_ctl'[d] = panels_ctl[d]
  BY <1>6, <1>9, <1>10
<1>12. UNCHANGED <<panels_rev, panels_locked, panels_op, panels_running>>
  BY DEF Panels!Acted
<1> QED BY <1>1, <1>3, <1>5, <1>11, <1>12, StaysInv

\* The steps of a call other than the request itself.
LEMMA CallStepInv ==
  ASSUME PanelsBoundsOK, PanelsIInv, NEW c \in Controllers,
         \/ Panels!Opened(c) \/ Panels!Manifest(c) \/ Panels!Checked(c) \/ Panels!Retired(c) \/ Panels!Reopened(c)
         \/ Panels!Listed(c) \/ Panels!Stated(c)
  PROVE  PanelsIInv'
<1>1. UNCHANGED <<panels_rev, panels_locked, panels_op, panels_running, panels_version>> /\ panels_ctl[c].step # "idle"
  BY DEF Panels!Opened, Panels!Manifest, Panels!Checked, Panels!Retired, Panels!Reopened, Panels!Listed,
     Panels!Stated
<1>2. panels_ctl[c] \in Panels!States /\ panels_version' \in [Panels!Panels -> 0..MaxChanges]
  BY <1>1 DEF PanelsIInv, Panels!TypeOK
<1>3. ASSUME NEW s \in Panels!Steps \ {"idle"},
             (s = "acting" /\ panels_ctl[c].kind \in Panels!Changes) => ~panels_running,
             \/ panels_ctl' = Panels!Goto(c, s) \/ panels_ctl' = Panels!Fail(c, s)
             \/ panels_ctl' = Panels!Refreshing(s, c, Panels!Goto(c, s)) \/ panels_ctl' = Panels!Refreshing(s, c, Panels!Fail(c, s))
      PROVE  PanelsIInv'
  <2>1. panels_ctl' \in [Controllers -> Panels!States] /\ panels_ctl'[c].step = s /\ panels_ctl'[c].kind = panels_ctl[c].kind
        /\ \A d \in Controllers \ {c} : panels_ctl'[d] = panels_ctl[d]
    BY <1>3, GotoState, RefreshingState DEF PanelsIInv
  <2> QED BY <1>1, <1>2, <1>3, <2>1, StaysInv
<1> USE DEF Panels!Steps
<1>4. CASE Panels!Opened(c)
  <2>1. Panels!First(c) \in Panels!Steps \ {"idle"} /\ (Panels!First(c) = "acting" => panels_ctl[c].kind \notin Panels!Changes)
    BY <1>2 DEF Panels!First, Panels!States, Panels!Changes
  <2>2. CASE panels_ctl' = Panels!Refreshing(Panels!First(c), c, Panels!Goto(c, Panels!First(c)))
    BY <1>3, <2>1, <2>2
  <2>3. CASE panels_ctl' = Panels!Goto(c, "closing") \/ panels_ctl' = Panels!Fail(c, "closing")
    BY <1>3, <2>3
  <2>4. CASE Panels!Current(c)
    <3>1. \/ panels_ctl' = Panels!Refreshing(Panels!First(c), c, Panels!Goto(c, Panels!First(c)))
          \/ panels_ctl' = Panels!Fail(c, "closing")
      BY <1>4, <2>4, Zenon DEF Panels!Opened
    <3> QED BY <2>2, <2>3, <3>1
  <2>5. CASE ~Panels!Current(c)
    <3>1. panels_ctl' = Panels!Goto(c, "closing") \/ panels_ctl' = Panels!Fail(c, "closing")
      BY <1>4, <2>5, Zenon DEF Panels!Opened
    <3> QED BY <2>3, <3>1
  <2> QED BY <2>4, <2>5
<1>5. CASE Panels!Manifest(c)
  <2>1. Panels!AfterChange(c, FALSE) \in {"closing", "retiring", "listing"}
    BY DEF Panels!AfterChange
  <2>2. \/ panels_ctl' = Panels!Goto(c, "checking") \/ panels_ctl' = Panels!Goto(c, "closing")
        \/ panels_ctl' = Panels!Refreshing(Panels!AfterChange(c, FALSE), c, Panels!Fail(c, Panels!AfterChange(c, FALSE)))
    BY <1>5, Zenon DEF Panels!Manifest
  <2>3. CASE panels_ctl' = Panels!Goto(c, "checking") \/ panels_ctl' = Panels!Goto(c, "closing")
    BY <1>3, <2>3
  <2>4. CASE panels_ctl' = Panels!Refreshing(Panels!AfterChange(c, FALSE), c, Panels!Fail(c, Panels!AfterChange(c, FALSE)))
    BY <1>3, <2>1, <2>4
  <2> QED BY <2>2, <2>3, <2>4
<1>6. CASE Panels!Checked(c)
  <2>1. Panels!AfterChange(c, FALSE) \in {"closing", "retiring", "listing"}
    BY DEF Panels!AfterChange
  <2>2. CASE Panels!Allows(c) /\ panels_ctl' = Panels!Goto(c, "acting")
    <3>1. panels_ctl[c].kind \in Panels!Changes => ~panels_running
      BY <2>2 DEF Panels!Allows, Panels!Changes
    <3> QED BY <1>3, <2>2, <3>1
  <2>3. \/ Panels!Allows(c) /\ panels_ctl' = Panels!Goto(c, "acting")
        \/ panels_ctl' = Panels!Refreshing("closing", c, Panels!Fail(c, "closing"))
        \/ panels_ctl' = Panels!Refreshing(Panels!AfterChange(c, FALSE), c, Panels!Fail(c, Panels!AfterChange(c, FALSE)))
    BY <1>6, Zenon DEF Panels!Checked
  <2>4. CASE panels_ctl' = Panels!Refreshing("closing", c, Panels!Fail(c, "closing"))
    BY <1>3, <2>4
  <2>5. CASE panels_ctl' = Panels!Refreshing(Panels!AfterChange(c, FALSE), c, Panels!Fail(c, Panels!AfterChange(c, FALSE)))
    BY <1>3, <2>1, <2>5
  <2> QED BY <2>2, <2>3, <2>4, <2>5
<1>7. CASE Panels!Retired(c)
  <2>1. panels_ctl' = Panels!Goto(c, "reopening") \/ panels_ctl' = Panels!Goto(c, "closing")
    BY <1>7, Zenon DEF Panels!Retired
  <2> QED BY <1>3, <2>1
<1>8. CASE Panels!Reopened(c)
  <2>1. \/ panels_ctl' = Panels!Refreshing("listing", c, Panels!Goto(c, "listing"))
        \/ panels_ctl' = Panels!Goto(c, "closing") \/ panels_ctl' = Panels!Fail(c, "closing")
    BY <1>8, Zenon DEF Panels!Reopened
  <2> QED BY <1>3, <2>1
<1>9. CASE Panels!Listed(c)
  <2>1. PICK ok \in BOOLEAN :
          panels_ctl' = [Panels!Goto(c, IF Panels!Current(c) THEN "stating" ELSE "closing")
                   EXCEPT ![c].list = IF Panels!Current(c) /\ ok THEN panels_version[panels_ctl[c].panel] ELSE @,
                          ![c].warned = @ \/ (Panels!Current(c) /\ ~ok)]
    BY <1>9 DEF Panels!Listed
  <2> DEFINE s == IF Panels!Current(c) THEN "stating" ELSE "closing"
             g == Panels!Goto(c, s)
             l == IF Panels!Current(c) /\ ok THEN panels_version[panels_ctl[c].panel] ELSE g[c].list
             w == g[c].warned \/ (Panels!Current(c) /\ ~ok)
  <2>2. s \in {"stating", "closing"}
    OBVIOUS
  <2> HIDE DEF s
  <2>3. g \in [Controllers -> Panels!States] /\ g[c].step = s
        /\ \A d \in Controllers \ {c} : g[d] = panels_ctl[d]
    BY <2>2, GotoState DEF PanelsIInv
  <2>4. panels_ctl' = [g EXCEPT ![c] = [g[c] EXCEPT !.list = l, !.warned = w]]
    BY <2>1, <2>3 DEF s
  <2> HIDE DEF g
  <2>5. l \in 0..MaxChanges \cup {None}
    BY <1>2, <2>3 DEF Panels!States, PanelsIInv, Panels!TypeOK
  <2>6. w \in BOOLEAN
    OBVIOUS
  <2> HIDE DEF l, w
  <2>7. [g[c] EXCEPT !.list = l] \in Panels!States /\ [g[c] EXCEPT !.list = l].step = s
    BY <2>3, <2>5 DEF Panels!States
  <2>8. [g[c] EXCEPT !.list = l, !.warned = w] = [[g[c] EXCEPT !.list = l] EXCEPT !.warned = w]
    BY <2>3 DEF Panels!States
  <2>9. [g[c] EXCEPT !.list = l, !.warned = w] \in Panels!States
        /\ [g[c] EXCEPT !.list = l, !.warned = w].step = s
    BY <2>6, <2>7, <2>8, WarnedState
  <2>10. panels_ctl' \in [Controllers -> Panels!States] /\ panels_ctl'[c].step = s
         /\ \A d \in Controllers \ {c} : panels_ctl'[d] = panels_ctl[d]
    BY <2>3, <2>4, <2>9
  <2> QED BY <1>1, <1>2, <2>2, <2>10, StaysInv
<1>10. CASE Panels!Stated(c)
  BY <1>3, <1>10 DEF Panels!Stated
<1> QED BY <1>4, <1>5, <1>6, <1>7, <1>8, <1>9, <1>10

-----------------------------------------------------------------------------
(* The page, and the beginning and the end of a call.                      *)

\* The page changes what a controller shows, never the step of its call.
LEMMA PanelsPageInv ==
  ASSUME PanelsBoundsOK, PanelsIInv, NEW c \in Controllers, NEW r \in Panels!States,
         panels_ctl' = [panels_ctl EXCEPT ![c] = r], r.step = panels_ctl[c].step,
         r.step = "acting" => r.kind = panels_ctl[c].kind,
         UNCHANGED <<panels_rev, panels_locked, panels_op, panels_running, panels_version>>
  PROVE  PanelsIInv'
<1>1. Panels!TypeOK'
  BY DEF PanelsIInv, Panels!TypeOK
<1>2. OneHolder'
  BY DEF PanelsIInv, Panels!TypeOK, OneHolder
<1>3. StillStopped'
  BY DEF PanelsIInv, Panels!TypeOK, StillStopped
<1> QED BY <1>1, <1>2, <1>3 DEF PanelsIInv

LEMMA EmptiedState ==
  ASSUME NEW r \in Panels!States
  PROVE  /\ Panels!Emptied(r) \in Panels!States /\ Panels!Emptied(r).step = r.step /\ Panels!Emptied(r).kind = r.kind
         /\ [Panels!Emptied(r) EXCEPT !.alive = FALSE] \in Panels!States
         /\ [Panels!Emptied(r) EXCEPT !.alive = FALSE].step = r.step
         /\ [Panels!Emptied(r) EXCEPT !.alive = FALSE].kind = r.kind
BY DEF Panels!Emptied, Panels!States

LEMMA ControllerInv ==
  ASSUME PanelsBoundsOK, PanelsIInv, NEW c \in Controllers,
         Panels!Mount(c) \/ Panels!Cancel(c) \/ Panels!Unmount(c) \/ Panels!Refused(c)
  PROVE  PanelsIInv'
<1>1. panels_ctl[c] \in Panels!States /\ panels_ctl \in [Controllers -> Panels!States] /\ panels_rev \in 0..MaxRevisions
  BY DEF PanelsIInv, Panels!TypeOK, PanelsBoundsOK
<1>2. CASE Panels!Mount(c)
  <2>1. PICK p \in Panels!Panels : panels_ctl' = [panels_ctl EXCEPT ![c].alive = TRUE, ![c].panel = p, ![c].scope = panels_rev]
    BY <1>2 DEF Panels!Mount
  <2> DEFINE r == [panels_ctl[c] EXCEPT !.alive = TRUE, !.panel = p, !.scope = panels_rev]
  <2>2. r \in Panels!States /\ r.step = panels_ctl[c].step /\ r.kind = panels_ctl[c].kind
    BY <1>1 DEF Panels!States
  <2>3. panels_ctl' = [panels_ctl EXCEPT ![c] = r]
    BY <1>1, <2>1
  <2> HIDE DEF r
  <2> QED BY <1>2, <2>2, <2>3, PanelsPageInv DEF Panels!Mount
<1>3. CASE Panels!Cancel(c)
  BY <1>1, <1>3, EmptiedState, PanelsPageInv DEF Panels!Cancel
<1>4. CASE Panels!Unmount(c)
  <2>1. CASE panels_ctl[c].step = "idle"
    <3>1. panels_ctl' = [panels_ctl EXCEPT ![c] = Panels!Blank] /\ Panels!Blank \in Panels!States /\ Panels!Blank.step = "idle"
      BY <1>1, <1>4, <2>1, BlankState DEF Panels!Unmount, Panels!Blank
    <3> QED BY <1>4, <2>1, <3>1, PanelsPageInv DEF Panels!Unmount
  <2>2. CASE panels_ctl[c].step # "idle"
    <3>1. panels_ctl' = [panels_ctl EXCEPT ![c] = [Panels!Emptied(panels_ctl[c]) EXCEPT !.alive = FALSE]]
      BY <1>1, <1>4, <2>2 DEF Panels!Unmount
    <3> QED BY <1>1, <1>4, <3>1, EmptiedState, PanelsPageInv DEF Panels!Unmount
  <2> QED BY <2>1, <2>2
<1>5. CASE Panels!Refused(c)
  <2>1. panels_ctl' = [panels_ctl EXCEPT ![c] = [panels_ctl[c] EXCEPT !.warned = TRUE]]
    BY <1>1, <1>5 DEF Panels!Refused
  <2> QED BY <1>1, <1>5, <2>1, WarnedState, PanelsPageInv DEF Panels!Refused
<1> QED BY <1>2, <1>3, <1>4, <1>5

\* A call takes the free lock, so that nobody else is under way.
LEMMA PanelsCallInv ==
  ASSUME PanelsBoundsOK, PanelsIInv, NEW c \in Controllers, Panels!Call(c)
  PROVE  PanelsIInv'
<1>1. panels_ctl[c] \in Panels!States /\ panels_ctl \in [Controllers -> Panels!States]
  BY DEF PanelsIInv, Panels!TypeOK
<1>2. PICK k \in Panels!Kinds(panels_ctl[c].panel) :
        panels_ctl' = [panels_ctl EXCEPT ![c].kind = k, ![c].step = "opening", ![c].kept = TRUE,
                           ![c].warned = FALSE]
  BY DEF Panels!Call
<1>3. k \in {"load", "get", "change", "fresh", "ask"}
  BY <1>1 DEF Panels!Kinds, Panels!Panels, Panels!States
<1> DEFINE r == [panels_ctl[c] EXCEPT !.kind = k, !.step = "opening", !.kept = TRUE, !.warned = FALSE]
<1>4. r \in Panels!States /\ r.step = "opening"
  BY <1>1, <1>3 DEF Panels!States, Panels!Steps
<1>5. panels_ctl' = [panels_ctl EXCEPT ![c] = r]
  BY <1>1, <1>2
<1> HIDE DEF r
<1>6. ~panels_locked /\ panels_locked' = TRUE /\ UNCHANGED <<panels_rev, panels_op, panels_running, panels_version>>
  BY DEF Panels!Call
<1>7. panels_op.step = "idle" /\ \A d \in Controllers : panels_ctl[d].step = "idle"
  BY <1>6 DEF PanelsIInv, OneHolder
<1>8. Panels!TypeOK'
  BY <1>1, <1>4, <1>5, <1>6 DEF PanelsIInv, Panels!TypeOK
<1>9. OneHolder'
  BY <1>1, <1>4, <1>5, <1>6, <1>7 DEF OneHolder
<1>10. StillStopped'
  BY <1>1, <1>4, <1>5, <1>6 DEF PanelsIInv, StillStopped
<1> QED BY <1>8, <1>9, <1>10 DEF PanelsIInv

\* The end of a call frees the lock, which it alone held.
LEMMA PanelsClosedInv ==
  ASSUME PanelsBoundsOK, PanelsIInv, NEW c \in Controllers, Panels!Closed(c)
  PROVE  PanelsIInv'
<1>1. panels_ctl[c] \in Panels!States /\ panels_ctl \in [Controllers -> Panels!States]
  BY DEF PanelsIInv, Panels!TypeOK
<1>2. PICK r \in Panels!States : r.step = "idle" /\ panels_ctl' = [panels_ctl EXCEPT ![c] = r]
  <2>1. CASE panels_ctl[c].alive
    <3> DEFINE n == [panels_ctl[c] EXCEPT !.step = "idle", !.kind = "load", !.kept = FALSE]
    <3>1. n \in Panels!States /\ n.step = "idle"
      BY <1>1 DEF Panels!States, Panels!Steps
    <3>2. panels_ctl' = [panels_ctl EXCEPT ![c] = n]
      BY <1>1, <2>1 DEF Panels!Closed
    <3> HIDE DEF n
    <3> QED BY <3>1, <3>2
  <2>2. CASE ~panels_ctl[c].alive
    <3>1. panels_ctl' = [panels_ctl EXCEPT ![c] = Panels!Blank] /\ Panels!Blank \in Panels!States /\ Panels!Blank.step = "idle"
      BY <1>1, <2>2, BlankState DEF Panels!Closed, Panels!Blank
    <3> QED BY <3>1
  <2> QED BY <2>1, <2>2
<1>3. panels_ctl[c].step = "closing" /\ panels_locked' = FALSE /\ UNCHANGED <<panels_rev, panels_op, panels_running, panels_version>>
  BY DEF Panels!Closed
<1>4. panels_op.step = "idle" /\ \A d \in Controllers \ {c} : panels_ctl[d].step = "idle"
  BY <1>3 DEF PanelsIInv, OneHolder
<1>5. Panels!TypeOK'
  BY <1>1, <1>2, <1>3 DEF PanelsIInv, Panels!TypeOK
<1>6. OneHolder'
  BY <1>1, <1>2, <1>3, <1>4 DEF OneHolder
<1>7. StillStopped'
  BY <1>1, <1>2, <1>3 DEF PanelsIInv, StillStopped
<1> QED BY <1>5, <1>6, <1>7 DEF PanelsIInv

\* An operation on the server takes the same lock.
LEMMA OperationInv ==
  ASSUME PanelsBoundsOK, PanelsIInv,
         \/ \E k \in {"start", "stop"} : Panels!Operate(k)
         \/ Panels!OperationOpened \/ Panels!OperationDone \/ Panels!OperationClosed
  PROVE  PanelsIInv'
<1> USE DEF PanelsIInv
<1>1. UNCHANGED <<panels_rev, panels_ctl, panels_version>>
  BY DEF Panels!Operate, Panels!OperationOpened, Panels!OperationDone, Panels!OperationClosed
<1>2. CASE \E k \in {"start", "stop"} : Panels!Operate(k)
  <2>1. Panels!TypeOK'
    BY <1>1, <1>2 DEF Panels!Operate, Panels!TypeOK
  <2>2. OneHolder'
    BY <1>1, <1>2 DEF Panels!Operate, OneHolder
  <2>3. StillStopped'
    BY <1>1, <1>2 DEF Panels!Operate, StillStopped
  <2> QED BY <2>1, <2>2, <2>3
<1>3. CASE Panels!OperationOpened
  <2>1. Panels!TypeOK'
    BY <1>1, <1>3 DEF Panels!OperationOpened, Panels!TypeOK
  <2>2. OneHolder'
    BY <1>1, <1>3 DEF Panels!OperationOpened, OneHolder, Panels!TypeOK
  <2>3. StillStopped'
    BY <1>1, <1>3 DEF Panels!OperationOpened, StillStopped
  <2> QED BY <2>1, <2>2, <2>3
<1>4. CASE Panels!OperationDone
  <2>1. Panels!TypeOK'
    <3>1. panels_running' \in BOOLEAN
      BY <1>4 DEF Panels!OperationDone, Panels!TypeOK
    <3> QED BY <1>1, <1>4, <3>1 DEF Panels!OperationDone, Panels!TypeOK
  <2>2. OneHolder'
    BY <1>1, <1>4 DEF Panels!OperationDone, OneHolder, Panels!TypeOK
  <2>3. \A c \in Controllers : panels_ctl[c].step = "idle"
    BY <1>4 DEF Panels!OperationDone, OneHolder
  <2>4. StillStopped'
    BY <1>1, <2>3 DEF StillStopped
  <2> QED BY <2>1, <2>2, <2>4
<1>5. CASE Panels!OperationClosed
  <2>1. Panels!TypeOK'
    BY <1>1, <1>5 DEF Panels!OperationClosed, Panels!TypeOK
  <2>2. OneHolder'
    BY <1>1, <1>5 DEF Panels!OperationClosed, OneHolder
  <2>3. StillStopped'
    BY <1>1, <1>5 DEF Panels!OperationClosed, StillStopped
  <2> QED BY <2>1, <2>2, <2>3
<1> QED BY <1>2, <1>3, <1>4, <1>5

LEMMA PanelsNextInv == ASSUME PanelsBoundsOK PROVE PanelsIInv /\ [Panels!Next]_(Panels!vars) => PanelsIInv'
<1> SUFFICES ASSUME PanelsIInv, [Panels!Next]_(Panels!vars) PROVE PanelsIInv'
  OBVIOUS
<1>1. CASE UNCHANGED Panels!vars
  BY <1>1 DEF Panels!vars, PanelsIInv, Panels!TypeOK, OneHolder, StillStopped
<1>2. CASE Panels!Visit
  BY <1>2 DEF Panels!Visit, PanelsIInv, Panels!TypeOK, OneHolder, StillStopped, PanelsBoundsOK
<1>3. CASE Panels!Halt
  <2>1. Panels!TypeOK'
    BY <1>3 DEF Panels!Halt, PanelsIInv, Panels!TypeOK
  <2> QED BY <1>3, <2>1 DEF Panels!Halt, PanelsIInv, OneHolder, StillStopped
<1>4. CASE \/ \E k \in {"start", "stop"} : Panels!Operate(k)
           \/ Panels!OperationOpened \/ Panels!OperationDone \/ Panels!OperationClosed
  BY <1>4, OperationInv
<1>5. ASSUME NEW c \in Controllers, Panels!Mount(c) \/ Panels!Cancel(c) \/ Panels!Unmount(c) \/ Panels!Refused(c)
      PROVE  PanelsIInv'
  BY <1>5, ControllerInv
<1>6. ASSUME NEW c \in Controllers, Panels!Call(c) PROVE PanelsIInv'
  BY <1>6, PanelsCallInv
<1>7. ASSUME NEW c \in Controllers, Panels!Acted(c) PROVE PanelsIInv'
  BY <1>7, ActedInv
<1>8. ASSUME NEW c \in Controllers, Panels!Closed(c) PROVE PanelsIInv'
  BY <1>8, PanelsClosedInv
<1>9. ASSUME NEW c \in Controllers,
             \/ Panels!Opened(c) \/ Panels!Manifest(c) \/ Panels!Checked(c) \/ Panels!Retired(c) \/ Panels!Reopened(c)
             \/ Panels!Listed(c) \/ Panels!Stated(c)
      PROVE  PanelsIInv'
  BY <1>9, CallStepInv
<1> QED BY <1>1, <1>2, <1>3, <1>4, <1>5, <1>6, <1>7, <1>8, <1>9 DEF Panels!Next
-----------------------------------------------------------------------------
(* What a panel shows with no call under way.                              *)

\* What holds of each controller by itself.  A list of worlds is emptied
\* before it can be stale.  One of content may be stale while the session of a
\* credential is replaced, and until the next call has read it again.
PanelsOwn(r, v) ==
  /\ r.scope <= panels_rev
  /\ r.step # "idle" => r.kind \in Panels!Kinds(r.panel)
  /\ r.step # "idle" /\ ~r.kept => r.list = None
  /\ (r.panel = "content" /\ r.step \in {"manifest", "checking", "acting"}) => r.kind \in Panels!Changes
  /\ r.alive /\ r.scope = panels_rev /\ r.list # None =>
       /\ r.panel = "worlds" => r.list = v["worlds"]
       /\ (r.panel = "content" /\ ~r.warned /\ r.step \in {"idle", "listing", "stating", "closing"})
            => r.list = v["content"]

PanelsOwnInv == \A c \in Controllers : PanelsOwn(panels_ctl[c], panels_version)

\* One controller lives for each panel; while the call of one that was thrown
\* away goes on, it shows nothing.
Apart ==
  \A c, d \in Controllers : c # d /\ panels_ctl[d].alive /\ panels_ctl[c].panel = panels_ctl[d].panel =>
    /\ ~panels_ctl[c].alive
    /\ panels_ctl[c].step # "idle" => panels_ctl[d].list = None

ShowInv == Apart /\ PanelsOwnInv

\* The record of c at a step, with a list and a warning.
Set(c, s, l, w) == [panels_ctl[c] EXCEPT !.step = s, !.list = l, !.warned = w]
At(c, s, l, w) == [panels_ctl EXCEPT ![c] = Set(c, s, l, w)]

LEMMA SetFields ==
  ASSUME Panels!TypeOK, NEW c \in Controllers, NEW s, NEW l, NEW w
  PROVE  /\ Set(c, s, l, w).step = s /\ Set(c, s, l, w).list = l /\ Set(c, s, l, w).warned = w
         /\ Set(c, s, l, w).alive = panels_ctl[c].alive /\ Set(c, s, l, w).panel = panels_ctl[c].panel
         /\ Set(c, s, l, w).scope = panels_ctl[c].scope /\ Set(c, s, l, w).kind = panels_ctl[c].kind
         /\ Set(c, s, l, w).kept = panels_ctl[c].kept
<1>1. panels_ctl[c] \in Panels!States
  BY DEF Panels!TypeOK
<1> QED BY <1>1 DEF Set, Panels!States

\* What Goto, Fail and Refreshing make of the record.
LEMMA Moves ==
  ASSUME Panels!TypeOK, NEW c \in Controllers, NEW s
  PROVE  /\ Panels!Goto(c, s) = At(c, s, panels_ctl[c].list, panels_ctl[c].warned)
         /\ Panels!Fail(c, s) = At(c, s, panels_ctl[c].list, panels_ctl[c].warned \/ Panels!Current(c))
<1>1. panels_ctl \in [Controllers -> Panels!States] /\ panels_ctl[c] \in Panels!States
  BY DEF Panels!TypeOK
<1>2. Panels!Goto(c, s) = [panels_ctl EXCEPT ![c] = [panels_ctl[c] EXCEPT !.step = s]]
  BY <1>1 DEF Panels!Goto
<1>3. [panels_ctl[c] EXCEPT !.step = s] = Set(c, s, panels_ctl[c].list, panels_ctl[c].warned)
  BY <1>1 DEF Set, Panels!States
<1>4. Panels!Goto(c, s)[c] = [panels_ctl[c] EXCEPT !.step = s]
  BY <1>1, <1>2
<1> DEFINE w == panels_ctl[c].warned \/ Panels!Current(c)
<1>5. Panels!Fail(c, s) = [Panels!Goto(c, s) EXCEPT ![c] = [[panels_ctl[c] EXCEPT !.step = s] EXCEPT !.warned = w]]
  <2>1. [panels_ctl[c] EXCEPT !.step = s].warned = panels_ctl[c].warned
    BY <1>1 DEF Panels!States
  <2> QED BY <1>4, <2>1 DEF Panels!Fail
<1> HIDE DEF w
<1>6. [[panels_ctl[c] EXCEPT !.step = s] EXCEPT !.warned = w] = Set(c, s, panels_ctl[c].list, w)
  BY <1>1 DEF Set, Panels!States
<1>7. Panels!Fail(c, s) = [panels_ctl EXCEPT ![c] = Set(c, s, panels_ctl[c].list, w)]
  BY <1>1, <1>2, <1>5, <1>6
<1> QED BY <1>2, <1>3, <1>7 DEF w, At

LEMMA RefreshingMoves ==
  ASSUME Panels!TypeOK, NEW c \in Controllers, NEW s, NEW w
  PROVE  Panels!Refreshing(s, c, At(c, s, panels_ctl[c].list, w))
           = At(c, s, IF s = "listing" THEN None ELSE panels_ctl[c].list, w)
<1>1. panels_ctl \in [Controllers -> Panels!States] /\ panels_ctl[c] \in Panels!States
  BY DEF Panels!TypeOK
<1> DEFINE next == At(c, s, panels_ctl[c].list, w)
<1>2. ASSUME s = "listing" PROVE Panels!Refreshing(s, c, next) = At(c, s, None, w)
  <2>1. next[c] = Set(c, s, panels_ctl[c].list, w)
    BY <1>1 DEF At
  <2>2. [Set(c, s, panels_ctl[c].list, w) EXCEPT !.list = None] = Set(c, s, None, w)
    BY <1>1 DEF Set, Panels!States
  <2>3. Panels!Refreshing(s, c, next) = [next EXCEPT ![c] = [next[c] EXCEPT !.list = None]]
    BY <1>2 DEF Panels!Refreshing
  <2>4. [next EXCEPT ![c] = Set(c, s, None, w)] = At(c, s, None, w)
    BY <1>1 DEF At
  <2> QED BY <2>1, <2>2, <2>3, <2>4
<1> QED BY <1>2 DEF Panels!Refreshing

\* The controller under way goes on; nobody else moves.  What the core has may
\* change for its panel alone.
LEMMA GoesOn ==
  ASSUME PanelsIInv, ShowInv, NEW c \in Controllers, panels_ctl[c].step # "idle", UNCHANGED panels_rev,
         NEW s \in Panels!Steps, NEW l, NEW w,
         panels_ctl' = At(c, s, l, w),
         \A p \in Panels!Panels \ {panels_ctl[c].panel} : panels_version'[p] = panels_version[p],
         PanelsOwn(Set(c, s, l, w), panels_version')
  PROVE  ShowInv'
<1>1. /\ panels_ctl \in [Controllers -> Panels!States] /\ panels_ctl'[c] = Set(c, s, l, w)
      /\ \A d \in Controllers \ {c} : panels_ctl'[d] = panels_ctl[d]
  BY DEF PanelsIInv, Panels!TypeOK, At
<1>2. /\ panels_ctl'[c].alive = panels_ctl[c].alive /\ panels_ctl'[c].panel = panels_ctl[c].panel
      /\ \A d \in Controllers \ {c} : panels_ctl[d].step = "idle"
  BY <1>1, SetFields DEF PanelsIInv, OneHolder
<1>3. Apart'
  BY <1>1, <1>2 DEF ShowInv, Apart
<1>4. PanelsOwnInv'
  <2> SUFFICES ASSUME NEW d \in Controllers PROVE PanelsOwn(panels_ctl[d], panels_version)'
    BY DEF PanelsOwnInv
  <2>1. CASE d = c
    BY <1>1, <2>1 DEF PanelsOwn
  <2>2. CASE d # c
    <3>1. PanelsOwn(panels_ctl[d], panels_version) /\ panels_ctl'[d] = panels_ctl[d] /\ panels_ctl[d] \in Panels!States
      BY <1>1, <2>2 DEF ShowInv, PanelsOwnInv
    <3>2. CASE panels_ctl[d].panel = panels_ctl[c].panel /\ panels_ctl[d].alive
      <4>1. panels_ctl[d].list = None
        BY <2>2, <3>2 DEF ShowInv, Apart
      <4> QED BY <3>1, <4>1 DEF PanelsOwn
    <3>3. CASE ~panels_ctl[d].alive
      BY <3>1, <3>3 DEF PanelsOwn
    <3>4. CASE panels_ctl[d].panel # panels_ctl[c].panel
      <4>1. panels_ctl[d].panel \in Panels!Panels \ {panels_ctl[c].panel}
        BY <3>1, <3>4 DEF Panels!States
      <4>2. panels_version'[panels_ctl[d].panel] = panels_version[panels_ctl[d].panel]
        BY <4>1
      <4> QED BY <3>1, <4>2 DEF PanelsOwn
    <3> QED BY <3>2, <3>3, <3>4
  <2> QED BY <2>1, <2>2
<1> QED BY <1>3, <1>4 DEF ShowInv

\* A step with the same list, or none: where the snapshot counts again, it was
\* emptied, the call is no longer current, or the user is warned.
LEMMA GoesOwn ==
  ASSUME PanelsIInv, ShowInv, NEW c \in Controllers, panels_ctl[c].step # "idle",
         UNCHANGED <<panels_rev, panels_version>>,
         NEW s \in Panels!Steps \ {"idle"}, NEW l \in {None, panels_ctl[c].list}, NEW w \in BOOLEAN,
         panels_ctl' = At(c, s, l, w),
         (panels_ctl[c].panel = "content" /\ s \in {"manifest", "checking", "acting"})
            => panels_ctl[c].kind \in Panels!Changes,
         (s \in {"listing", "stating", "closing"} /\ l # None /\ Panels!Current(c) /\ ~w)
            => (panels_ctl[c].step \in {"listing", "stating"} /\ ~panels_ctl[c].warned)
  PROVE  ShowInv'
<1>1. PanelsOwn(panels_ctl[c], panels_version)
  BY DEF ShowInv, PanelsOwnInv
<1> DEFINE r == Set(c, s, l, w)
<1>2. /\ r.step = s /\ r.list = l /\ r.warned = w /\ r.alive = panels_ctl[c].alive
      /\ r.panel = panels_ctl[c].panel /\ r.scope = panels_ctl[c].scope /\ r.kind = panels_ctl[c].kind
      /\ r.kept = panels_ctl[c].kept
  BY SetFields DEF PanelsIInv
<1> HIDE DEF r
<1>3. PanelsOwn(r, panels_version)
  <2>1. /\ r.scope <= panels_rev /\ r.kind \in Panels!Kinds(r.panel)
        /\ ~r.kept => r.list = None
        /\ (r.panel = "content" /\ r.step \in {"manifest", "checking", "acting"})
             => r.kind \in Panels!Changes
    BY <1>1, <1>2 DEF PanelsOwn
  <2>2. ASSUME r.alive, r.scope = panels_rev, r.list # None
        PROVE  /\ r.panel = "worlds" => r.list = panels_version["worlds"]
               /\ (r.panel = "content" /\ ~r.warned
                     /\ r.step \in {"idle", "listing", "stating", "closing"})
                    => r.list = panels_version["content"]
    <3>1. Panels!Current(c) /\ l = panels_ctl[c].list
      BY <1>1, <1>2, <2>2 DEF PanelsOwn, Panels!Current
    <3>2. panels_ctl[c].panel = "worlds" => panels_ctl[c].list = panels_version["worlds"]
      BY <1>1, <1>2, <2>2, <3>1 DEF PanelsOwn
    <3>3. ASSUME panels_ctl[c].panel = "content", ~w, s \in {"listing", "stating", "closing"}
          PROVE  panels_ctl[c].list = panels_version["content"]
      <4>1. panels_ctl[c].step \in {"listing", "stating"} /\ ~panels_ctl[c].warned
        BY <1>2, <2>2, <3>1, <3>3
      <4> QED BY <1>1, <1>2, <2>2, <3>1, <3>3, <4>1 DEF PanelsOwn
    <3> QED BY <1>2, <3>1, <3>2, <3>3
  <2> QED BY <2>1, <2>2 DEF PanelsOwn
<1>4. \A p \in Panels!Panels \ {panels_ctl[c].panel} : panels_version'[p] = panels_version[p]
  OBVIOUS
<1>5. PanelsOwn(Set(c, s, l, w), panels_version')
  BY <1>3 DEF r
<1>6. s \in Panels!Steps /\ UNCHANGED panels_rev
  OBVIOUS
<1> QED BY <1>4, <1>5, <1>6, GoesOn

\* The same of the steps by name.
LEMMA GotoOwn ==
  ASSUME PanelsIInv, ShowInv, NEW c \in Controllers, panels_ctl[c].step # "idle",
         UNCHANGED <<panels_rev, panels_version>>, NEW s \in Panels!Steps \ {"idle"},
         \/ panels_ctl' = Panels!Goto(c, s)
         \/ panels_ctl' = Panels!Refreshing(s, c, Panels!Goto(c, s)),
         (panels_ctl[c].panel = "content" /\ s \in {"manifest", "checking", "acting"})
            => panels_ctl[c].kind \in Panels!Changes,
         (s \in {"stating", "closing"} /\ Panels!Current(c))
            => (panels_ctl[c].step \in {"listing", "stating"} /\ ~panels_ctl[c].warned) \/ panels_ctl[c].warned,
         s = "listing" => panels_ctl' = Panels!Refreshing(s, c, Panels!Goto(c, s))
  PROVE  ShowInv'
<1>1. Panels!TypeOK /\ panels_ctl[c].warned \in BOOLEAN
  BY DEF PanelsIInv, Panels!TypeOK, Panels!States
<1>2. PICK l \in {None, panels_ctl[c].list} :
        /\ panels_ctl' = At(c, s, l, panels_ctl[c].warned)
        /\ s = "listing" => l = None
  <2>1. CASE panels_ctl' = Panels!Refreshing(s, c, Panels!Goto(c, s))
    BY <1>1, <2>1, Moves, RefreshingMoves
  <2>2. CASE panels_ctl' = Panels!Goto(c, s) /\ s # "listing"
    BY <1>1, <2>2, Moves
  <2> QED BY <2>1, <2>2
<1> QED BY <1>1, <1>2, GoesOwn

LEMMA FailOwn ==
  ASSUME PanelsIInv, ShowInv, NEW c \in Controllers, panels_ctl[c].step # "idle",
         UNCHANGED <<panels_rev, panels_version>>, NEW s \in {"closing", "retiring", "listing"},
         \/ panels_ctl' = Panels!Fail(c, s)
         \/ panels_ctl' = Panels!Refreshing(s, c, Panels!Fail(c, s))
  PROVE  ShowInv'
<1>1. Panels!TypeOK /\ panels_ctl[c].warned \in BOOLEAN
  BY DEF PanelsIInv, Panels!TypeOK, Panels!States
<1> DEFINE w == panels_ctl[c].warned \/ Panels!Current(c)
<1>2. PICK l \in {None, panels_ctl[c].list} : panels_ctl' = At(c, s, l, w)
  <2>1. Panels!Fail(c, s) = At(c, s, panels_ctl[c].list, w)
    BY <1>1, Moves
  <2> HIDE DEF w
  <2>2. CASE panels_ctl' = Panels!Refreshing(s, c, Panels!Fail(c, s))
    BY <1>1, <2>1, <2>2, RefreshingMoves
  <2>3. CASE panels_ctl' = Panels!Fail(c, s)
    BY <2>1, <2>3
  <2> QED BY <2>2, <2>3
<1>3. w \in BOOLEAN /\ (Panels!Current(c) => w)
  BY <1>1 DEF Panels!Current
<1> HIDE DEF w
<1> QED BY <1>2, <1>3, GoesOwn DEF Panels!Steps

\* The steps of a call other than the request and the reading of the lists.
LEMMA CallShows ==
  ASSUME PanelsIInv, ShowInv, NEW c \in Controllers,
         Panels!Opened(c) \/ Panels!Manifest(c) \/ Panels!Checked(c) \/ Panels!Retired(c) \/ Panels!Reopened(c) \/ Panels!Stated(c)
  PROVE  ShowInv'
<1>1. UNCHANGED <<panels_rev, panels_version>> /\ panels_ctl[c].step # "idle"
  BY DEF Panels!Opened, Panels!Manifest, Panels!Checked, Panels!Retired, Panels!Reopened, Panels!Stated
<1>2. panels_ctl[c] \in Panels!States /\ PanelsOwn(panels_ctl[c], panels_version) /\ panels_ctl[c].kind \in Panels!Kinds(panels_ctl[c].panel)
  BY <1>1 DEF PanelsIInv, Panels!TypeOK, ShowInv, PanelsOwnInv, PanelsOwn
<1> USE DEF Panels!Steps
<1>3. CASE Panels!Opened(c)
  <2>1. Panels!First(c) \in {"manifest", "checking", "acting", "listing"}
    BY <1>2 DEF Panels!First, Panels!States, Panels!Changes
  <2>2. (panels_ctl[c].panel = "content" /\ Panels!First(c) # "listing") => panels_ctl[c].kind \in Panels!Changes
    BY <1>2 DEF Panels!First, Panels!States, Panels!Changes, Panels!Kinds
  <2>3. CASE panels_ctl' = Panels!Refreshing(Panels!First(c), c, Panels!Goto(c, Panels!First(c)))
    <3>1. PICK s \in {"manifest", "checking", "acting", "listing"} : s = Panels!First(c)
      BY <2>1
    <3> QED BY <1>1, <2>2, <2>3, <3>1, GotoOwn
  <2>4. CASE panels_ctl' = Panels!Goto(c, "closing") /\ ~Panels!Current(c)
    BY <1>1, <2>4, GotoOwn
  <2>5. CASE panels_ctl' = Panels!Fail(c, "closing")
    BY <1>1, <2>5, FailOwn
  <2> QED BY <1>3, <2>3, <2>4, <2>5, Zenon DEF Panels!Opened
<1>4. Panels!AfterChange(c, FALSE) \in {"closing", "retiring", "listing"}
  BY DEF Panels!AfterChange
<1>5. PICK a \in {"closing", "retiring", "listing"} : a = Panels!AfterChange(c, FALSE)
  BY <1>4
<1>6. CASE panels_ctl' = Panels!Refreshing(a, c, Panels!Fail(c, a))
  BY <1>1, <1>6, FailOwn
<1>7. CASE Panels!Manifest(c)
  <2>1. CASE panels_ctl' = Panels!Goto(c, "closing") /\ ~Panels!Current(c)
    BY <1>1, <2>1, GotoOwn
  <2>2. CASE panels_ctl' = Panels!Goto(c, "checking")
    <3>1. panels_ctl[c].panel = "content" => panels_ctl[c].kind \in Panels!Changes
      BY <1>2, <1>7 DEF PanelsOwn, Panels!Manifest
    <3> QED BY <1>1, <2>2, <3>1, GotoOwn
  <2> QED BY <1>5, <1>6, <1>7, <2>1, <2>2, Zenon DEF Panels!Manifest
<1>8. CASE Panels!Checked(c)
  <2>1. CASE panels_ctl' = Panels!Goto(c, "acting")
    <3>1. panels_ctl[c].panel = "content" => panels_ctl[c].kind \in Panels!Changes
      BY <1>2, <1>8 DEF PanelsOwn, Panels!Checked
    <3> QED BY <1>1, <2>1, <3>1, GotoOwn
  <2>2. CASE panels_ctl' = Panels!Refreshing("closing", c, Panels!Fail(c, "closing"))
    BY <1>1, <2>2, FailOwn
  <2>3. \/ panels_ctl' = Panels!Goto(c, "acting") \/ panels_ctl' = Panels!Refreshing("closing", c, Panels!Fail(c, "closing"))
        \/ panels_ctl' = Panels!Refreshing(Panels!AfterChange(c, FALSE), c, Panels!Fail(c, Panels!AfterChange(c, FALSE)))
    BY <1>8, Zenon DEF Panels!Checked
  <2> QED BY <1>5, <1>6, <2>1, <2>2, <2>3
<1>9. CASE Panels!Retired(c)
  <2>1. CASE Panels!Current(c)
    <3>1. panels_ctl' = Panels!Goto(c, "reopening")
      BY <1>9, <2>1, Zenon DEF Panels!Retired
    <3> QED BY <1>1, <3>1, GotoOwn
  <2>2. CASE ~Panels!Current(c)
    <3>1. panels_ctl' = Panels!Goto(c, "closing")
      BY <1>9, <2>2, Zenon DEF Panels!Retired
    <3> QED BY <1>1, <2>2, <3>1, GotoOwn
  <2> QED BY <2>1, <2>2
<1>10. CASE Panels!Reopened(c)
  <2>1. CASE panels_ctl' = Panels!Refreshing("listing", c, Panels!Goto(c, "listing"))
    BY <1>1, <2>1, GotoOwn
  <2>2. CASE panels_ctl' = Panels!Goto(c, "closing") /\ ~Panels!Current(c)
    BY <1>1, <2>2, GotoOwn
  <2>3. CASE panels_ctl' = Panels!Fail(c, "closing")
    BY <1>1, <2>3, FailOwn
  <2> QED BY <1>10, <2>1, <2>2, <2>3, Zenon DEF Panels!Reopened
<1>11. CASE Panels!Stated(c)
  BY <1>1, <1>11, GotoOwn DEF Panels!Stated
<1> QED BY <1>3, <1>7, <1>8, <1>9, <1>10, <1>11

LEMMA ListedShows ==
  ASSUME PanelsIInv, ShowInv, NEW c \in Controllers, Panels!Listed(c)
  PROVE  ShowInv'
<1>1. UNCHANGED <<panels_rev, panels_version>> /\ panels_ctl[c].step = "listing"
  BY DEF Panels!Listed
<1>2. panels_ctl \in [Controllers -> Panels!States] /\ panels_ctl[c] \in Panels!States /\ PanelsOwn(panels_ctl[c], panels_version)
  BY DEF PanelsIInv, Panels!TypeOK, ShowInv, PanelsOwnInv
<1>3. PICK ok \in BOOLEAN :
        panels_ctl' = [Panels!Goto(c, IF Panels!Current(c) THEN "stating" ELSE "closing")
                 EXCEPT ![c].list = IF Panels!Current(c) /\ ok THEN panels_version[panels_ctl[c].panel] ELSE @,
                        ![c].warned = @ \/ (Panels!Current(c) /\ ~ok)]
  BY DEF Panels!Listed
<1> DEFINE s == IF Panels!Current(c) THEN "stating" ELSE "closing"
           l == IF Panels!Current(c) /\ ok THEN panels_version[panels_ctl[c].panel] ELSE panels_ctl[c].list
           w == panels_ctl[c].warned \/ (Panels!Current(c) /\ ~ok)
           g == Panels!Goto(c, s)
<1>4. g = At(c, s, panels_ctl[c].list, panels_ctl[c].warned)
  BY Moves DEF PanelsIInv
<1>5. s \in {"stating", "closing"}
  OBVIOUS
<1>6. Panels!Current(c) \/ l = panels_ctl[c].list
  OBVIOUS
<1>7. Panels!Current(c) => (ok /\ l = panels_version[panels_ctl[c].panel]) \/ (~ok /\ w /\ l = panels_ctl[c].list)
  OBVIOUS
<1>8. g[c].list = panels_ctl[c].list /\ g[c].warned = panels_ctl[c].warned
  <2>1. g[c] = Set(c, s, panels_ctl[c].list, panels_ctl[c].warned)
    BY <1>2, <1>4 DEF At
  <2> HIDE DEF s, g
  <2> QED BY <2>1, SetFields DEF PanelsIInv
<1>9. panels_ctl' = [g EXCEPT ![c] = [g[c] EXCEPT !.list = l, !.warned = w]]
  BY <1>3, <1>8
<1>10. ~Panels!Current(c) => s = "closing"
  OBVIOUS
<1> HIDE DEF s, l, w
<1>11. g[c] = Set(c, s, panels_ctl[c].list, panels_ctl[c].warned)
  BY <1>2, <1>4 DEF At
<1>12. [Set(c, s, panels_ctl[c].list, panels_ctl[c].warned) EXCEPT !.list = l, !.warned = w] = Set(c, s, l, w)
  BY <1>2 DEF Set, Panels!States
<1>13. panels_ctl' = At(c, s, l, w)
  BY <1>2, <1>4, <1>9, <1>11, <1>12 DEF At
<1> DEFINE r == Set(c, s, l, w)
<1>14. /\ r.step = s /\ r.list = l /\ r.warned = w /\ r.alive = panels_ctl[c].alive
       /\ r.panel = panels_ctl[c].panel /\ r.scope = panels_ctl[c].scope /\ r.kind = panels_ctl[c].kind
       /\ r.kept = panels_ctl[c].kept
  BY SetFields DEF PanelsIInv
<1> HIDE DEF r
<1>15. PanelsOwn(r, panels_version)
  <2>1. /\ r.scope <= panels_rev /\ r.kind \in Panels!Kinds(r.panel)
        /\ r.step \notin {"manifest", "checking", "acting"}
    BY <1>1, <1>2, <1>5, <1>14 DEF PanelsOwn
  <2>2. CASE Panels!Current(c) /\ ok
    BY <1>7, <1>14, <2>1, <2>2 DEF PanelsOwn, Panels!Current
  <2>3. CASE Panels!Current(c) /\ ~ok
    BY <1>2, <1>7, <1>14, <2>1, <2>3 DEF PanelsOwn, Panels!Current
  <2>4. CASE ~Panels!Current(c)
    BY <1>1, <1>2, <1>6, <1>14, <2>1, <2>4 DEF PanelsOwn, Panels!Current
  <2> QED BY <2>2, <2>3, <2>4
<1> QED BY <1>1, <1>5, <1>13, <1>15, GoesOn DEF r, Panels!Steps

\* After a change the lists of worlds and content are not shown before they
\* have been read again.
LEMMA ActedShows ==
  ASSUME PanelsIInv, ShowInv, NEW c \in Controllers, Panels!Acted(c)
  PROVE  ShowInv'
<1>1. UNCHANGED panels_rev /\ panels_ctl[c].step = "acting"
  BY DEF Panels!Acted
<1>2. panels_ctl \in [Controllers -> Panels!States] /\ panels_ctl[c] \in Panels!States /\ PanelsOwn(panels_ctl[c], panels_version)
      /\ panels_version \in [Panels!Panels -> 0..MaxChanges]
  BY DEF PanelsIInv, Panels!TypeOK, ShowInv, PanelsOwnInv
<1>3. PICK made \in BOOLEAN, answered \in BOOLEAN :
        /\ made => panels_ctl[c].kind \in Panels!Changes /\ panels_version[panels_ctl[c].panel] < MaxChanges
        /\ panels_version' = IF made THEN [panels_version EXCEPT ![panels_ctl[c].panel] = @ + 1] ELSE panels_version
        /\ LET next == Panels!Went(c, Panels!AfterRequest(c, answered), answered)
           IN panels_ctl' = [next EXCEPT ![c].list = Panels!ListAfter(c, answered, next)]
  BY DEF Panels!Acted
<1>4. PICK s \in {"closing", "retiring", "listing"} : s = Panels!AfterRequest(c, answered)
  BY DEF Panels!AfterRequest, Panels!AfterChange
<1> DEFINE w == IF answered THEN panels_ctl[c].warned ELSE panels_ctl[c].warned \/ Panels!Current(c)
           next == Panels!Went(c, s, answered)
<1>5. PICK v : v = w
  OBVIOUS
<1>6. PICK k \in {None, panels_ctl[c].list} :
        /\ next = At(c, s, k, v)
        /\ s = "listing" => k = None
  <2> DEFINE g == IF answered THEN Panels!Goto(c, s) ELSE Panels!Fail(c, s)
  <2>1. g = At(c, s, panels_ctl[c].list, v)
    BY <1>5, Moves DEF PanelsIInv
  <2>2. next = Panels!Refreshing(s, c, g)
    BY DEF Panels!Went
  <2> HIDE DEF g
  <2> QED BY <2>1, <2>2, RefreshingMoves DEF PanelsIInv
<1> HIDE DEF next
<1>7. PICK l : l = Panels!ListAfter(c, answered, next)
  OBVIOUS
<1>8. next[c].list = k /\ next[c] = Set(c, s, k, v)
  BY <1>2, <1>6, SetFields DEF PanelsIInv, At
<1>9. panels_ctl[c].panel # "advanced" => l = k
  BY <1>7, <1>8 DEF Panels!ListAfter
<1>10. panels_ctl' = [next EXCEPT ![c] = [next[c] EXCEPT !.list = l]]
  BY <1>3, <1>4, <1>7 DEF next
<1>11. [Set(c, s, k, v) EXCEPT !.list = l] = Set(c, s, l, v)
  BY <1>2 DEF Set, Panels!States
<1>12. panels_ctl' = At(c, s, l, v)
  BY <1>2, <1>6, <1>8, <1>10, <1>11 DEF At
<1>13. \A p \in Panels!Panels \ {panels_ctl[c].panel} : panels_version'[p] = panels_version[p]
  BY <1>2, <1>3
<1> DEFINE r == Set(c, s, l, v)
<1>14. /\ r.step = s /\ r.list = l /\ r.warned = v /\ r.alive = panels_ctl[c].alive
       /\ r.panel = panels_ctl[c].panel /\ r.scope = panels_ctl[c].scope /\ r.kind = panels_ctl[c].kind
       /\ r.kept = panels_ctl[c].kept
  BY SetFields DEF PanelsIInv
<1> HIDE DEF r, w
<1>15. PanelsOwn(r, panels_version')
  <2>1. /\ r.scope <= panels_rev /\ r.kind \in Panels!Kinds(r.panel)
        /\ r.step \notin {"manifest", "checking", "acting"}
    BY <1>1, <1>2, <1>14 DEF PanelsOwn
  <2>2. ~r.kept => r.list = None
    <3>1. CASE panels_ctl[c].panel # "advanced"
      BY <1>1, <1>2, <1>6, <1>9, <1>14, <3>1 DEF PanelsOwn
    <3>2. CASE panels_ctl[c].panel = "advanced"
      <4>1. ~panels_ctl[c].kept => l = k
        BY <1>7, <1>8 DEF Panels!ListAfter, Panels!Current
      <4> QED BY <1>1, <1>2, <1>6, <1>14, <4>1 DEF PanelsOwn
    <3> QED BY <3>1, <3>2
  <2>3. ASSUME r.alive, r.scope = panels_rev, r.list # None, r.panel \in {"worlds", "content"}
        PROVE  ~r.warned /\ r.panel = "content" => r.step = "retiring"
    <3>1. Panels!Current(c) /\ l = k
      BY <1>9, <1>14, <2>2, <2>3 DEF Panels!Current
    <3>2. s # "listing"
      BY <1>6, <1>14, <2>3, <3>1
    <3>3. panels_ctl[c].panel = "content" => panels_ctl[c].kind \in Panels!Changes
      BY <1>1, <1>2 DEF PanelsOwn
    <3>4. panels_ctl[c].panel = "content" => s = "retiring"
      BY <1>4, <3>1, <3>2, <3>3 DEF Panels!AfterRequest, Panels!AfterChange
    <3> QED BY <1>14, <3>4
  <2>4. ASSUME r.alive, r.scope = panels_rev, r.list # None, r.panel = "worlds"
        PROVE  r.list = panels_version'["worlds"]
    <3>1. Panels!Current(c) /\ l = k
      BY <1>9, <1>14, <2>2, <2>4 DEF Panels!Current
    <3>2. s # "listing"
      BY <1>6, <1>14, <2>4, <3>1
    <3>3. panels_ctl[c].kind \in {"load", "get", "change"}
      BY <1>14, <2>1, <2>4 DEF Panels!Kinds
    <3>4. panels_ctl[c].kind \notin Panels!Changes
      BY <1>4, <1>14, <2>4, <3>1, <3>2, <3>3 DEF Panels!AfterRequest, Panels!AfterChange, Panels!Changes
    <3>5. panels_version' = panels_version /\ l = panels_ctl[c].list
      BY <1>3, <1>6, <1>14, <2>4, <3>1, <3>4
    <3> QED BY <1>2, <1>14, <2>4, <3>1, <3>5 DEF PanelsOwn
  <2> QED BY <2>1, <2>2, <2>3, <2>4 DEF PanelsOwn
<1> QED BY <1>1, <1>12, <1>13, <1>15, GoesOn DEF r, Panels!Steps

-----------------------------------------------------------------------------
\* The record of a controller changes, with no call under way before or
\* after, or with one that goes on and shows nothing.
LEMMA PageShows ==
  ASSUME PanelsIInv, ShowInv, NEW c \in Controllers, NEW r \in Panels!States,
         panels_ctl' = [panels_ctl EXCEPT ![c] = r], UNCHANGED <<panels_rev, panels_version>>, PanelsOwn(r, panels_version),
         r.alive => (panels_ctl[c].alive /\ r.panel = panels_ctl[c].panel)
                    \/ (r.list = None /\ \A d \in Controllers : panels_ctl[d].alive => panels_ctl[d].panel # r.panel),
         r.step # "idle" => (panels_ctl[c].alive \/ panels_ctl[c].step # "idle") /\ r.panel = panels_ctl[c].panel,
         r.alive => (r.list = None \/ r.list = panels_ctl[c].list)
  PROVE  ShowInv'
<1>1. panels_ctl' \in [Controllers -> Panels!States] /\ panels_ctl'[c] = r /\ \A d \in Controllers \ {c} : panels_ctl'[d] = panels_ctl[d]
  BY DEF PanelsIInv, Panels!TypeOK
<1>2. Apart'
  <2> SUFFICES ASSUME NEW d \in Controllers, NEW e \in Controllers, d # e,
                      panels_ctl'[e].alive, panels_ctl'[d].panel = panels_ctl'[e].panel
               PROVE  ~panels_ctl'[d].alive /\ (panels_ctl'[d].step # "idle" => panels_ctl'[e].list = None)
    BY DEF Apart
  <2>1. CASE e = c
    <3>1. CASE panels_ctl[c].alive /\ r.panel = panels_ctl[c].panel
      BY <1>1, <2>1, <3>1 DEF ShowInv, Apart
    <3>2. CASE r.list = None /\ \A x \in Controllers : panels_ctl[x].alive => panels_ctl[x].panel # r.panel
      BY <1>1, <2>1, <3>2
    <3> QED BY <1>1, <2>1, <3>1, <3>2
  <2>2. CASE d = c
    <3>1. panels_ctl[e].alive /\ panels_ctl'[e] = panels_ctl[e] /\ panels_ctl[e].panel = r.panel
      BY <1>1, <2>2
    <3>2. ~r.alive
      BY <2>2, <3>1 DEF ShowInv, Apart
    <3>3. r.step # "idle" => panels_ctl[e].list = None
      BY <2>2, <3>1 DEF ShowInv, Apart
    <3> QED BY <1>1, <2>2, <3>1, <3>2, <3>3
  <2>3. CASE d # c /\ e # c
    BY <1>1, <2>3 DEF ShowInv, Apart
  <2> QED BY <2>1, <2>2, <2>3
<1>3. PanelsOwnInv'
  BY <1>1 DEF ShowInv, PanelsOwnInv, PanelsOwn
<1> QED BY <1>2, <1>3 DEF ShowInv

LEMMA ControllerShows ==
  ASSUME PanelsBoundsOK, PanelsIInv, ShowInv, NEW c \in Controllers,
         Panels!Mount(c) \/ Panels!Cancel(c) \/ Panels!Unmount(c) \/ Panels!Refused(c) \/ Panels!Call(c) \/ Panels!Closed(c)
  PROVE  ShowInv'
<1>1. panels_ctl \in [Controllers -> Panels!States] /\ panels_ctl[c] \in Panels!States /\ PanelsOwn(panels_ctl[c], panels_version)
      /\ panels_rev \in 0..MaxRevisions /\ Panels!Blank \in Panels!States
  BY BlankState DEF PanelsIInv, Panels!TypeOK, ShowInv, PanelsOwnInv, PanelsBoundsOK
<1>2. UNCHANGED <<panels_rev, panels_version>>
  BY DEF Panels!Mount, Panels!Cancel, Panels!Unmount, Panels!Refused, Panels!Call, Panels!Closed
<1>3. ASSUME panels_ctl' = [panels_ctl EXCEPT ![c] = Panels!Blank] PROVE ShowInv'
  <2>1. PanelsOwn(Panels!Blank, panels_version) /\ ~Panels!Blank.alive /\ Panels!Blank.step = "idle"
    BY <1>1 DEF Panels!Blank, PanelsOwn, PanelsBoundsOK
  <2> QED BY <1>1, <1>2, <1>3, <2>1, PageShows
<1>4. CASE Panels!Mount(c)
  <2>1. PICK p \in Panels!Panels :
          /\ \A d \in Controllers : panels_ctl[d].alive => panels_ctl[d].panel # p
          /\ panels_ctl' = [panels_ctl EXCEPT ![c].alive = TRUE, ![c].panel = p, ![c].scope = panels_rev]
    BY <1>4 DEF Panels!Mount
  <2> DEFINE r == [panels_ctl[c] EXCEPT !.alive = TRUE, !.panel = p, !.scope = panels_rev]
  <2>2. panels_ctl' = [panels_ctl EXCEPT ![c] = r]
    BY <1>1, <2>1
  <2>3. /\ r \in Panels!States /\ r.alive /\ r.panel = p /\ r.scope = panels_rev /\ r.list = panels_ctl[c].list
        /\ r.step = panels_ctl[c].step
    <3>1. panels_ctl[c] \in Panels!States /\ panels_rev \in 0..MaxRevisions /\ p \in Panels!Panels
      BY <1>1
    <3> QED BY <3>1 DEF Panels!States
  <2> HIDE DEF r
  <2>4. r.step = "idle" /\ r.list = None
    <3>1. panels_ctl[c] = Panels!Blank /\ Panels!Blank.step = "idle" /\ Panels!Blank.list = None
      BY <1>4 DEF Panels!Mount, Panels!Blank
    <3> QED BY <2>3, <3>1
  <2>5. PanelsOwn(r, panels_version)
    BY <1>1, <2>3, <2>4 DEF PanelsOwn
  <2> QED BY <1>2, <2>1, <2>2, <2>3, <2>4, <2>5, PageShows
<1>5. ASSUME NEW r, r = Panels!Emptied(panels_ctl[c]) \/ r = [Panels!Emptied(panels_ctl[c]) EXCEPT !.alive = FALSE]
      PROVE  /\ r \in Panels!States /\ PanelsOwn(r, panels_version) /\ r.step = panels_ctl[c].step /\ r.panel = panels_ctl[c].panel
             /\ r.list = None /\ (r.alive => panels_ctl[c].alive)
  <2>1. /\ r \in Panels!States /\ r.step = panels_ctl[c].step /\ r.panel = panels_ctl[c].panel /\ r.kind = panels_ctl[c].kind
        /\ r.scope = panels_ctl[c].scope /\ r.list = None /\ (r.alive => panels_ctl[c].alive)
    <3>1. CASE r = Panels!Emptied(panels_ctl[c])
      BY <1>1, <3>1 DEF Panels!Emptied, Panels!States
    <3>2. CASE r = [Panels!Emptied(panels_ctl[c]) EXCEPT !.alive = FALSE]
      BY <1>1, <3>2 DEF Panels!Emptied, Panels!States
    <3> QED BY <1>5, <3>1, <3>2
  <2> QED BY <1>1, <2>1 DEF PanelsOwn
<1>6. CASE Panels!Cancel(c)
  <2>1. PICK r : r = Panels!Emptied(panels_ctl[c])
    OBVIOUS
  <2>2. panels_ctl' = [panels_ctl EXCEPT ![c] = r] /\ panels_ctl[c].alive
    BY <1>6, <2>1 DEF Panels!Cancel
  <2> QED BY <1>2, <1>5, <2>1, <2>2, PageShows
<1>7. CASE Panels!Unmount(c)
  <2>1. CASE panels_ctl[c].step = "idle"
    BY <1>3, <1>7, <2>1 DEF Panels!Unmount
  <2>2. CASE panels_ctl[c].step # "idle"
    <3>1. PICK r : r = [Panels!Emptied(panels_ctl[c]) EXCEPT !.alive = FALSE]
      OBVIOUS
    <3>2. panels_ctl' = [panels_ctl EXCEPT ![c] = r] /\ panels_ctl[c].alive
      BY <1>7, <2>2, <3>1 DEF Panels!Unmount
    <3> QED BY <1>2, <1>5, <3>1, <3>2, PageShows
  <2> QED BY <2>1, <2>2
<1>8. CASE Panels!Refused(c)
  <2> DEFINE r == [panels_ctl[c] EXCEPT !.warned = TRUE]
  <2>1. panels_ctl' = [panels_ctl EXCEPT ![c] = r] /\ panels_ctl[c].alive /\ panels_ctl[c].step = "idle"
    BY <1>1, <1>8 DEF Panels!Refused
  <2>2. /\ r \in Panels!States /\ r.step = panels_ctl[c].step /\ r.panel = panels_ctl[c].panel /\ r.list = panels_ctl[c].list
        /\ r.scope = panels_ctl[c].scope /\ r.alive = panels_ctl[c].alive /\ r.warned = TRUE
    BY <1>1 DEF Panels!States
  <2> HIDE DEF r
  <2>3. PanelsOwn(r, panels_version)
    BY <1>1, <2>1, <2>2 DEF PanelsOwn
  <2> QED BY <1>2, <2>1, <2>2, <2>3, PageShows
<1>9. CASE Panels!Call(c)
  <2>1. PICK k \in Panels!Kinds(panels_ctl[c].panel) :
          panels_ctl' = [panels_ctl EXCEPT ![c].kind = k, ![c].step = "opening", ![c].kept = TRUE,
                             ![c].warned = FALSE]
    BY <1>9 DEF Panels!Call
  <2>2. k \in {"load", "get", "change", "fresh", "ask"}
    BY <1>1 DEF Panels!Kinds, Panels!Panels, Panels!States
  <2> DEFINE r == [panels_ctl[c] EXCEPT !.kind = k, !.step = "opening", !.kept = TRUE, !.warned = FALSE]
  <2>3. panels_ctl' = [panels_ctl EXCEPT ![c] = r] /\ panels_ctl[c].alive
    BY <1>1, <1>9, <2>1 DEF Panels!Call
  <2>4. /\ r \in Panels!States /\ r.step = "opening" /\ r.panel = panels_ctl[c].panel /\ r.list = panels_ctl[c].list
        /\ r.scope = panels_ctl[c].scope /\ r.alive = panels_ctl[c].alive /\ r.kind = k /\ r.kept = TRUE
    BY <1>1, <2>2 DEF Panels!States, Panels!Steps
  <2> HIDE DEF r
  <2>5. PanelsOwn(r, panels_version)
    BY <1>1, <2>4 DEF PanelsOwn
  <2> QED BY <1>2, <2>3, <2>4, <2>5, PageShows
<1>10. CASE Panels!Closed(c)
  <2>1. CASE ~panels_ctl[c].alive
    BY <1>1, <1>3, <1>10, <2>1 DEF Panels!Closed
  <2>2. CASE panels_ctl[c].alive
    <3> DEFINE r == [panels_ctl[c] EXCEPT !.step = "idle", !.kind = "load", !.kept = FALSE]
    <3>1. panels_ctl' = [panels_ctl EXCEPT ![c] = r] /\ panels_ctl[c].step = "closing"
      BY <1>1, <1>10, <2>2 DEF Panels!Closed
    <3>2. /\ r \in Panels!States /\ r.step = "idle" /\ r.panel = panels_ctl[c].panel /\ r.list = panels_ctl[c].list
          /\ r.scope = panels_ctl[c].scope /\ r.alive = panels_ctl[c].alive /\ r.warned = panels_ctl[c].warned
      BY <1>1 DEF Panels!States, Panels!Steps
    <3> HIDE DEF r
    <3>3. PanelsOwn(r, panels_version)
      BY <1>1, <3>1, <3>2 DEF PanelsOwn
    <3> QED BY <1>2, <2>2, <3>1, <3>2, <3>3, PageShows
  <2> QED BY <2>1, <2>2
<1> QED BY <1>4, <1>6, <1>7, <1>8, <1>9, <1>10

LEMMA NextShows == ASSUME PanelsBoundsOK, PanelsIInv, ShowInv, [Panels!Next]_(Panels!vars) PROVE ShowInv'
<1>1. CASE UNCHANGED <<panels_rev, panels_ctl, panels_version>>
  BY <1>1 DEF ShowInv, Apart, PanelsOwnInv, PanelsOwn, Panels!Kinds
<1>2. CASE Panels!Visit
  <2>1. panels_rev' = panels_rev + 1 /\ panels_rev \in Nat /\ UNCHANGED <<panels_ctl, panels_version>>
    BY <1>2 DEF Panels!Visit, PanelsIInv, Panels!TypeOK, PanelsBoundsOK
  <2>2. \A c \in Controllers : panels_ctl[c].scope \in Nat
    BY DEF PanelsIInv, Panels!TypeOK, Panels!States
  <2>3. PanelsOwnInv'
    BY <2>1, <2>2 DEF ShowInv, PanelsOwnInv, PanelsOwn
  <2> QED BY <2>1, <2>3 DEF ShowInv, Apart
<1>3. CASE \/ \E k \in {"start", "stop"} : Panels!Operate(k)
           \/ Panels!OperationOpened \/ Panels!OperationDone \/ Panels!OperationClosed \/ Panels!Halt
  BY <1>1, <1>3 DEF Panels!Operate, Panels!OperationOpened, Panels!OperationDone, Panels!OperationClosed,
     Panels!Halt
<1>4. ASSUME NEW c \in Controllers,
             Panels!Mount(c) \/ Panels!Cancel(c) \/ Panels!Unmount(c) \/ Panels!Refused(c) \/ Panels!Call(c) \/ Panels!Closed(c)
      PROVE  ShowInv'
  BY <1>4, ControllerShows
<1>5. ASSUME NEW c \in Controllers,
             Panels!Opened(c) \/ Panels!Manifest(c) \/ Panels!Checked(c) \/ Panels!Retired(c) \/ Panels!Reopened(c) \/ Panels!Stated(c)
      PROVE  ShowInv'
  BY <1>5, CallShows
<1>6. ASSUME NEW c \in Controllers, Panels!Listed(c) PROVE ShowInv'
  BY <1>6, ListedShows
<1>7. ASSUME NEW c \in Controllers, Panels!Acted(c) PROVE ShowInv'
  BY <1>7, ActedShows
<1>8. UNCHANGED Panels!vars => UNCHANGED <<panels_rev, panels_ctl, panels_version>>
  BY DEF Panels!vars
<1> QED BY <1>1, <1>2, <1>3, <1>4, <1>5, <1>6, <1>7, <1>8 DEF Panels!Next

LEMMA InitShows == ASSUME PanelsBoundsOK PROVE Panels!Init => ShowInv
<1> SUFFICES ASSUME Panels!Init PROVE ShowInv
  OBVIOUS
<1>1. \A c \in Controllers : panels_ctl[c] = Panels!Blank
  BY DEF Panels!Init
<1>2. PanelsOwn(Panels!Blank, panels_version) /\ ~Panels!Blank.alive
  BY DEF Panels!Init, Panels!Blank, PanelsOwn
<1> QED BY <1>1, <1>2 DEF ShowInv, Apart, PanelsOwnInv

LEMMA InvShownIsCurrent == PanelsIInv /\ ShowInv => Panels!ShownIsCurrent
<1> SUFFICES ASSUME PanelsIInv, ShowInv, NEW c \in Controllers,
                    panels_ctl[c].alive, panels_ctl[c].scope = panels_rev, panels_ctl[c].step = "idle", panels_ctl[c].list # None,
                    ~panels_ctl[c].warned, panels_ctl[c].panel # "advanced"
             PROVE  panels_ctl[c].list = panels_version[panels_ctl[c].panel]
  BY DEF Panels!ShownIsCurrent
<1>1. panels_ctl[c].panel \in {"worlds", "content"}
  BY DEF PanelsIInv, Panels!TypeOK, Panels!States, Panels!Panels
<1> QED BY <1>1 DEF ShowInv, PanelsOwnInv, PanelsOwn

\* A change at the core holds the lock, so nothing else is under way.
LEMMA InvChangedWhileStopped == PanelsIInv => Panels!ChangedWhileStopped
BY DEF PanelsIInv, OneHolder, StillStopped, Panels!ChangedWhileStopped

-----------------------------------------------------------------------------
(***************************************************************************)
(* The diagnostic log.  A line holds one record at most, so that what a    *)
(* damaged line swallowed is one record for one line that a read reports;  *)
(* a record that is neither on its way nor in the files nor old is         *)
(* counted (CountInv).  The queue is in order and newer than the files,    *)
(* and a rotation, cut short or not, moves files and mixes none.           *)
(***************************************************************************)

LogDataOK == /\ QueueSize \in Nat /\ MaxRecords \in Nat
             /\ MaxLines \in Nat \ {0} /\ MaxFiles \in Nat \ {0}

Numbers == 0..MaxFiles - 1
Disks == {d \in [Numbers -> Seq(Log!Lines)] : \A i \in Numbers : Len(d[i]) <= MaxLines}

\* What one line holds: one record at most, and none as long as it is open.
LineOK(l) == /\ l.open => l.ids = {} /\ ~l.whole
             /\ \A a, b \in l.ids : a = b
Before(i, k, j, m) == i > j \/ (i = j /\ k < m)
InOrder(d) == \A i, j \in Numbers : \A k \in DOMAIN d[i], m \in DOMAIN d[j] :
  Before(i, k, j, m) => \A a \in d[i][k].ids, b \in d[j][m].ids : a < b
DiskOK(d) ==
  /\ d \in Disks /\ InOrder(d)
  /\ \A i \in Numbers : \A k \in DOMAIN d[i] : LineOK(d[i][k])

QueueInv ==
  /\ \A i \in DOMAIN log_queue :
       IF log_queue[i].act = "record"
       THEN log_queue[i].record \in 1..log_emitted /\ \A n \in Log!Written(log_disk) : n < log_queue[i].record
       ELSE log_queue[i].record = 0
  /\ \A i, j \in DOMAIN log_queue :
       i < j /\ log_queue[i].act = "record" /\ log_queue[j].act = "record" => log_queue[i].record < log_queue[j].record

\* Records that went nowhere are counted.
Missing == (1..log_emitted) \ (Log!Queued \cup Log!Written(log_disk) \cup log_gone)
CountInv == Log!Written(log_disk) \subseteq 1..log_emitted /\ Cardinality(Missing) <= log_shared.dropped

ConsentInv == log_saved = "on" \/ log_shared.enabled \/ log_store = "on" => TRUE \in log_wish

LogIInv == Log!TypeOK /\ DiskOK(log_disk) /\ QueueInv /\ CountInv /\ ConsentInv

Shareds == [enabled : BOOLEAN, available : BOOLEAN, dropped : Nat, busy : BOOLEAN]
LogInvocations == [pc : {"idle", "send", "wait", "dialog", "done"}, act : Log!Actions, ok : BOOLEAN]
PanelStates == [call : Readings \cup {None}, pending : Readings \cup {None}, enabled : BOOLEAN]

LEMMA LogTyped ==
  Log!TypeOK <=> /\ log_saved \in {"on", "off", "torn"} /\ log_disk \in Disks
                 /\ log_store \in {"failed", "on", "off"} /\ log_shared \in Shareds
                 /\ log_queue \in Seq(Log!Commands) /\ Len(log_queue) <= QueueSize
                 /\ log_calls \in [Readings -> LogInvocations] /\ log_panel \in PanelStates
                 /\ log_emitted \in 0..MaxRecords /\ log_gone \subseteq 1..MaxRecords
                 /\ log_wish \in (SUBSET BOOLEAN) \ {{}}
<1>1. log_disk \in Disks <=> /\ log_disk \in [Numbers -> Seq(Log!Lines)]
                             /\ \A i \in DOMAIN log_disk : Len(log_disk[i]) <= MaxLines
  BY DEF Disks
<1> QED BY <1>1 DEF Log!TypeOK, Shareds, LogInvocations, PanelStates, Numbers

-----------------------------------------------------------------------------
(* The files.                                                               *)

LEMMA WrittenFacts ==
  ASSUME LogDataOK, NEW d \in Disks, NEW n
  PROVE  n \in Log!Written(d) <=> \E i \in Numbers : \E k \in DOMAIN d[i] : n \in d[i][k].ids
<1>1. ASSUME n \in Log!Written(d) PROVE \E i \in Numbers : \E k \in DOMAIN d[i] : n \in d[i][k].ids
  <2>1. PICK p \in Log!Places(d) : n \in Log!Line(d, p).ids
    BY <1>1 DEF Log!Written
  <2>2. p[1] \in Numbers /\ p[2] \in DOMAIN d[p[1]] /\ n \in d[p[1]][p[2]].ids
    BY <2>1 DEF Log!Places, Log!Line, Numbers
  <2> QED BY <2>2
<1>2. ASSUME NEW i \in Numbers, NEW k \in DOMAIN d[i], n \in d[i][k].ids PROVE n \in Log!Written(d)
  <2>1. d[i] \in Seq(Log!Lines) /\ Len(d[i]) <= MaxLines
    BY DEF Disks
  <2>2. k \in 1..MaxLines
    BY <2>1 DEF LogDataOK
  <2>3. <<i, k>> \in Log!Places(d)
    BY <2>2 DEF Log!Places, Numbers
  <2>4. n \in Log!Line(d, <<i, k>>).ids
    BY <1>2 DEF Log!Line
  <2> QED BY <2>3, <2>4 DEF Log!Written
<1> QED BY <1>1, <1>2

LEMMA WrittenType == ASSUME LogDataOK, NEW d \in Disks PROVE Log!Written(d) \subseteq 1..MaxRecords
<1> SUFFICES ASSUME NEW n \in Log!Written(d) PROVE n \in 1..MaxRecords
  OBVIOUS
<1>1. PICK i \in Numbers : \E k \in DOMAIN d[i] : n \in d[i][k].ids
  BY WrittenFacts
<1>2. PICK k \in DOMAIN d[i] : n \in d[i][k].ids
  BY <1>1
<1>3. d[i][k] \in Log!Lines
  BY DEF Disks
<1> QED BY <1>2, <1>3 DEF Log!Lines

\* Files that move or go away, in their order.
LEMMA MovedFacts ==
  ASSUME LogDataOK, NEW d, DiskOK(d), NEW e, NEW f \in [Numbers -> Numbers],
         e = [i \in Numbers |-> e[i]],
         \A i \in Numbers : e[i] = <<>> \/ e[i] = d[f[i]],
         \A i, j \in Numbers : i > j /\ e[i] # <<>> /\ e[j] # <<>> => f[i] > f[j]
  PROVE  DiskOK(e) /\ Log!Written(e) \subseteq Log!Written(d)
<1>1. ASSUME NEW i \in Numbers PROVE e[i] \in Seq(Log!Lines) /\ Len(e[i]) <= MaxLines
  <2>1. <<>> \in Seq(Log!Lines) /\ Len(<<>>) = 0
    OBVIOUS
  <2>2. d[f[i]] \in Seq(Log!Lines) /\ Len(d[f[i]]) <= MaxLines
    BY DEF DiskOK, Disks
  <2>3. CASE e[i] = <<>>
    BY <2>1, <2>3 DEF LogDataOK
  <2>4. CASE e[i] = d[f[i]]
    BY <2>2, <2>4
  <2> QED BY <2>3, <2>4
<1>2. e \in Disks
  BY <1>1 DEF Disks
<1>3. ASSUME NEW i \in Numbers, NEW k \in DOMAIN e[i]
      PROVE  e[i] # <<>> /\ e[i] = d[f[i]] /\ f[i] \in Numbers /\ k \in DOMAIN d[f[i]]
  BY <1>3
<1>4. ASSUME NEW i \in Numbers, NEW j \in Numbers, NEW k \in DOMAIN e[i], NEW m \in DOMAIN e[j],
             Before(i, k, j, m)
      PROVE  \A a \in e[i][k].ids, b \in e[j][m].ids : a < b
  <2>1. Before(f[i], k, f[j], m)
    BY <1>3, <1>4 DEF Before
  <2>2. /\ e[i] = d[f[i]] /\ f[i] \in Numbers /\ k \in DOMAIN d[f[i]]
        /\ e[j] = d[f[j]] /\ f[j] \in Numbers /\ m \in DOMAIN d[f[j]]
    BY <1>3
  <2> QED BY <2>1, <2>2 DEF DiskOK, InOrder
<1>5. InOrder(e)
  BY <1>4 DEF InOrder
<1>6. \A i \in Numbers : \A k \in DOMAIN e[i] : LineOK(e[i][k])
  BY <1>3 DEF DiskOK
<1>7. ASSUME NEW n \in Log!Written(e) PROVE n \in Log!Written(d)
  <2>1. PICK i \in Numbers : \E k \in DOMAIN e[i] : n \in e[i][k].ids
    BY <1>2, WrittenFacts
  <2>2. PICK k \in DOMAIN e[i] : n \in e[i][k].ids
    BY <2>1
  <2>3. f[i] \in Numbers /\ k \in DOMAIN d[f[i]] /\ n \in d[f[i]][k].ids
    BY <1>3, <2>2
  <2> QED BY <2>3, WrittenFacts DEF DiskOK
<1> QED BY <1>2, <1>5, <1>6, <1>7 DEF DiskOK

LEMMA RotatedFacts ==
  ASSUME LogDataOK, NEW d, DiskOK(d), NEW k \in 0..MaxFiles
  PROVE  /\ DiskOK(Log!Rotated(d, k)) /\ Log!Written(Log!Rotated(d, k)) \subseteq Log!Written(d)
         /\ k = MaxFiles => Log!Rotated(d, k)[0] = <<>>
<1>1. d \in [Numbers -> Seq(Log!Lines)] /\ DOMAIN d = Numbers
  BY DEF DiskOK, Disks
<1>2. PICK e : e = Log!Rotated(d, k)
  OBVIOUS
<1>3. e = [i \in Numbers |-> IF k = 0 \/ i < MaxFiles - k THEN d[i]
                             ELSE IF i = MaxFiles - k THEN <<>> ELSE d[i - 1]]
  BY <1>1, <1>2 DEF Log!Rotated
<1>4. PICK f : f = [i \in Numbers |-> IF k = 0 \/ i <= MaxFiles - k THEN i ELSE i - 1]
  OBVIOUS
<1>5. f \in [Numbers -> Numbers]
  BY <1>4 DEF Numbers, LogDataOK
<1>6. ASSUME NEW i \in Numbers PROVE e[i] = <<>> \/ e[i] = d[f[i]]
  <2>1. CASE k = 0 \/ i < MaxFiles - k
    <3>1. e[i] = d[i] /\ f[i] = i
      BY <1>3, <1>4, <2>1 DEF Numbers, LogDataOK
    <3> QED BY <3>1
  <2>2. CASE k # 0 /\ i = MaxFiles - k
    BY <1>3, <2>2 DEF Numbers, LogDataOK
  <2>3. CASE k # 0 /\ i > MaxFiles - k
    <3>1. e[i] = d[i - 1] /\ f[i] = i - 1
      BY <1>3, <1>4, <2>3 DEF Numbers, LogDataOK
    <3> QED BY <3>1
  <2> QED BY <2>1, <2>2, <2>3 DEF Numbers, LogDataOK
<1>7. ASSUME NEW i \in Numbers, NEW j \in Numbers, i > j, e[i] # <<>>, e[j] # <<>> PROVE f[i] > f[j]
  <2>1. k # 0 => i # MaxFiles - k /\ j # MaxFiles - k
    BY <1>3, <1>7 DEF Numbers, LogDataOK
  <2> QED BY <1>4, <1>7, <2>1 DEF Numbers, LogDataOK
<1>8. k = MaxFiles => e[0] = <<>>
  BY <1>3 DEF Numbers, LogDataOK
<1>9. e = [i \in Numbers |-> e[i]]
  BY <1>3
<1>10. DiskOK(e) /\ Log!Written(e) \subseteq Log!Written(d)
  BY <1>5, <1>6, <1>7, <1>9, MovedFacts
<1> QED BY <1>2, <1>8, <1>10

Cleared(d, k) == [i \in DOMAIN d |-> IF i < k THEN <<>> ELSE d[i]]

LEMMA ClearedFacts ==
  ASSUME LogDataOK, NEW d, DiskOK(d), NEW k \in Nat
  PROVE  DiskOK(Cleared(d, k)) /\ Log!Written(Cleared(d, k)) \subseteq Log!Written(d)
<1>0. PICK e : e = Cleared(d, k)
  OBVIOUS
<1>1. DOMAIN d = Numbers
  BY DEF DiskOK, Disks
<1>2. PICK f : f = [i \in Numbers |-> i]
  OBVIOUS
<1>3. f \in [Numbers -> Numbers] /\ \A i \in Numbers : f[i] = i
  BY <1>2
<1>4. e = [i \in Numbers |-> e[i]] /\ \A i \in Numbers : e[i] = <<>> \/ e[i] = d[f[i]]
  BY <1>0, <1>1, <1>3 DEF Cleared
<1>5. \A i, j \in Numbers : i > j /\ e[i] # <<>> /\ e[j] # <<>> => f[i] > f[j]
  BY <1>3
<1>6. DiskOK(e) /\ Log!Written(e) \subseteq Log!Written(d)
  BY <1>3, <1>4, <1>5, MovedFacts
<1> QED BY <1>0, <1>6

LEMMA ReadyFacts ==
  ASSUME LogDataOK, NEW d, DiskOK(d)
  PROVE  DiskOK(Log!Ready(d)) /\ Log!Written(Log!Ready(d)) \subseteq Log!Written(d) /\ Len(Log!Ready(d)[0]) < MaxLines
<1>1. MaxFiles \in 0..MaxFiles
  BY DEF LogDataOK
<1>2. CASE Log!Room(d)
  BY <1>2 DEF Log!Ready, Log!Room
<1>3. CASE ~Log!Room(d)
  <2>1. Log!Ready(d) = Log!Rotated(d, MaxFiles)
    BY <1>3 DEF Log!Ready
  <2>2. Len(<<>>) < MaxLines
    BY DEF LogDataOK
  <2> QED BY <1>1, <2>1, <2>2, RotatedFacts
<1> QED BY <1>2, <1>3

LEMMA PutFacts ==
  ASSUME LogDataOK, NEW file \in Seq(Log!Lines), Len(file) < MaxLines,
         \A k \in DOMAIN file : LineOK(file[k]),
         NEW r \in 1..MaxRecords, NEW whole \in BOOLEAN, NEW new, new = Log!Put(file, r, whole)
  PROVE  /\ new \in Seq(Log!Lines) /\ Len(new) <= MaxLines
         /\ \A k \in DOMAIN new : LineOK(new[k])
         /\ \E last \in DOMAIN new :
              /\ \A k \in DOMAIN new : k <= last
              /\ \A k \in DOMAIN new \ {last} : k \in DOMAIN file /\ new[k] = file[k]
              /\ \A k \in DOMAIN file : IF k = last THEN file[k].ids = {} ELSE k \in DOMAIN new /\ new[k] = file[k]
              /\ new[last].ids = IF whole THEN {r} ELSE {}
<1>1. PICK ids : ids = IF whole THEN {r} ELSE {}
  OBVIOUS
<1>2. ids \in SUBSET (1..MaxRecords) /\ \A a, b \in ids : a = b
  BY <1>1
<1>3. CASE file # <<>> /\ file[Len(file)].open
  <2>1. Len(file) \in DOMAIN file /\ Len(file) \in Nat
    BY <1>3
  <2>2. file[Len(file)] \in Log!Lines /\ file[Len(file)].ids = {}
    BY <1>3, <2>1 DEF LineOK
  <2>3. PICK l : l = [ids |-> file[Len(file)].ids \cup ids, whole |-> FALSE, open |-> ~whole]
    OBVIOUS
  <2>4. l \in Log!Lines /\ l.ids = ids /\ ~l.whole /\ l.open = ~whole
    BY <1>2, <2>2, <2>3 DEF Log!Lines
  <2>5. LineOK(l)
    BY <1>1, <1>2, <2>4 DEF LineOK
  <2>6. new = [file EXCEPT ![Len(file)] = l]
    BY <1>1, <1>3, <2>3 DEF Log!Put
  <2>7. new \in Seq(Log!Lines) /\ Len(new) = Len(file) /\ new[Len(file)] = l
        /\ DOMAIN new = DOMAIN file /\ \A k \in DOMAIN file \ {Len(file)} : new[k] = file[k]
    BY <2>1, <2>4, <2>6
  <2>8. \A k \in DOMAIN new : k <= Len(file)
    BY <2>1, <2>7
  <2>9. \A k \in DOMAIN new : LineOK(new[k])
    BY <2>5, <2>7
  <2>10. Len(new) <= MaxLines
    BY <2>1, <2>7 DEF LogDataOK
  <2> QED BY <1>1, <2>1, <2>2, <2>4, <2>7, <2>8, <2>9, <2>10
<1>4. CASE ~(file # <<>> /\ file[Len(file)].open)
  <2>1. PICK l : l = [ids |-> ids, whole |-> whole, open |-> ~whole]
    OBVIOUS
  <2>2. l \in Log!Lines /\ l.ids = ids /\ l.whole = whole /\ l.open = ~whole
    BY <1>2, <2>1 DEF Log!Lines
  <2>3. LineOK(l)
    BY <1>1, <1>2, <2>2 DEF LineOK
  <2>4. new = Append(file, l)
    BY <1>1, <1>4, <2>1 DEF Log!Put
  <2>5. PICK last : last = Len(file) + 1
    OBVIOUS
  <2>6. new \in Seq(Log!Lines) /\ Len(new) = last /\ DOMAIN new = 1..last /\ last \in DOMAIN new
        /\ new[last] = l /\ last \notin DOMAIN file /\ (\A k \in DOMAIN file : new[k] = file[k])
        /\ \A k \in DOMAIN new : k <= last
    BY <2>2, <2>4, <2>5
  <2>7. Len(new) <= MaxLines
    BY <2>5, <2>6 DEF LogDataOK
  <2>8. ASSUME NEW k \in DOMAIN new PROVE LineOK(new[k])
    <3>1. CASE k = last
      BY <2>3, <2>6, <3>1
    <3>2. CASE k \in DOMAIN file
      BY <2>6, <3>2
    <3>3. k = last \/ k \in 1..Len(file)
      BY <2>5, <2>6
    <3>4. DOMAIN file = 1..Len(file)
      OBVIOUS
    <3> QED BY <3>1, <3>2, <3>3, <3>4
  <2>9. ASSUME NEW k \in DOMAIN new \ {last} PROVE k \in DOMAIN file /\ new[k] = file[k]
    <3>1. k \in 1..Len(file)
      BY <2>5, <2>6
    <3>2. DOMAIN file = 1..Len(file)
      OBVIOUS
    <3> QED BY <2>6, <3>1, <3>2
  <2>10. new[last].ids = IF whole THEN {r} ELSE {}
    BY <1>1, <2>2, <2>6
  <2>11. \A k \in DOMAIN file :
           IF k = last THEN file[k].ids = {} ELSE k \in DOMAIN new /\ new[k] = file[k]
    BY <2>6
  <2> QED BY <2>6, <2>7, <2>8, <2>9, <2>10, <2>11
<1> QED BY <1>3, <1>4

\* The record r, newer than all there are, or a piece of it, on the first file.
LEMMA PutDisk ==
  ASSUME LogDataOK, NEW d, DiskOK(d), Len(d[0]) < MaxLines, NEW r \in 1..MaxRecords,
         \A n \in Log!Written(d) : n < r, NEW whole \in BOOLEAN,
         NEW e, e = [d EXCEPT ![0] = Log!Put(@, r, whole)]
  PROVE  /\ DiskOK(e) /\ Log!Written(e) \subseteq Log!Written(d) \cup {r}
         /\ Log!Written(d) \subseteq Log!Written(e) /\ (whole => r \in Log!Written(e))
<1>1. d \in [Numbers -> Seq(Log!Lines)] /\ d \in Disks /\ 0 \in Numbers
  BY DEF DiskOK, Disks, Numbers, LogDataOK
<1>2. PICK new : new = Log!Put(d[0], r, whole)
  OBVIOUS
<1>3. /\ new \in Seq(Log!Lines) /\ Len(new) <= MaxLines /\ \A k \in DOMAIN new : LineOK(new[k])
      /\ \E last \in DOMAIN new :
              /\ \A k \in DOMAIN new : k <= last
              /\ \A k \in DOMAIN new \ {last} : k \in DOMAIN d[0] /\ new[k] = d[0][k]
              /\ \A k \in DOMAIN d[0] : IF k = last THEN d[0][k].ids = {} ELSE k \in DOMAIN new /\ new[k] = d[0][k]
              /\ new[last].ids = IF whole THEN {r} ELSE {}
  BY <1>1, <1>2, PutFacts DEF DiskOK
<1>4. PICK last \in DOMAIN new :
              /\ \A k \in DOMAIN new : k <= last
              /\ \A k \in DOMAIN new \ {last} : k \in DOMAIN d[0] /\ new[k] = d[0][k]
              /\ \A k \in DOMAIN d[0] : IF k = last THEN d[0][k].ids = {} ELSE k \in DOMAIN new /\ new[k] = d[0][k]
              /\ new[last].ids = IF whole THEN {r} ELSE {}
  BY <1>3
<1>5. e = [d EXCEPT ![0] = new]
  BY <1>1, <1>2
<1>6. e[0] = new /\ \A i \in Numbers \ {0} : e[i] = d[i]
  BY <1>1, <1>5
<1>7. e \in Disks
  BY <1>1, <1>3, <1>5 DEF Disks
<1>8. \A i \in Numbers : \A k \in DOMAIN e[i] : LineOK(e[i][k])
  BY <1>3, <1>6 DEF DiskOK
<1>9. ASSUME NEW i \in Numbers, NEW k \in DOMAIN e[i], ~(i = 0 /\ k = last)
      PROVE  k \in DOMAIN d[i] /\ e[i][k] = d[i][k]
  BY <1>4, <1>6, <1>9
<1>10. ASSUME NEW i \in Numbers, NEW j \in Numbers, NEW k \in DOMAIN e[i], NEW m \in DOMAIN e[j],
              Before(i, k, j, m), NEW a \in e[i][k].ids, NEW b \in e[j][m].ids
       PROVE  a < b
  <2>1. ~(i = 0 /\ k = last)
    <3>1. SUFFICES ASSUME i = 0, k = last PROVE FALSE
      OBVIOUS
    <3>2. j = 0 /\ k < m
      BY <1>10, <3>1 DEF Before, Numbers
    <3>3. m \in DOMAIN new /\ m <= last
      BY <1>4, <1>6, <3>2
    <3>4. last \in Nat /\ m \in Nat
      BY <1>3, <3>3
    <3> QED BY <3>1, <3>2, <3>3, <3>4
  <2>2. k \in DOMAIN d[i] /\ a \in d[i][k].ids
    BY <1>9, <2>1
  <2>3. CASE j = 0 /\ m = last
    <3>1. b = r
      BY <1>4, <1>6, <2>3
    <3>2. a \in Log!Written(d)
      BY <1>1, <2>2, WrittenFacts
    <3> QED BY <3>1, <3>2
  <2>4. CASE ~(j = 0 /\ m = last)
    <3>1. m \in DOMAIN d[j] /\ b \in d[j][m].ids
      BY <1>9, <2>4
    <3> QED BY <1>10, <2>2, <3>1 DEF DiskOK, InOrder
  <2> QED BY <2>3, <2>4
<1>11. DiskOK(e)
  BY <1>7, <1>8, <1>10 DEF DiskOK, InOrder
<1>12. ASSUME NEW n \in Log!Written(e) PROVE n \in Log!Written(d) \cup {r}
  <2>1. PICK i \in Numbers : \E k \in DOMAIN e[i] : n \in e[i][k].ids
    BY <1>7, WrittenFacts
  <2>2. PICK k \in DOMAIN e[i] : n \in e[i][k].ids
    BY <2>1
  <2>3. CASE i = 0 /\ k = last
    BY <1>4, <1>6, <2>2, <2>3
  <2>4. CASE ~(i = 0 /\ k = last)
    <3>1. k \in DOMAIN d[i] /\ n \in d[i][k].ids
      BY <1>9, <2>2, <2>4
    <3> QED BY <1>1, <3>1, WrittenFacts
  <2> QED BY <2>3, <2>4
<1>13. ASSUME NEW n \in Log!Written(d) PROVE n \in Log!Written(e)
  <2>1. PICK i \in Numbers : \E k \in DOMAIN d[i] : n \in d[i][k].ids
    BY <1>1, WrittenFacts
  <2>2. PICK k \in DOMAIN d[i] : n \in d[i][k].ids
    BY <2>1
  <2>3. k \in DOMAIN e[i] /\ n \in e[i][k].ids
    BY <1>4, <1>6, <2>2
  <2> QED BY <1>7, <2>3, WrittenFacts
<1>14. whole => r \in Log!Written(e)
  <2>1. last \in DOMAIN e[0] /\ e[0][last].ids = new[last].ids
    BY <1>6
  <2>2. whole => r \in e[0][last].ids
    BY <1>4, <2>1
  <2> QED BY <1>1, <1>7, <2>1, <2>2, WrittenFacts
<1> QED BY <1>11, <1>12, <1>13, <1>14

-----------------------------------------------------------------------------
(* The start.                                                               *)

LEMMA EmptyDisk == ASSUME LogDataOK, NEW d, d = [i \in Numbers |-> <<>>]
  PROVE DiskOK(d) /\ Log!Written(d) = {}
<1>1. d \in Disks
  <2>1. <<>> \in Seq(Log!Lines) /\ Len(<<>>) <= MaxLines
    BY DEF LogDataOK
  <2> QED BY <2>1 DEF Disks
<1>2. \A i \in Numbers : DOMAIN d[i] = {}
  OBVIOUS
<1>3. DiskOK(d)
  BY <1>1, <1>2 DEF DiskOK, InOrder
<1>4. \A n : n \notin Log!Written(d)
  BY <1>1, <1>2, WrittenFacts
<1> QED BY <1>3, <1>4

LEMMA QuietFacts ==
  Log!Quiet \in LogInvocations /\ [call |-> None, pending |-> None, enabled |-> FALSE] \in PanelStates
BY DEF Log!Quiet, LogInvocations, Log!Actions, PanelStates

LEMMA LogInitInv == ASSUME LogDataOK PROVE Log!Init => LogIInv
<1> SUFFICES ASSUME Log!Init PROVE LogIInv
  OBVIOUS
<1>1. log_disk = [i \in Numbers |-> <<>>] /\ log_queue = <<>> /\ log_emitted = 0 /\ log_gone = {} /\ log_wish = {FALSE}
      /\ log_saved = "torn" /\ log_store \in {"failed", "off"} /\ log_calls = [c \in Readings |-> Log!Quiet]
      /\ log_panel = [call |-> None, pending |-> None, enabled |-> FALSE]
  BY DEF Log!Init, Numbers
<1>2. PICK available : available = (log_store # "failed")
  OBVIOUS
<1>3. log_shared = [enabled |-> FALSE, available |-> available, dropped |-> 0, busy |-> FALSE]
      /\ available \in BOOLEAN
  BY <1>2 DEF Log!Init
<1>4. log_shared \in Shareds /\ log_shared.enabled = FALSE /\ log_shared.dropped = 0
  BY <1>3 DEF Shareds
<1>5. DiskOK(log_disk) /\ Log!Written(log_disk) = {}
  BY <1>1, EmptyDisk
<1>6. log_queue \in Seq(Log!Commands) /\ Len(log_queue) <= QueueSize /\ DOMAIN log_queue = {}
  BY <1>1 DEF LogDataOK
<1>7. Log!TypeOK
  <2>1. log_calls \in [Readings -> LogInvocations] /\ log_panel \in PanelStates
    BY <1>1, QuietFacts
  <2>2. log_wish \in (SUBSET BOOLEAN) \ {{}}
    BY <1>1
  <2>3. log_emitted \in 0..MaxRecords /\ log_gone \subseteq 1..MaxRecords
    BY <1>1 DEF LogDataOK
  <2>4. log_disk \in Disks
    BY <1>5 DEF DiskOK
  <2> QED BY <1>1, <1>4, <1>6, <2>1, <2>2, <2>3, <2>4, LogTyped
<1>8. Missing = {}
  BY <1>1 DEF Missing
<1>9. CountInv
  BY <1>4, <1>5, <1>8, FS_EmptySet DEF CountInv
<1> QED BY <1>1, <1>4, <1>5, <1>6, <1>7, <1>9 DEF LogIInv, QueueInv, ConsentInv

-----------------------------------------------------------------------------
(* The records.                                                             *)

LEMMA MissingFinite ==
  ASSUME log_emitted \in Nat
  PROVE  IsFiniteSet(Missing) /\ Cardinality(Missing) \in Nat
<1>1. IsFiniteSet(1..log_emitted)
  BY FS_Interval
<1>2. Missing \in SUBSET (1..log_emitted)
  BY DEF Missing
<1>3. IsFiniteSet(Missing)
  BY <1>1, <1>2, FS_Subset
<1> QED BY <1>3, FS_CardinalityType

\* No record gets lost, or one that is counted.
LEMMA MissingCounted ==
  ASSUME LogDataOK, LogIInv, NEW m, m = Missing', NEW x, log_shared'.dropped \in Nat,
         \/ m \subseteq Missing /\ log_shared'.dropped = log_shared.dropped
         \/ m \subseteq Missing \cup {x} /\ log_shared'.dropped = log_shared.dropped + 1
  PROVE  Cardinality(m) <= log_shared'.dropped
<1>1. log_emitted \in Nat /\ log_shared.dropped \in Nat
  BY LogTyped DEF LogIInv, Shareds, LogDataOK
<1>2. IsFiniteSet(Missing) /\ Cardinality(Missing) \in Nat /\ Cardinality(Missing) <= log_shared.dropped
  BY <1>1, MissingFinite DEF LogIInv, CountInv
<1>3. CASE m \subseteq Missing /\ log_shared'.dropped = log_shared.dropped
  <2>1. Cardinality(m) <= Cardinality(Missing) /\ IsFiniteSet(m)
    BY <1>2, <1>3, FS_Subset
  <2>2. Cardinality(m) \in Nat
    BY <2>1, FS_CardinalityType
  <2> QED BY <1>1, <1>2, <1>3, <2>1, <2>2
<1>4. CASE m \subseteq Missing \cup {x} /\ log_shared'.dropped = log_shared.dropped + 1
  <2>1. PICK t : t = Missing \cup {x}
    OBVIOUS
  <2>2. /\ IsFiniteSet(t)
        /\ Cardinality(t) = IF x \in Missing THEN Cardinality(Missing) ELSE Cardinality(Missing) + 1
    BY <1>2, <2>1, FS_AddElement
  <2>3. m \in SUBSET t
    BY <1>4, <2>1
  <2>4. Cardinality(m) <= Cardinality(t) /\ IsFiniteSet(m)
    BY <2>2, <2>3, FS_Subset
  <2>5. Cardinality(m) \in Nat
    BY <2>4, FS_CardinalityType
  <2>6. Cardinality(t) \in Nat /\ Cardinality(t) <= Cardinality(Missing) + 1
    BY <1>2, <2>2
  <2> QED BY <1>1, <1>2, <1>4, <2>4, <2>5, <2>6
<1> QED BY <1>3, <1>4

LEMMA QueuedFacts == ASSUME NEW n PROVE n \in Log!Queued <=> \E i \in DOMAIN log_queue : log_queue[i].record = n
BY DEF Log!Queued

\* The thread takes the next command.
LEMMA Taken ==
  ASSUME LogDataOK, LogIInv, Log!Command, NEW h, h = Head(log_queue)
  PROVE  /\ h \in Log!Commands /\ (h.act # "record" => h.record = 0)
         /\ h.act = "record" => h.record \in 1..log_emitted /\ \A n \in Log!Written(log_disk) : n < h.record
         /\ log_queue' \in Seq(Log!Commands) /\ Len(log_queue') <= QueueSize
         /\ \A i \in DOMAIN log_queue' :
              IF log_queue'[i].act = "record"
              THEN /\ log_queue'[i].record \in 1..log_emitted
                   /\ \A n \in Log!Written(log_disk) : n < log_queue'[i].record
                   /\ h.act = "record" => h.record < log_queue'[i].record
              ELSE log_queue'[i].record = 0
         /\ \A i, j \in DOMAIN log_queue' :
              i < j /\ log_queue'[i].act = "record" /\ log_queue'[j].act = "record"
              => log_queue'[i].record < log_queue'[j].record
         /\ \A i \in DOMAIN log_queue :
              log_queue[i].record = h.record \/ \E j \in DOMAIN log_queue' : log_queue'[j].record = log_queue[i].record
<1>1. log_queue \in Seq(Log!Commands) /\ log_queue # <<>> /\ Len(log_queue) <= QueueSize /\ log_queue' = Tail(log_queue)
  BY LogTyped DEF LogIInv, Log!Command
<1>2. h = log_queue[1] /\ 1 \in DOMAIN log_queue /\ h \in Log!Commands
  BY <1>1
<1>3. log_queue' \in Seq(Log!Commands) /\ Len(log_queue') = Len(log_queue) - 1
  BY <1>1
<1>4. \A i \in DOMAIN log_queue' : i + 1 \in DOMAIN log_queue /\ log_queue'[i] = log_queue[i + 1] /\ i \in Nat /\ 1 < i + 1
  BY <1>1, <1>3
<1>5. Len(log_queue') <= QueueSize
  BY <1>1, <1>3 DEF LogDataOK
<1>6. ASSUME NEW i \in DOMAIN log_queue
      PROVE  log_queue[i].record = h.record \/ \E j \in DOMAIN log_queue' : log_queue'[j].record = log_queue[i].record
  <2>1. CASE i = 1
    BY <1>2, <2>1
  <2>2. CASE i # 1
    <3>1. i - 1 \in DOMAIN log_queue' /\ log_queue'[i - 1] = log_queue[i]
      BY <1>1, <1>3, <2>2
    <3> QED BY <3>1
  <2> QED BY <2>1, <2>2
<1>7. h.act = "record" => h.record \in 1..log_emitted /\ \A n \in Log!Written(log_disk) : n < h.record
  BY <1>2 DEF LogIInv, QueueInv
<1>8. h.act # "record" => h.record = 0
  BY <1>2 DEF LogIInv, QueueInv
<1>9. ASSUME NEW i \in DOMAIN log_queue'
      PROVE  IF log_queue'[i].act = "record"
             THEN /\ log_queue'[i].record \in 1..log_emitted
                  /\ \A n \in Log!Written(log_disk) : n < log_queue'[i].record
                  /\ h.act = "record" => h.record < log_queue'[i].record
             ELSE log_queue'[i].record = 0
  BY <1>2, <1>4 DEF LogIInv, QueueInv
<1>10. ASSUME NEW i \in DOMAIN log_queue', NEW j \in DOMAIN log_queue', i < j, log_queue'[i].act = "record",
              log_queue'[j].act = "record"
       PROVE  log_queue'[i].record < log_queue'[j].record
  <2>1. i + 1 < j + 1
    BY <1>4, <1>10
  <2> QED BY <1>4, <1>10, <2>1 DEF LogIInv, QueueInv
<1> QED BY <1>2, <1>3, <1>5, <1>6, <1>7, <1>8, <1>9, <1>10

\* It does with it what it does to the files; what it keeps out of them is
\* counted, or old.
LEMMA Worked ==
  ASSUME LogDataOK, LogIInv, Log!Command, NEW h, h = Head(log_queue), log_emitted' = log_emitted,
         DiskOK(log_disk'), log_gone \subseteq log_gone', log_shared'.dropped \in Nat,
         \A n \in Log!Written(log_disk') : n \in Log!Written(log_disk) \/ (h.act = "record" /\ n = h.record),
         \A n \in Log!Written(log_disk) : n \in Log!Written(log_disk') \cup log_gone',
         \/ log_shared'.dropped = log_shared.dropped + 1
         \/ /\ log_shared'.dropped = log_shared.dropped
            /\ h.act = "record" => h.record \in Log!Written(log_disk') \cup log_gone'
  PROVE  log_queue' \in Seq(Log!Commands) /\ Len(log_queue') <= QueueSize /\ QueueInv' /\ CountInv'
<1>1. /\ h \in Log!Commands /\ (h.act # "record" => h.record = 0)
      /\ h.act = "record" => h.record \in 1..log_emitted /\ \A n \in Log!Written(log_disk) : n < h.record
      /\ log_queue' \in Seq(Log!Commands) /\ Len(log_queue') <= QueueSize
  BY Taken
<1>2. \A i \in DOMAIN log_queue' :
              IF log_queue'[i].act = "record"
              THEN /\ log_queue'[i].record \in 1..log_emitted
                   /\ \A n \in Log!Written(log_disk) : n < log_queue'[i].record
                   /\ h.act = "record" => h.record < log_queue'[i].record
              ELSE log_queue'[i].record = 0
  BY Taken
<1>3. \A i, j \in DOMAIN log_queue' :
              i < j /\ log_queue'[i].act = "record" /\ log_queue'[j].act = "record"
              => log_queue'[i].record < log_queue'[j].record
  BY Taken
<1>4. \A i \in DOMAIN log_queue :
              log_queue[i].record = h.record \/ \E j \in DOMAIN log_queue' : log_queue'[j].record = log_queue[i].record
  BY Taken
<1>5. QueueInv'
  BY <1>2, <1>3 DEF QueueInv
<1>6. Log!Written(log_disk') \subseteq 1..log_emitted'
  BY <1>1 DEF LogIInv, CountInv
<1>7. ASSUME NEW n \in Missing', n \notin Missing PROVE n = h.record /\ h.act = "record"
  <2>1. /\ n \in 1..log_emitted /\ n \notin Log!Written(log_disk') /\ n \notin log_gone'
        /\ ~\E j \in DOMAIN log_queue' : log_queue'[j].record = n
    BY <1>7 DEF Missing, Log!Queued
  <2>2. n \notin Log!Written(log_disk) /\ n \notin log_gone
    BY <2>1
  <2>3. n \in Log!Queued
    BY <1>7, <2>1, <2>2 DEF Missing
  <2>4. PICK i \in DOMAIN log_queue : log_queue[i].record = n
    BY <2>3 DEF Log!Queued
  <2>5. n = h.record
    BY <1>4, <2>1, <2>4
  <2>6. n # 0
    BY <2>1
  <2> QED BY <1>1, <2>5, <2>6
<1>8. h.act = "record" /\ h.record \in Log!Written(log_disk') \cup log_gone' => h.record \notin Missing'
  BY DEF Missing
<1>9. PICK m : m = Missing'
  OBVIOUS
<1>10. \/ m \subseteq Missing /\ log_shared'.dropped = log_shared.dropped
       \/ m \subseteq Missing \cup {h.record} /\ log_shared'.dropped = log_shared.dropped + 1
  BY <1>7, <1>8, <1>9
<1>11. Cardinality(m) <= log_shared'.dropped
  BY <1>9, <1>10, MissingCounted
<1> QED BY <1>1, <1>5, <1>6, <1>9, <1>11 DEF CountInv

\* Steps that move no record.
LEMMA RecordsStay ==
  ASSUME LogIInv, UNCHANGED <<log_disk, log_queue, log_emitted, log_gone>>, log_shared'.dropped = log_shared.dropped
  PROVE  DiskOK(log_disk)' /\ QueueInv' /\ CountInv'
<1>1. Missing' = Missing
  BY DEF Missing, Log!Queued
<1> QED BY <1>1 DEF LogIInv, QueueInv, CountInv

LEMMA TypedNext ==
  ASSUME log_saved' \in {"on", "off", "torn"}, log_disk' \in Disks,
         log_store' \in {"failed", "on", "off"}, log_shared' \in Shareds,
         log_queue' \in Seq(Log!Commands), Len(log_queue') <= QueueSize,
         log_calls' \in [Readings -> LogInvocations], log_panel' \in PanelStates,
         log_emitted' \in 0..MaxRecords, log_gone' \subseteq 1..MaxRecords,
         log_wish' \in (SUBSET BOOLEAN) \ {{}}
  PROVE  Log!TypeOK'
<1>1. /\ log_disk' \in [Numbers -> Seq(Log!Lines)]
      /\ \A i \in DOMAIN log_disk' : Len(log_disk'[i]) <= MaxLines
  BY DEF Disks
<1> QED BY <1>1 DEF Log!TypeOK, Shareds, LogInvocations, PanelStates, Numbers

-----------------------------------------------------------------------------
(* The thread.                                                              *)

LEMMA AvailableFacts ==
  ASSUME log_shared \in Shareds, NEW ok \in BOOLEAN
  PROVE  /\ Log!Available(ok) \in Shareds /\ Log!Available(ok).enabled = log_shared.enabled
         /\ Log!Available(ok).dropped = log_shared.dropped /\ Log!Available(ok).busy = log_shared.busy
BY DEF Log!Available, Shareds

LEMMA CountedFacts ==
  ASSUME log_shared \in Shareds
  PROVE  /\ Log!Counted \in Shareds /\ Log!Counted.enabled = log_shared.enabled
         /\ Log!Counted.dropped = log_shared.dropped + 1
<1>1. PICK n : n = log_shared.dropped + 1
  OBVIOUS
<1>2. n \in Nat /\ Log!Counted = [log_shared EXCEPT !.available = FALSE, !.dropped = n]
  BY <1>1 DEF Log!Counted, Shareds
<1> QED BY <1>1, <1>2 DEF Shareds

LEMMA AnsweredFacts ==
  ASSUME log_shared \in Shareds, NEW ok \in BOOLEAN
  PROVE  /\ Log!Answered(ok) \in Shareds /\ Log!Answered(ok).enabled = log_shared.enabled
         /\ Log!Answered(ok).dropped = log_shared.dropped
<1>1. PICK b : b = (log_shared.busy /\ (Head(log_queue).act = "read" \/ Log!Opens(ok)))
  OBVIOUS
<1>2. b \in BOOLEAN
  BY <1>1 DEF Shareds
<1>3. Log!Answered(ok) = [Log!Available(ok) EXCEPT !.busy = b]
  BY <1>1, AvailableFacts DEF Log!Answered
<1> QED BY <1>2, <1>3, AvailableFacts DEF Shareds

LEMMA ReplyFacts ==
  ASSUME Log!TypeOK, NEW ok \in BOOLEAN, Log!Reply(ok) PROVE log_calls' \in [Readings -> LogInvocations]
<1>1. log_calls \in [Readings -> LogInvocations]
  BY LogTyped
<1>2. PICK h, pc : h = Head(log_queue).call /\ pc = IF Log!Opens(ok) THEN "dialog" ELSE "done"
  OBVIOUS
<1>3. log_calls' = [log_calls EXCEPT ![h] = [@ EXCEPT !.pc = pc, !.ok = ok]]
  BY <1>2 DEF Log!Reply
<1>4. CASE h \in Readings
  <2>1. PICK r : r = [log_calls[h] EXCEPT !.pc = pc, !.ok = ok]
    OBVIOUS
  <2>2. r \in LogInvocations
    BY <1>1, <1>2, <1>4, <2>1 DEF LogInvocations
  <2>3. log_calls' = [log_calls EXCEPT ![h] = r]
    BY <1>1, <1>3, <1>4, <2>1
  <2> QED BY <1>1, <2>2, <2>3
<1>5. CASE h \notin Readings
  BY <1>1, <1>3, <1>5
<1> QED BY <1>4, <1>5

\* What the files become, with what the record h makes of them.
LEMMA BecomesFacts ==
  ASSUME LogDataOK, LogIInv, NEW d, DiskOK(d), Log!Becomes(d)
  PROVE  /\ log_disk' = d /\ DiskOK(log_disk') /\ log_gone \subseteq log_gone' /\ log_gone' \subseteq 1..MaxRecords
         /\ \A n \in Log!Written(log_disk) : n \in Log!Written(log_disk') \cup log_gone'
<1>1. Log!Written(log_disk) \subseteq 1..MaxRecords /\ log_gone \subseteq 1..MaxRecords
  BY LogTyped, WrittenType DEF LogIInv
<1> QED BY <1>1 DEF Log!Becomes

Added(r, whole) == [Log!Ready(log_disk) EXCEPT ![0] = Log!Put(@, r, whole)]

LEMMA AddedFacts ==
  ASSUME LogDataOK, LogIInv, NEW r \in 1..MaxRecords, \A n \in Log!Written(log_disk) : n < r,
         NEW whole \in BOOLEAN, NEW e, e = Added(r, whole)
  PROVE  /\ DiskOK(e) /\ Log!Written(e) \subseteq Log!Written(log_disk) \cup {r}
         /\ whole => r \in Log!Written(e)
<1>1. PICK d : d = Log!Ready(log_disk)
  OBVIOUS
<1>2. DiskOK(d) /\ Log!Written(d) \subseteq Log!Written(log_disk) /\ Len(d[0]) < MaxLines
  BY <1>1, ReadyFacts DEF LogIInv
<1>3. \A n \in Log!Written(d) : n < r
  BY <1>2
<1>4. e = [d EXCEPT ![0] = Log!Put(@, r, whole)]
  BY <1>1 DEF Added
<1>5. DiskOK(e) /\ Log!Written(e) \subseteq Log!Written(d) \cup {r} /\ (whole => r \in Log!Written(e))
  BY <1>2, <1>3, <1>4, PutDisk
<1> QED BY <1>2, <1>5

LEMMA LandsStep == ASSUME LogDataOK, LogIInv, Log!Lands PROVE LogIInv'
<1>1. PICK h : h = Head(log_queue)
  OBVIOUS
<1>2. Log!Command /\ h.act = "record" /\ log_shared' = Log!Available(TRUE)
      /\ UNCHANGED <<log_saved, log_store, log_calls, log_panel, log_emitted, log_wish>>
  BY <1>1 DEF Log!Lands
<1>3. h.record \in 1..log_emitted /\ \A n \in Log!Written(log_disk) : n < h.record
  BY <1>1, <1>2, Taken
<1>4. h.record \in 1..MaxRecords
  BY <1>3, LogTyped DEF LogIInv, LogDataOK
<1>5. PICK e : e = Added(h.record, TRUE)
  OBVIOUS
<1>8. DiskOK(e) /\ Log!Written(e) \subseteq Log!Written(log_disk) \cup {h.record} /\ h.record \in Log!Written(e)
  BY <1>3, <1>4, <1>5, AddedFacts
<1>9. Log!Becomes(e)
  BY <1>1, <1>5 DEF Log!Lands, Added
<1>10. /\ log_disk' = e /\ DiskOK(log_disk') /\ log_gone \subseteq log_gone' /\ log_gone' \subseteq 1..MaxRecords
       /\ \A n \in Log!Written(log_disk) : n \in Log!Written(log_disk') \cup log_gone'
  BY <1>8, <1>9, BecomesFacts
<1>11. log_shared' \in Shareds /\ log_shared'.enabled = log_shared.enabled /\ log_shared'.dropped = log_shared.dropped
       /\ log_shared'.dropped \in Nat
  BY <1>2, AvailableFacts, LogTyped DEF LogIInv, Shareds
<1>12. \A n \in Log!Written(log_disk') : n \in Log!Written(log_disk) \/ (h.act = "record" /\ n = h.record)
  BY <1>2, <1>8, <1>10
<1>13. log_queue' \in Seq(Log!Commands) /\ Len(log_queue') <= QueueSize /\ QueueInv' /\ CountInv'
  BY <1>1, <1>2, <1>8, <1>10, <1>11, <1>12, Worked
<1>14. Log!TypeOK'
  BY <1>2, <1>10, <1>11, <1>13, LogTyped, TypedNext DEF LogIInv, DiskOK
<1> QED BY <1>2, <1>10, <1>11, <1>13, <1>14 DEF LogIInv, ConsentInv

LEMMA FailsStep == ASSUME LogDataOK, LogIInv, Log!Fails PROVE LogIInv'
<1>1. PICK h : h = Head(log_queue)
  OBVIOUS
<1>2. Log!Command /\ h.act = "record" /\ log_shared' = Log!Counted
      /\ UNCHANGED <<log_saved, log_store, log_calls, log_panel, log_emitted, log_wish>>
  BY <1>1 DEF Log!Fails
<1>3. h.record \in 1..log_emitted /\ \A n \in Log!Written(log_disk) : n < h.record
  BY <1>1, <1>2, Taken
<1>4. h.record \in 1..MaxRecords
  BY <1>3, LogTyped DEF LogIInv, LogDataOK
<1>5. PICK d \in {IF Log!Room(log_disk) THEN log_disk ELSE Log!Rotated(log_disk, k) : k \in 0..MaxFiles}
              \cup {Added(h.record, FALSE)} :
        Log!Becomes(IF log_store = "failed" THEN log_disk ELSE d)
  BY <1>1 DEF Log!Fails, Added
<1>6. DiskOK(d) /\ Log!Written(d) \subseteq Log!Written(log_disk) \cup {h.record}
  <2>1. CASE d = log_disk
    BY <2>1 DEF LogIInv
  <2>2. ASSUME NEW k \in 0..MaxFiles, d = Log!Rotated(log_disk, k)
        PROVE  DiskOK(d) /\ Log!Written(d) \subseteq Log!Written(log_disk) \cup {h.record}
    BY <2>2, RotatedFacts DEF LogIInv
  <2>3. CASE d = Added(h.record, FALSE)
    BY <1>3, <1>4, <2>3, AddedFacts
  <2> QED BY <2>1, <2>2, <2>3
<1>7. PICK e : e = IF log_store = "failed" THEN log_disk ELSE d
  OBVIOUS
<1>8. DiskOK(e) /\ Log!Written(e) \subseteq Log!Written(log_disk) \cup {h.record} /\ Log!Becomes(e)
  BY <1>5, <1>6, <1>7 DEF LogIInv
<1>9. /\ log_disk' = e /\ DiskOK(log_disk') /\ log_gone \subseteq log_gone' /\ log_gone' \subseteq 1..MaxRecords
      /\ \A n \in Log!Written(log_disk) : n \in Log!Written(log_disk') \cup log_gone'
  BY <1>8, BecomesFacts
<1>10. log_shared' \in Shareds /\ log_shared'.enabled = log_shared.enabled /\ log_shared'.dropped = log_shared.dropped + 1
       /\ log_shared'.dropped \in Nat
  BY <1>2, CountedFacts, LogTyped DEF LogIInv, Shareds
<1>11. \A n \in Log!Written(log_disk') : n \in Log!Written(log_disk) \/ (h.act = "record" /\ n = h.record)
  BY <1>2, <1>8, <1>9
<1>12. log_queue' \in Seq(Log!Commands) /\ Len(log_queue') <= QueueSize /\ QueueInv' /\ CountInv'
  BY <1>1, <1>2, <1>9, <1>10, <1>11, Worked
<1>13. Log!TypeOK'
  BY <1>2, <1>9, <1>10, <1>12, LogTyped, TypedNext DEF LogIInv, DiskOK
<1> QED BY <1>2, <1>9, <1>10, <1>12, <1>13 DEF LogIInv, ConsentInv

LEMMA IgnoredStep == ASSUME LogDataOK, LogIInv, Log!Ignored PROVE LogIInv'
<1>1. PICK h : h = Head(log_queue)
  OBVIOUS
<1>2. Log!Command /\ h.act = "record" /\ log_shared' = Log!Available(TRUE) /\ log_gone' = log_gone \cup {h.record}
      /\ UNCHANGED <<log_saved, log_disk, log_store, log_calls, log_panel, log_emitted, log_wish>>
  BY <1>1 DEF Log!Ignored
<1>3. h.record \in 1..log_emitted
  BY <1>1, <1>2, Taken
<1>4. log_gone' \subseteq 1..MaxRecords
  BY <1>2, <1>3, LogTyped DEF LogIInv, LogDataOK
<1>5. log_shared' \in Shareds /\ log_shared'.enabled = log_shared.enabled /\ log_shared'.dropped = log_shared.dropped
      /\ log_shared'.dropped \in Nat
  BY <1>2, AvailableFacts, LogTyped DEF LogIInv, Shareds
<1>6. DiskOK(log_disk')
  BY <1>2 DEF LogIInv
<1>7. log_queue' \in Seq(Log!Commands) /\ Len(log_queue') <= QueueSize /\ QueueInv' /\ CountInv'
  BY <1>1, <1>2, <1>5, <1>6, Worked
<1>8. Log!TypeOK'
  BY <1>2, <1>4, <1>5, <1>6, <1>7, LogTyped, TypedNext DEF LogIInv, DiskOK
<1> QED BY <1>2, <1>5, <1>6, <1>7, <1>8 DEF LogIInv, ConsentInv

LEMMA ReadFilesStep == ASSUME LogDataOK, LogIInv, NEW ok \in BOOLEAN, Log!ReadFiles(ok) PROVE LogIInv'
<1>1. PICK h : h = Head(log_queue)
  OBVIOUS
<1>2. Log!Command /\ h.act \in {"read", "export"} /\ log_shared' = Log!Answered(ok) /\ Log!Reply(ok)
      /\ UNCHANGED <<log_saved, log_disk, log_store, log_panel, log_emitted, log_gone, log_wish>>
  BY <1>1 DEF Log!ReadFiles
<1>3. log_shared' \in Shareds /\ log_shared'.enabled = log_shared.enabled /\ log_shared'.dropped = log_shared.dropped
      /\ log_shared'.dropped \in Nat
  BY <1>2, AnsweredFacts, LogTyped DEF LogIInv, Shareds
<1>4. DiskOK(log_disk')
  BY <1>2 DEF LogIInv
<1>5. log_queue' \in Seq(Log!Commands) /\ Len(log_queue') <= QueueSize /\ QueueInv' /\ CountInv'
  BY <1>1, <1>2, <1>3, <1>4, Worked
<1>6. log_calls' \in [Readings -> LogInvocations]
  BY <1>2, ReplyFacts DEF LogIInv
<1>7. Log!TypeOK'
  BY <1>2, <1>3, <1>4, <1>5, <1>6, LogTyped, TypedNext DEF LogIInv, DiskOK
<1> QED BY <1>2, <1>3, <1>4, <1>5, <1>7 DEF LogIInv, ConsentInv

LEMMA ClearFilesStep == ASSUME LogDataOK, LogIInv, NEW k \in 0..MaxFiles, Log!ClearFiles(k) PROVE LogIInv'
<1>1. PICK h : h = Head(log_queue)
  OBVIOUS
<1>2. PICK ok \in BOOLEAN : ok = (k = MaxFiles /\ log_store # "failed")
  OBVIOUS
<1>3. Log!Command /\ h.act = "clear" /\ log_shared' = Log!Answered(ok) /\ Log!Reply(ok) /\ Log!Becomes(Cleared(log_disk, k))
      /\ UNCHANGED <<log_saved, log_store, log_panel, log_emitted, log_wish>>
  BY <1>1, <1>2, Zenon DEF Log!ClearFiles, Cleared
<1>4. DiskOK(Cleared(log_disk, k)) /\ Log!Written(Cleared(log_disk, k)) \subseteq Log!Written(log_disk)
  BY ClearedFacts DEF LogIInv
<1>5. /\ log_disk' = Cleared(log_disk, k) /\ DiskOK(log_disk') /\ log_gone \subseteq log_gone' /\ log_gone' \subseteq 1..MaxRecords
      /\ \A n \in Log!Written(log_disk) : n \in Log!Written(log_disk') \cup log_gone'
  BY <1>3, <1>4, BecomesFacts
<1>6. log_shared' \in Shareds /\ log_shared'.enabled = log_shared.enabled /\ log_shared'.dropped = log_shared.dropped
      /\ log_shared'.dropped \in Nat
  BY <1>3, AnsweredFacts, LogTyped DEF LogIInv, Shareds
<1>7. \A n \in Log!Written(log_disk') : n \in Log!Written(log_disk)
  BY <1>4, <1>5
<1>8. log_queue' \in Seq(Log!Commands) /\ Len(log_queue') <= QueueSize /\ QueueInv' /\ CountInv'
  BY <1>1, <1>3, <1>5, <1>6, <1>7, Worked
<1>9. log_calls' \in [Readings -> LogInvocations]
  BY <1>3, ReplyFacts DEF LogIInv
<1>10. Log!TypeOK'
  BY <1>3, <1>5, <1>6, <1>8, <1>9, LogTyped, TypedNext DEF LogIInv, DiskOK
<1> QED BY <1>3, <1>5, <1>6, <1>8, <1>10 DEF LogIInv, ConsentInv

LEMMA SwitchStep ==
  ASSUME LogDataOK, LogIInv, NEW s \in {"on", "off", "torn"}, NEW ok \in BOOLEAN, Log!Switch(s, ok) PROVE LogIInv'
<1>1. PICK h : h = Head(log_queue)
  OBVIOUS
<1>2. /\ Log!Command /\ h.act \in {"on", "off"} /\ log_saved' = s
      /\ s \in {h.act} \cup (IF ok THEN {} ELSE {log_saved, "torn"})
      /\ log_store' = IF ok THEN h.act ELSE log_store
      /\ log_shared' = [Log!Answered(ok) EXCEPT !.enabled = IF ok THEN h.act = "on" ELSE @]
      /\ log_wish' = IF ok THEN {h.act = "on"} ELSE log_wish \cup {h.act = "on"}
      /\ Log!Reply(ok) /\ UNCHANGED <<log_disk, log_panel, log_emitted, log_gone>>
  BY <1>1 DEF Log!Switch
<1>3. PICK on \in BOOLEAN : on = (h.act = "on")
  OBVIOUS
<1>4. log_wish' = IF ok THEN {on} ELSE log_wish \cup {on}
  BY <1>2, <1>3
<1>5. log_wish' \in (SUBSET BOOLEAN) \ {{}} /\ (on => TRUE \in log_wish') /\ (~ok => log_wish \subseteq log_wish')
  BY <1>4, LogTyped DEF LogIInv
<1>6. /\ Log!Answered(ok) \in Shareds /\ Log!Answered(ok).enabled = log_shared.enabled
      /\ Log!Answered(ok).dropped = log_shared.dropped
  BY AnsweredFacts, LogTyped DEF LogIInv
<1>7. PICK b : b = IF ok THEN on ELSE log_shared.enabled
  OBVIOUS
<1>8. b \in BOOLEAN /\ log_shared' = [Log!Answered(ok) EXCEPT !.enabled = b]
  BY <1>2, <1>3, <1>6, <1>7 DEF Shareds
<1>9. log_shared' \in Shareds /\ log_shared'.enabled = b /\ log_shared'.dropped = log_shared.dropped
      /\ log_shared'.dropped \in Nat
  BY <1>6, <1>8 DEF Shareds
<1>10. DiskOK(log_disk')
  BY <1>2 DEF LogIInv
<1>11. log_queue' \in Seq(Log!Commands) /\ Len(log_queue') <= QueueSize /\ QueueInv' /\ CountInv'
  BY <1>1, <1>2, <1>9, <1>10, Worked
<1>12. log_calls' \in [Readings -> LogInvocations]
  BY <1>2, ReplyFacts DEF LogIInv
<1>13. log_store' \in {"failed", "on", "off"} /\ log_saved' \in {"on", "off", "torn"}
  BY <1>2, LogTyped DEF LogIInv
<1>14. Log!TypeOK'
  BY <1>2, <1>5, <1>9, <1>10, <1>11, <1>12, <1>13, LogTyped, TypedNext DEF LogIInv, DiskOK
<1>15. ConsentInv'
  <2>1. CASE ok
    <3>1. (log_saved' = "on" \/ log_shared'.enabled \/ log_store' = "on") => on
      BY <1>2, <1>3, <1>7, <1>9, <2>1
    <3> QED BY <1>5, <3>1 DEF ConsentInv
  <2>2. CASE ~ok
    <3>1. (log_saved' = "on" \/ log_shared'.enabled \/ log_store' = "on")
            => on \/ log_saved = "on" \/ log_shared.enabled \/ log_store = "on"
      BY <1>2, <1>3, <1>7, <1>9, <2>2
    <3> QED BY <1>5, <2>2, <3>1 DEF LogIInv, ConsentInv
  <2> QED BY <2>1, <2>2
<1> QED BY <1>10, <1>11, <1>14, <1>15 DEF LogIInv

-----------------------------------------------------------------------------
(* What records, the commands and the panel.                                *)

LEMMA AppendFacts ==
  ASSUME Log!TypeOK, LogDataOK, NEW e \in Log!Commands, ~Log!Full, log_queue' = Append(log_queue, e)
  PROVE  /\ log_queue' \in Seq(Log!Commands) /\ Len(log_queue') <= QueueSize
         /\ \E last \in DOMAIN log_queue' :
              /\ log_queue'[last] = e /\ last \notin DOMAIN log_queue
              /\ \A i \in DOMAIN log_queue' : i = last \/ (i \in DOMAIN log_queue /\ i < last)
              /\ \A i \in DOMAIN log_queue : i \in DOMAIN log_queue' /\ log_queue'[i] = log_queue[i]
<1>1. log_queue \in Seq(Log!Commands) /\ Len(log_queue) < QueueSize
  BY LogTyped DEF Log!Full, LogDataOK
<1>2. log_queue' \in Seq(Log!Commands) /\ Len(log_queue') = Len(log_queue) + 1
  BY <1>1
<1>3. PICK last : last = Len(log_queue) + 1
  OBVIOUS
<1>4. last \in DOMAIN log_queue' /\ log_queue'[last] = e /\ last \notin DOMAIN log_queue
      /\ \A i \in DOMAIN log_queue : i \in DOMAIN log_queue' /\ log_queue'[i] = log_queue[i]
  BY <1>1, <1>3
<1>5. \A i \in DOMAIN log_queue' : i = last \/ (i \in DOMAIN log_queue /\ i < last)
  BY <1>1, <1>2, <1>3
<1>6. Len(log_queue') <= QueueSize
  BY <1>1, <1>2 DEF LogDataOK
<1> QED BY <1>2, <1>4, <1>5, <1>6

LEMMA EmitStep == ASSUME LogDataOK, LogIInv, Log!Emit PROVE LogIInv'
<1>1. log_shared.enabled /\ log_emitted < MaxRecords /\ log_emitted' = log_emitted + 1
      /\ UNCHANGED <<log_saved, log_disk, log_store, log_calls, log_panel, log_gone, log_wish>>
  BY DEF Log!Emit
<1>2. log_emitted \in Nat /\ log_emitted' \in 0..MaxRecords /\ log_emitted < log_emitted'
  BY <1>1, LogTyped DEF LogIInv, LogDataOK
<1>3. PICK n : n = log_emitted'
  OBVIOUS
<1>4. \A a \in Log!Written(log_disk) : a < n
  BY <1>2, <1>3 DEF LogIInv, CountInv
<1>5. PICK m : m = Missing'
  OBVIOUS
<1>6. CASE Log!Full
  <2>1. log_queue' = log_queue /\ log_shared' = [log_shared EXCEPT !.dropped = @ + 1]
    BY <1>6 DEF Log!Emit
  <2>2. PICK k : k = log_shared.dropped + 1
    OBVIOUS
  <2>3. k \in Nat /\ log_shared' = [log_shared EXCEPT !.dropped = k]
    BY <2>1, <2>2, LogTyped DEF LogIInv, Shareds
  <2>4. log_shared' \in Shareds /\ log_shared'.enabled = log_shared.enabled /\ log_shared'.dropped = log_shared.dropped + 1
    BY <2>2, <2>3, LogTyped DEF LogIInv, Shareds
  <2>5. m \subseteq Missing \cup {n}
    BY <1>1, <1>2, <1>3, <1>5, <2>1 DEF Missing, Log!Queued
  <2>6. Cardinality(m) <= log_shared'.dropped
    BY <1>5, <2>3, <2>4, <2>5, MissingCounted DEF Shareds
  <2>7. CountInv'
    BY <1>1, <1>2, <1>5, <2>6 DEF LogIInv, CountInv
  <2>8. QueueInv'
    BY <1>1, <1>2, <2>1 DEF LogIInv, QueueInv
  <2>9. Log!TypeOK'
    BY <1>1, <1>2, <2>1, <2>4, LogTyped, TypedNext DEF LogIInv
  <2> QED BY <1>1, <2>4, <2>7, <2>8, <2>9 DEF LogIInv, ConsentInv
<1>7. CASE ~Log!Full
  <2>1. PICK e : e = [record |-> n, call |-> None, act |-> "record"]
    OBVIOUS
  <2>2. e \in Log!Commands /\ e.record = n /\ e.act = "record"
    BY <1>2, <1>3, <2>1 DEF Log!Commands
  <2>3. log_queue' = Append(log_queue, e) /\ log_shared' = log_shared
    BY <1>3, <1>7, <2>1 DEF Log!Emit
  <2>4. /\ log_queue' \in Seq(Log!Commands) /\ Len(log_queue') <= QueueSize
        /\ \E last \in DOMAIN log_queue' :
              /\ log_queue'[last] = e /\ last \notin DOMAIN log_queue
              /\ \A i \in DOMAIN log_queue' : i = last \/ (i \in DOMAIN log_queue /\ i < last)
              /\ \A i \in DOMAIN log_queue : i \in DOMAIN log_queue' /\ log_queue'[i] = log_queue[i]
    BY <1>7, <2>2, <2>3, AppendFacts DEF LogIInv
  <2>5. PICK last \in DOMAIN log_queue' :
              /\ log_queue'[last] = e /\ last \notin DOMAIN log_queue
              /\ \A i \in DOMAIN log_queue' : i = last \/ (i \in DOMAIN log_queue /\ i < last)
              /\ \A i \in DOMAIN log_queue : i \in DOMAIN log_queue' /\ log_queue'[i] = log_queue[i]
    BY <2>4
  <2>6. ASSUME NEW a \in m PROVE a \in Missing
    <3>1. a \in 1..log_emitted' /\ a \notin Log!Written(log_disk) /\ a \notin log_gone
          /\ \A i \in DOMAIN log_queue' : log_queue'[i].record # a
      BY <1>1, <1>5 DEF Missing, Log!Queued
    <3>2. a # n
      BY <2>2, <2>5, <3>1
    <3>3. a \in 1..log_emitted
      BY <1>1, <1>2, <1>3, <3>1, <3>2
    <3>4. a \notin Log!Queued
      BY <2>5, <3>1 DEF Log!Queued
    <3> QED BY <3>1, <3>3, <3>4 DEF Missing
  <2>7. Cardinality(m) <= log_shared'.dropped
    BY <1>5, <2>3, <2>6, MissingCounted, LogTyped DEF LogIInv, Shareds
  <2>8. CountInv'
    BY <1>1, <1>2, <1>5, <2>7 DEF LogIInv, CountInv
  <2>9. ASSUME NEW i \in DOMAIN log_queue'
        PROVE  IF log_queue'[i].act = "record"
               THEN log_queue'[i].record \in 1..log_emitted' /\ \A a \in Log!Written(log_disk') : a < log_queue'[i].record
               ELSE log_queue'[i].record = 0
    <3>1. CASE i = last
      BY <1>1, <1>2, <1>3, <1>4, <2>2, <2>5, <3>1
    <3>2. CASE i \in DOMAIN log_queue
      BY <1>1, <1>2, <2>5, <3>2 DEF LogIInv, QueueInv
    <3> QED BY <2>5, <3>1, <3>2
  <2>10. ASSUME NEW i \in DOMAIN log_queue', NEW j \in DOMAIN log_queue', i < j,
                log_queue'[i].act = "record", log_queue'[j].act = "record"
         PROVE  log_queue'[i].record < log_queue'[j].record
    <3>1. last \in Nat /\ i \in Nat /\ j \in Nat
      BY <2>4
    <3>2. i # last
      BY <2>5, <2>10, <3>1
    <3>3. i \in DOMAIN log_queue /\ log_queue'[i] = log_queue[i]
      BY <2>5, <3>2
    <3>4. CASE j = last
      <4>1. log_queue[i].record \in 1..log_emitted
        BY <2>10, <3>3 DEF LogIInv, QueueInv
      <4> QED BY <1>2, <1>3, <2>2, <2>5, <3>3, <3>4, <4>1
    <3>5. CASE j \in DOMAIN log_queue
      BY <2>5, <2>10, <3>3, <3>5 DEF LogIInv, QueueInv
    <3> QED BY <2>5, <3>4, <3>5
  <2>11. QueueInv'
    BY <2>9, <2>10 DEF QueueInv
  <2>12. Log!TypeOK'
    BY <1>1, <1>2, <2>3, <2>4, LogTyped, TypedNext DEF LogIInv
  <2> QED BY <1>1, <2>3, <2>8, <2>11, <2>12 DEF LogIInv, ConsentInv
<1> QED BY <1>6, <1>7

LEMMA SendStep == ASSUME LogDataOK, LogIInv, NEW c \in Readings, Log!Send(c) PROVE LogIInv'
<1>1. ~Log!Full /\ log_queue' = Append(log_queue, [record |-> 0, call |-> c, act |-> log_calls[c].act])
      /\ log_calls' = [log_calls EXCEPT ![c].pc = "wait"]
      /\ UNCHANGED <<log_saved, log_disk, log_store, log_shared, log_panel, log_emitted, log_gone, log_wish>>
  BY DEF Log!Send
<1>2. log_calls \in [Readings -> LogInvocations] /\ log_calls[c].act \in Log!Actions
  BY LogTyped DEF LogIInv, LogInvocations
<1>3. log_calls' \in [Readings -> LogInvocations]
  BY <1>1, <1>2 DEF LogInvocations
<1>4. PICK e : e = [record |-> 0, call |-> c, act |-> log_calls[c].act]
  OBVIOUS
<1>5. e \in Log!Commands /\ e.record = 0 /\ e.act # "record"
  BY <1>2, <1>4 DEF Log!Commands, Log!Actions, LogDataOK
<1>6. /\ log_queue' \in Seq(Log!Commands) /\ Len(log_queue') <= QueueSize
      /\ \E last \in DOMAIN log_queue' :
              /\ log_queue'[last] = e /\ last \notin DOMAIN log_queue
              /\ \A i \in DOMAIN log_queue' : i = last \/ (i \in DOMAIN log_queue /\ i < last)
              /\ \A i \in DOMAIN log_queue : i \in DOMAIN log_queue' /\ log_queue'[i] = log_queue[i]
  BY <1>1, <1>4, <1>5, AppendFacts DEF LogIInv
<1>7. PICK last \in DOMAIN log_queue' :
              /\ log_queue'[last] = e /\ last \notin DOMAIN log_queue
              /\ \A i \in DOMAIN log_queue' : i = last \/ (i \in DOMAIN log_queue /\ i < last)
              /\ \A i \in DOMAIN log_queue : i \in DOMAIN log_queue' /\ log_queue'[i] = log_queue[i]
  BY <1>6
<1>8. PICK m : m = Missing'
  OBVIOUS
<1>9. m \subseteq Missing
  BY <1>1, <1>7, <1>8 DEF Missing, Log!Queued
<1>10. Cardinality(m) <= log_shared'.dropped
  BY <1>1, <1>8, <1>9, MissingCounted, LogTyped DEF LogIInv, Shareds
<1>11. CountInv'
  BY <1>1, <1>8, <1>10 DEF LogIInv, CountInv
<1>12. ASSUME NEW i \in DOMAIN log_queue'
       PROVE  IF log_queue'[i].act = "record"
              THEN log_queue'[i].record \in 1..log_emitted' /\ \A a \in Log!Written(log_disk') : a < log_queue'[i].record
              ELSE log_queue'[i].record = 0
  <2>1. CASE i = last
    BY <1>5, <1>7, <2>1
  <2>2. CASE i \in DOMAIN log_queue
    BY <1>1, <1>7, <2>2 DEF LogIInv, QueueInv
  <2> QED BY <1>7, <2>1, <2>2
<1>13. ASSUME NEW i \in DOMAIN log_queue', NEW j \in DOMAIN log_queue', i < j,
              log_queue'[i].act = "record", log_queue'[j].act = "record"
       PROVE  log_queue'[i].record < log_queue'[j].record
  <2>1. i # last /\ j # last
    BY <1>5, <1>7, <1>13
  <2>2. i \in DOMAIN log_queue /\ j \in DOMAIN log_queue /\ log_queue'[i] = log_queue[i] /\ log_queue'[j] = log_queue[j]
    BY <1>7, <2>1
  <2> QED BY <1>13, <2>2 DEF LogIInv, QueueInv
<1>14. QueueInv'
  BY <1>12, <1>13 DEF QueueInv
<1>15. Log!TypeOK'
  BY <1>1, <1>3, <1>6, LogTyped, TypedNext DEF LogIInv
<1> QED BY <1>1, <1>11, <1>14, <1>15 DEF LogIInv, ConsentInv

\* Steps of the panel and of the dialog.
LEMMA PanelStep ==
  ASSUME LogDataOK, LogIInv, UNCHANGED <<log_saved, log_disk, log_store, log_queue, log_emitted, log_gone, log_wish>>,
         log_calls' \in [Readings -> LogInvocations], log_panel' \in PanelStates,
         log_shared' \in Shareds, log_shared'.enabled = log_shared.enabled, log_shared'.dropped = log_shared.dropped
  PROVE  LogIInv'
<1>1. Log!TypeOK'
  BY LogTyped, TypedNext DEF LogIInv
<1> QED BY <1>1, RecordsStay DEF LogIInv, ConsentInv

LEMMA BusyFacts ==
  ASSUME Log!TypeOK, NEW b \in BOOLEAN, log_shared' = [log_shared EXCEPT !.busy = b]
  PROVE  log_shared' \in Shareds /\ log_shared'.enabled = log_shared.enabled /\ log_shared'.dropped = log_shared.dropped
BY LogTyped DEF Shareds

LEMMA RunStep == ASSUME LogDataOK, LogIInv, NEW c \in Readings, NEW act \in Log!Actions, Log!Run(c, act) PROVE LogIInv'
<1>1. Log!Invoke(c, act) /\ log_panel' = [log_panel EXCEPT !.call = c]
      /\ UNCHANGED <<log_saved, log_disk, log_store, log_queue, log_emitted, log_gone, log_wish>>
  BY DEF Log!Run
<1>2. PICK pc : pc = IF act \in Log!Controls /\ log_shared.busy THEN "done" ELSE "send"
  OBVIOUS
<1>3. log_calls' = [log_calls EXCEPT ![c] = [pc |-> pc, act |-> act, ok |-> FALSE]]
  BY <1>1, <1>2, Zenon DEF Log!Invoke
<1>4. log_calls' \in [Readings -> LogInvocations]
  BY <1>2, <1>3, LogTyped DEF LogIInv, LogInvocations
<1>5. PICK b : b = (log_shared.busy \/ act \in Log!Controls)
  OBVIOUS
<1>6. b \in BOOLEAN /\ log_shared' = [log_shared EXCEPT !.busy = b]
  BY <1>1, <1>5, LogTyped DEF LogIInv, Shareds, Log!Invoke
<1>7. log_panel' \in PanelStates
  BY <1>1, LogTyped DEF LogIInv, PanelStates
<1> QED BY <1>1, <1>4, <1>6, <1>7, BusyFacts, PanelStep DEF LogIInv

LEMMA LeaveStep == ASSUME LogDataOK, LogIInv, Log!Leave PROVE LogIInv'
<1>1. PICK p : p = IF log_panel.call # None THEN log_panel.call ELSE log_panel.pending
  OBVIOUS
<1>2. p \in Readings \cup {None}
  BY <1>1, LogTyped DEF LogIInv, PanelStates
<1>3. log_panel' = [log_panel EXCEPT !.pending = p, !.call = None, !.enabled = FALSE]
      /\ UNCHANGED <<log_saved, log_disk, log_store, log_shared, log_queue, log_calls, log_emitted, log_gone, log_wish>>
  BY <1>1, LogTyped DEF Log!Leave, LogIInv, PanelStates
<1>4. log_panel' \in PanelStates
  BY <1>2, <1>3, LogTyped DEF LogIInv, PanelStates
<1> QED BY <1>3, <1>4, PanelStep, LogTyped DEF LogIInv

LEMMA ExportStep == ASSUME LogDataOK, LogIInv, NEW c \in Readings, NEW ok \in BOOLEAN, Log!Export(c, ok) PROVE LogIInv'
<1>1. log_calls' = [log_calls EXCEPT ![c].pc = "done", ![c].ok = ok] /\ log_shared' = [log_shared EXCEPT !.busy = FALSE]
      /\ UNCHANGED <<log_saved, log_disk, log_store, log_queue, log_panel, log_emitted, log_gone, log_wish>>
  BY DEF Log!Export
<1>2. log_calls' \in [Readings -> LogInvocations]
  BY <1>1, LogTyped DEF LogIInv, LogInvocations
<1> QED BY <1>1, <1>2, BusyFacts, PanelStep, LogTyped DEF LogIInv

LEMMA DoneStep == ASSUME LogDataOK, LogIInv, NEW c \in Readings, Log!Done(c) PROVE LogIInv'
<1>1. UNCHANGED <<log_saved, log_disk, log_store, log_shared, log_queue, log_emitted, log_gone, log_wish>>
  BY DEF Log!Done
<1>2. log_calls' \in [Readings -> LogInvocations] /\ log_panel' \in PanelStates
  <2>1. CASE log_calls[c].ok /\ log_calls[c].act # "read" /\ log_panel.call = c
    <3>1. log_calls' = [log_calls EXCEPT ![c] = [pc |-> "send", act |-> "read", ok |-> FALSE]]
          /\ log_panel' = [log_panel EXCEPT !.enabled = log_shared.enabled]
      BY <2>1 DEF Log!Done
    <3> QED BY <3>1, LogTyped DEF LogIInv, LogInvocations, PanelStates, Log!Actions, Shareds
  <2>2. CASE ~(log_calls[c].ok /\ log_calls[c].act # "read" /\ log_panel.call = c)
    <3>1. PICK call : call = IF log_panel.call = c THEN None ELSE log_panel.call
      OBVIOUS
    <3>2. PICK pending : pending = IF log_panel.pending = c THEN None ELSE log_panel.pending
      OBVIOUS
    <3>3. PICK enabled : enabled = IF log_panel.call = c /\ log_calls[c].ok THEN log_shared.enabled ELSE log_panel.enabled
      OBVIOUS
    <3>4. call \in Readings \cup {None} /\ pending \in Readings \cup {None} /\ enabled \in BOOLEAN
      BY <3>1, <3>2, <3>3, LogTyped DEF LogIInv, PanelStates, Shareds
    <3>5. log_panel' = [call |-> call, pending |-> pending, enabled |-> enabled]
      BY <2>2, <3>1, <3>2, <3>3, Zenon DEF Log!Done
    <3>6. log_calls' = [log_calls EXCEPT ![c] = Log!Quiet]
      BY <2>2, Zenon DEF Log!Done
    <3> QED BY <3>4, <3>5, <3>6, LogTyped, QuietFacts DEF LogIInv, PanelStates
  <2> QED BY <2>1, <2>2
<1> QED BY <1>1, <1>2, PanelStep, LogTyped DEF LogIInv

-----------------------------------------------------------------------------
(* The program is killed.                                                   *)

LEMMA CrashStep == ASSUME LogDataOK, LogIInv, Log!Crash PROVE LogIInv'
<1>1. Log!Fresh(log_saved') /\ log_gone' = (1..log_emitted) \ Log!Written(log_disk') /\ log_emitted' = log_emitted
  BY DEF Log!Crash
<1>2. PICK h : h = Head(log_queue)
  OBVIOUS
<1>3. \/ log_saved' = log_saved /\ log_disk' = log_disk /\ log_wish' = log_wish
      \/ /\ log_queue # <<>> /\ h.act \in {"on", "off"}
         /\ log_saved' \in {"torn", h.act} /\ log_disk' = log_disk
         /\ log_wish' = log_wish \cup {h.act = "on"}
      \/ /\ log_queue # <<>> /\ h.act = "record" /\ log_saved' = log_saved /\ log_wish' = log_wish
         /\ \E whole \in BOOLEAN : log_disk' = Added(h.record, whole)
  BY <1>2, Zenon DEF Log!Crash, Added
<1>4. log_saved' \in {"on", "off", "torn"} /\ log_wish' \in (SUBSET BOOLEAN) \ {{}}
      /\ (log_saved' = "on" => TRUE \in log_wish')
  <2>1. CASE log_saved' = log_saved /\ log_wish' = log_wish
    BY <2>1, LogTyped DEF LogIInv, ConsentInv
  <2>2. CASE h.act \in {"on", "off"} /\ log_saved' \in {"torn", h.act} /\ log_wish' = log_wish \cup {h.act = "on"}
    <3>1. PICK on \in BOOLEAN : on = (h.act = "on")
      OBVIOUS
    <3>2. log_wish' = log_wish \cup {on}
      BY <2>2, <3>1
    <3>3. log_saved' = "on" => on
      BY <2>2, <3>1
    <3> QED BY <2>2, <3>2, <3>3, LogTyped DEF LogIInv
  <2> QED BY <1>3, <2>1, <2>2
<1>5. DiskOK(log_disk') /\ Log!Written(log_disk') \subseteq 1..log_emitted
  <2>1. CASE log_disk' = log_disk
    BY <2>1 DEF LogIInv, CountInv
  <2>2. ASSUME NEW whole \in BOOLEAN, log_queue # <<>>, h.act = "record", log_disk' = Added(h.record, whole)
        PROVE  DiskOK(log_disk') /\ Log!Written(log_disk') \subseteq 1..log_emitted
    <3>1. log_queue \in Seq(Log!Commands)
      BY LogTyped DEF LogIInv
    <3>2. 1 \in DOMAIN log_queue /\ h = log_queue[1]
      BY <1>2, <2>2, <3>1
    <3>3. h.record \in 1..log_emitted /\ \A n \in Log!Written(log_disk) : n < h.record
      BY <2>2, <3>2 DEF LogIInv, QueueInv
    <3>4. h.record \in 1..MaxRecords
      BY <3>3, LogTyped DEF LogIInv, LogDataOK
    <3>5. DiskOK(log_disk') /\ Log!Written(log_disk') \subseteq Log!Written(log_disk) \cup {h.record}
      BY <2>2, <3>3, <3>4, AddedFacts
    <3> QED BY <3>3, <3>5 DEF LogIInv, CountInv
  <2> QED BY <1>3, <2>1, <2>2
<1>6. /\ log_store' \in {"failed", Log!Start(log_saved')} /\ log_queue' = <<>> /\ log_calls' = [c \in Readings |-> Log!Quiet]
      /\ log_panel' = [call |-> None, pending |-> None, enabled |-> FALSE]
      /\ log_shared' = [enabled |-> log_store' = "on", available |-> log_store' # "failed",
                    dropped |-> 0, busy |-> FALSE]
  BY <1>1 DEF Log!Fresh
<1>7. log_store' \in {"failed", "on", "off"} /\ (log_store' = "on" => log_saved' = "on")
  BY <1>6 DEF Log!Start, Log!Opened
<1>8. PICK enabled \in BOOLEAN, available \in BOOLEAN :
        enabled = (log_store' = "on") /\ available = (log_store' # "failed")
  OBVIOUS
<1>9. log_shared' = [enabled |-> enabled, available |-> available, dropped |-> 0, busy |-> FALSE]
  BY <1>6, <1>8
<1>10. log_shared' \in Shareds /\ log_shared'.enabled = enabled /\ log_shared'.dropped = 0
  BY <1>9 DEF Shareds
<1>11. log_calls' \in [Readings -> LogInvocations] /\ log_panel' \in PanelStates
  BY <1>6, QuietFacts
<1>12. log_queue' \in Seq(Log!Commands) /\ Len(log_queue') <= QueueSize /\ DOMAIN log_queue' = {}
  BY <1>6 DEF LogDataOK
<1>13. log_emitted' \in 0..MaxRecords /\ log_gone' \subseteq 1..MaxRecords
  BY <1>1, LogTyped DEF LogIInv, LogDataOK
<1>14. Log!TypeOK'
  BY <1>4, <1>5, <1>7, <1>10, <1>11, <1>12, <1>13, TypedNext DEF DiskOK
<1>15. Missing' = {}
  BY <1>1 DEF Missing
<1>16. CountInv'
  BY <1>1, <1>5, <1>10, <1>15, FS_EmptySet DEF CountInv
<1>17. ConsentInv'
  BY <1>4, <1>7, <1>8, <1>10 DEF ConsentInv
<1> QED BY <1>5, <1>12, <1>14, <1>16, <1>17 DEF LogIInv, QueueInv

LEMMA LogNextInv == ASSUME LogDataOK, LogIInv, [Log!Next]_(Log!vars) PROVE LogIInv'
<1>1. CASE Log!Emit
  BY <1>1, EmitStep
<1>2. CASE Log!Worker
  BY <1>2, LandsStep, FailsStep, IgnoredStep, ClearFilesStep, ReadFilesStep, SwitchStep DEF Log!Worker
<1>3. CASE Log!Leave
  BY <1>3, LeaveStep
<1>4. CASE Log!Crash
  BY <1>4, CrashStep
<1>5. ASSUME NEW c \in Readings,
             \/ \E act \in Log!Actions : Log!Run(c, act)
             \/ \E ok \in BOOLEAN : Log!Export(c, ok)
             \/ Log!Send(c) \/ Log!Done(c)
      PROVE  LogIInv'
  BY <1>5, RunStep, ExportStep, SendStep, DoneStep
<1>6. CASE UNCHANGED Log!vars
  <2>1. Log!TypeOK'
    BY <1>6, LogTyped, TypedNext DEF LogIInv, Log!vars
  <2> QED BY <1>6, <2>1, RecordsStay DEF LogIInv, ConsentInv, Log!vars
<1> QED BY <1>1, <1>2, <1>3, <1>4, <1>5, <1>6 DEF Log!Next

-----------------------------------------------------------------------------
(* The properties.                                                          *)

LEMMA InvConsent == LogIInv => Log!ConsentSurvives
BY DEF LogIInv, ConsentInv, Log!ConsentSurvives

\* A lost record is counted, or is in a line that a read reports.
LEMMA InvLost ==
  ASSUME LogDataOK, LogIInv PROVE Cardinality(Log!Lost) <= log_shared.dropped + Cardinality(Log!Garbage(log_disk))
<1>1. log_emitted \in Nat /\ log_shared.dropped \in Nat /\ log_disk \in Disks
  BY LogTyped DEF LogIInv, Shareds, LogDataOK
<1>2. IsFiniteSet(Missing) /\ Cardinality(Missing) \in Nat /\ Cardinality(Missing) <= log_shared.dropped
  BY <1>1, MissingFinite DEF LogIInv, CountInv
<1>3. PICK g : g = Log!Garbage(log_disk)
  OBVIOUS
<1>4. g \in SUBSET (Numbers \X (1..MaxLines))
  BY <1>3 DEF Log!Garbage, Log!Places, Numbers
<1>5. IsFiniteSet(Numbers \X (1..MaxLines))
  <2>1. IsFiniteSet(Numbers) /\ IsFiniteSet(1..MaxLines)
    BY FS_Interval DEF Numbers, LogDataOK
  <2> QED BY <2>1, FS_Product
<1>6. IsFiniteSet(g)
  BY <1>4, <1>5, FS_Subset
<1>7. Cardinality(g) \in Nat
  BY <1>6, FS_CardinalityType
<1>8. PICK s : s = Log!Lost \cap Log!Written(log_disk)
  OBVIOUS
<1>9. ASSUME NEW n \in s PROVE \E p \in g : n \in Log!Line(log_disk, p).ids
  <2>1. n \in Log!Written(log_disk) /\ n \notin Log!Readable(log_disk)
    BY <1>8 DEF Log!Lost
  <2>2. PICK p \in Log!Places(log_disk) : n \in Log!Line(log_disk, p).ids
    BY <2>1 DEF Log!Written
  <2>3. ~Log!Line(log_disk, p).whole
    BY <2>1, <2>2 DEF Log!Readable
  <2> QED BY <1>3, <2>2, <2>3 DEF Log!Garbage
<1>10. PICK f : f = [n \in s |-> CHOOSE p \in g : n \in Log!Line(log_disk, p).ids]
  OBVIOUS
<1>11. ASSUME NEW n \in s PROVE f[n] \in g /\ n \in Log!Line(log_disk, f[n]).ids
  BY <1>9, <1>10
<1>12. ASSUME NEW p \in g, NEW a \in Log!Line(log_disk, p).ids, NEW b \in Log!Line(log_disk, p).ids PROVE a = b
  <2>1. p[1] \in Numbers /\ p[2] \in DOMAIN log_disk[p[1]]
    BY <1>3 DEF Log!Garbage, Log!Places, Numbers
  <2>2. LineOK(log_disk[p[1]][p[2]])
    BY <2>1 DEF LogIInv, DiskOK
  <2> QED BY <2>2 DEF LineOK, Log!Line
<1>13. f \in [s -> g] /\ \A a, b \in s : f[a] = f[b] => a = b
  <2>1. f \in [s -> g]
    BY <1>10, <1>11
  <2>2. ASSUME NEW a \in s, NEW b \in s, f[a] = f[b] PROVE a = b
    <3>1. f[a] \in g /\ a \in Log!Line(log_disk, f[a]).ids /\ b \in Log!Line(log_disk, f[a]).ids
      BY <1>11, <2>2
    <3> QED BY <1>12, <3>1
  <2> QED BY <2>1, <2>2
<1>14. f \in Injection(s, g)
  BY <1>13 DEF Injection, IsInjective
<1>15. IsFiniteSet(s) /\ Cardinality(s) <= Cardinality(g)
  BY <1>6, <1>14, FS_Injection
<1>16. Cardinality(s) \in Nat
  BY <1>15, FS_CardinalityType
<1>17. PICK u : u = Missing \cup s
  OBVIOUS
<1>18. IsFiniteSet(u) /\ Cardinality(u) = Cardinality(Missing) + Cardinality(s) - Cardinality(Missing \cap s)
  BY <1>2, <1>15, <1>17, FS_Union
<1>19. Cardinality(Missing \cap s) \in Nat /\ Cardinality(u) \in Nat
  <2>1. IsFiniteSet(Missing \cap s)
    BY <1>2, FS_Intersection
  <2> QED BY <1>18, <2>1, FS_CardinalityType
<1>20. Log!Lost \in SUBSET u
  BY <1>8, <1>17 DEF Log!Lost, Missing
<1>21. IsFiniteSet(Log!Lost) /\ Cardinality(Log!Lost) <= Cardinality(u)
  BY <1>18, <1>20, FS_Subset
<1>22. Cardinality(Log!Lost) \in Nat
  BY <1>21, FS_CardinalityType
<1> QED BY <1>1, <1>2, <1>3, <1>7, <1>15, <1>16, <1>18, <1>19, <1>21, <1>22

\* The part counts with its own copy of the operator.
LEMMA LogCount == \A s : Log!Cardinality(s) = Cardinality(s)
BY DEF Log!Cardinality, Cardinality

LEMMA InvLogIsHonest == ASSUME LogDataOK, LogIInv PROVE Log!LogIsHonest
<1>1. ASSUME NEW p \in Log!Places(log_disk), NEW q \in Log!Places(log_disk), p[1] > q[1] \/ (p[1] = q[1] /\ p[2] < q[2])
      PROVE  \A a \in Log!Line(log_disk, p).ids, b \in Log!Line(log_disk, q).ids : a < b
  <2>1. p[1] \in Numbers /\ p[2] \in DOMAIN log_disk[p[1]] /\ q[1] \in Numbers /\ q[2] \in DOMAIN log_disk[q[1]]
    BY DEF Log!Places, Numbers
  <2>2. Before(p[1], p[2], q[1], q[2])
    BY <1>1 DEF Before
  <2> QED BY <2>1, <2>2 DEF LogIInv, DiskOK, InOrder, Log!Line
<1> QED BY <1>1, InvLost, LogCount DEF Log!LogIsHonest

-----------------------------------------------------------------------------
(***************************************************************************)
(* The sum.                                                                *)
(***************************************************************************)
LEMMA PartsFacts ==
  /\ Options!DataOK /\ Shader!DataOK /\ LogDataOK /\ Config!DataOK /\ Config!OneManager
  /\ PackDataOK /\ UpdateDataOK /\ PanelsBoundsOK
<1>1. Options!DataOK /\ Shader!DataOK
  BY PacksAssumption DEF Options!DataOK, Shader!DataOK
<1>2. LogDataOK
  BY LogAssumption DEF LogDataOK
<1>3. Config!DataOK /\ Config!OneManager
  BY ConfigAssumption DEF Config!DataOK, Config!OneManager
<1>4. PackDataOK /\ UpdateDataOK /\ PanelsBoundsOK
  BY PackAssumption, UpdateAssumption, PanelsAssumption DEF PackDataOK, UpdateDataOK, PanelsBoundsOK
<1> QED BY <1>1, <1>2, <1>3, <1>4

ConfigIInv == Config!OwnInv /\ Config!ShownInv
PanelsWhole == PanelsIInv /\ ShowInv

SumInv ==
  /\ part \in Parts
  /\ part = "options" => Options!IInv
  /\ part = "shader" => Shader!IInv
  /\ part = "log" => LogIInv
  /\ part = "config" => ConfigIInv
  /\ part = "pack" => PackIInv
  /\ part = "update" => UpdateIInv
  /\ part = "panels" => PanelsWhole

\* The part that was chosen moves, or nothing does.
LEMMA Steps ==
  ASSUME [Next]_vars
  PROVE  /\ part' = part
         /\ part = "options" => [Options!Next]_(Options!vars)
         /\ part = "shader" => [Shader!Next]_(Shader!vars)
         /\ part = "log" => [Log!Next]_(Log!vars)
         /\ part = "config" => [Config!Next]_(Config!vars)
         /\ part = "pack" => [Pack!Next]_(Pack!vars)
         /\ part = "update" => [Update!Next]_(Update!vars)
         /\ part = "panels" => [Panels!Next]_(Panels!vars)
         /\ part # "options" => UNCHANGED Options!vars
         /\ part # "shader" => UNCHANGED Shader!vars
<1>1. CASE UNCHANGED vars
  BY <1>1 DEF vars, optionsVars, shaderVars, logVars, configVars, packVars, updateVars, panelsVars,
     Options!vars, Shader!vars, Log!vars, Config!vars, Pack!vars, Update!vars, Panels!vars
<1>2. CASE Next
  BY <1>2 DEF Next, optionsVars, shaderVars, Options!vars, Shader!vars
<1> QED BY <1>1, <1>2

LEMMA SumInit == Init => SumInv
<1> SUFFICES ASSUME Init PROVE SumInv
  OBVIOUS
<1>1. /\ part \in Parts /\ Options!Init /\ Shader!Init /\ Log!Init /\ Config!Init
      /\ Pack!Init /\ Update!Init /\ Panels!Init
  BY DEF Init
<1>2. Options!IInv /\ Shader!IInv
  BY <1>1, PartsFacts, Options!InitInv, Shader!InitInv
<1>3. ConfigIInv
  BY <1>1, PartsFacts, Config!InitInv, Config!InitShown DEF ConfigIInv, Config!OwnInv
<1>4. LogIInv /\ PackIInv /\ UpdateIInv
  BY <1>1, PartsFacts, LogInitInv, PackInitInv, UpdateInitInv
<1>5. PanelsWhole
  BY <1>1, PartsFacts, PanelsInitInv, InitShows DEF PanelsWhole
<1> QED BY <1>1, <1>2, <1>3, <1>4, <1>5 DEF SumInv

LEMMA SumNext == ASSUME SumInv, [Next]_vars PROVE SumInv'
<1>1. part' = part /\ part \in Parts
  BY Steps DEF SumInv
<1>2. part = "options" => Options!IInv'
  BY Steps, PartsFacts, Options!NextInv DEF SumInv
<1>3. part = "shader" => Shader!IInv'
  BY Steps, PartsFacts, Shader!NextInv DEF SumInv
<1>4. part = "log" => LogIInv'
  BY Steps, PartsFacts, LogNextInv DEF SumInv
<1>5. part = "config" => ConfigIInv'
  BY Steps, PartsFacts, Config!NextOwn, Config!NextShown DEF SumInv, ConfigIInv
<1>6. part = "pack" => PackIInv'
  BY Steps, PartsFacts, PackNextInv DEF SumInv
<1>7. part = "update" => UpdateIInv'
  BY Steps, PartsFacts, UpdateNextInv DEF SumInv
<1>8. part = "panels" => PanelsWhole'
  BY Steps, PartsFacts, PanelsNextInv, NextShows DEF SumInv, PanelsWhole
<1> QED BY <1>1, <1>2, <1>3, <1>4, <1>5, <1>6, <1>7, <1>8 DEF SumInv

\* The types of every part hold, whatever its calls, failures and crashes.
THEOREM TypesHold == Spec => []TypeOK
<1>1. SumInv => TypeOK
  BY DEF SumInv, TypeOK, Options!IInv, Shader!IInv, LogIInv, ConfigIInv, Config!OwnInv,
     Config!SavedInv, PackIInv, UpdateIInv, PanelsWhole, PanelsIInv
<1> QED BY <1>1, SumInit, SumNext, PTL DEF Spec

\* A save of a pack or shader selection replaces the file that its editor had
\* loaded and keeps what it does not know, for any number of editors' calls,
\* requests, revisions and writes of others.
THEOREM SaveKeepsUnknownHolds == Spec => SaveKeepsUnknown
<1>1. SumInv /\ [Next]_vars => [Options!KeepsUnknown]_(Options!vars)
  <2> SUFFICES ASSUME SumInv, [Next]_vars PROVE [Options!KeepsUnknown]_(Options!vars)
    OBVIOUS
  <2>1. CASE part = "options"
    BY <2>1, Steps, PartsFacts, Options!NextKeepsUnknown DEF SumInv
  <2>2. CASE part # "options"
    BY <2>2, Steps
  <2> QED BY <2>1, <2>2
<1>2. SumInv /\ [Next]_vars => [Shader!KeepsUnknown]_(Shader!vars)
  <2> SUFFICES ASSUME SumInv, [Next]_vars PROVE [Shader!KeepsUnknown]_(Shader!vars)
    OBVIOUS
  <2>1. CASE part = "shader"
    BY <2>1, Steps, PartsFacts, Shader!NextKeepsUnknown DEF SumInv
  <2>2. CASE part # "shader"
    BY <2>2, Steps
  <2> QED BY <2>1, <2>2
<1> QED BY <1>1, <1>2, SumInit, SumNext, PTL
        DEF Spec, SaveKeepsUnknown, Options!SaveKeepsUnknown, Shader!SaveKeepsUnknown

\* A record of the log that is missing is counted or in a line that a read
\* reports, what can be read is in order, and nothing is recorded against the
\* user's last wish, across failed writes, rotations cut short and kills.
THEOREM LogIsHonestHolds == Spec => []LogIsHonest
<1>1. SumInv => LogIsHonest
  BY PartsFacts, InvLogIsHonest, InvConsent DEF SumInv, LogIsHonest
<1> QED BY <1>1, SumInit, SumNext, PTL DEF Spec

\* An endpoint that was told saved survives a crash, and with one manager a
\* mutation makes its own change only and the page shows what is saved.
THEOREM OwnChangeOnlyHolds == Spec => []OwnChangeOnly
<1>1. ConfigIInv => Config!OwnChangeOnly /\ Config!ShownIsSaved /\ Config!SavedSurvives
  BY PartsFacts, Config!InvShownIsSaved, Config!InvSavedSurvives DEF ConfigIInv, Config!OwnInv
<1>2. SumInv => OwnChangeOnly
  BY <1>1 DEF SumInv, OwnChangeOnly
<1> QED BY <1>2, SumInit, SumNext, PTL DEF Spec

\* An archive is imported once, into the instance it made, as it was previewed.
THEOREM ArchiveOnceHolds == Spec => []ArchiveOnce
<1>1. SumInv => ArchiveOnce
  BY PartsFacts, InvProperties DEF SumInv, ArchiveOnce
<1> QED BY <1>1, SumInit, SumNext, PTL DEF Spec

\* What is installed or discarded is the version that the user confirmed.
THEOREM ConfirmedIsDoneHolds == Spec => []ConfirmedIsDone
<1>1. SumInv => ConfirmedIsDone
  BY PartsFacts, InvConfirmedIsDone DEF SumInv, ConfirmedIsDone
<1> QED BY <1>1, SumInit, SumNext, PTL DEF Spec

\* A change of the worlds, content or properties of a server is carried out
\* while the server stands still and alone, whatever is cancelled, unmounted,
\* visited or started meanwhile, and a panel shows the result of the last one.
THEOREM ChangedWhileStoppedHolds == Spec => []ChangedWhileStopped
<1>1. SumInv => ChangedWhileStopped
  BY InvChangedWhileStopped, InvShownIsCurrent
     DEF SumInv, ChangedWhileStopped, PanelsWhole
<1> QED BY <1>1, SumInit, SumNext, PTL DEF Spec
=============================================================================
