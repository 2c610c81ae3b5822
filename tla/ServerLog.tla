-------------------------------- MODULE ServerLog --------------------------------
(***************************************************************************)
(* The console of a server (serverLogController.ts, ServerConsolePanel):   *)
(* reads of its log that resume at the last cursor, polls while the server *)
(* runs, one read after it stopped, sessions that fail and are replaced,   *)
(* and commands.  What the user sees must be a part of the log as it is,   *)
(* with nothing missing in between and nothing twice.                      *)
(***************************************************************************)
EXTENDS Naturals, FiniteSets, Sequences

CONSTANTS
  MaxFiles,      \* bound on the rotations of the log
  MaxBytes,      \* bound on the length of one log file
  Chunk,         \* max_bytes of a read
  MaxText,       \* MAX_SERVER_LOG_BUFFER_CHARS
  MaxVisits,     \* bound on the visits to the endpoint
  MaxOvertaken,  \* bound on the reads under way that were overtaken
  None

VARIABLES
  rev,      \* the source revision of the scope on the screen
  log,      \* the server's log: its file and length, or None
  running,  \* desiredRunning, the prop of the panel
  c         \* the controller

vars == <<rev, log, running, c>>

Min2(a, b) == IF a < b THEN a ELSE b

Bytes == (1..MaxFiles) \X (0..MaxBytes - 1)

\* opening: what this.opening waits for.  reads: the requests of this
\* generation; id is FALSE once a later requestId was given out, awaited when
\* this.opening waits for it.  unread: no read was sent since the server was
\* found stopped.
Blank ==
  [open |-> FALSE, scope |-> 0, session |-> FALSE, opening |-> "none", reads |-> {},
   inFlight |-> FALSE, final |-> FALSE, timer |-> FALSE, running |-> FALSE,
   cursor |-> None, text |-> <<>>, command |-> "none", unread |-> FALSE]

TypeOK ==
  /\ rev \in 1..MaxVisits /\ running \in BOOLEAN
  /\ log \in [file : 1..MaxFiles, len : 0..MaxBytes] \cup {None}
  /\ DOMAIN c = DOMAIN Blank
  /\ {c.open, c.session, c.inFlight, c.final, c.timer, c.running, c.unread} \subseteq BOOLEAN
  /\ c.scope \in 0..MaxVisits
  /\ c.opening \in {"none", "waiting", "connecting", "reading"}
  /\ \A r \in c.reads : /\ {r.id, r.awaited} \subseteq BOOLEAN
                        /\ r.cursor \in ((1..MaxFiles) \X (0..MaxBytes)) \cup {None}
  /\ c.cursor \in ((1..MaxFiles) \X (0..MaxBytes)) \cup {None}
  /\ c.text \in Seq(Bytes) /\ Len(c.text) <= MaxText
  /\ c.command \in {"none", "own", "old"}

Init == rev = 1 /\ log = None /\ running = FALSE /\ c = Blank

-----------------------------------------------------------------------------
(* The server and the page                                                 *)

Write ==
  /\ \/ log = None /\ log' = [file |-> 1, len |-> 0]
     \/ log # None /\ log.len < MaxBytes /\ log' = [log EXCEPT !.len = @ + 1]
     \/ log # None /\ log.file < MaxFiles /\ log' = [file |-> log.file + 1, len |-> 0]
  /\ UNCHANGED <<rev, running, c>>

Visit ==
  /\ rev < MaxVisits /\ rev' = rev + 1
  /\ UNCHANGED <<log, running, c>>

-----------------------------------------------------------------------------
(* The parts of the controller                                             *)

Old(command) == IF command = "none" THEN "none" ELSE "old"

\* close and invalidateScope: a new generation.  What was under way comes to
\* nothing; a session that still comes is closed.
Shut(d) == [Blank EXCEPT !.text = d.text, !.command = Old(d.command)]

\* retireSession: the session failed; the cursor stays.
Retired(d) ==
  [d EXCEPT !.session = FALSE, !.inFlight = FALSE, !.timer = FALSE, !.final = FALSE,
            !.command = Old(@), !.reads = {[r EXCEPT !.id = FALSE] : r \in @}]

\* read: joins the read under way, or sends one.
Reading(d) ==
  IF d.inFlight \/ ~d.session THEN d
  ELSE [d EXCEPT !.inFlight = TRUE, !.unread = FALSE,
                 !.reads = @ \cup {[id |-> TRUE, awaited |-> FALSE, cursor |-> d.cursor]}]

\* The read at the end of open and retry, which this.opening waits for.
Awaiting(d) ==
  LET e == Reading(d)
  IN IF ~e.inFlight THEN [e EXCEPT !.opening = "none"]
     ELSE [e EXCEPT !.opening = "reading",
                    !.reads = {IF r.id THEN [r EXCEPT !.awaited = TRUE] ELSE r : r \in @}]

\* A request ends, and this.opening if it waited for it.
Ended(d, r) ==
  [d EXCEPT !.reads = @ \ {r}, !.opening = IF r.awaited THEN "none" ELSE @]

\* The end of a read that was not overtaken: the final one, or the next poll.
Settled(d) ==
  LET e == [d EXCEPT !.inFlight = FALSE]
  IN IF e.final /\ ~e.running THEN Reading([e EXCEPT !.final = FALSE])
     ELSE [e EXCEPT !.timer = e.running]

Current == c.scope = rev

CanRetire == Cardinality({r \in c.reads : ~r.id}) < MaxOvertaken

-----------------------------------------------------------------------------
(* What the user and the page do                                           *)

\* The console is opened, or the scope changed while it was: then it is closed
\* first.
Open ==
  /\ ~(c.open /\ Current)
  /\ c' = [Shut(c) EXCEPT !.open = TRUE, !.scope = rev, !.opening = "connecting",
                          !.text = <<>>, !.running = running, !.unread = ~running]
  /\ UNCHANGED <<rev, log, running>>

Close ==
  /\ c.open /\ c' = Shut(c)
  /\ UNCHANGED <<rev, log, running>>

\* Slip: a stop that is learnt while a read is under way is not remembered.
StoppedSlip(d) == Reading([d EXCEPT !.timer = FALSE])

\* The server was found stopped: what it wrote last is still to be read.
Stopped(d) ==
  IF d.inFlight THEN [d EXCEPT !.timer = FALSE, !.final = TRUE]
  ELSE Reading([d EXCEPT !.timer = FALSE, !.final = FALSE])

SetRunning ==
  /\ running' = ~running
  /\ c' = IF ~c.open \/ c.running = running' THEN c
          ELSE IF ~Current THEN Shut(c)
          ELSE IF running' THEN Reading([c EXCEPT !.running = TRUE, !.final = FALSE,
                                                  !.timer = FALSE, !.unread = FALSE])
          ELSE Stopped([c EXCEPT !.running = FALSE, !.unread = TRUE])
  /\ UNCHANGED <<rev, log>>

\* With an opening under way a retry only waits for it.
Retry ==
  /\ c.open /\ (Current => c.opening = "none")
  /\ c' = IF ~Current THEN Shut(c)
          ELSE LET d == [c EXCEPT !.timer = FALSE]
               IN IF d.session THEN Awaiting(d) ELSE [d EXCEPT !.opening = "waiting"]
  /\ UNCHANGED <<rev, log, running>>

\* The session that failed is closed: another one is opened.
Reconnect ==
  /\ c.opening = "waiting"
  /\ c' = IF Current THEN [c EXCEPT !.opening = "connecting"] ELSE Shut(c)
  /\ UNCHANGED <<rev, log, running>>

Connected ==
  /\ c.opening = "connecting"
  /\ \/ c' = IF Current THEN Awaiting([c EXCEPT !.session = TRUE]) ELSE Shut(c)
     \/ c' = IF Current THEN [c EXCEPT !.opening = "none"] ELSE Shut(c)  \* it failed
  /\ UNCHANGED <<rev, log, running>>

Tick ==
  /\ c.timer
  /\ c' = IF ~Current THEN Shut(c)
          ELSE IF c.running THEN Reading([c EXCEPT !.timer = FALSE])
          ELSE [c EXCEPT !.timer = FALSE]
  /\ UNCHANGED <<rev, log, running>>

-----------------------------------------------------------------------------
(* The answers                                                             *)

\* What the core answers: from the cursor, or the tail, with reset, if that is
\* a cursor it does not know.
Reply(cursor) ==
  LET reset == cursor # None /\ (cursor[1] # log.file \/ cursor[2] > log.len)
      start == IF cursor # None /\ ~reset THEN cursor[2]
               ELSE IF log.len > Chunk THEN log.len - Chunk ELSE 0
      end   == Min2(log.len, start + Chunk)
  IN [reset |-> reset, next |-> <<log.file, end>>,
      text |-> [i \in 1..(end - start) |-> <<log.file, start + i - 1>>]]

\* Slip: the requestId is not compared, and the answer of a read that was
\* overtaken counts.
AcceptsSlip(r) == TRUE

Accepts(r) == r.id

TrimmedSlip(text) == {text}

\* The buffer drops its beginning, to the end of a line if there is one.
Trimmed(text) ==
  IF Len(text) <= MaxText THEN {text}
  ELSE {SubSeq(text, cut + 1, Len(text)) : cut \in (Len(text) - MaxText)..Len(text)}

Answered(r) ==
  /\ log # None
  /\ LET d == Ended(c, r)
         a == Reply(r.cursor)
     IN c' \in IF ~Current THEN {Shut(c)}
               ELSE IF ~Accepts(r) THEN {d}
               ELSE {Settled([d EXCEPT !.cursor = a.next, !.text = t]) :
                       t \in Trimmed(IF a.reset THEN a.text ELSE d.text \o a.text)}
  /\ UNCHANGED <<rev, log, running>>

\* SERVER_LOGS_NOT_FOUND, another error of the core, or one of the transport.
Failed(r) ==
  /\ LET d == Ended(c, r)
     IN IF ~Current THEN c' = Shut(c)
        ELSE IF ~r.id THEN c' = d
        ELSE \/ c' = Settled(d)
             \/ CanRetire /\ c' = Retired(d)
             \/ log = None /\ c' = Settled([d EXCEPT !.cursor = None, !.text = <<>>])
  /\ UNCHANGED <<rev, log, running>>

\* submitCommand takes the lock of the server, so that there is one at a time.
Submit ==
  /\ c.open /\ c.running /\ c.session /\ c.command = "none"
  /\ c' = IF Current THEN [c EXCEPT !.command = "own"] ELSE Shut(c)
  /\ UNCHANGED <<rev, log, running>>

\* The command ends, the lock is released; if the transport failed the session
\* is retired, unless it is another one by now.
Commanded ==
  /\ c.command # "none"
  /\ LET d == [c EXCEPT !.command = "none"]
     IN \/ c' = IF c.command = "own" /\ ~Current THEN Shut(d) ELSE d
        \/ c.command = "own" /\ Current /\ CanRetire /\ c' = Retired(d)
  /\ UNCHANGED <<rev, log, running>>

Next ==
  \/ Write \/ Visit \/ Open \/ Close \/ SetRunning \/ Retry \/ Reconnect \/ Connected
  \/ Tick \/ Submit \/ Commanded
  \/ \E r \in c.reads : Answered(r) \/ Failed(r)

Spec == Init /\ [][Next]_vars

-----------------------------------------------------------------------------
(* Properties                                                              *)

\* The text is one stretch of one log file and ends where the next read begins,
\* over polls, retries, reconnections, overtaken answers and rotations.
TextIsContiguous ==
  /\ \A i \in 2..Len(c.text) :
       c.text[i] = <<c.text[i - 1][1], c.text[i - 1][2] + 1>>
  /\ c.open /\ c.text # <<>> =>
       c.cursor = <<c.text[Len(c.text)][1], c.text[Len(c.text)][2] + 1>>

\* A console at rest on a server that stopped has sent a read since it learnt
\* of the stop, whatever was under way then: the last lines are not left out.
LastLinesRead ==
  c.open /\ Current /\ c.session /\ c.opening = "none" /\ ~c.running /\ ~c.inFlight
    => ~c.unread
=============================================================================
