----------------------------- MODULE Diagnostics -----------------------------
(***************************************************************************)
(* The local diagnostics (diagnostics.rs): records of what the bridge does *)
(* go through a bounded queue to a thread that owns the files; the panel   *)
(* (DiagnosticSettings.tsx) switches them on and off, reads, clears and    *)
(* exports them through the same queue.  Writes may fail at any point, and *)
(* the program may be killed at any point and started again.               *)
(*                                                                         *)
(* A record is a number, a file a sequence of lines.  A line that is not   *)
(* whole is a piece of one, with what was written behind it.               *)
(***************************************************************************)
EXTENDS Naturals, Sequences, FiniteSets

CONSTANTS
  QueueSize,   \* 256 in the code
  MaxLines,    \* lines of a file: MAX_FILE_BYTES
  MaxFiles,    \* MAX_FILES
  MaxRecords,  \* bound on the records of a run
  Calls,       \* invocations of the commands
  None

VARIABLES
  saved,     \* settings.json: "on", "off", or "torn": cut short, or none
  disk,      \* disk[i]: diagnostic-<i>.jsonl
  store,     \* Store: "failed" to open, or its `enabled`
  shared,    \* enabled, available, dropped, control_busy
  queue,     \* commands on their way to the thread
  calls,     \* calls[c]: one invocation
  panel,     \* the panel: its call, whether it is still mounted, what it shows
  emitted,   \* records made while enabled: 1..emitted
  gone,      \* history: records rotated out, cleared or sent after the switch off
  wish       \* history: what the user may think she asked for last

vars == <<saved, disk, store, shared, queue, calls, panel, emitted, gone, wish>>

Actions == {"read", "clear", "on", "off", "export"}
Controls == Actions \ {"read"}   \* those that take control_busy
Lines == [ids : SUBSET (1..MaxRecords), whole : BOOLEAN, open : BOOLEAN]
Commands == [record : 0..MaxRecords, call : Calls \cup {None}, act : Actions \cup {"record"}]

TypeOK ==
  /\ saved \in {"on", "off", "torn"}
  /\ disk \in [0..MaxFiles - 1 -> Seq(Lines)]
  /\ \A i \in DOMAIN disk : Len(disk[i]) <= MaxLines
  /\ store \in {"failed", "on", "off"}
  /\ shared \in [enabled : BOOLEAN, available : BOOLEAN, dropped : Nat, busy : BOOLEAN]
  /\ queue \in Seq(Commands) /\ Len(queue) <= QueueSize
  /\ calls \in [Calls -> [pc : {"idle", "send", "wait", "dialog", "done"},
                          act : Actions, ok : BOOLEAN]]
  /\ panel \in [call : Calls \cup {None}, pending : Calls \cup {None}, enabled : BOOLEAN]
  /\ emitted \in 0..MaxRecords /\ gone \subseteq 1..MaxRecords
  /\ wish \in (SUBSET BOOLEAN) \ {{}}

Quiet == [pc |-> "idle", act |-> "read", ok |-> FALSE]
Opened(s) == IF s = "on" THEN "on" ELSE "off"

\* Diagnostics::start.  Off unless the settings can be read and say on.
StartSlip(s) == IF s = "off" THEN "off" ELSE "on"
Start(s) == Opened(s)
Fresh(s) == /\ store' \in {"failed", Start(s)}
            /\ shared' = [enabled |-> store' = "on", available |-> store' # "failed",
                          dropped |-> 0, busy |-> FALSE]
            /\ queue' = <<>> /\ calls' = [c \in Calls |-> Quiet]
            /\ panel' = [call |-> None, pending |-> None, enabled |-> FALSE]

Init ==
  /\ saved = "torn" /\ disk = [i \in 0..MaxFiles - 1 |-> <<>>]
  /\ store \in {"failed", "off"}
  /\ shared = [enabled |-> FALSE, available |-> store # "failed", dropped |-> 0, busy |-> FALSE]
  /\ queue = <<>> /\ calls = [c \in Calls |-> Quiet]
  /\ panel = [call |-> None, pending |-> None, enabled |-> FALSE]
  /\ emitted = 0 /\ gone = {} /\ wish = {FALSE}

-----------------------------------------------------------------------------
(* What records: an event, or an operation that is dropped with its outcome *)

FullSlip == Len(queue) > QueueSize
Full == Len(queue) >= QueueSize
Emit ==
  /\ shared.enabled /\ emitted < MaxRecords
  /\ emitted' = emitted + 1
  /\ IF Full THEN /\ shared' = [shared EXCEPT !.dropped = @ + 1] /\ queue' = queue
     ELSE /\ shared' = shared
          /\ queue' = Append(queue, [record |-> emitted', call |-> None, act |-> "record"])
  /\ UNCHANGED <<saved, disk, store, calls, panel, gone, wish>>

-----------------------------------------------------------------------------
(* The thread.  Each command is one step; how far a failing one gets is a   *)
(* choice.                                                                  *)

Places(d) == {p \in (0..MaxFiles - 1) \X (1..MaxLines) : p[2] \in DOMAIN d[p[1]]}
Line(d, p) == d[p[1]][p[2]]
Written(d) == UNION {Line(d, p).ids : p \in Places(d)}
Readable(d) == UNION {Line(d, p).ids : p \in {q \in Places(d) : Line(d, q).whole}}
Garbage(d) == {p \in Places(d) : ~Line(d, p).whole}

\* The files move up by one, the last one is removed first: k of these steps.
Rotated(d, k) == [i \in DOMAIN d |->
  IF k = 0 \/ i < MaxFiles - k THEN d[i] ELSE IF i = MaxFiles - k THEN <<>> ELSE d[i - 1]]
Room(d) == Len(d[0]) < MaxLines
Ready(d) == IF Room(d) THEN d ELSE Rotated(d, MaxFiles)

\* A line, or a piece of it, behind what the file ends with.
Put(file, r, whole) ==
  IF file # <<>> /\ file[Len(file)].open
  THEN [file EXCEPT ![Len(file)] = [ids |-> @.ids \cup (IF whole THEN {r} ELSE {}), whole |-> FALSE, open |-> ~whole]]
  ELSE Append(file, [ids |-> IF whole THEN {r} ELSE {}, whole |-> whole, open |-> ~whole])

Command == queue # <<>> /\ queue' = Tail(queue)
Becomes(d) == disk' = d /\ gone' = gone \cup (Written(disk) \ Written(d))
Available(ok) == [shared EXCEPT !.available = ok]

\* The answer to the command; its ControlGuard is dropped, unless an export
\* goes on with the dialog.
Opens(ok) == Head(queue).act = "export" /\ ok
Reply(ok) == calls' = [calls EXCEPT ![Head(queue).call] =
  [@ EXCEPT !.pc = IF Opens(ok) THEN "dialog" ELSE "done", !.ok = ok]]
Answered(ok) == [Available(ok) EXCEPT !.busy = @ /\ (Head(queue).act = "read" \/ Opens(ok))]

Lands ==
  /\ Command /\ Head(queue).act = "record" /\ store = "on"
  /\ Becomes([Ready(disk) EXCEPT ![0] = Put(@, Head(queue).record, TRUE)])
  /\ shared' = Available(TRUE)
  /\ UNCHANGED <<saved, store, calls, panel, emitted, wish>>

CountedSlip == [shared EXCEPT !.available = FALSE]
Counted == [shared EXCEPT !.available = FALSE, !.dropped = @ + 1]
Fails ==
  /\ Command /\ Head(queue).act = "record" /\ store \in {"on", "failed"}
  /\ \E d \in {IF Room(disk) THEN disk ELSE Rotated(disk, k) : k \in 0..MaxFiles}
              \cup {[Ready(disk) EXCEPT ![0] = Put(@, Head(queue).record, FALSE)]} :
       Becomes(IF store = "failed" THEN disk ELSE d)
  /\ shared' = Counted
  /\ UNCHANGED <<saved, store, calls, panel, emitted, wish>>

\* Sent before the switch was set, reached after the store was switched off.
Ignored ==
  /\ Command /\ Head(queue).act = "record" /\ store = "off"
  /\ gone' = gone \cup {Head(queue).record} /\ shared' = Available(TRUE)
  /\ UNCHANGED <<saved, disk, store, calls, panel, emitted, wish>>

ReadFiles(ok) ==
  /\ Command /\ Head(queue).act \in {"read", "export"} /\ (ok => store # "failed")
  /\ shared' = Answered(ok) /\ Reply(ok)
  /\ UNCHANGED <<saved, disk, store, panel, emitted, gone, wish>>

\* The files are removed one by one.
ClearFiles(k) == LET ok == k = MaxFiles /\ store # "failed" IN
  /\ Command /\ Head(queue).act = "clear" /\ (store = "failed" => k = 0)
  /\ Becomes([i \in DOMAIN disk |-> IF i < k THEN <<>> ELSE disk[i]])
  /\ shared' = Answered(ok) /\ Reply(ok)
  /\ UNCHANGED <<saved, store, panel, emitted, wish>>

\* The file is cut to nothing, written and synced.
Switch(s, ok) == LET act == Head(queue).act IN
  /\ Command /\ act \in {"on", "off"} /\ (ok => store # "failed")
  /\ saved' = s /\ s \in {act} \cup (IF ok THEN {} ELSE {saved, "torn"})
  /\ store = "failed" => s = saved
  /\ store' = IF ok THEN act ELSE store
  /\ shared' = [Answered(ok) EXCEPT !.enabled = IF ok THEN act = "on" ELSE @]
  /\ wish' = IF ok THEN {act = "on"} ELSE wish \cup {act = "on"}
  /\ Reply(ok)
  /\ UNCHANGED <<disk, panel, emitted, gone>>

-----------------------------------------------------------------------------
(* The commands and the panel.                                              *)

\* control: one of them at a time, the next is refused.
Invoke(c, act) == LET refused == act \in Controls /\ shared.busy IN
  /\ calls' = [calls EXCEPT ![c] = [pc |-> IF refused THEN "done" ELSE "send", act |-> act, ok |-> FALSE]]
  /\ shared' = [shared EXCEPT !.busy = @ \/ act \in Controls]

\* The panel's lock, and the operation of a panel that was left, which the next
\* one waits for.
Run(c, act) ==
  /\ panel.call = None /\ panel.pending = None /\ calls[c].pc = "idle"
  /\ act \in {"on", "off"} => (act = "on") = ~panel.enabled
  /\ Invoke(c, act) /\ panel' = [panel EXCEPT !.call = c]
  /\ UNCHANGED <<saved, disk, store, queue, emitted, gone, wish>>
Leave ==
  /\ panel' = [panel EXCEPT !.pending = IF panel.call # None THEN panel.call ELSE @, !.call = None,
                            !.enabled = FALSE]
  /\ UNCHANGED <<saved, disk, store, shared, queue, calls, emitted, gone, wish>>

\* A blocking send, from a thread of its own.
Send(c) ==
  /\ calls[c].pc = "send" /\ ~Full
  /\ queue' = Append(queue, [record |-> 0, call |-> c, act |-> calls[c].act])
  /\ calls' = [calls EXCEPT ![c].pc = "wait"]
  /\ UNCHANGED <<saved, disk, store, shared, panel, emitted, gone, wish>>

\* The dialog is answered; the records go to a file elsewhere.
Export(c, ok) ==
  /\ calls[c].pc = "dialog"
  /\ calls' = [calls EXCEPT ![c].pc = "done", ![c].ok = ok]
  /\ shared' = [shared EXCEPT !.busy = FALSE]
  /\ UNCHANGED <<saved, disk, store, queue, panel, emitted, gone, wish>>

\* After a control that went well the panel reads; then it shows what it has.
Done(c) ==
  /\ calls[c].pc = "done"
  /\ IF calls[c].ok /\ calls[c].act # "read" /\ panel.call = c
     THEN /\ calls' = [calls EXCEPT ![c] = [pc |-> "send", act |-> "read", ok |-> FALSE]]
          /\ panel' = [panel EXCEPT !.enabled = shared.enabled]
     ELSE /\ calls' = [calls EXCEPT ![c] = Quiet]
          /\ panel' = [call |-> IF panel.call = c THEN None ELSE panel.call,
                       pending |-> IF panel.pending = c THEN None ELSE panel.pending,
                       enabled |-> IF panel.call = c /\ calls[c].ok THEN shared.enabled ELSE panel.enabled]
  /\ UNCHANGED <<saved, disk, store, shared, queue, emitted, gone, wish>>

\* The program is killed, in the middle of a command or not, and started again.
Crash ==
  /\ \/ saved' = saved /\ disk' = disk /\ wish' = wish
     \/ /\ queue # <<>> /\ Head(queue).act \in {"on", "off"} /\ store # "failed"
        /\ saved' \in {"torn", Head(queue).act} /\ disk' = disk
        /\ wish' = wish \cup {Head(queue).act = "on"}
     \/ /\ queue # <<>> /\ Head(queue).act = "record" /\ store = "on" /\ saved' = saved /\ wish' = wish
        /\ \E whole \in BOOLEAN : disk' = [Ready(disk) EXCEPT ![0] = Put(@, Head(queue).record, whole)]
  /\ Fresh(saved')
  /\ gone' = (1..emitted) \ Written(disk')
  /\ emitted' = emitted

Worker ==
  \/ Lands \/ Fails \/ Ignored \/ \E k \in 0..MaxFiles : ClearFiles(k)
  \/ \E ok \in BOOLEAN : ReadFiles(ok) \/ \E s \in {"on", "off", "torn"} : Switch(s, ok)

Next ==
  \/ Emit \/ Worker \/ Leave \/ Crash
  \/ \E c \in Calls : \/ \E act \in Actions : Run(c, act)
                      \/ \E ok \in BOOLEAN : Export(c, ok)
                      \/ Send(c) \/ Done(c)

Spec == Init /\ [][Next]_vars

-----------------------------------------------------------------------------
(***************************************************************************)
(* Nothing is recorded that the user has not agreed to: the switch is on   *)
(* only if that is what she asked for last, or what she was told of her    *)
(* last wishes leaves it open, across failed writes of the settings and    *)
(* kills in the middle of them.                                            *)
(***************************************************************************)
ConsentSurvives == shared.enabled \/ store = "on" => TRUE \in wish

(***************************************************************************)
(* The log tells how much it lost: a record that was made since the start  *)
(* and is neither on its way nor readable nor old nor cleared is counted   *)
(* among the dropped ones or is part of a line that a read reports as      *)
(* skipped, also when a failed write left a piece of a line that swallowed *)
(* the next record.  What can be read is in the order in which it was made.*)
(***************************************************************************)
Queued == {queue[i].record : i \in DOMAIN queue}
Lost == (1..emitted) \ (Queued \cup Readable(disk) \cup gone)
LogIsHonest ==
  /\ Cardinality(Lost) <= shared.dropped + Cardinality(Garbage(disk))
  /\ \A p, q \in Places(disk) : p[1] > q[1] \/ (p[1] = q[1] /\ p[2] < q[2]) =>
       \A a \in Line(disk, p).ids, b \in Line(disk, q).ids : a < b
=============================================================================
