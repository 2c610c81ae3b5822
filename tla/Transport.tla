------------------------------ MODULE Transport ------------------------------
(***************************************************************************)
(* LineTransport over a child process: LocalProcessTransport               *)
(* (transport.rs), the core itself, and SshProcessTransport                *)
(* (ssh_transport.rs), an ssh client whose output is read by a task of its *)
(* own through a small queue.  Session.tla uses what is promised here.     *)
(*                                                                         *)
(* The session has one operation under way at a time and may drop it at    *)
(* any await.  The child may ignore its input, outlive a kill for a while, *)
(* and leave a descendant that holds its output open.                      *)
(***************************************************************************)
EXTENDS Naturals, Sequences

CONSTANTS
  Capacity,   \* SSH_STDOUT_EVENT_CAPACITY
  MaxOutput   \* bound on what the child writes

VARIABLES
  kind,       \* "local" or "ssh"
  child,      \* "running", "exited" (status unknown to us), "reaped"
  killed,     \* start_kill was called
  success,    \* its exit status
  held,       \* a descendant keeps stdout and stderr open
  pipe,       \* what was written and not read: "line", "bad"
  written,
  reader,     \* the task: "reading", "sending" an event, "done"
  sending,    \* the event
  lost,       \* its handle was dropped: nobody can abort it
  queue,      \* the channel
  corruption, \* protocol_corruption
  terminal,
  stdin,      \* the request stream is open
  errors,     \* stderr: a task "reading" or not, and what its tail says
  op,         \* the operation under way
  answers     \* history: what the last operation answered, if an end was told

remote == <<child, killed, success, held, pipe, written>>
task == <<reader, sending, lost, queue, corruption>>
own == <<terminal, stdin, errors>>
vars == <<kind, remote, task, own, op, answers>>

Codes == {"PROTOCOL", "AUTH", "FAILED", "DISCONNECTED", "EOF", "READ", "WRITE", "CLOSED",
          "STOPPED"}
Idle == [name |-> "idle", pc |-> "idle", path |-> "none", status |-> "none", forced |-> FALSE]

TypeOK ==
  /\ kind \in {"local", "ssh"}
  /\ child \in {"running", "exited", "reaped"}
  /\ {killed, success, held, lost, corruption, terminal, stdin} \subseteq BOOLEAN
  /\ pipe \in Seq({"line", "bad"}) /\ written \in 0..MaxOutput
  /\ reader \in {"reading", "sending", "done"}
  /\ sending \in {"none", "line", "eof", "error", "corrupt"}
  /\ queue \in Seq({"line", "eof", "error", "corrupt", "diagnostic"})
  /\ kind = "ssh" => Len(queue) <= Capacity
  /\ errors \in [task : {"reading", "done"}, tail : {"none", "auth"}]
  /\ op \in [name : {"idle", "write", "next", "close", "abort"},
             pc : {"idle", "write", "recv", "wait", "kill", "settle", "stop", "stderr"},
             path : {"none", "reap", "abort", "close"},
             status : {"none", "ok", "bad"}, forced : BOOLEAN]
  /\ answers \in [ended : BOOLEAN, first : Codes \cup {"none"}, last : Codes \cup {"none", "line"}]

Init ==
  /\ kind \in {"local", "ssh"}
  /\ child = "running" /\ killed = FALSE /\ success \in BOOLEAN /\ held \in BOOLEAN
  /\ pipe = <<>> /\ written = 0
  /\ reader = "reading" /\ sending = "none" /\ lost = FALSE /\ queue = <<>>
  /\ corruption = FALSE /\ terminal = FALSE /\ stdin = TRUE
  /\ errors = [task |-> "reading", tail |-> "none"]
  /\ op = Idle
  /\ answers = [ended |-> FALSE, first |-> "none", last |-> "none"]

-----------------------------------------------------------------------------
(* The child.                                                               *)

Emit(x) ==
  /\ child = "running" /\ written < MaxOutput
  /\ pipe' = Append(pipe, x) /\ written' = written + 1
  /\ UNCHANGED <<kind, child, killed, success, held, task, own, op, answers>>

Complain ==
  /\ child = "running" /\ errors = [task |-> "reading", tail |-> "none"]
  /\ errors' = [errors EXCEPT !.tail = "auth"]
  /\ queue' = IF kind = "local" THEN Append(queue, "diagnostic") ELSE queue
  /\ UNCHANGED <<kind, remote, reader, sending, lost, corruption, terminal, stdin, op, answers>>

\* By itself, at the end of its input, or killed.
Exit ==
  /\ child = "running" /\ child' = "exited"
  /\ success' = (success /\ ~killed)
  /\ UNCHANGED <<kind, killed, held, pipe, written, task, own, op, answers>>

\* The descendant lets go.
LetGo ==
  /\ held /\ child # "running" /\ held' = FALSE
  /\ UNCHANGED <<kind, child, killed, success, pipe, written, task, own, op, answers>>

-----------------------------------------------------------------------------
(* The reader tasks.                                                        *)

\* A complete line, or one that is too long, not UTF-8 or cut off by the end.
\* The local reader knows only lines and errors.
ReadLine ==
  /\ reader = "reading" /\ pipe # <<>>
  /\ pipe' = Tail(pipe)
  /\ sending' = IF Head(pipe) = "line" THEN "line" ELSE IF kind = "ssh" THEN "corrupt" ELSE "error"
  /\ corruption' = (corruption \/ sending' = "corrupt")
  /\ reader' = "sending"
  /\ UNCHANGED <<kind, child, killed, success, held, written, lost, queue, own, op, answers>>

ReadEnd ==
  /\ reader = "reading" /\ pipe = <<>> /\ child # "running" /\ ~held
  /\ reader' = "sending" /\ sending' \in {"eof", "error"}
  /\ UNCHANGED <<kind, remote, lost, queue, corruption, own, op, answers>>

Deliver ==
  /\ reader = "sending" /\ (kind = "ssh" => Len(queue) < Capacity)
  /\ queue' = Append(queue, sending) /\ sending' = "none"
  /\ reader' = IF sending = "line" THEN "reading" ELSE "done"
  /\ UNCHANGED <<kind, remote, lost, corruption, own, op, answers>>

StderrEnds ==
  /\ errors.task = "reading" /\ child # "running" /\ ~held
  /\ errors' = [errors EXCEPT !.task = "done"]
  /\ UNCHANGED <<kind, remote, task, terminal, stdin, op, answers>>

-----------------------------------------------------------------------------
(* The operations of the session, first what both kinds share.              *)

Enter(name, pc) == op.name = "idle" /\ op' = [Idle EXCEPT !.name = name, !.pc = pc]

Ends(code) ==
  /\ op' = Idle
  /\ answers' = [ended |-> answers.ended \/ op.name = "next",
                 first |-> IF answers.first = "none" THEN code ELSE answers.first, last |-> code]

Write ==
  /\ Enter("write", "write")
  /\ UNCHANGED <<kind, remote, task, own, answers>>
WriteClosed ==
  /\ op.pc = "write" /\ ~stdin
  /\ Ends(IF kind = "ssh" THEN "DISCONNECTED" ELSE "CLOSED")
  /\ UNCHANGED <<kind, remote, task, own>>
WriteDone ==
  /\ op.pc = "write" /\ stdin /\ op' = Idle
  /\ UNCHANGED <<kind, remote, task, own, answers>>

NextEvent ==
  /\ Enter("next", "recv")
  /\ UNCHANGED <<kind, remote, task, own, answers>>
NextLine ==
  /\ op.pc = "recv" /\ queue # <<>> /\ Head(queue) \in {"line", "diagnostic"}
  /\ queue' = Tail(queue) /\ op' = Idle
  /\ answers' = [answers EXCEPT !.last = IF Head(queue) = "line" THEN "line" ELSE "none"]
  /\ UNCHANGED <<kind, remote, reader, sending, lost, corruption, own>>

Reap == /\ child \in {"exited", "reaped"} /\ child' = "reaped"
        /\ UNCHANGED <<killed, success, held, pipe, written>>
Kill == killed' = TRUE /\ UNCHANGED <<child, success, held, pipe, written>>

\* The session gives an operation up: its future is dropped at an await.  A
\* reader that was being waited for loses its handle.
Drop ==
  /\ op.name # "idle" /\ op' = Idle
  /\ lost' = (lost \/ op.pc = "settle")
  /\ UNCHANGED <<kind, remote, reader, sending, queue, corruption, own, answers>>

-----------------------------------------------------------------------------
(* LocalProcessTransport.                                                   *)

LocalWriteFails ==
  /\ kind = "local" /\ op.pc = "write" /\ stdin /\ child # "running"
  /\ Ends("WRITE") /\ UNCHANGED <<kind, remote, task, own>>
LocalNextEnd ==
  /\ kind = "local" /\ op.pc = "recv"
  /\ \/ /\ queue # <<>> /\ Head(queue) \in {"eof", "error"} /\ queue' = Tail(queue)
        /\ Ends(IF Head(queue) = "eof" THEN "EOF" ELSE "READ")
     \/ /\ queue = <<>> /\ reader = "done" /\ errors.task = "done" /\ queue' = queue
        /\ Ends("STOPPED")
  /\ UNCHANGED <<kind, remote, reader, sending, lost, corruption, own>>

LocalClose ==
  /\ kind = "local" /\ Enter("close", "wait") /\ stdin' = FALSE
  /\ UNCHANGED <<kind, remote, task, terminal, errors, answers>>
LocalAbort ==
  /\ kind = "local" /\ Enter("abort", "kill") /\ stdin' = FALSE /\ Kill
  /\ UNCHANGED <<kind, task, terminal, errors, answers>>
LocalReaped ==
  /\ kind = "local" /\ op.pc \in {"wait", "kill"} /\ Reap /\ op' = Idle
  /\ UNCHANGED <<kind, task, own, answers>>
LocalTimeout ==
  /\ kind = "local" /\ op.pc = "wait" /\ Kill /\ op' = [op EXCEPT !.pc = "kill"]
  /\ UNCHANGED <<kind, task, own, answers>>

-----------------------------------------------------------------------------
(* SshProcessTransport.  Three ways to end: reap_and_classify, abort and    *)
(* close, which share their steps.  Every wait has a deadline.              *)

\* Nothing is left to do, or the input is closed and the child waited for, or
\* killed at once.
EndBy(name, path, now) == IF terminal
  THEN /\ IF name \in {"close", "abort"} THEN op' = Idle /\ answers' = answers ELSE Ends(now)
       /\ UNCHANGED <<stdin, child, killed, success, held, pipe, written>>
  ELSE /\ op' = [name |-> name, pc |-> IF path = "abort" THEN "kill" ELSE "wait", path |-> path,
                 status |-> "none", forced |-> FALSE]
       /\ stdin' = FALSE /\ killed' = (killed \/ path = "abort")
       /\ UNCHANGED <<answers, child, success, held, pipe, written>>

SshWriteFails ==
  /\ kind = "ssh" /\ op.pc = "write" /\ stdin /\ child # "running"
  /\ IF corruption THEN EndBy("write", "abort", "PROTOCOL") ELSE EndBy("write", "reap", "DISCONNECTED")
  /\ UNCHANGED <<kind, task, terminal, errors>>
SshNextEnd ==
  /\ kind = "ssh" /\ op.pc = "recv"
  /\ \/ /\ queue # <<>> /\ Head(queue) = "corrupt" /\ queue' = Tail(queue)
        /\ EndBy("next", "abort", "PROTOCOL")
     \/ /\ queue # <<>> /\ Head(queue) \in {"eof", "error"} /\ queue' = Tail(queue)
        /\ EndBy("next", "reap", "DISCONNECTED")
     \/ /\ queue = <<>> /\ reader = "done" /\ queue' = queue
        /\ EndBy("next", "reap", "DISCONNECTED")
  /\ UNCHANGED <<kind, reader, sending, lost, corruption, terminal, errors>>
SshClose ==
  /\ kind = "ssh" /\ op.name = "idle" /\ EndBy("close", "close", "none")
  /\ UNCHANGED <<kind, task, terminal, errors>>
SshAbort ==
  /\ kind = "ssh" /\ op.name = "idle" /\ EndBy("abort", "abort", "none")
  /\ UNCHANGED <<kind, task, terminal, errors>>

Reaped ==
  /\ kind = "ssh" /\ op.pc \in {"wait", "kill"} /\ Reap
  /\ op' = [op EXCEPT !.pc = IF op.path = "reap" THEN "settle" ELSE "stop",
                      !.status = IF success THEN "ok" ELSE "bad"]
  /\ UNCHANGED <<kind, task, own, answers>>
WaitTimeout ==
  /\ kind = "ssh" /\ op.pc = "wait" /\ Kill
  /\ op' = [op EXCEPT !.pc = "kill", !.forced = TRUE,
                      !.path = IF op.path = "close" THEN "abort" ELSE op.path]
  /\ UNCHANGED <<kind, task, own, answers>>
KillTimeout ==
  /\ kind = "ssh" /\ op.pc = "kill"
  /\ op' = [op EXCEPT !.pc = IF op.path = "reap" THEN "settle" ELSE "stop"]
  /\ UNCHANGED <<kind, remote, task, own, answers>>

\* The reader may be blocked by the full queue: it is given a moment to notice
\* corruption, or none, and stopped.
SettleEndsSlip == reader = "done" \/ lost
SettleEnds == TRUE
Settle ==
  /\ op.pc \in {"settle", "stop"} /\ (op.pc = "settle" => SettleEnds)
  /\ reader' = IF lost THEN reader ELSE "done"
  /\ sending' = IF lost THEN sending ELSE "none"
  /\ op' = [op EXCEPT !.pc = "stderr"]
  /\ UNCHANGED <<kind, remote, lost, queue, corruption, own, answers>>

Classified(status) ==
  IF errors.tail = "auth" THEN "AUTH" ELSE IF status = "bad" THEN "FAILED" ELSE "DISCONNECTED"
FailureSlip == Classified(IF op.forced THEN "none" ELSE op.status)
Failure == IF corruption THEN "PROTOCOL" ELSE Classified(IF op.forced THEN "none" ELSE op.status)

\* stderr is drained for a moment if the child was reaped, and stopped.
Finish ==
  /\ op.pc = "stderr"
  /\ errors' = [task |-> "done", tail |-> "none"]
  /\ terminal' = (op.status # "none")
  /\ IF op.name \in {"close", "abort"} THEN op' = Idle /\ answers' = answers
     ELSE Ends(IF op.path = "abort" THEN "PROTOCOL" ELSE Failure)
  /\ UNCHANGED <<kind, remote, task, stdin>>

Cleanup == Reaped \/ WaitTimeout \/ KillTimeout \/ Settle \/ Finish

Next ==
  \/ Emit("line") \/ Emit("bad") \/ Complain \/ Exit \/ LetGo
  \/ ReadLine \/ ReadEnd \/ Deliver \/ StderrEnds
  \/ Write \/ WriteClosed \/ WriteDone \/ NextEvent \/ NextLine \/ Drop
  \/ LocalWriteFails \/ LocalNextEnd \/ LocalClose \/ LocalAbort \/ LocalReaped \/ LocalTimeout
  \/ SshWriteFails \/ SshNextEnd \/ SshClose \/ SshAbort \/ Cleanup

\* The deadlines pass.
Spec == Init /\ [][Next]_vars /\ WF_vars(Cleanup)

-----------------------------------------------------------------------------
(***************************************************************************)
(* The end of the stream is told as what it was, and is final: no line     *)
(* follows the end that next_event told, a failure found after the reader  *)
(* had met a corrupt line is called that, whichever of the write, the end  *)
(* of the stream and the reaper found it first, and it is told only when   *)
(* the ssh child is reaped or killed and its reader stopped.               *)
(***************************************************************************)
EndIsFinal == [][
  /\ answers.ended /\ queue # <<>> /\ queue' = Tail(queue) => Head(queue) # "line"
  /\ op.pc = "stderr" /\ answers.first = "none" /\ answers'.first # "none" =>
       /\ corruption => answers'.first = "PROTOCOL"
       /\ child = "reaped" \/ killed
       /\ reader = "done" \/ lost
  /\ terminal' => child = "reaped" /\ ~stdin]_vars

(***************************************************************************)
(* What ends an ssh transport ends itself, with the reader blocked on the  *)
(* full queue, a child that survives the kill and a descendant that keeps  *)
(* the output open: close and abort never wait for any of them for good.   *)
(***************************************************************************)
CleanupEnds == op.path # "none" ~> op.path = "none"
=============================================================================
