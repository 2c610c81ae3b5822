------------------------------ MODULE Session ------------------------------
(***************************************************************************)
(* One RPC session of the desktop bridge (src-tauri/src/session.rs): the   *)
(* handshake, the requests that queue on the transport lock, cancellation, *)
(* credential-bearing requests and close.                                  *)
(*                                                                         *)
(* The three atomics (closed, credentialed, the cancel watch), the request *)
(* sequence and the transport lock are variables; every caller is a task   *)
(* with a program counter.  A biased `select!` is one step: it takes the   *)
(* cancellation when there is one, else the other branch.  The core is the *)
(* environment: it may stay silent, die, or send any line about any        *)
(* request it has received, more than once and in any order.               *)
(***************************************************************************)
EXTENDS Naturals

CONSTANTS
  Ordinary,      \* calls of Session::request
  Credentialed,  \* calls of Session::request_credentialed
  Handshake,     \* the core.version request made by establish_inner
  Closers,       \* calls of Session::close
  NoTask,        \* nobody holds the transport lock
  NoId           \* a request that has taken no id; also the `id: null` of a line

Requests == Ordinary \cup Credentialed \cup {Handshake}
Tasks == Requests \cup Closers

ASSUME TasksAssumption ==
  /\ Ordinary \cap Credentialed = {}
  /\ Handshake \notin Ordinary \cup Credentialed
  /\ Closers \cap Requests = {}
  /\ NoTask \notin Tasks
  /\ NoId \notin Nat

VARIABLES
  pc,            \* pc[t]: where task t stands
  id,            \* id[r]: the sequence number request r took, or NoId
  outcome,       \* outcome[r]: what r returned, "none" before
  heard,         \* heard[r]: the ids of the lines r accepted as its own
  holder,        \* the task that holds the transport lock
  closed,        \* Session::closed
  cancel,        \* the cancel watch holds TRUE
  credentialed,  \* Session::credentialed
  sequence,      \* Session::sequence
  written,       \* ids of the request lines the core has been sent
  transport,     \* "open", "broken", "aborted", "unreaped" or "closed"
  ready          \* establish returned Ok: the session has callers

vars == <<pc, id, outcome, heard, holder, closed, cancel, credentialed,
          sequence, written, transport, ready>>

flags == <<closed, cancel, credentialed>>
wire  == <<id, heard, sequence, written, transport>>

PC == {"idle", "checking", "queued", "writing", "reading", "aborting",
       "signalling", "identity", "done"}

Outcome == {"none", "ok", "rpc", "SESSION_CLOSED", "SESSION_CANCELLED",
            "TOO_LONG", "TRANSPORT", "PROTOCOL", "SSH_TIMEOUT"}

TypeOK ==
  /\ pc \in [Tasks -> PC]
  /\ id \in [Requests -> Nat \cup {NoId}]
  /\ outcome \in [Requests -> Outcome]
  /\ heard \in [Requests -> SUBSET Nat]
  /\ holder \in Tasks \cup {NoTask}
  /\ closed \in BOOLEAN /\ cancel \in BOOLEAN /\ credentialed \in BOOLEAN
  /\ sequence \in Nat
  /\ written \in SUBSET Nat
  /\ transport \in {"open", "broken", "aborted", "unreaped", "closed"}
  /\ ready \in BOOLEAN

Init ==
  /\ pc = [t \in Tasks |-> "idle"]
  /\ id = [r \in Requests |-> NoId]
  /\ outcome = [r \in Requests |-> "none"]
  /\ heard = [r \in Requests |-> {}]
  /\ holder = NoTask
  /\ closed = FALSE /\ cancel = FALSE /\ credentialed = FALSE
  /\ sequence = 0
  /\ written = {}
  /\ transport = "open"
  /\ ready = FALSE

-----------------------------------------------------------------------------
(* Returning from request_inner.  It drops the lock; request_credentialed  *)
(* still has its signal_close to run and establish_inner the identity to   *)
(* look at.                                                                *)

After(r, o) ==
  IF r \in Credentialed THEN "signalling"
  ELSE IF r = Handshake /\ o = "ok" THEN "identity" ELSE "done"

Finish(r, o) ==
  /\ pc' = [pc EXCEPT ![r] = After(r, o)]
  /\ outcome' = [outcome EXCEPT ![r] = o]
  /\ holder' = IF holder = r THEN NoTask ELSE holder

\* signal_close: close for good and wake every task that waits.
SignalClose == closed' = TRUE /\ cancel' = TRUE

\* Give the request up with o: the lock is kept until the abort returns.
StartAbort(r, o) ==
  /\ pc' = [pc EXCEPT ![r] = "aborting"]
  /\ outcome' = [outcome EXCEPT ![r] = o]
  /\ holder' = r

\* Slip: the credentialed flag is looked at only on the way in, as `cancel`.
RejectedSlip(r) == cancel \/ closed

\* The check made on entry and again once the lock is held.
Rejected(r) == cancel \/ closed \/ (r \notin Credentialed /\ credentialed)

-----------------------------------------------------------------------------
(* The steps of one request                                                *)

\* establish makes the first request; callers exist once it has returned Ok.
\* request_credentialed swaps its flag first and gives up if it was set.
Submit(r) ==
  /\ pc[r] = "idle"
  /\ ready \/ r = Handshake
  /\ IF r \in Credentialed /\ credentialed
     THEN /\ pc' = [pc EXCEPT ![r] = "done"]
          /\ outcome' = [outcome EXCEPT ![r] = "SESSION_CLOSED"]
     ELSE /\ pc' = [pc EXCEPT ![r] = "checking"]
          /\ UNCHANGED outcome
  /\ credentialed' = (credentialed \/ r \in Credentialed)
  /\ UNCHANGED <<wire, holder, closed, cancel, ready>>

Enter(r) ==
  /\ pc[r] = "checking"
  /\ IF Rejected(r)
     THEN Finish(r, "SESSION_CLOSED")
     ELSE /\ pc' = [pc EXCEPT ![r] = "queued"]
          /\ UNCHANGED <<outcome, holder>>
  /\ UNCHANGED <<wire, flags, ready>>

\* Cancelled while it waits for the transport lock.
LeaveQueue(r) ==
  /\ pc[r] = "queued" /\ cancel
  /\ Finish(r, "SESSION_CANCELLED")
  /\ UNCHANGED <<wire, flags, ready>>

\* Slip: the counter after a decrement.
NextIdSlip == sequence - 1

\* The id of the next request: the counter before fetch_add.
NextId == sequence

\* The lock is free: look again, take an id, and refuse a line that is too
\* long.  Until this moment the session may have changed under the waiter.
Acquire(r) ==
  /\ pc[r] = "queued" /\ ~cancel /\ holder = NoTask
  /\ \/ /\ Rejected(r)
        /\ Finish(r, "SESSION_CANCELLED")
        /\ UNCHANGED <<id, sequence>>
     \/ /\ ~Rejected(r)
        /\ id' = [id EXCEPT ![r] = NextId]
        /\ sequence' = sequence + 1
        /\ \/ Finish(r, "TOO_LONG")
           \/ /\ pc' = [pc EXCEPT ![r] = "writing"]
              /\ holder' = r
              /\ UNCHANGED outcome
  /\ UNCHANGED <<heard, written, transport, flags, ready>>

Write(r) ==
  /\ pc[r] = "writing" /\ ~cancel
  /\ transport = "open"
  /\ pc' = [pc EXCEPT ![r] = "reading"]
  /\ written' = written \cup {id[r]}
  /\ UNCHANGED <<id, outcome, heard, holder, sequence, transport, flags, ready>>

\* The core's end of the pipe is gone: the error returns, the session stays.
WriteFails(r) ==
  /\ pc[r] = "writing" /\ ~cancel
  /\ transport' = "broken"
  /\ Finish(r, "TRANSPORT")
  /\ UNCHANGED <<id, heard, sequence, written, flags, ready>>

\* Slip: only the write is raced against the cancellation, not the read.
CancelInFlightSlip(r) ==
  /\ pc[r] = "writing" /\ cancel
  /\ StartAbort(r, "SESSION_CANCELLED")
  /\ UNCHANGED <<wire, flags, ready>>

\* Cancelled with the lock held, before or after the line was written.
CancelInFlight(r) ==
  /\ pc[r] \in {"writing", "reading"} /\ cancel
  /\ StartAbort(r, "SESSION_CANCELLED")
  /\ UNCHANGED <<wire, flags, ready>>

\* Slip: the id of the line is not compared.
MineSlip(r, i) == i \in Nat

\* A line with id i is taken for the request's own; other lines are skipped.
Mine(r, i) == i = id[r]

\* `started`, `progress`, `stdout`...: forwarded to the caller's on_event.
HearEvent(r) ==
  /\ pc[r] = "reading" /\ ~cancel
  /\ \E i \in written : Mine(r, i) /\ heard' = [heard EXCEPT ![r] = @ \cup {i}]
  /\ UNCHANGED <<pc, id, outcome, holder, sequence, written, transport, flags, ready>>

HearTerminal(r) ==
  /\ pc[r] = "reading" /\ ~cancel
  /\ \E i \in written : Mine(r, i) /\ heard' = [heard EXCEPT ![r] = @ \cup {i}]
  /\ \E o \in {"ok", "rpc"} : Finish(r, o)
  /\ UNCHANGED <<id, sequence, written, transport, flags, ready>>

\* Not JSON, an error with `id: null`, or an event without its kind.
HearGarbage(r) ==
  /\ pc[r] = "reading" /\ ~cancel
  /\ SignalClose
  /\ StartAbort(r, "PROTOCOL")
  /\ UNCHANGED <<wire, credentialed, ready>>

\* Slip: the end of the stream is reported and the session stays open.
HearEndSlip(r) ==
  /\ pc[r] = "reading" /\ ~cancel
  /\ transport' = "broken"
  /\ Finish(r, "TRANSPORT")
  /\ UNCHANGED <<id, heard, sequence, written, flags, ready>>

\* The stream ended: closed is set, the cancel watch is not.
HearEnd(r) ==
  /\ pc[r] = "reading" /\ ~cancel
  /\ closed' = TRUE
  /\ transport' = "broken"
  /\ Finish(r, "TRANSPORT")
  /\ UNCHANGED <<id, heard, sequence, written, cancel, credentialed, ready>>

\* Slip: the abort returns without dropping the lock.
AbortReturnsSlip(r) ==
  /\ pc[r] = "aborting"
  /\ transport' \in {"aborted", "unreaped"}
  /\ pc' = [pc EXCEPT ![r] = IF r \in Credentialed THEN "signalling" ELSE "done"]
  /\ UNCHANGED <<id, outcome, heard, holder, sequence, written, flags, ready>>

\* best_effort_abort: the transport is reaped, or one second has passed.
AbortReturns(r) ==
  /\ pc[r] = "aborting"
  /\ transport' \in {"aborted", "unreaped"}
  /\ pc' = [pc EXCEPT ![r] = IF r \in Credentialed THEN "signalling" ELSE "done"]
  /\ holder' = NoTask
  /\ UNCHANGED <<id, outcome, heard, sequence, written, flags, ready>>

\* The last line of request_credentialed, after the lock was dropped.
SignalAfter(r) ==
  /\ pc[r] = "signalling"
  /\ SignalClose
  /\ pc' = [pc EXCEPT ![r] = "done"]
  /\ UNCHANGED <<wire, outcome, holder, credentialed, ready>>

-----------------------------------------------------------------------------
(* The rest of establish, and close                                        *)

AcceptIdentity ==
  /\ pc[Handshake] = "identity"
  /\ pc' = [pc EXCEPT ![Handshake] = "done"]
  /\ ready' = TRUE
  /\ UNCHANGED <<wire, flags, outcome, holder>>

\* An identity that does not parse, or another protocol version.
RejectIdentity ==
  /\ pc[Handshake] = "identity"
  /\ SignalClose
  /\ StartAbort(Handshake, "ok")
  /\ UNCHANGED <<wire, credentialed, ready>>

\* The SSH deadline drops the pending request, wherever it stands.
HandshakeDeadline ==
  /\ pc[Handshake] \in {"checking", "queued", "writing", "reading", "aborting"}
  /\ outcome[Handshake] \notin {"ok", "SSH_TIMEOUT"}
  /\ SignalClose
  /\ StartAbort(Handshake, "SSH_TIMEOUT")
  /\ UNCHANGED <<wire, credentialed, ready>>

Close(c) ==
  /\ pc[c] = "idle" /\ ready
  /\ SignalClose
  /\ pc' = [pc EXCEPT ![c] = "queued"]
  /\ UNCHANGED <<wire, outcome, holder, credentialed, ready>>

CloseTransport(c) ==
  /\ pc[c] = "queued" /\ holder = NoTask
  /\ transport' = "closed"
  /\ pc' = [pc EXCEPT ![c] = "done"]
  /\ UNCHANGED <<id, outcome, heard, holder, sequence, written, flags, ready>>

-----------------------------------------------------------------------------
\* What a running request does without waiting for the core.
Advance(r) ==
  \/ Enter(r) \/ LeaveQueue(r) \/ Acquire(r) \/ Write(r) \/ WriteFails(r)
  \/ CancelInFlight(r) \/ AbortReturns(r) \/ SignalAfter(r)

Hear(r) == HearEvent(r) \/ HearTerminal(r) \/ HearGarbage(r) \/ HearEnd(r)

CheckIdentity == AcceptIdentity \/ RejectIdentity

Next ==
  \/ \E r \in Requests : Submit(r) \/ Advance(r) \/ Hear(r)
  \/ CheckIdentity
  \/ HandshakeDeadline
  \/ \E c \in Closers : Close(c) \/ CloseTransport(c)

\* The runtime polls every task that can run; nothing is asked of the core.
Fairness ==
  /\ \A r \in Requests : WF_vars(Advance(r))
  /\ WF_vars(CheckIdentity)
  /\ \A c \in Closers : WF_vars(CloseTransport(c))

Spec == Init /\ [][Next]_vars
FairSpec == Spec /\ Fairness

-----------------------------------------------------------------------------
(* Properties                                                              *)

(***************************************************************************)
(* A line of the core is delivered to at most one request, and to the one  *)
(* it was sent for: an answer that arrives late, twice or after its        *)
(* request was given up never reaches the next caller.                     *)
(***************************************************************************)
OwnLinesOnly ==
  /\ \A r \in Requests : heard[r] \subseteq {id[r]}
  /\ \A r, q \in Requests : r # q => heard[r] \cap heard[q] = {}

(***************************************************************************)
(* "Never let a later request read a secret tail": from the moment the     *)
(* line of a credential-bearing request is on the wire, no line is         *)
(* delivered to any other request and no other line is written, whoever    *)
(* was already queued behind it.                                           *)
(***************************************************************************)
SecretIsLast ==
  [][\A k \in Credentialed : id[k] \in written =>
       /\ written' = written
       /\ \A r \in Requests \ {k} : heard'[r] = heard[r]]_vars

\* The abstract channel: sent is being on the wire without a result, and the
\* channel is live until closed is set.
statusBar ==
  [r \in Requests |->
     CASE outcome[r] \in {"ok", "rpc"} -> "replied"
       [] outcome[r] \notin {"none", "ok", "rpc"} -> "failed"
       [] outcome[r] = "none" /\ id[r] \in written -> "sent"
       [] outcome[r] = "none" /\ id[r] \notin written -> "new"]

Channel == INSTANCE RpcChannel WITH status <- statusBar, live <- ~closed

(***************************************************************************)
(* The session implements RpcChannel: one request on the wire at a time,   *)
(* nothing after the session was closed or its stream ended, and a request *)
(* abandoned on the wire takes the session with it.                        *)
(***************************************************************************)
ImplementsRpcChannel == Channel!Spec

(***************************************************************************)
(* Closing a session ends every request on it, queued or in flight, even   *)
(* when the core never says anything again.                                *)
(***************************************************************************)
CloseEndsRequests ==
  \A r \in Requests : (cancel /\ pc[r] # "idle") ~> (pc[r] = "done")

\* Session::close always gets the transport lock and closes the transport.
CloseReachesTransport ==
  \A c \in Closers : (pc[c] = "queued") ~> (pc[c] = "done")

(***************************************************************************)
(* What rpc.ts says of CoreSession.close: "an in-flight request finishes   *)
(* first".  A request whose line was written would then never end with     *)
(* SESSION_CANCELLED.                                                      *)
(***************************************************************************)
InFlightFinishesFirst ==
  \A r \in Requests : id[r] \in written => outcome[r] # "SESSION_CANCELLED"
=============================================================================
