--------------------------- MODULE SessionProofs ---------------------------
(***************************************************************************)
(* Proofs about Session for any number of callers.                         *)
(***************************************************************************)
EXTENDS Session, TLAPS

-----------------------------------------------------------------------------
(* The inductive invariant, in named parts.                                *)

\* The transport lock is held exactly by the request that writes, reads or
\* aborts; only the handshake runs before establish has returned.
LockInv ==
  /\ \A r \in Requests : pc[r] \in {"writing", "reading", "aborting"} <=> holder = r
  /\ holder \in Requests \cup {NoTask}
  /\ ready => pc[Handshake] = "done"
  /\ ~ready => \A t \in Tasks \ {Handshake} : pc[t] = "idle"
  /\ \A r \in Requests : pc[r] = "identity" => r = Handshake
  /\ \A r \in Requests : pc[r] = "signalling" => r \in Credentialed

\* Ids are taken in order and never twice.
IdInv ==
  /\ \A r \in Requests : id[r] # NoId => id[r] < sequence
  /\ \A r, q \in Requests : r # q /\ id[r] # NoId => id[r] # id[q]
  /\ \A i \in written : i < sequence
  /\ \A r \in Requests : heard[r] \subseteq {id[r]}

\* What each program counter says of the request's id and its line.
WireInv ==
  /\ \A r \in Requests : pc[r] \in {"idle", "checking", "queued"} => id[r] = NoId
  /\ \A r \in Requests : pc[r] = "writing" => id[r] # NoId /\ id[r] \notin written
  /\ \A r \in Requests : pc[r] = "reading" => id[r] \in written
  /\ \A r \in Requests :
       outcome[r] = "none" <=> pc[r] \in {"idle", "checking", "queued", "writing", "reading"}
  /\ \A r \in Requests : outcome[r] \in {"ok", "rpc"} => id[r] \in written
  /\ \A r \in Requests : pc[r] = "aborting" => outcome[r] # "rpc"
  /\ pc[Handshake] = "identity" => outcome[Handshake] = "ok"

\* closed without cancel means the stream ended, and then nobody is on it.
FlagInv ==
  /\ cancel => closed
  /\ closed /\ ~cancel => \A r \in Requests : pc[r] \notin {"writing", "reading"}
  /\ \A r \in Requests : pc[r] = "aborting" => cancel

\* Past the swap of request_credentialed, without having been refused by it.
Claimed(k) ==
  \/ pc[k] \in {"checking", "queued", "writing", "reading", "aborting", "signalling"}
  \/ id[k] # NoId

\* At most one request wins the swap, and nobody follows its line.
SecretInv ==
  /\ \A k \in Credentialed : Claimed(k) => credentialed
  /\ \A k, l \in Credentialed : Claimed(k) /\ Claimed(l) => k = l
  /\ \A k \in Credentialed, r \in Requests :
       id[k] \in written /\ r # k => pc[r] \notin {"writing", "reading"}

IInv == TypeOK /\ LockInv /\ IdInv /\ WireInv /\ FlagInv /\ SecretInv

-----------------------------------------------------------------------------
(* Init establishes the invariant and every action keeps it: one lemma per *)
(* action, one step per part.                                              *)

LEMMA InitInv == Init => IInv
<1> SUFFICES ASSUME Init PROVE IInv
  OBVIOUS
<1> USE TasksAssumption DEF Init, Requests, Tasks
<1>1. TypeOK  BY DEF TypeOK, PC, Outcome
<1>2. LockInv  BY DEF LockInv
<1>3. IdInv  BY DEF IdInv
<1>4. WireInv  BY DEF WireInv
<1>5. FlagInv  BY DEF FlagInv
<1>6. SecretInv  BY DEF SecretInv, Claimed
<1> QED BY <1>1, <1>2, <1>3, <1>4, <1>5, <1>6 DEF IInv

LEMMA SubmitKeeps ==
  ASSUME IInv, NEW r \in Requests, Submit(r)
  PROVE  IInv'
<1> USE TasksAssumption DEF IInv, TypeOK, Requests, Tasks, Submit, wire, flags
<1>1. TypeOK'
  BY DEF PC, Outcome
<1>2. LockInv'
  BY DEF LockInv
<1>3. IdInv'
  BY DEF IdInv
<1>4. WireInv'
  BY DEF WireInv
<1>5. FlagInv'
  BY DEF FlagInv
<1>6. SecretInv'
  BY DEF SecretInv, Claimed
<1> QED BY <1>1, <1>2, <1>3, <1>4, <1>5, <1>6 DEF IInv

LEMMA EnterKeeps ==
  ASSUME IInv, NEW r \in Requests, Enter(r)
  PROVE  IInv'
<1> USE TasksAssumption DEF IInv, TypeOK, Requests, Tasks, Enter, Finish, After, Rejected, wire, flags
<1>1. TypeOK'
  BY DEF PC, Outcome
<1>2. LockInv'
  BY DEF LockInv
<1>3. IdInv'
  BY DEF IdInv
<1>4. WireInv'
  BY DEF WireInv
<1>5. FlagInv'
  BY DEF FlagInv
<1>6. SecretInv'
  BY DEF SecretInv, Claimed
<1> QED BY <1>1, <1>2, <1>3, <1>4, <1>5, <1>6 DEF IInv

LEMMA LeaveQueueKeeps ==
  ASSUME IInv, NEW r \in Requests, LeaveQueue(r)
  PROVE  IInv'
<1> USE TasksAssumption DEF IInv, TypeOK, Requests, Tasks, LeaveQueue, Finish, After, wire, flags
<1>1. TypeOK'
  BY DEF PC, Outcome
<1>2. LockInv'
  BY DEF LockInv
<1>3. IdInv'
  BY DEF IdInv
<1>4. WireInv'
  BY DEF WireInv
<1>5. FlagInv'
  BY DEF FlagInv
<1>6. SecretInv'
  BY DEF SecretInv, Claimed
<1> QED BY <1>1, <1>2, <1>3, <1>4, <1>5, <1>6 DEF IInv

\* The id that is about to be taken is on no line yet.
LEMMA FreshId ==
  ASSUME IInv
  PROVE  sequence \notin written /\ NoId \notin written
<1>1. \A i \in written : i \in Nat /\ i < sequence
  BY DEF IInv, TypeOK, IdInv
<1>2. sequence \in Nat
  BY DEF IInv, TypeOK
<1> QED BY <1>1, <1>2, TasksAssumption

LEMMA AcquireKeeps ==
  ASSUME IInv, NEW r \in Requests, Acquire(r)
  PROVE  IInv'
<1> USE TasksAssumption DEF IInv, TypeOK, Requests, Tasks, Acquire, NextId, Finish, After, Rejected, wire, flags
<1>1. TypeOK'
  BY DEF PC, Outcome
<1>2. LockInv'
  BY DEF LockInv
<1>3. IdInv'
  BY DEF IdInv, LockInv, WireInv
<1>4. WireInv'
  BY DEF WireInv, LockInv, IdInv
<1>5. FlagInv'
  BY DEF FlagInv
<1>6. SecretInv'
  <2>1. \A k \in Credentialed : Claimed(k)' => Claimed(k)
    BY DEF Claimed
  <2>2. \A k \in Credentialed : Claimed(k)' => credentialed'
    BY <2>1 DEF SecretInv
  <2>3. \A k, l \in Credentialed : Claimed(k)' /\ Claimed(l)' => k = l
    BY <2>1 DEF SecretInv
  <2>4. ASSUME NEW k \in Credentialed, NEW q \in Requests, id'[k] \in written', q # k
        PROVE  pc'[q] \notin {"writing", "reading"}
    <3>1. k # r
      <4>1. k = r => id'[k] \in {sequence, NoId}
        BY DEF WireInv
      <4> QED BY <2>4, <4>1, FreshId
    <3>2. id[k] \in written
      <4>1. /\ written' = written
            /\ id' = id \/ id' = [id EXCEPT ![r] = NextId]
        OBVIOUS
      <4>2. k \in DOMAIN id
        OBVIOUS
      <4> HIDE DEF IInv, TypeOK, Requests, Acquire, NextId, Finish, After, Rejected, wire, flags
      <4>3. id'[k] = id[k]
        BY <3>1, <4>1, <4>2
      <4> QED BY <2>4, <4>1, <4>3
    <3>3. CASE q = r
      <4>1. Claimed(k)
        BY <3>2 DEF Claimed
      <4>2. r \in Credentialed => Claimed(r)
        BY DEF Claimed
      <4>3. r \notin Credentialed /\ credentialed
        <5> HIDE DEF Claimed
        <5> QED BY <3>1, <4>1, <4>2 DEF SecretInv
      <4>4. pc'[r] \in {"identity", "done"}
        BY <4>3
      <4> QED BY <3>3, <4>4
    <3>4. CASE q # r
      BY <2>4, <3>2, <3>4 DEF SecretInv
    <3> QED BY <3>3, <3>4
  <2> QED BY <2>2, <2>3, <2>4 DEF SecretInv
<1> QED BY <1>1, <1>2, <1>3, <1>4, <1>5, <1>6 DEF IInv

LEMMA WriteKeeps ==
  ASSUME IInv, NEW r \in Requests, Write(r)
  PROVE  IInv'
<1> USE TasksAssumption DEF IInv, TypeOK, Requests, Tasks, Write, wire, flags
<1>1. TypeOK'
  <2>1. id[r] \in Nat
    BY DEF WireInv
  <2> QED BY <2>1 DEF PC, Outcome
<1>2. LockInv'
  BY DEF LockInv
<1>3. IdInv'
  BY DEF IdInv
<1>4. WireInv'
  BY DEF WireInv, LockInv
<1>5. FlagInv'
  BY DEF FlagInv
<1>6. SecretInv'
  BY DEF SecretInv, Claimed, LockInv, WireInv, IdInv
<1> QED BY <1>1, <1>2, <1>3, <1>4, <1>5, <1>6 DEF IInv

LEMMA WriteFailsKeeps ==
  ASSUME IInv, NEW r \in Requests, WriteFails(r)
  PROVE  IInv'
<1> USE TasksAssumption DEF IInv, TypeOK, Requests, Tasks, WriteFails, Finish, After, wire, flags
<1>1. TypeOK'
  BY DEF PC, Outcome
<1>2. LockInv'
  BY DEF LockInv
<1>3. IdInv'
  BY DEF IdInv
<1>4. WireInv'
  BY DEF WireInv
<1>5. FlagInv'
  BY DEF FlagInv
<1>6. SecretInv'
  BY DEF SecretInv, Claimed
<1> QED BY <1>1, <1>2, <1>3, <1>4, <1>5, <1>6 DEF IInv

LEMMA CancelInFlightKeeps ==
  ASSUME IInv, NEW r \in Requests, CancelInFlight(r)
  PROVE  IInv'
<1> USE TasksAssumption DEF IInv, TypeOK, Requests, Tasks, CancelInFlight, StartAbort, wire, flags
<1>1. TypeOK'
  BY DEF PC, Outcome
<1>2. LockInv'
  BY DEF LockInv
<1>3. IdInv'
  BY DEF IdInv
<1>4. WireInv'
  BY DEF WireInv
<1>5. FlagInv'
  BY DEF FlagInv
<1>6. SecretInv'
  BY DEF SecretInv, Claimed
<1> QED BY <1>1, <1>2, <1>3, <1>4, <1>5, <1>6 DEF IInv

LEMMA HearEventKeeps ==
  ASSUME IInv, NEW r \in Requests, HearEvent(r)
  PROVE  IInv'
<1> USE TasksAssumption DEF IInv, TypeOK, Requests, Tasks, HearEvent, Mine, wire, flags
<1>1. TypeOK'
  BY DEF PC, Outcome
<1>2. LockInv'
  BY DEF LockInv
<1>3. IdInv'
  BY DEF IdInv
<1>4. WireInv'
  BY DEF WireInv
<1>5. FlagInv'
  BY DEF FlagInv
<1>6. SecretInv'
  BY DEF SecretInv, Claimed
<1> QED BY <1>1, <1>2, <1>3, <1>4, <1>5, <1>6 DEF IInv

LEMMA HearTerminalKeeps ==
  ASSUME IInv, NEW r \in Requests, HearTerminal(r)
  PROVE  IInv'
<1> USE TasksAssumption DEF IInv, TypeOK, Requests, Tasks, HearTerminal, Finish, After, Mine, wire, flags
<1>1. TypeOK'
  BY DEF PC, Outcome
<1>2. LockInv'
  BY DEF LockInv
<1>3. IdInv'
  BY DEF IdInv
<1>4. WireInv'
  BY DEF WireInv
<1>5. FlagInv'
  BY DEF FlagInv
<1>6. SecretInv'
  BY DEF SecretInv, Claimed
<1> QED BY <1>1, <1>2, <1>3, <1>4, <1>5, <1>6 DEF IInv

LEMMA HearGarbageKeeps ==
  ASSUME IInv, NEW r \in Requests, HearGarbage(r)
  PROVE  IInv'
<1> USE TasksAssumption DEF IInv, TypeOK, Requests, Tasks, HearGarbage, StartAbort, SignalClose, wire, flags
<1>1. TypeOK'
  BY DEF PC, Outcome
<1>2. LockInv'
  BY DEF LockInv
<1>3. IdInv'
  BY DEF IdInv
<1>4. WireInv'
  BY DEF WireInv
<1>5. FlagInv'
  BY DEF FlagInv
<1>6. SecretInv'
  BY DEF SecretInv, Claimed
<1> QED BY <1>1, <1>2, <1>3, <1>4, <1>5, <1>6 DEF IInv

LEMMA HearEndKeeps ==
  ASSUME IInv, NEW r \in Requests, HearEnd(r)
  PROVE  IInv'
<1> USE TasksAssumption DEF IInv, TypeOK, Requests, Tasks, HearEnd, Finish, After, wire, flags
<1>1. TypeOK'
  BY DEF PC, Outcome
<1>2. LockInv'
  BY DEF LockInv
<1>3. IdInv'
  BY DEF IdInv
<1>4. WireInv'
  BY DEF WireInv
<1>5. FlagInv'
  BY DEF FlagInv, LockInv
<1>6. SecretInv'
  BY DEF SecretInv, Claimed
<1> QED BY <1>1, <1>2, <1>3, <1>4, <1>5, <1>6 DEF IInv

LEMMA AbortReturnsKeeps ==
  ASSUME IInv, NEW r \in Requests, AbortReturns(r)
  PROVE  IInv'
<1> USE TasksAssumption DEF IInv, TypeOK, Requests, Tasks, AbortReturns, wire, flags
<1>1. TypeOK'
  BY DEF PC, Outcome
<1>2. LockInv'
  BY DEF LockInv
<1>3. IdInv'
  BY DEF IdInv
<1>4. WireInv'
  BY DEF WireInv
<1>5. FlagInv'
  BY DEF FlagInv
<1>6. SecretInv'
  BY DEF SecretInv, Claimed
<1> QED BY <1>1, <1>2, <1>3, <1>4, <1>5, <1>6 DEF IInv

LEMMA SignalAfterKeeps ==
  ASSUME IInv, NEW r \in Requests, SignalAfter(r)
  PROVE  IInv'
<1> USE TasksAssumption DEF IInv, TypeOK, Requests, Tasks, SignalAfter, SignalClose, wire, flags
<1>1. TypeOK'
  BY DEF PC, Outcome
<1>2. LockInv'
  BY DEF LockInv
<1>3. IdInv'
  BY DEF IdInv
<1>4. WireInv'
  BY DEF WireInv
<1>5. FlagInv'
  BY DEF FlagInv
<1>6. SecretInv'
  BY DEF SecretInv, Claimed
<1> QED BY <1>1, <1>2, <1>3, <1>4, <1>5, <1>6 DEF IInv

LEMMA AcceptIdentityKeeps ==
  ASSUME IInv, AcceptIdentity
  PROVE  IInv'
<1> USE TasksAssumption DEF IInv, TypeOK, Requests, Tasks, AcceptIdentity, wire, flags
<1>1. TypeOK'
  BY DEF PC, Outcome
<1>2. LockInv'
  BY DEF LockInv
<1>3. IdInv'
  BY DEF IdInv
<1>4. WireInv'
  BY DEF WireInv
<1>5. FlagInv'
  BY DEF FlagInv
<1>6. SecretInv'
  BY DEF SecretInv, Claimed
<1> QED BY <1>1, <1>2, <1>3, <1>4, <1>5, <1>6 DEF IInv

LEMMA RejectIdentityKeeps ==
  ASSUME IInv, RejectIdentity
  PROVE  IInv'
<1> USE TasksAssumption DEF IInv, TypeOK, Requests, Tasks, RejectIdentity, SignalClose, StartAbort, wire, flags
<1>1. TypeOK'
  BY DEF PC, Outcome
<1>2. LockInv'
  BY DEF LockInv
<1>3. IdInv'
  BY DEF IdInv
<1>4. WireInv'
  BY DEF WireInv
<1>5. FlagInv'
  BY DEF FlagInv
<1>6. SecretInv'
  BY DEF SecretInv, Claimed
<1> QED BY <1>1, <1>2, <1>3, <1>4, <1>5, <1>6 DEF IInv

LEMMA HandshakeDeadlineKeeps ==
  ASSUME IInv, HandshakeDeadline
  PROVE  IInv'
<1> USE TasksAssumption DEF IInv, TypeOK, Requests, Tasks, HandshakeDeadline, SignalClose, StartAbort, wire, flags
<1>1. TypeOK'
  BY DEF PC, Outcome
<1>2. LockInv'
  BY DEF LockInv
<1>3. IdInv'
  BY DEF IdInv
<1>4. WireInv'
  BY DEF WireInv
<1>5. FlagInv'
  BY DEF FlagInv
<1>6. SecretInv'
  BY DEF SecretInv, Claimed
<1> QED BY <1>1, <1>2, <1>3, <1>4, <1>5, <1>6 DEF IInv

LEMMA CloseKeeps ==
  ASSUME IInv, NEW c \in Closers, Close(c)
  PROVE  IInv'
<1> USE TasksAssumption DEF IInv, TypeOK, Requests, Tasks, Close, SignalClose, wire, flags
<1>1. TypeOK'
  BY DEF PC, Outcome
<1>2. LockInv'
  BY DEF LockInv
<1>3. IdInv'
  BY DEF IdInv
<1>4. WireInv'
  BY DEF WireInv
<1>5. FlagInv'
  BY DEF FlagInv
<1>6. SecretInv'
  BY DEF SecretInv, Claimed
<1> QED BY <1>1, <1>2, <1>3, <1>4, <1>5, <1>6 DEF IInv

LEMMA CloseTransportKeeps ==
  ASSUME IInv, NEW c \in Closers, CloseTransport(c)
  PROVE  IInv'
<1> USE TasksAssumption DEF IInv, TypeOK, Requests, Tasks, CloseTransport, wire, flags
<1>1. TypeOK'
  BY DEF PC, Outcome
<1>2. LockInv'
  BY DEF LockInv
<1>3. IdInv'
  BY DEF IdInv
<1>4. WireInv'
  BY DEF WireInv
<1>5. FlagInv'
  BY DEF FlagInv
<1>6. SecretInv'
  BY DEF SecretInv, Claimed
<1> QED BY <1>1, <1>2, <1>3, <1>4, <1>5, <1>6 DEF IInv

-----------------------------------------------------------------------------
LEMMA StutterKeeps == IInv /\ UNCHANGED vars => IInv'
BY DEF IInv, TypeOK, LockInv, IdInv, WireInv, FlagInv, SecretInv, Claimed,
       vars, Requests, Tasks

LEMMA NextKeeps == IInv /\ [Next]_vars => IInv'
<1> SUFFICES ASSUME IInv, [Next]_vars PROVE IInv'
  OBVIOUS
<1>1. ASSUME NEW r \in Requests, Submit(r) PROVE IInv'
  BY <1>1, SubmitKeeps
<1>2. ASSUME NEW r \in Requests, Advance(r) PROVE IInv'
  BY <1>2, EnterKeeps, LeaveQueueKeeps, AcquireKeeps, WriteKeeps,
     WriteFailsKeeps, CancelInFlightKeeps, AbortReturnsKeeps, SignalAfterKeeps
  DEF Advance
<1>3. ASSUME NEW r \in Requests, Hear(r) PROVE IInv'
  BY <1>3, HearEventKeeps, HearTerminalKeeps, HearGarbageKeeps, HearEndKeeps DEF Hear
<1>4. CASE CheckIdentity
  BY <1>4, AcceptIdentityKeeps, RejectIdentityKeeps DEF CheckIdentity
<1>5. CASE HandshakeDeadline
  BY <1>5, HandshakeDeadlineKeeps
<1>6. ASSUME NEW c \in Closers, Close(c) \/ CloseTransport(c) PROVE IInv'
  BY <1>6, CloseKeeps, CloseTransportKeeps
<1>7. CASE UNCHANGED vars
  BY <1>7, StutterKeeps
<1> QED BY <1>1, <1>2, <1>3, <1>4, <1>5, <1>6, <1>7 DEF Next

THEOREM Invariance == Spec => []IInv
<1>1. Init => IInv
  BY InitInv
<1>2. IInv /\ [Next]_vars => IInv'
  BY NextKeeps
<1> QED BY <1>1, <1>2, PTL DEF Spec

\* Every variable keeps its type.
THEOREM TypeCorrect == Spec => []TypeOK
<1>1. IInv => TypeOK
  BY DEF IInv
<1> QED BY <1>1, Invariance, PTL

\* No line of the core ever reaches a request it was not sent for.
THEOREM OwnLines == Spec => []OwnLinesOnly
<1>1. IInv => OwnLinesOnly
  BY TasksAssumption DEF IInv, IdInv, TypeOK, OwnLinesOnly
<1> QED BY <1>1, Invariance, PTL

-----------------------------------------------------------------------------
(* Nothing follows a secret: what a step may do once it is on the wire.    *)

\* Once the line of k is written, no step writes another line.
LEMMA NoLineAfterSecret ==
  ASSUME IInv, NEW k \in Credentialed, id[k] \in written, [Next]_vars
  PROVE  written' = written
<1>1. ASSUME NEW r \in Requests, Write(r) PROVE FALSE
  <2>1. r # k
    BY <1>1 DEF IInv, WireInv, Write
  <2> QED BY <1>1, <2>1 DEF IInv, SecretInv, Write
<1>2. CASE UNCHANGED vars
  BY <1>2 DEF vars
<1> QED
  BY <1>1, <1>2
  DEF Next, Submit, Advance, Enter, LeaveQueue, Acquire, NextId, WriteFails, CancelInFlight,
      AbortReturns, SignalAfter, Hear, HearEvent, HearTerminal, HearGarbage, HearEnd,
      CheckIdentity, AcceptIdentity, RejectIdentity, HandshakeDeadline, Close,
      CloseTransport, wire

\* Once the line of k is written, no step delivers a line to another request.
LEMMA NoLineHeardAfterSecret ==
  ASSUME IInv, NEW k \in Credentialed, id[k] \in written, [Next]_vars,
         NEW q \in Requests \ {k}
  PROVE  heard'[q] = heard[q]
<1>1. ASSUME NEW r \in Requests, HearEvent(r) \/ HearTerminal(r)
      PROVE  heard'[q] = heard[q]
  <2>1. r = k
    BY <1>1 DEF IInv, SecretInv, HearEvent, HearTerminal
  <2> QED BY <1>1, <2>1 DEF IInv, TypeOK, HearEvent, HearTerminal
<1>2. CASE UNCHANGED vars
  BY <1>2 DEF vars
<1> QED
  BY <1>1, <1>2
  DEF Next, Submit, Advance, Enter, LeaveQueue, Acquire, NextId, Write, WriteFails, CancelInFlight,
      AbortReturns, SignalAfter, Hear, HearGarbage, HearEnd, CheckIdentity,
      AcceptIdentity, RejectIdentity, HandshakeDeadline, Close, CloseTransport, wire

\* The promise of request_credentialed, for any number of queued callers.
THEOREM SecretTail == Spec => SecretIsLast
<1>1. ASSUME IInv, [Next]_vars, NEW k \in Credentialed, id[k] \in written
      PROVE  /\ written' = written
             /\ \A r \in Requests \ {k} : heard'[r] = heard[r]
  BY <1>1, NoLineAfterSecret, NoLineHeardAfterSecret
<1>2. IInv /\ [Next]_vars =>
        [\A k \in Credentialed : id[k] \in written =>
           /\ written' = written
           /\ \A r \in Requests \ {k} : heard'[r] = heard[r]]_vars
  BY <1>1
<1> QED BY <1>2, Invariance, PTL DEF Spec, SecretIsLast

-----------------------------------------------------------------------------
(* The session implements the abstract channel, step by step.              *)

\* A request that returns o is replied or failed; no other status moves.
LEMMA StatusEnds ==
  ASSUME IInv, NEW r \in Requests, NEW o \in Outcome \ {"none"},
         outcome' = [outcome EXCEPT ![r] = o], written' = written,
         \A q \in Requests \ {r} : id'[q] = id[q]
  PROVE  statusBar' =
           [statusBar EXCEPT ![r] = IF o \in {"ok", "rpc"} THEN "replied" ELSE "failed"]
BY DEF IInv, TypeOK, Outcome, statusBar

LEMMA StatusStays ==
  ASSUME outcome' = outcome, written' = written, id' = id
  PROVE  statusBar' = statusBar
BY DEF statusBar

\* The abstract status of a request, read off its program counter.
LEMMA StatusOf ==
  ASSUME IInv, NEW r \in Requests
  PROVE  /\ pc[r] \in {"idle", "checking", "queued", "writing"} => statusBar[r] = "new"
         /\ pc[r] = "reading" => statusBar[r] = "sent"
         /\ statusBar[r] = "sent" => pc[r] = "reading"
         /\ Channel!Leaked(r) => r \in Credentialed /\ id[r] \in written
<1>1. NoId \notin written
  BY FreshId
<1> QED BY <1>1 DEF IInv, TypeOK, WireInv, Outcome, statusBar, Channel!Leaked

\* A request that ends before its line was written is refused; closed may be
\* set by the same step.
LEMMA RefuseStep ==
  ASSUME IInv, NEW r \in Requests, NEW o \in Outcome \ {"none", "ok", "rpc"},
         pc[r] \in {"idle", "checking", "queued", "writing"},
         outcome' = [outcome EXCEPT ![r] = o], written' = written,
         \A q \in Requests \ {r} : id'[q] = id[q],
         closed' = closed \/ closed' = TRUE
  PROVE  Channel!Refuse(r)
<1>1. statusBar[r] = "new"
  BY StatusOf
<1>2. statusBar' = [statusBar EXCEPT ![r] = "failed"]
  BY StatusEnds
<1> QED BY <1>1, <1>2 DEF Channel!Refuse

LEMMA LoseStep ==
  ASSUME IInv, NEW r \in Requests, NEW o \in Outcome \ {"none", "ok", "rpc"},
         pc[r] = "reading", closed' = TRUE,
         outcome' = [outcome EXCEPT ![r] = o], written' = written, id' = id
  PROVE  Channel!Lose(r)
<1>1. statusBar[r] = "sent"
  BY StatusOf
<1>2. statusBar' = [statusBar EXCEPT ![r] = "failed"]
  BY StatusEnds
<1> QED BY <1>1, <1>2 DEF Channel!Lose

\* Only the flags move: the channel is shut or stays as it is.
LEMMA ShutStep ==
  ASSUME IInv, outcome' = outcome, written' = written, id' = id,
         closed' = closed \/ closed' = TRUE
  PROVE  Channel!Shut \/ UNCHANGED Channel!vars
BY StatusStays DEF IInv, TypeOK, Channel!Shut, Channel!vars

LEMMA SubmitMaps ==
  ASSUME IInv, NEW r \in Requests, Submit(r)
  PROVE  Channel!Refuse(r) \/ Channel!Shut \/ UNCHANGED Channel!vars
<1>1. CASE outcome' = outcome
  BY <1>1, ShutStep DEF Submit, wire
<1>2. CASE outcome' # outcome
  BY <1>2, RefuseStep DEF Submit, wire, Outcome
<1> QED BY <1>1, <1>2

LEMMA EnterMaps ==
  ASSUME IInv, NEW r \in Requests, Enter(r) \/ LeaveQueue(r) \/ WriteFails(r)
  PROVE  Channel!Refuse(r) \/ Channel!Shut \/ UNCHANGED Channel!vars
<1>1. CASE outcome' = outcome
  BY <1>1, ShutStep DEF Enter, LeaveQueue, WriteFails, Finish, wire, flags
<1>2. CASE outcome' # outcome
  BY <1>2, RefuseStep DEF Enter, LeaveQueue, WriteFails, Finish, wire, flags, Outcome
<1> QED BY <1>1, <1>2

LEMMA AcquireMaps ==
  ASSUME IInv, NEW r \in Requests, Acquire(r)
  PROVE  Channel!Refuse(r) \/ UNCHANGED Channel!vars
<1> USE DEF Acquire, NextId, Finish, flags
<1>1. \A q \in Requests \ {r} : id'[q] = id[q]
  BY DEF IInv, TypeOK
<1>2. CASE \E o \in {"SESSION_CANCELLED", "TOO_LONG"} : Finish(r, o)
  BY <1>1, <1>2, RefuseStep DEF Outcome
<1>3. CASE outcome' = outcome /\ id' = [id EXCEPT ![r] = sequence]
  <2>1. pc[r] = "queued" /\ outcome[r] = "none"
    BY DEF IInv, WireInv
  <2>2. id[r] \notin written /\ id'[r] \notin written
    BY <1>3, <2>1, FreshId DEF IInv, TypeOK, WireInv
  <2>3. statusBar' = statusBar
    BY <1>1, <1>3, <2>1, <2>2 DEF statusBar
  <2> QED BY <2>3 DEF Channel!vars
<1> QED BY <1>2, <1>3

LEMMA WriteMaps ==
  ASSUME IInv, NEW r \in Requests, Write(r)
  PROVE  Channel!Send(r)
<1>1. ~closed
  BY DEF Write, IInv, FlagInv
<1>2. statusBar[r] = "new"
  BY StatusOf DEF Write
<1>3. ASSUME NEW q \in Requests PROVE statusBar[q] # "sent" /\ ~Channel!Leaked(q)
  <2>1. pc[q] # "reading"
    BY DEF Write, IInv, LockInv
  <2>2. q \in Credentialed => id[q] \notin written
    BY DEF Write, IInv, SecretInv, WireInv
  <2> QED BY <2>1, <2>2, StatusOf
<1>4. statusBar' = [statusBar EXCEPT ![r] = "sent"]
  <2>1. \A q \in Requests \ {r} : id[q] \in written' <=> id[q] \in written
    BY DEF Write, IInv, IdInv, WireInv
  <2>2. outcome[r] = "none" /\ id[r] \in written'
    BY DEF Write, IInv, WireInv
  <2> QED BY <2>1, <2>2 DEF Write, IInv, TypeOK, statusBar
<1> QED BY <1>1, <1>2, <1>3, <1>4 DEF Channel!Send, Write, flags

LEMMA CancelMaps ==
  ASSUME IInv, NEW r \in Requests, CancelInFlight(r)
  PROVE  Channel!Refuse(r) \/ Channel!Lose(r)
<1>1. closed' = TRUE
  BY DEF CancelInFlight, flags, IInv, TypeOK, FlagInv
<1>2. CASE pc[r] = "writing"
  BY <1>1, <1>2, RefuseStep DEF CancelInFlight, StartAbort, wire, Outcome
<1>3. CASE pc[r] = "reading"
  BY <1>1, <1>3, LoseStep DEF CancelInFlight, StartAbort, wire, Outcome
<1> QED BY <1>2, <1>3 DEF CancelInFlight

LEMMA HearMaps ==
  ASSUME IInv, NEW r \in Requests, Hear(r)
  PROVE  Channel!Reply(r) \/ Channel!Lose(r) \/ UNCHANGED Channel!vars
<1>1. CASE HearEvent(r)
  BY <1>1, StatusStays DEF HearEvent, flags, Channel!vars
<1>2. CASE HearTerminal(r)
  <2>1. statusBar[r] = "sent"
    BY <1>2, StatusOf DEF HearTerminal
  <2>2. statusBar' = [statusBar EXCEPT ![r] = "replied"]
    BY <1>2, StatusEnds DEF HearTerminal, Finish, Outcome
  <2> QED BY <1>2, <2>1, <2>2 DEF Channel!Reply, HearTerminal, flags
<1>3. CASE HearGarbage(r)
  BY <1>3, LoseStep DEF HearGarbage, StartAbort, SignalClose, wire, Outcome
<1>4. CASE HearEnd(r)
  BY <1>4, LoseStep DEF HearEnd, Finish, Outcome
<1> QED BY <1>1, <1>2, <1>3, <1>4 DEF Hear

LEMMA DeadlineMaps ==
  ASSUME IInv, HandshakeDeadline
  PROVE  Channel!Refuse(Handshake) \/ Channel!Lose(Handshake) \/ UNCHANGED Channel!vars
<1> USE DEF HandshakeDeadline, StartAbort, SignalClose, wire
<1>0. Handshake \in Requests
  BY DEF Requests
<1>1. CASE pc[Handshake] \in {"checking", "queued", "writing"}
  BY <1>0, <1>1, RefuseStep DEF Outcome
<1>2. CASE pc[Handshake] = "reading"
  BY <1>0, <1>2, LoseStep DEF Outcome
<1>3. CASE pc[Handshake] = "aborting"
  <2>1. closed
    BY <1>0, <1>3 DEF IInv, FlagInv
  <2>2. statusBar[Handshake] = "failed"
    BY <1>0, <1>3 DEF IInv, WireInv, TypeOK, Outcome, statusBar
  <2>3. statusBar' = [statusBar EXCEPT ![Handshake] = "failed"]
    <3>1. /\ outcome' = [outcome EXCEPT ![Handshake] = "SSH_TIMEOUT"]
          /\ written' = written /\ id' = id
      OBVIOUS
    <3>2. "SSH_TIMEOUT" \in Outcome \ {"none"} /\ "SSH_TIMEOUT" \notin {"ok", "rpc"}
      BY DEF Outcome
    <3> HIDE DEF HandshakeDeadline, StartAbort, SignalClose, wire
    <3> QED BY <1>0, <3>1, <3>2, StatusEnds
  <2>4. statusBar' = statusBar
    BY <1>0, <2>2, <2>3 DEF statusBar
  <2> QED BY <2>1, <2>4 DEF Channel!vars
<1> QED BY <1>1, <1>2, <1>3

LEMMA FlagsMap ==
  ASSUME IInv,
         \/ \E r \in Requests : AbortReturns(r) \/ SignalAfter(r)
         \/ AcceptIdentity
         \/ \E c \in Closers : Close(c) \/ CloseTransport(c)
  PROVE  Channel!Shut \/ UNCHANGED Channel!vars
BY ShutStep
DEF AbortReturns, SignalAfter, AcceptIdentity, Close, CloseTransport, SignalClose,
    wire, flags

LEMMA RejectIdentityMaps ==
  ASSUME IInv, RejectIdentity
  PROVE  Channel!Shut \/ UNCHANGED Channel!vars
<1>1. outcome[Handshake] = "ok"
  BY DEF RejectIdentity, IInv, WireInv
<1>2. outcome' = outcome
  BY <1>1 DEF RejectIdentity, StartAbort, IInv, TypeOK
<1> QED BY <1>2, ShutStep DEF RejectIdentity, SignalClose, wire

\* A session does only what RpcChannel allows, for any number of callers.
THEOREM Implements == Spec => ImplementsRpcChannel
<1>1. Init => Channel!Init
  BY DEF Init, Channel!Init, statusBar
<1>2. IInv /\ [Next]_vars => [Channel!Next]_(Channel!vars)
  <2> SUFFICES ASSUME IInv, [Next]_vars PROVE [Channel!Next]_(Channel!vars)
    OBVIOUS
  <2>1. ASSUME NEW r \in Requests, Submit(r) PROVE [Channel!Next]_(Channel!vars)
    BY <2>1, SubmitMaps DEF Channel!Next
  <2>2. ASSUME NEW r \in Requests, Advance(r) PROVE [Channel!Next]_(Channel!vars)
    BY <2>2, EnterMaps, AcquireMaps, WriteMaps, CancelMaps, FlagsMap
    DEF Advance, Channel!Next
  <2>3. ASSUME NEW r \in Requests, Hear(r) PROVE [Channel!Next]_(Channel!vars)
    BY <2>3, HearMaps DEF Channel!Next
  <2>4. CASE CheckIdentity
    BY <2>4, FlagsMap, RejectIdentityMaps DEF CheckIdentity, Channel!Next
  <2>5. CASE HandshakeDeadline
    BY <2>5, DeadlineMaps DEF Channel!Next, Requests
  <2>6. ASSUME NEW c \in Closers, Close(c) \/ CloseTransport(c)
        PROVE  [Channel!Next]_(Channel!vars)
    BY <2>6, FlagsMap DEF Channel!Next
  <2>7. CASE UNCHANGED vars
    BY <2>7, StatusStays DEF vars, Channel!vars
  <2> QED BY <2>1, <2>2, <2>3, <2>4, <2>5, <2>6, <2>7 DEF Next
<1> QED BY <1>1, <1>2, Invariance, PTL DEF Spec, ImplementsRpcChannel, Channel!Spec
=============================================================================
