-------------------------- MODULE ConnectionsProofs --------------------------
(***************************************************************************)
(* What the parts of Connections promise, proved for every value of their  *)
(* constants: that the end of a child is the end, that no late answer,     *)
(* login, token or search result is taken for a current one, that one      *)
(* request at a time writes in the directory of an instance, that the      *)
(* pages show what is there, and that the mock behaves as a core.  Each    *)
(* part has an invariant of its own; since one part moves and the others   *)
(* rest, the invariant of the sum is that of the part that moves.          *)
(***************************************************************************)
EXTENDS Connections, FiniteSetTheorems, SequenceTheorems, WellFoundedInduction, TLAPS

-----------------------------------------------------------------------------
(* Queues of requests, orders of sets, and numbers.                        *)

\* A request of this kind waits in the queue.
Awaits(q, kind) == \E k \in 1 .. Len(q) : q[k].kind = kind

LEMMA AppendAwaits ==
  ASSUME NEW S, NEW q \in Seq(S), NEW e \in S
  PROVE  /\ Append(q, e) \in Seq(S) /\ Append(q, e) # <<>>
         /\ \A kind : Awaits(Append(q, e), kind) <=> Awaits(q, kind) \/ e.kind = kind
<1>1. /\ Append(q, e) \in Seq(S) /\ Len(Append(q, e)) = Len(q) + 1 /\ Len(q) \in Nat
      /\ \A k \in 1 .. Len(q) : Append(q, e)[k] = q[k]
      /\ Append(q, e)[Len(q) + 1] = e
  OBVIOUS
<1>2. ASSUME NEW kind, Awaits(Append(q, e), kind) PROVE Awaits(q, kind) \/ e.kind = kind
  <2>1. PICK k \in 1 .. Len(q) + 1 : Append(q, e)[k].kind = kind
    BY <1>1, <1>2 DEF Awaits
  <2>2. k \in 1 .. Len(q) \/ k = Len(q) + 1
    BY <1>1
  <2> QED BY <1>1, <2>1, <2>2 DEF Awaits
<1>3. ASSUME NEW kind, Awaits(q, kind) \/ e.kind = kind PROVE Awaits(Append(q, e), kind)
  <2>1. CASE e.kind = kind
    BY <1>1, <2>1 DEF Awaits
  <2>2. CASE Awaits(q, kind)
    <3>1. PICK k \in 1 .. Len(q) : q[k].kind = kind
      BY <2>2 DEF Awaits
    <3> QED BY <1>1, <3>1 DEF Awaits
  <2> QED BY <1>3, <2>1, <2>2
<1> QED BY <1>1, <1>2, <1>3

LEMMA TailAwaits ==
  ASSUME NEW S, NEW q \in Seq(S), q # <<>>
  PROVE  /\ Tail(q) \in Seq(S) /\ Head(q) \in S
         /\ \A kind : Awaits(q, kind) <=> Awaits(Tail(q), kind) \/ Head(q).kind = kind
<1>1. /\ Tail(q) \in Seq(S) /\ Len(q) \in Nat \ {0} /\ Len(Tail(q)) = Len(q) - 1
      /\ Head(q) = q[1] /\ q[1] \in S
      /\ \A k \in 1 .. Len(q) - 1 : Tail(q)[k] = q[k + 1]
  OBVIOUS
<1>2. ASSUME NEW kind, Awaits(q, kind), Head(q).kind # kind PROVE Awaits(Tail(q), kind)
  <2>1. PICK k \in 1 .. Len(q) : q[k].kind = kind
    BY <1>2 DEF Awaits
  <2>2. k - 1 \in 1 .. Len(q) - 1 /\ q[k - 1 + 1] = q[k]
    BY <1>1, <1>2, <2>1
  <2> QED BY <1>1, <2>1, <2>2 DEF Awaits
<1>3. ASSUME NEW kind, Awaits(Tail(q), kind) \/ Head(q).kind = kind PROVE Awaits(q, kind)
  <2>1. CASE Head(q).kind = kind
    BY <1>1, <2>1 DEF Awaits
  <2>2. CASE Awaits(Tail(q), kind)
    <3>1. PICK k \in 1 .. Len(q) - 1 : Tail(q)[k].kind = kind
      BY <1>1, <2>2 DEF Awaits
    <3>2. k + 1 \in 1 .. Len(q)
      BY <1>1
    <3> QED BY <1>1, <3>1, <3>2 DEF Awaits
  <2> QED BY <1>3, <2>1, <2>2
<1> QED BY <1>1, <1>2, <1>3

LEMMA ConcatAwaits ==
  ASSUME NEW S, NEW q \in Seq(S), NEW r \in Seq(S)
  PROVE  /\ q \o r \in Seq(S)
         /\ \A kind : Awaits(q \o r, kind) <=> Awaits(q, kind) \/ Awaits(r, kind)
<1>1. /\ q \o r \in Seq(S) /\ Len(q \o r) = Len(q) + Len(r) /\ Len(q) \in Nat /\ Len(r) \in Nat
      /\ \A k \in 1 .. Len(q) : (q \o r)[k] = q[k]
      /\ \A k \in 1 .. Len(r) : (q \o r)[Len(q) + k] = r[k]
  OBVIOUS
<1>2. ASSUME NEW kind, Awaits(q \o r, kind) PROVE Awaits(q, kind) \/ Awaits(r, kind)
  <2>1. PICK k \in 1 .. Len(q) + Len(r) : (q \o r)[k].kind = kind
    BY <1>1, <1>2 DEF Awaits
  <2>2. CASE k \in 1 .. Len(q)
    BY <1>1, <2>1, <2>2 DEF Awaits
  <2>3. CASE k \notin 1 .. Len(q)
    <3>1. k - Len(q) \in 1 .. Len(r) /\ Len(q) + (k - Len(q)) = k
      BY <1>1, <2>3
    <3> QED BY <1>1, <2>1, <3>1 DEF Awaits
  <2> QED BY <2>2, <2>3
<1>3. ASSUME NEW kind, Awaits(q, kind) PROVE Awaits(q \o r, kind)
  <2>1. PICK k \in 1 .. Len(q) : q[k].kind = kind
    BY <1>3 DEF Awaits
  <2>2. k \in 1 .. Len(q) + Len(r)
    BY <1>1
  <2> QED BY <1>1, <2>1, <2>2 DEF Awaits
<1>4. ASSUME NEW kind, Awaits(r, kind) PROVE Awaits(q \o r, kind)
  <2>1. PICK k \in 1 .. Len(r) : r[k].kind = kind
    BY <1>4 DEF Awaits
  <2>2. Len(q) + k \in 1 .. Len(q) + Len(r)
    BY <1>1
  <2> QED BY <1>1, <2>1, <2>2 DEF Awaits
<1> QED BY <1>1, <1>2, <1>3, <1>4

LEMMA EmptyAwaits == \A kind : ~Awaits(<<>>, kind)
BY DEF Awaits

\* A set of numbers has a least element.
LEMMA LeastOf ==
  ASSUME NEW S \in SUBSET Nat, S # {}
  PROVE  \E m \in S : \A k \in S : m <= k
<1>1. PICK R : R = OpToRel(<, Nat)
  OBVIOUS
<1>2. IsWellFoundedOn(R, Nat)
  BY <1>1, NatLessThanWellFounded
<1>3. PICK m \in S : \A k \in S : ~(<<k, m>> \in R)
  BY <1>2, WFMin
<1>4. ASSUME NEW k \in S, k < m PROVE FALSE
  <2>1. <<k, m>> \in R
    BY <1>1, <1>4 DEF OpToRel
  <2> QED BY <1>3, <1>4, <2>1
<1>5. \A k \in S : m <= k
  BY <1>4
<1> QED BY <1>3, <1>5

\* A bounded one has a greatest.
LEMMA GreatestOf ==
  ASSUME NEW n \in Nat, NEW S \in SUBSET (0 .. n), S # {}
  PROVE  \E m \in S : \A k \in S : m >= k
<1>1. PICK T \in SUBSET Nat : T = {n - k : k \in S}
  <2>1. {n - k : k \in S} \subseteq Nat
    OBVIOUS
  <2> QED BY <2>1
<1>2. T # {}
  BY <1>1
<1>3. PICK t \in T : \A k \in T : t <= k
  BY <1>2, LeastOf
<1>4. PICK m \in S : t = n - m
  BY <1>1, <1>3
<1>5. ASSUME NEW k \in S PROVE m >= k
  <2>1. n - k \in T
    BY <1>1, <1>5
  <2>2. n - m <= n - k
    BY <1>3, <1>4, <2>1
  <2> QED BY <1>4, <1>5, <2>2
<1> QED BY <1>4, <1>5

\* The elements of a finite set in some order.
LEMMA OrderOf ==
  ASSUME NEW S, IsFiniteSet(S)
  PROVE  /\ Cardinality(S) \in Nat
         /\ \E f \in [1 .. Cardinality(S) -> S] : \A e \in S : \E k \in 1 .. Cardinality(S) : f[k] = e
<1>1. Cardinality(S) \in Nat /\ ExistsBijection(1 .. Cardinality(S), S)
  BY FS_CardinalityType
<1> QED BY <1>1 DEF ExistsBijection, Bijection, Surjection

-----------------------------------------------------------------------------
(***************************************************************************)
(* A transport, for any output of the child and any capacity of the        *)
(* channel.  Nothing but diagnostics follows an end in the channel, whose  *)
(* reader is done, and once the end is told, or being told, no line is     *)
(* left in it (Sound); how far an operation came tells what became of the  *)
(* child, of its input and of the reader (Far).                            *)
(***************************************************************************)
ChildDataOK == Capacity \in Nat /\ MaxOutput \in Nat

Lines == {"line", "bad"}
Sendings == {"none", "line", "eof", "error", "corrupt"}
Events == {"line", "eof", "error", "corrupt", "diagnostic"}
EndEvents == {"eof", "error", "corrupt"}
Operations ==
  [name : {"idle", "write", "next", "close", "abort"},
   pc : {"idle", "write", "recv", "wait", "kill", "settle", "stop", "stderr"},
   path : {"none", "reap", "abort", "close"}, status : {"none", "ok", "bad"}, forced : BOOLEAN]
Answers == [ended : BOOLEAN, first : Child!Codes \cup {"none"}, last : Child!Codes \cup {"none", "line"}]

\* Nothing but diagnostics follows an end in the channel, whose reader is done;
\* once the end is told, or being told, no line is left.
Sound(q, r, s, told) ==
  /\ q \in Seq(Events) /\ r \in {"reading", "sending", "done"} /\ s \in Sendings
  /\ r = "sending" <=> s # "none"
  /\ \A i, j \in 1 .. Len(q) : i < j /\ q[i] \in EndEvents => q[j] = "diagnostic"
  /\ \A i \in 1 .. Len(q) : q[i] \in EndEvents => r = "done"
  /\ told => r = "done" /\ \A i \in 1 .. Len(q) : q[i] # "line"

Told(o, a) == a.ended \/ (o.name = "next" /\ o.pc # "recv")

\* How far an operation came tells what became of the child and of the reader.
Ending == {"wait", "kill", "settle", "stop", "stderr"}
Far(o, sin, ch, kil, rd, lo) ==
  /\ o.name = "idle" <=> o.pc = "idle"
  /\ o.pc = "write" => o.name = "write"
  /\ o.pc = "recv" => o.name = "next"
  /\ o.pc \in Ending => ~sin
  /\ o.pc = "kill" => kil
  /\ o.pc \in {"settle", "stop", "stderr"} => ch = "reaped" \/ kil
  /\ o.pc = "stderr" => rd = "done" \/ lo
  /\ o.status # "none" => ch = "reaped" /\ ~sin

ChildIInv ==
  /\ Child!TypeOK
  /\ Sound(child_queue, child_reader, child_sending, Told(child_op, child_answers))
  /\ Far(child_op, child_stdin, child_child, child_killed, child_reader, child_lost)
  /\ child_terminal => child_child = "reaped" /\ ~child_stdin

(* The channel. *)

LEMMA SoundAppend ==
  ASSUME NEW q, NEW r, NEW s, NEW t \in BOOLEAN, Sound(q, r, s, t)
  PROVE  Sound(Append(q, "diagnostic"), r, s, t) /\ Len(Append(q, "diagnostic")) = Len(q) + 1
<1>1. /\ q \in Seq(Events) /\ Len(q) \in Nat
      /\ Append(q, "diagnostic") \in Seq(Events) /\ Len(Append(q, "diagnostic")) = Len(q) + 1
      /\ \A i \in 1 .. Len(q) : Append(q, "diagnostic")[i] = q[i]
      /\ Append(q, "diagnostic")[Len(q) + 1] = "diagnostic"
  BY DEF Sound, Events
<1>2. \A i \in 1 .. Len(q) + 1 : i \in 1 .. Len(q) \/ i = Len(q) + 1
  BY <1>1
<1>3. "diagnostic" \notin EndEvents /\ "diagnostic" # "line"
  BY DEF EndEvents
<1> QED BY <1>1, <1>2, <1>3 DEF Sound

LEMMA SoundDeliver ==
  ASSUME NEW q, NEW s, NEW t \in BOOLEAN, Sound(q, "sending", s, t), NEW r,
         r = IF s = "line" THEN "reading" ELSE "done"
  PROVE  Sound(Append(q, s), r, "none", t) /\ Len(Append(q, s)) = Len(q) + 1
<1>0. s \in Events \ {"diagnostic"} /\ ~t /\ \A i \in 1 .. Len(q) : q[i] \notin EndEvents
  BY DEF Sound, Sendings, Events
<1>1. /\ q \in Seq(Events) /\ Len(q) \in Nat
      /\ Append(q, s) \in Seq(Events) /\ Len(Append(q, s)) = Len(q) + 1
      /\ \A i \in 1 .. Len(q) : Append(q, s)[i] = q[i]
      /\ Append(q, s)[Len(q) + 1] = s
  BY <1>0 DEF Sound
<1>2. \A i \in 1 .. Len(q) + 1 : i \in 1 .. Len(q) \/ i = Len(q) + 1
  BY <1>1
<1>3. \A i, j \in 1 .. Len(q) + 1 : i < j => i \in 1 .. Len(q)
  BY <1>1
<1>4. s \in EndEvents => r = "done"
  BY DEF EndEvents
<1>5. r \in {"reading", "done"}
  OBVIOUS
<1>6. \A i, j \in 1 .. Len(q) + 1 : i < j => Append(q, s)[i] \notin EndEvents
  BY <1>0, <1>1, <1>3
<1>7. \A i \in 1 .. Len(q) + 1 : Append(q, s)[i] \in EndEvents => r = "done"
  BY <1>0, <1>1, <1>2, <1>4
<1> QED BY <1>0, <1>1, <1>5, <1>6, <1>7 DEF Sound, Sendings

LEMMA SoundTail ==
  ASSUME NEW q, NEW r, NEW s, NEW t \in BOOLEAN, Sound(q, r, s, t), q # <<>>
  PROVE  /\ Sound(Tail(q), r, s, t) /\ Len(Tail(q)) = Len(q) - 1 /\ Head(q) \in Events
         /\ Head(q) \in EndEvents => Sound(Tail(q), r, s, TRUE)
<1>1. /\ q \in Seq(Events) /\ Len(q) \in Nat \ {0} /\ Tail(q) \in Seq(Events) /\ Len(Tail(q)) = Len(q) - 1
      /\ Head(q) = q[1] /\ q[1] \in Events
      /\ \A i \in 1 .. Len(q) - 1 : Tail(q)[i] = q[i + 1]
  BY DEF Sound
<1>2. \A i \in 1 .. Len(q) - 1 : i + 1 \in 1 .. Len(q) /\ 1 < i + 1 /\ \A j \in 1 .. Len(q) - 1 : i < j => i + 1 < j + 1
  BY <1>1
<1>3. 1 \in 1 .. Len(q)
  BY <1>1
<1>4. Sound(Tail(q), r, s, t)
  BY <1>1, <1>2 DEF Sound
<1>5. ASSUME Head(q) \in EndEvents PROVE Sound(Tail(q), r, s, TRUE)
  <2>1. r = "done"
    BY <1>1, <1>3, <1>5 DEF Sound
  <2>2. \A i \in 1 .. Len(q) - 1 : Tail(q)[i] = "diagnostic"
    BY <1>1, <1>2, <1>3, <1>5 DEF Sound
  <2> QED BY <1>1, <1>4, <2>1, <2>2 DEF Sound
<1> QED BY <1>1, <1>4, <1>5

\* The end is told once nothing can follow it.
LEMMA SoundTold ==
  ASSUME NEW q, NEW r, NEW s, NEW t \in BOOLEAN, NEW u \in BOOLEAN, Sound(q, r, s, t),
         u => t \/ (q = <<>> /\ r = "done")
  PROVE  Sound(q, r, s, u)
BY DEF Sound

LEMMA SoundRead ==
  ASSUME NEW q, NEW s, NEW t \in BOOLEAN, Sound(q, "reading", s, t), NEW u \in Sendings \ {"none"}
  PROVE  Sound(q, "sending", u, t)
BY DEF Sound

LEMMA SoundStop ==
  ASSUME NEW q, NEW r, NEW s, NEW t \in BOOLEAN, Sound(q, r, s, t)
  PROVE  Sound(q, "done", "none", t)
BY DEF Sound, Sendings

\* Sound carries over to the next state.
LEMMA SoundNext ==
  ASSUME NEW t \in BOOLEAN, NEW q, NEW r, NEW s, Sound(q, r, s, t),
         child_queue' = q, child_reader' = r, child_sending' = s,
         child_answers'.ended \/ (child_op'.name = "next" /\ child_op'.pc # "recv") => t \/ (q = <<>> /\ r = "done")
  PROVE  Sound(child_queue, child_reader, child_sending, Told(child_op, child_answers))'
BY DEF Sound, Told

LEMMA ChildTyped ==
  ASSUME ChildIInv
  PROVE  /\ child_kind \in {"local", "ssh"} /\ child_child \in {"running", "exited", "reaped"}
         /\ child_killed \in BOOLEAN /\ child_success \in BOOLEAN /\ child_held \in BOOLEAN /\ child_lost \in BOOLEAN
         /\ child_corruption \in BOOLEAN /\ child_terminal \in BOOLEAN /\ child_stdin \in BOOLEAN
         /\ child_pipe \in Seq(Lines) /\ child_written \in 0 .. MaxOutput
         /\ child_reader \in {"reading", "sending", "done"} /\ child_sending \in Sendings
         /\ child_queue \in Seq(Events) /\ (child_kind = "ssh" => Len(child_queue) <= Capacity)
         /\ child_errors \in [task : {"reading", "done"}, tail : {"none", "auth"}]
         /\ child_op \in Operations /\ child_answers \in Answers
         /\ Told(child_op, child_answers) \in BOOLEAN
<1>1. Told(child_op, child_answers) \in BOOLEAN
  BY DEF Told, ChildIInv, Child!TypeOK, Operations, Answers
<1> QED BY <1>1 DEF ChildIInv, Child!TypeOK, Lines, Sendings, Events, Operations, Answers

\* What a step has to keep, in the pieces it keeps it.
LEMMA ChildKept ==
  ASSUME child_kind' \in {"local", "ssh"}, child_child' \in {"running", "exited", "reaped"},
         child_killed' \in BOOLEAN, child_success' \in BOOLEAN, child_held' \in BOOLEAN, child_lost' \in BOOLEAN,
         child_corruption' \in BOOLEAN, child_terminal' \in BOOLEAN, child_stdin' \in BOOLEAN,
         child_pipe' \in Seq(Lines), child_written' \in 0 .. MaxOutput,
         child_kind' = "ssh" => Len(child_queue)' <= Capacity,
         child_errors' \in [task : {"reading", "done"}, tail : {"none", "auth"}],
         child_op' \in Operations, child_answers' \in Answers,
         Sound(child_queue, child_reader, child_sending, Told(child_op, child_answers))',
         Far(child_op, child_stdin, child_child, child_killed, child_reader, child_lost)',
         child_terminal' => child_child' = "reaped" /\ ~child_stdin'
  PROVE  ChildIInv'
<1>1. /\ child_queue' \in Seq(Events) /\ child_reader' \in {"reading", "sending", "done"} /\ child_sending' \in Sendings
  BY DEF Sound
<1>2. {child_killed, child_success, child_held, child_lost, child_corruption, child_terminal, child_stdin}' \subseteq BOOLEAN
  BY Zenon
<1>3. Child!TypeOK'
  BY <1>1, <1>2 DEF Child!TypeOK, Lines, Sendings, Events, Operations, Answers
<1> QED BY <1>3 DEF ChildIInv

LEMMA ChildInitInv == ASSUME ChildDataOK, Child!Init PROVE ChildIInv
<1>1. Child!Idle \in Operations
  BY DEF Child!Idle, Operations
<1>2. {child_killed, child_success, child_held, child_lost, child_corruption, child_terminal, child_stdin} \subseteq BOOLEAN
  BY DEF Child!Init
<1>3. child_answers \in Answers /\ child_errors \in [task : {"reading", "done"}, tail : {"none", "auth"}]
  BY DEF Child!Init, Answers
<1>4. child_pipe \in Seq({"line", "bad"}) /\ child_queue \in Seq(Events) /\ Len(child_queue) = 0 /\ child_written \in 0 .. MaxOutput
  BY DEF Child!Init, ChildDataOK
<1>5. Child!TypeOK
  BY <1>1, <1>2, <1>3, <1>4 DEF Child!Init, Child!TypeOK, ChildDataOK, Operations, Answers, Events
<1>6. ~Told(child_op, child_answers) /\ Far(child_op, child_stdin, child_child, child_killed, child_reader, child_lost)
  BY DEF Child!Init, Told, Far, Child!Idle, Ending
<1>7. Sound(child_queue, child_reader, child_sending, Told(child_op, child_answers))
  BY <1>4, <1>6 DEF Child!Init, Sound, Sendings
<1> QED BY <1>5, <1>6, <1>7 DEF Child!Init, ChildIInv

(* The child. *)

LEMMA ChildInv ==
  ASSUME ChildDataOK, ChildIInv, Child!Emit("line") \/ Child!Emit("bad") \/ Child!Exit \/ Child!LetGo
  PROVE  ChildIInv'
<1>1. /\ UNCHANGED <<child_kind, child_killed, child_reader, child_sending, child_lost, child_queue, child_corruption, child_terminal, child_stdin, child_errors,
                     child_op, child_answers>>
      /\ child_child' \in {child_child, "exited"} /\ (child_child = "reaped" => child_child' = child_child)
      /\ child_success' \in BOOLEAN /\ child_held' \in BOOLEAN /\ child_pipe' \in Seq(Lines) /\ child_written' \in 0 .. MaxOutput
  <2>1. CASE Child!Emit("line") \/ Child!Emit("bad")
    <3>1. PICK x \in Lines : Child!Emit(x)
      BY <2>1 DEF Lines
    <3>2. child_pipe' \in Seq(Lines)
      BY <3>1, ChildTyped DEF Child!Emit
    <3>3. child_written' \in 0 .. MaxOutput
      BY <3>1, ChildTyped DEF Child!Emit, ChildDataOK
    <3> QED BY <3>1, <3>2, <3>3, ChildTyped DEF Child!Emit, Child!task, Child!own
  <2>2. CASE Child!Exit
    BY <2>2, ChildTyped DEF Child!Exit, Child!task, Child!own
  <2>3. CASE Child!LetGo
    BY <2>3, ChildTyped DEF Child!LetGo, Child!task, Child!own
  <2> QED BY <2>1, <2>2, <2>3
<1>2. Sound(child_queue, child_reader, child_sending, Told(child_op, child_answers))'
  BY <1>1, ChildTyped, SoundNext DEF ChildIInv, Told
<1>3. Far(child_op, child_stdin, child_child, child_killed, child_reader, child_lost)'
  BY <1>1 DEF ChildIInv, Far
<1>4. child_terminal' => child_child' = "reaped" /\ ~child_stdin'
  BY <1>1 DEF ChildIInv
<1> QED BY <1>1, <1>2, <1>3, <1>4, ChildTyped, ChildKept

LEMMA ComplainInv == ASSUME ChildDataOK, ChildIInv, Child!Complain PROVE ChildIInv'
<1>1. /\ UNCHANGED <<child_kind, child_child, child_killed, child_success, child_held, child_pipe, child_written, child_reader, child_sending, child_lost, child_corruption,
                     child_terminal, child_stdin, child_op, child_answers>>
      /\ child_errors' \in [task : {"reading", "done"}, tail : {"none", "auth"}]
  BY ChildTyped DEF Child!Complain, Child!remote
<1>2. PICK q : child_queue' = q /\ q = (IF child_kind = "local" THEN Append(child_queue, "diagnostic") ELSE child_queue)
  BY DEF Child!Complain
<1>3. Sound(q, child_reader, child_sending, Told(child_op, child_answers)) /\ (child_kind = "ssh" => Len(q) <= Capacity)
  BY <1>2, ChildTyped, SoundAppend DEF ChildIInv
<1>4. Sound(child_queue, child_reader, child_sending, Told(child_op, child_answers))'
  BY <1>1, <1>2, <1>3, ChildTyped, SoundNext DEF Told
<1>5. Far(child_op, child_stdin, child_child, child_killed, child_reader, child_lost)'
  BY <1>1 DEF ChildIInv, Far
<1>6. child_kind' = "ssh" => Len(child_queue)' <= Capacity
  BY <1>1, <1>2, <1>3
<1> QED BY <1>1, <1>4, <1>5, <1>6, ChildTyped, ChildKept DEF ChildIInv

(* The reader tasks. *)

LEMMA ChildReadInv == ASSUME ChildDataOK, ChildIInv, Child!ReadLine \/ Child!ReadEnd PROVE ChildIInv'
<1>1. /\ UNCHANGED <<child_kind, child_child, child_killed, child_success, child_held, child_written, child_lost, child_queue, child_terminal, child_stdin, child_errors,
                     child_op, child_answers>>
      /\ child_reader = "reading" /\ child_reader' = "sending"
      /\ child_sending' \in Sendings \ {"none"} /\ child_corruption' \in BOOLEAN /\ child_pipe' \in Seq(Lines)
  <2>1. CASE Child!ReadLine
    BY <2>1, ChildTyped DEF Child!ReadLine, Child!own, Sendings
  <2>2. CASE Child!ReadEnd
    BY <2>2, ChildTyped DEF Child!ReadEnd, Child!remote, Child!own, Sendings
  <2> QED BY <2>1, <2>2
<1>2. PICK u \in Sendings \ {"none"} : child_sending' = u
  BY <1>1
<1>3. Sound(child_queue, "sending", u, Told(child_op, child_answers))
  BY <1>1, <1>2, ChildTyped, SoundRead DEF ChildIInv
<1>4. Sound(child_queue, child_reader, child_sending, Told(child_op, child_answers))'
  BY <1>1, <1>2, <1>3, ChildTyped, SoundNext DEF Told
<1>5. Far(child_op, child_stdin, child_child, child_killed, child_reader, child_lost)'
  BY <1>1 DEF ChildIInv, Far
<1> QED BY <1>1, <1>4, <1>5, ChildTyped, ChildKept DEF ChildIInv

LEMMA DeliverInv == ASSUME ChildDataOK, ChildIInv, Child!Deliver PROVE ChildIInv'
<1>1. /\ UNCHANGED <<child_kind, child_child, child_killed, child_success, child_held, child_pipe, child_written, child_lost, child_corruption, child_terminal, child_stdin,
                     child_errors, child_op, child_answers>>
      /\ child_reader = "sending" /\ child_queue' = Append(child_queue, child_sending) /\ child_sending' = "none"
      /\ child_kind = "ssh" => Len(child_queue) < Capacity
  BY DEF Child!Deliver, Child!remote, Child!own
<1>2. PICK r : child_reader' = r /\ r = (IF child_sending = "line" THEN "reading" ELSE "done")
  BY DEF Child!Deliver
<1>3. Sound(Append(child_queue, child_sending), r, "none", Told(child_op, child_answers)) /\ Len(Append(child_queue, child_sending)) = Len(child_queue) + 1
  BY <1>1, <1>2, ChildTyped, SoundDeliver DEF ChildIInv
<1>4. Sound(child_queue, child_reader, child_sending, Told(child_op, child_answers))'
  BY <1>1, <1>2, <1>3, ChildTyped, SoundNext DEF Told
<1>5. Far(child_op, child_stdin, child_child, child_killed, child_reader, child_lost)'
  BY <1>1 DEF ChildIInv, Far
<1>6. child_kind' = "ssh" => Len(child_queue)' <= Capacity
  BY <1>1, <1>3, ChildTyped DEF ChildDataOK
<1> QED BY <1>1, <1>4, <1>5, <1>6, ChildTyped, ChildKept DEF ChildIInv

LEMMA StderrInv == ASSUME ChildDataOK, ChildIInv, Child!StderrEnds PROVE ChildIInv'
<1>1. /\ UNCHANGED <<child_kind, child_child, child_killed, child_success, child_held, child_pipe, child_written, child_reader, child_sending, child_lost, child_queue,
                     child_corruption, child_terminal, child_stdin, child_op, child_answers>>
      /\ child_errors' \in [task : {"reading", "done"}, tail : {"none", "auth"}]
  BY ChildTyped DEF Child!StderrEnds, Child!remote, Child!task
<1>2. Sound(child_queue, child_reader, child_sending, Told(child_op, child_answers))'
  BY <1>1, ChildTyped, SoundNext DEF ChildIInv, Told
<1>3. Far(child_op, child_stdin, child_child, child_killed, child_reader, child_lost)'
  BY <1>1 DEF ChildIInv, Far
<1> QED BY <1>1, <1>2, <1>3, ChildTyped, ChildKept DEF ChildIInv

(* The operations. *)

\* A step of an operation that leaves the reader and its channel alone.
LEMMA OwnStep ==
  ASSUME ChildIInv, UNCHANGED <<child_kind, child_success, child_held, child_pipe, child_written, Child!task>>,
         child_child' \in {child_child, "reaped"}, child_killed' \in BOOLEAN, child_terminal' \in BOOLEAN, child_stdin' \in BOOLEAN,
         child_errors' \in [task : {"reading", "done"}, tail : {"none", "auth"}],
         child_op' \in Operations, child_answers' \in Answers,
         child_answers'.ended \/ (child_op'.name = "next" /\ child_op'.pc # "recv") => Told(child_op, child_answers),
         Far(child_op, child_stdin, child_child, child_killed, child_reader, child_lost)',
         child_terminal' => child_child' = "reaped" /\ ~child_stdin'
  PROVE  ChildIInv'
<1>1. UNCHANGED <<child_reader, child_sending, child_lost, child_queue, child_corruption>>
  BY DEF Child!task
<1>2. Sound(child_queue, child_reader, child_sending, Told(child_op, child_answers))'
  BY <1>1, ChildTyped, SoundNext DEF ChildIInv
<1>3. child_lost' \in BOOLEAN /\ child_corruption' \in BOOLEAN
  BY <1>1, ChildTyped
<1>4. child_kind' = "ssh" => Len(child_queue)' <= Capacity
  BY <1>1, ChildTyped
<1>5. child_child' \in {"running", "exited", "reaped"}
  BY ChildTyped
<1> QED BY <1>2, <1>3, <1>4, <1>5, ChildTyped, ChildKept

LEMMA EndsFacts ==
  ASSUME ChildIInv, NEW code \in Child!Codes, Child!Ends(code)
  PROVE  /\ child_op' = Child!Idle /\ child_op' \in Operations /\ child_answers' \in Answers
         /\ child_answers'.ended <=> (child_answers.ended \/ child_op.name = "next")
<1>1. child_op' = Child!Idle /\ child_op' \in Operations
  BY DEF Child!Ends, Child!Idle, Operations
<1>2. child_answers' = [ended |-> child_answers.ended \/ child_op.name = "next",
                  first |-> IF child_answers.first = "none" THEN code ELSE child_answers.first, last |-> code]
  BY DEF Child!Ends
<1>3. child_answers.ended \in BOOLEAN /\ child_answers.first \in Child!Codes \cup {"none"}
  BY ChildTyped DEF Answers
<1>4. PICK e \in BOOLEAN, f \in Child!Codes \cup {"none"} :
        /\ e <=> (child_answers.ended \/ child_op.name = "next")
        /\ child_answers' = [ended |-> e, first |-> f, last |-> code]
  BY <1>2, <1>3
<1>5. child_answers' \in Answers /\ child_answers'.ended = e
  BY <1>4 DEF Answers
<1> QED BY <1>1, <1>4, <1>5

LEMMA EnterFacts ==
  ASSUME NEW name \in {"write", "next", "close", "abort"}, NEW pc \in {"write", "recv", "wait", "kill"},
         Child!Enter(name, pc)
  PROVE  /\ child_op.name = "idle" /\ child_op' \in Operations
         /\ child_op'.name = name /\ child_op'.pc = pc /\ child_op'.path = "none" /\ child_op'.status = "none" /\ ~child_op'.forced
BY DEF Child!Enter, Child!Idle, Operations

LEMMA ChildRequestInv ==
  ASSUME ChildIInv, Child!Write \/ Child!WriteClosed \/ Child!WriteDone \/ Child!NextEvent
  PROVE  ChildIInv'
<1>1. UNCHANGED <<child_kind, child_success, child_held, child_pipe, child_written, Child!task, child_child, child_killed, child_terminal, child_stdin, child_errors>>
  BY DEF Child!Write, Child!WriteClosed, Child!WriteDone, Child!NextEvent, Child!remote, Child!own
<1>2. /\ child_op' \in Operations /\ child_answers' \in Answers
      /\ child_answers'.ended => Told(child_op, child_answers)
      /\ child_op' = Child!Idle \/ (child_op'.name = "write" /\ child_op'.pc = "write" /\ child_op'.status = "none")
                                \/ (child_op'.name = "next" /\ child_op'.pc = "recv" /\ child_op'.status = "none")
  <2>1. CASE Child!Write
    <3>1. Child!Enter("write", "write") /\ child_answers' = child_answers
      BY <2>1 DEF Child!Write
    <3> QED BY <3>1, EnterFacts, ChildTyped DEF Told
  <2>2. CASE Child!WriteClosed
    <3>1. PICK code \in Child!Codes : Child!Ends(code)
      BY <2>2 DEF Child!WriteClosed, Child!Codes
    <3>2. child_op.pc = "write" /\ child_op.name # "next"
      BY <2>2 DEF Child!WriteClosed, ChildIInv, Far
    <3> QED BY <3>1, <3>2, EndsFacts DEF Told
  <2>3. CASE Child!WriteDone
    BY <2>3, ChildTyped DEF Child!WriteDone, Child!Idle, Operations, Told
  <2>4. CASE Child!NextEvent
    <3>1. Child!Enter("next", "recv") /\ child_answers' = child_answers
      BY <2>4 DEF Child!NextEvent
    <3> QED BY <3>1, EnterFacts, ChildTyped DEF Told
  <2> QED BY <2>1, <2>2, <2>3, <2>4
<1>3. Far(child_op, child_stdin, child_child, child_killed, child_reader, child_lost)'
  BY <1>1, <1>2 DEF ChildIInv, Far, Child!Idle, Ending, Child!task
<1>4. child_answers'.ended \/ (child_op'.name = "next" /\ child_op'.pc # "recv") => Told(child_op, child_answers)
  BY <1>2 DEF Child!Idle
<1> QED BY <1>1, <1>2, <1>3, <1>4, OwnStep, ChildTyped DEF ChildIInv

LEMMA NextLineInv == ASSUME ChildDataOK, ChildIInv, Child!NextLine PROVE ChildIInv'
<1>1. /\ UNCHANGED <<child_kind, child_child, child_killed, child_success, child_held, child_pipe, child_written, child_reader, child_sending, child_lost, child_corruption,
                     child_terminal, child_stdin, child_errors>>
      /\ child_queue # <<>> /\ child_queue' = Tail(child_queue) /\ child_op' = Child!Idle
      /\ child_answers' = [child_answers EXCEPT !.last = IF Head(child_queue) = "line" THEN "line" ELSE "none"]
  BY DEF Child!NextLine, Child!remote, Child!own
<1>2. Sound(Tail(child_queue), child_reader, child_sending, Told(child_op, child_answers)) /\ Len(Tail(child_queue)) = Len(child_queue) - 1
  <2>1. Told(child_op, child_answers) \in BOOLEAN /\ Sound(child_queue, child_reader, child_sending, Told(child_op, child_answers)) /\ child_queue # <<>>
    BY <1>1, ChildTyped DEF ChildIInv
  <2> QED BY <2>1, SoundTail
<1>3. child_op' \in Operations /\ child_answers' \in Answers /\ child_answers'.ended = child_answers.ended
  BY <1>1, ChildTyped DEF Child!Idle, Operations, Answers
<1>4. Sound(child_queue, child_reader, child_sending, Told(child_op, child_answers))'
  <2>1. child_answers'.ended \/ (child_op'.name = "next" /\ child_op'.pc # "recv") => Told(child_op, child_answers)
    BY <1>1, <1>3 DEF Child!Idle, Told
  <2> QED BY <1>1, <1>2, <2>1, ChildTyped, SoundNext
<1>5. Far(child_op, child_stdin, child_child, child_killed, child_reader, child_lost)'
  BY <1>1 DEF ChildIInv, Far, Child!Idle, Ending
<1>6. child_kind' = "ssh" => Len(child_queue)' <= Capacity
  BY <1>1, <1>2, ChildTyped DEF ChildDataOK
<1> QED BY <1>1, <1>3, <1>4, <1>5, <1>6, ChildTyped, ChildKept DEF ChildIInv

LEMMA DropInv == ASSUME ChildDataOK, ChildIInv, Child!Drop PROVE ChildIInv'
<1>1. /\ UNCHANGED <<child_kind, child_child, child_killed, child_success, child_held, child_pipe, child_written, child_reader, child_sending, child_queue, child_corruption,
                     child_terminal, child_stdin, child_errors, child_answers>>
      /\ child_op' = Child!Idle /\ child_lost' = (child_lost \/ child_op.pc = "settle")
  BY DEF Child!Drop, Child!remote, Child!own
<1>2. child_op' \in Operations /\ child_lost' \in BOOLEAN
  BY <1>1 DEF Child!Idle, Operations
<1>3. Sound(child_queue, child_reader, child_sending, Told(child_op, child_answers))'
  <2>1. child_answers'.ended \/ (child_op'.name = "next" /\ child_op'.pc # "recv") => Told(child_op, child_answers)
    BY <1>1 DEF Child!Idle, Told
  <2> QED BY <1>1, <2>1, ChildTyped, SoundNext DEF ChildIInv
<1>4. Far(child_op, child_stdin, child_child, child_killed, child_reader, child_lost)'
  BY <1>1 DEF ChildIInv, Far, Child!Idle, Ending
<1> QED BY <1>1, <1>2, <1>3, <1>4, ChildTyped, ChildKept DEF ChildIInv

(* LocalProcessTransport. *)

LEMMA LocalInv ==
  ASSUME ChildIInv, Child!LocalWriteFails \/ Child!LocalClose \/ Child!LocalAbort \/ Child!LocalReaped \/ Child!LocalTimeout
  PROVE  ChildIInv'
<1>1. CASE Child!LocalWriteFails
  <2>1. UNCHANGED <<child_kind, child_success, child_held, child_pipe, child_written, Child!task, child_child, child_killed, child_terminal, child_stdin, child_errors>>
    BY <1>1 DEF Child!LocalWriteFails, Child!remote, Child!own
  <2>2. Child!Ends("WRITE") /\ "WRITE" \in Child!Codes /\ child_op.name = "write"
    BY <1>1 DEF Child!LocalWriteFails, Child!Codes, ChildIInv, Far
  <2>3. child_op' = Child!Idle /\ child_op' \in Operations /\ child_answers' \in Answers /\ (child_answers'.ended => Told(child_op, child_answers))
    BY <2>2, EndsFacts DEF Told
  <2>4. child_answers'.ended \/ (child_op'.name = "next" /\ child_op'.pc # "recv") => Told(child_op, child_answers)
    BY <2>3 DEF Child!Idle
  <2>5. Far(child_op, child_stdin, child_child, child_killed, child_reader, child_lost)'
    BY <2>1, <2>3 DEF ChildIInv, Far, Child!Idle, Ending
  <2> QED BY <2>1, <2>3, <2>4, <2>5, OwnStep, ChildTyped DEF ChildIInv
<1>2. CASE Child!LocalClose
  <2>1. /\ UNCHANGED <<child_kind, child_success, child_held, child_pipe, child_written, Child!task, child_child, child_killed, child_terminal, child_errors, child_answers>>
        /\ child_stdin' = FALSE
    BY <1>2 DEF Child!LocalClose, Child!remote
  <2>2. /\ child_op' \in Operations /\ child_op'.name = "close" /\ child_op'.pc = "wait" /\ child_op'.status = "none"
    BY <1>2, EnterFacts DEF Child!LocalClose
  <2>3. Far(child_op, child_stdin, child_child, child_killed, child_reader, child_lost)'
    BY <2>1, <2>2 DEF ChildIInv, Far, Ending
  <2> QED BY <2>1, <2>2, <2>3, OwnStep, ChildTyped DEF ChildIInv, Told
<1>3. CASE Child!LocalAbort
  <2>1. /\ UNCHANGED <<child_kind, child_success, child_held, child_pipe, child_written, Child!task, child_child, child_terminal, child_errors, child_answers>>
        /\ child_stdin' = FALSE /\ child_killed' = TRUE
    BY <1>3 DEF Child!LocalAbort, Child!Kill
  <2>2. /\ child_op' \in Operations /\ child_op'.name = "abort" /\ child_op'.pc = "kill" /\ child_op'.status = "none"
    BY <1>3, EnterFacts DEF Child!LocalAbort
  <2>3. Far(child_op, child_stdin, child_child, child_killed, child_reader, child_lost)'
    BY <2>1, <2>2 DEF ChildIInv, Far, Ending
  <2> QED BY <2>1, <2>2, <2>3, OwnStep, ChildTyped DEF ChildIInv, Told
<1>4. CASE Child!LocalReaped
  <2>1. /\ UNCHANGED <<child_kind, child_success, child_held, child_pipe, child_written, Child!task, child_killed, child_terminal, child_stdin, child_errors, child_answers>>
        /\ child_child' = "reaped" /\ child_op' = Child!Idle
    BY <1>4 DEF Child!LocalReaped, Child!Reap, Child!own
  <2>2. child_op' \in Operations
    BY <2>1 DEF Child!Idle, Operations
  <2>3. Far(child_op, child_stdin, child_child, child_killed, child_reader, child_lost)'
    BY <2>1 DEF ChildIInv, Far, Child!Idle, Ending
  <2>4. child_answers'.ended \/ (child_op'.name = "next" /\ child_op'.pc # "recv") => Told(child_op, child_answers)
    BY <2>1 DEF Child!Idle, Told
  <2> QED BY <2>1, <2>2, <2>3, <2>4, OwnStep, ChildTyped DEF ChildIInv
<1>5. CASE Child!LocalTimeout
  <2>1. /\ UNCHANGED <<child_kind, child_success, child_held, child_pipe, child_written, Child!task, child_child, child_terminal, child_stdin, child_errors, child_answers>>
        /\ child_op.pc = "wait" /\ child_killed' = TRUE /\ child_op' = [child_op EXCEPT !.pc = "kill"]
    BY <1>5 DEF Child!LocalTimeout, Child!Kill, Child!own
  <2>2. child_op' \in Operations /\ child_op'.name = child_op.name /\ child_op'.pc = "kill" /\ child_op'.status = child_op.status
    BY <2>1, ChildTyped DEF Operations
  <2>3. Far(child_op, child_stdin, child_child, child_killed, child_reader, child_lost)'
    BY <2>1, <2>2 DEF ChildIInv, Far, Ending
  <2>4. child_answers'.ended \/ (child_op'.name = "next" /\ child_op'.pc # "recv") => Told(child_op, child_answers)
    BY <2>1, <2>2 DEF Told
  <2> QED BY <2>1, <2>2, <2>3, <2>4, OwnStep, ChildTyped DEF ChildIInv
<1> QED BY <1>1, <1>2, <1>3, <1>4, <1>5

\* What is left of the channel once its end was taken out of it.
LEMMA EndTaken ==
  ASSUME ChildDataOK, ChildIInv,
         \/ child_queue # <<>> /\ Head(child_queue) \in EndEvents /\ child_queue' = Tail(child_queue)
         \/ child_queue = <<>> /\ child_reader = "done" /\ child_queue' = child_queue
  PROVE  \E q : child_queue' = q /\ Sound(q, child_reader, child_sending, TRUE) /\ (child_kind = "ssh" => Len(q) <= Capacity)
<1>1. CASE child_queue # <<>> /\ Head(child_queue) \in EndEvents /\ child_queue' = Tail(child_queue)
  <2>1. Sound(Tail(child_queue), child_reader, child_sending, TRUE) /\ Len(Tail(child_queue)) = Len(child_queue) - 1
    <3>1. Told(child_op, child_answers) \in BOOLEAN /\ Sound(child_queue, child_reader, child_sending, Told(child_op, child_answers)) /\ child_queue # <<>>
      BY <1>1, ChildTyped DEF ChildIInv
    <3> QED BY <1>1, <3>1, SoundTail
  <2>2. Len(child_queue) \in Nat /\ Capacity \in Nat /\ (child_kind = "ssh" => Len(child_queue) <= Capacity)
    BY ChildTyped DEF ChildDataOK
  <2>3. child_kind = "ssh" => Len(Tail(child_queue)) <= Capacity
    BY <2>1, <2>2
  <2> QED BY <1>1, <2>1, <2>3
<1>2. CASE child_queue = <<>> /\ child_reader = "done" /\ child_queue' = child_queue
  <2>1. Sound(child_queue, child_reader, child_sending, TRUE)
    BY <1>2, ChildTyped, SoundTold DEF ChildIInv
  <2> QED BY <1>2, <2>1, ChildTyped DEF ChildDataOK
<1> QED BY <1>1, <1>2

LEMMA LocalNextEndInv == ASSUME ChildDataOK, ChildIInv, Child!LocalNextEnd PROVE ChildIInv'
<1>1. /\ UNCHANGED <<child_kind, child_child, child_killed, child_success, child_held, child_pipe, child_written, child_reader, child_sending, child_lost, child_corruption,
                     child_terminal, child_stdin, child_errors>>
      /\ child_op.pc = "recv"
      /\ \/ child_queue # <<>> /\ Head(child_queue) \in EndEvents /\ child_queue' = Tail(child_queue)
         \/ child_queue = <<>> /\ child_reader = "done" /\ child_queue' = child_queue
  BY DEF Child!LocalNextEnd, Child!remote, Child!own, EndEvents
<1>2. PICK code \in Child!Codes : Child!Ends(code)
  BY DEF Child!LocalNextEnd, Child!Codes
<1>3. child_op' = Child!Idle /\ child_op' \in Operations /\ child_answers' \in Answers
  BY <1>2, EndsFacts
<1>4. PICK q : child_queue' = q /\ Sound(q, child_reader, child_sending, TRUE) /\ (child_kind = "ssh" => Len(q) <= Capacity)
  BY <1>1, EndTaken
<1>5. Sound(child_queue, child_reader, child_sending, Told(child_op, child_answers))'
  BY <1>1, <1>4, SoundNext
<1>6. Far(child_op, child_stdin, child_child, child_killed, child_reader, child_lost)'
  BY <1>1, <1>3 DEF ChildIInv, Far, Child!Idle, Ending
<1> QED BY <1>1, <1>3, <1>4, <1>5, <1>6, ChildTyped, ChildKept DEF ChildIInv

(* SshProcessTransport. *)

LEMMA EndByFacts ==
  ASSUME ChildIInv, NEW name \in {"write", "next", "close", "abort"}, NEW path \in {"reap", "abort", "close"},
         NEW now \in Child!Codes \cup {"none"}, name \in {"close", "abort"} \/ now # "none",
         child_op.name \in {"idle", name}, Child!EndBy(name, path, now), UNCHANGED <<child_reader, child_lost>>
  PROVE  /\ child_op' \in Operations /\ child_answers' \in Answers /\ child_killed' \in BOOLEAN /\ child_stdin' \in BOOLEAN
         /\ UNCHANGED <<child_child, child_success, child_held, child_pipe, child_written>>
         /\ child_op' = Child!Idle \/ child_op'.name = name
         /\ child_answers'.ended => child_answers.ended \/ child_op.name = "next"
         /\ child_killed => child_killed'
         /\ child_stdin' => child_stdin
         /\ Far(child_op, child_stdin, child_child, child_killed, child_reader, child_lost)'
<1>1. CASE child_terminal /\ name \in {"close", "abort"}
  <2>1. /\ child_op' = Child!Idle /\ child_answers' = child_answers
        /\ UNCHANGED <<child_stdin, child_child, child_killed, child_success, child_held, child_pipe, child_written>>
    BY <1>1 DEF Child!EndBy
  <2>2. Child!Idle \in Operations
    BY DEF Child!Idle, Operations
  <2> QED BY <2>1, <2>2, ChildTyped DEF Far, Child!Idle, Ending
<1>2. CASE child_terminal /\ name \notin {"close", "abort"}
  <2>1. /\ Child!Ends(now) /\ now \in Child!Codes
        /\ UNCHANGED <<child_stdin, child_child, child_killed, child_success, child_held, child_pipe, child_written>>
    BY <1>2 DEF Child!EndBy
  <2> QED BY <2>1, EndsFacts, ChildTyped DEF Far, Child!Idle, Ending
<1>3. CASE ~child_terminal
  <2>1. /\ child_op' = [name |-> name, pc |-> IF path = "abort" THEN "kill" ELSE "wait", path |-> path,
                  status |-> "none", forced |-> FALSE]
        /\ child_stdin' = FALSE /\ child_killed' = (child_killed \/ path = "abort")
        /\ UNCHANGED <<child_answers, child_child, child_success, child_held, child_pipe, child_written>>
    BY <1>3 DEF Child!EndBy
  <2>2. PICK pc \in {"kill", "wait"} : pc = (IF path = "abort" THEN "kill" ELSE "wait")
    OBVIOUS
  <2>3. child_op' = [name |-> name, pc |-> pc, path |-> path, status |-> "none", forced |-> FALSE]
    BY <2>1, <2>2
  <2>4. child_op' \in Operations /\ child_op'.name = name /\ child_op'.pc = pc /\ child_op'.status = "none"
    BY <2>3 DEF Operations
  <2>5. child_killed' \in BOOLEAN /\ child_stdin' \in BOOLEAN /\ (child_killed => child_killed') /\ (pc = "kill" => child_killed')
    BY <2>1, <2>2
  <2>6. Far(child_op, child_stdin, child_child, child_killed, child_reader, child_lost)'
    BY <2>1, <2>2, <2>4, <2>5 DEF Far, Ending
  <2> QED BY <2>1, <2>4, <2>5, <2>6, ChildTyped
<1> QED BY <1>1, <1>2, <1>3

LEMMA SshStartInv == ASSUME ChildIInv, Child!SshWriteFails \/ Child!SshClose \/ Child!SshAbort PROVE ChildIInv'
<1>1. CASE Child!SshWriteFails
  <2>1. UNCHANGED <<child_kind, Child!task, child_terminal, child_errors, child_reader, child_lost>> /\ child_op.name = "write"
    BY <1>1 DEF Child!SshWriteFails, Child!task, ChildIInv, Far
  <2>2. \/ Child!EndBy("write", "abort", "PROTOCOL")
        \/ Child!EndBy("write", "reap", "DISCONNECTED")
    BY <1>1 DEF Child!SshWriteFails
  <2>3. /\ child_op' \in Operations /\ child_answers' \in Answers /\ child_killed' \in BOOLEAN /\ child_stdin' \in BOOLEAN
        /\ UNCHANGED <<child_child, child_success, child_held, child_pipe, child_written>>
        /\ child_op' = Child!Idle \/ child_op'.name = "write"
        /\ child_answers'.ended => child_answers.ended \/ child_op.name = "next"
        /\ child_stdin' => child_stdin
        /\ Far(child_op, child_stdin, child_child, child_killed, child_reader, child_lost)'
    BY <2>1, <2>2, EndByFacts DEF Child!Codes
  <2>4. child_answers'.ended \/ (child_op'.name = "next" /\ child_op'.pc # "recv") => Told(child_op, child_answers)
    BY <2>1, <2>3 DEF Child!Idle, Told
  <2> QED BY <2>1, <2>3, <2>4, OwnStep, ChildTyped DEF ChildIInv
<1>2. CASE Child!SshClose \/ Child!SshAbort
  <2>1. UNCHANGED <<child_kind, Child!task, child_terminal, child_errors, child_reader, child_lost>> /\ child_op.name = "idle"
    BY <1>2 DEF Child!SshClose, Child!SshAbort, Child!task
  <2>2. Child!EndBy("close", "close", "none") \/ Child!EndBy("abort", "abort", "none")
    BY <1>2 DEF Child!SshClose, Child!SshAbort
  <2>3. /\ child_op' \in Operations /\ child_answers' \in Answers /\ child_killed' \in BOOLEAN /\ child_stdin' \in BOOLEAN
        /\ UNCHANGED <<child_child, child_success, child_held, child_pipe, child_written>>
        /\ child_op' = Child!Idle \/ child_op'.name = "close" \/ child_op'.name = "abort"
        /\ child_answers'.ended => child_answers.ended \/ child_op.name = "next"
        /\ child_stdin' => child_stdin
        /\ Far(child_op, child_stdin, child_child, child_killed, child_reader, child_lost)'
    BY <2>1, <2>2, EndByFacts
  <2>4. child_answers'.ended \/ (child_op'.name = "next" /\ child_op'.pc # "recv") => Told(child_op, child_answers)
    BY <2>1, <2>3 DEF Child!Idle, Told
  <2> QED BY <2>1, <2>3, <2>4, OwnStep, ChildTyped DEF ChildIInv
<1> QED BY <1>1, <1>2

LEMMA SshNextEndInv == ASSUME ChildDataOK, ChildIInv, Child!SshNextEnd PROVE ChildIInv'
<1>1. /\ UNCHANGED <<child_kind, child_reader, child_sending, child_lost, child_corruption, child_terminal, child_errors>>
      /\ child_op.pc = "recv" /\ child_op.name = "next"
      /\ \/ child_queue # <<>> /\ Head(child_queue) \in EndEvents /\ child_queue' = Tail(child_queue)
         \/ child_queue = <<>> /\ child_reader = "done" /\ child_queue' = child_queue
  BY DEF Child!SshNextEnd, EndEvents, ChildIInv, Far
<1>2. Child!EndBy("next", "abort", "PROTOCOL") \/ Child!EndBy("next", "reap", "DISCONNECTED")
  BY DEF Child!SshNextEnd
<1>3. /\ child_op' \in Operations /\ child_answers' \in Answers /\ child_killed' \in BOOLEAN /\ child_stdin' \in BOOLEAN
      /\ UNCHANGED <<child_child, child_success, child_held, child_pipe, child_written>>
      /\ child_stdin' => child_stdin
      /\ Far(child_op, child_stdin, child_child, child_killed, child_reader, child_lost)'
  BY <1>1, <1>2, EndByFacts DEF Child!Codes
<1>4. PICK q : child_queue' = q /\ Sound(q, child_reader, child_sending, TRUE) /\ (child_kind = "ssh" => Len(q) <= Capacity)
  BY <1>1, EndTaken
<1>5. Sound(child_queue, child_reader, child_sending, Told(child_op, child_answers))'
  BY <1>1, <1>4, SoundNext
<1>6. child_kind' = "ssh" => Len(child_queue)' <= Capacity
  BY <1>1, <1>4
<1>7. child_terminal' => child_child' = "reaped" /\ ~child_stdin'
  BY <1>1, <1>3 DEF ChildIInv
<1> QED BY <1>1, <1>3, <1>5, <1>6, <1>7, ChildTyped, ChildKept

LEMMA WaitInv == ASSUME ChildIInv, Child!Reaped \/ Child!WaitTimeout \/ Child!KillTimeout PROVE ChildIInv'
<1>1. UNCHANGED <<child_kind, child_success, child_held, child_pipe, child_written, Child!task, child_terminal, child_stdin, child_errors, child_answers>>
  BY DEF Child!Reaped, Child!WaitTimeout, Child!KillTimeout, Child!Reap, Child!Kill, Child!remote, Child!own
<1>2. /\ child_op.pc \in {"wait", "kill"} /\ child_op.pc \in Ending /\ ~child_stdin
      /\ child_child' \in {child_child, "reaped"} /\ child_killed' \in BOOLEAN /\ (child_killed => child_killed')
  <2>1. child_child' \in {child_child, "reaped"}
    BY ChildTyped DEF Child!Reaped, Child!WaitTimeout, Child!KillTimeout, Child!Reap, Child!Kill,
       Child!remote
  <2>2. child_killed' = child_killed \/ child_killed' = TRUE
    BY DEF Child!Reaped, Child!WaitTimeout, Child!KillTimeout, Child!Reap, Child!Kill, Child!remote
  <2>3. child_killed' \in BOOLEAN
    <3>1. child_killed \in BOOLEAN
      BY ChildTyped
    <3>2. CASE child_killed' = child_killed
      BY <3>1, <3>2
    <3>3. CASE child_killed' = TRUE
      BY <3>3
    <3> QED BY <2>2, <3>2, <3>3
  <2>4. child_killed => child_killed'
    BY <2>2, Zenon
  <2> QED BY <2>1, <2>3, <2>4 DEF Child!Reaped, Child!WaitTimeout, Child!KillTimeout, Ending, ChildIInv, Far
<1>3. /\ child_op' \in Operations /\ child_op'.name = child_op.name /\ child_op'.pc \in {"settle", "stop", "kill"}
      /\ child_op'.status = child_op.status \/ child_child' = "reaped"
      /\ child_op'.pc = "kill" => child_killed'
      /\ child_op'.pc # "kill" => child_child' = "reaped" \/ child_killed'
  <2>1. CASE Child!Reaped
    <3>1. PICK pc \in {"settle", "stop"}, st \in {"ok", "bad"} :
             child_op' = [child_op EXCEPT !.pc = pc, !.status = st]
      BY <2>1 DEF Child!Reaped
    <3> QED BY <2>1, <3>1, ChildTyped DEF Child!Reaped, Child!Reap, Operations
  <2>2. CASE Child!WaitTimeout
    <3>1. PICK p \in {"none", "reap", "abort", "close"} :
             child_op' = [child_op EXCEPT !.pc = "kill", !.forced = TRUE, !.path = p]
      BY <2>2, ChildTyped DEF Child!WaitTimeout, Operations
    <3> QED BY <2>2, <3>1, ChildTyped DEF Child!WaitTimeout, Child!Kill, Operations
  <2>3. CASE Child!KillTimeout
    <3>1. PICK pc \in {"settle", "stop"} : child_op' = [child_op EXCEPT !.pc = pc]
      BY <2>3 DEF Child!KillTimeout
    <3>2. child_killed /\ child_killed' = child_killed
      BY <2>3 DEF Child!KillTimeout, Child!remote, ChildIInv, Far
    <3> QED BY <3>1, <3>2, ChildTyped DEF Operations
  <2> QED BY <2>1, <2>2, <2>3
<1>4. Far(child_op, child_stdin, child_child, child_killed, child_reader, child_lost)'
  BY <1>1, <1>2, <1>3 DEF ChildIInv, Far, Ending
<1>5. child_answers'.ended \/ (child_op'.name = "next" /\ child_op'.pc # "recv") => Told(child_op, child_answers)
  BY <1>1, <1>2, <1>3 DEF Told
<1>6. child_terminal' => child_child' = "reaped" /\ ~child_stdin'
  BY <1>1, <1>2 DEF ChildIInv
<1> QED BY <1>1, <1>2, <1>3, <1>4, <1>5, <1>6, OwnStep, ChildTyped

LEMMA SettleInv == ASSUME ChildDataOK, ChildIInv, Child!Settle PROVE ChildIInv'
<1>1. /\ UNCHANGED <<child_kind, child_child, child_killed, child_success, child_held, child_pipe, child_written, child_lost, child_queue, child_corruption,
                     child_terminal, child_stdin, child_errors, child_answers>>
      /\ child_op.pc \in {"settle", "stop"} /\ child_op' = [child_op EXCEPT !.pc = "stderr"]
  BY DEF Child!Settle, Child!remote, Child!own
<1>2. PICK r, s : /\ child_reader' = r /\ child_sending' = s
                  /\ r = (IF child_lost THEN child_reader ELSE "done") /\ s = (IF child_lost THEN child_sending ELSE "none")
  BY DEF Child!Settle
<1>3. Sound(child_queue, r, s, Told(child_op, child_answers))
  BY <1>2, ChildTyped, SoundStop DEF ChildIInv
<1>4. child_op' \in Operations /\ child_op'.name = child_op.name /\ child_op'.pc = "stderr" /\ child_op'.status = child_op.status
  BY <1>1, ChildTyped DEF Operations
<1>5. Sound(child_queue, child_reader, child_sending, Told(child_op, child_answers))'
  <2>1. child_answers'.ended \/ (child_op'.name = "next" /\ child_op'.pc # "recv") => Told(child_op, child_answers)
    BY <1>1, <1>4 DEF Told
  <2> QED BY <1>1, <1>2, <1>3, <2>1, ChildTyped, SoundNext
<1>6. Far(child_op, child_stdin, child_child, child_killed, child_reader, child_lost)'
  BY <1>1, <1>2, <1>4 DEF ChildIInv, Far, Ending
<1> QED BY <1>1, <1>4, <1>5, <1>6, ChildTyped, ChildKept DEF ChildIInv

LEMMA FinishFacts ==
  ASSUME ChildIInv, Child!Finish
  PROVE  /\ child_op' = Child!Idle /\ child_op.pc = "stderr" /\ child_op' \in Operations /\ child_answers' \in Answers
         /\ child_answers'.ended => Told(child_op, child_answers)
<1>1. Child!Idle \in Operations /\ child_op.pc = "stderr"
  BY DEF Child!Idle, Operations, Child!Finish
<1>2. CASE child_op' = Child!Idle /\ child_answers' = child_answers
  BY <1>1, <1>2, ChildTyped DEF Told
<1>3. CASE Child!Ends(IF child_op.path = "abort" THEN "PROTOCOL" ELSE Child!Failure)
  <2>1. PICK code \in Child!Codes : Child!Ends(code)
    BY <1>3 DEF Child!Failure, Child!Classified, Child!Codes
  <2> QED BY <1>1, <2>1, EndsFacts DEF Told
<1> QED BY <1>2, <1>3 DEF Child!Finish

LEMMA FinishInv == ASSUME ChildIInv, Child!Finish PROVE ChildIInv'
<1>1. UNCHANGED <<child_kind, child_success, child_held, child_pipe, child_written, Child!task, child_child, child_killed, child_stdin, child_reader, child_lost>>
  BY DEF Child!Finish, Child!remote, Child!task
<1>2. /\ child_errors' \in [task : {"reading", "done"}, tail : {"none", "auth"}]
      /\ child_terminal' = (child_op.status # "none")
  BY DEF Child!Finish
<1>3. /\ child_op' = Child!Idle /\ child_op' \in Operations /\ child_answers' \in Answers
      /\ child_answers'.ended \/ (child_op'.name = "next" /\ child_op'.pc # "recv") => Told(child_op, child_answers)
  BY FinishFacts DEF Child!Idle
<1>4. Far(child_op, child_stdin, child_child, child_killed, child_reader, child_lost)'
  BY <1>1, <1>3 DEF ChildIInv, Far, Child!Idle, Ending
<1>5. child_terminal' \in BOOLEAN /\ (child_terminal' => child_child' = "reaped" /\ ~child_stdin')
  BY <1>1, <1>2 DEF ChildIInv, Far
<1> QED BY <1>1, <1>2, <1>3, <1>4, <1>5, OwnStep, ChildTyped

LEMMA ChildNextInv == ASSUME ChildDataOK, ChildIInv, [Child!Next]_(Child!vars) PROVE ChildIInv'
<1>1. CASE UNCHANGED Child!vars
  BY <1>1 DEF Child!vars, Child!remote, Child!task, Child!own, ChildIInv, Child!TypeOK, Sound, Told, Far
<1>2. CASE Child!Emit("line") \/ Child!Emit("bad") \/ Child!Complain \/ Child!Exit \/ Child!LetGo
  BY <1>2, ChildInv, ComplainInv
<1>3. CASE Child!ReadLine \/ Child!ReadEnd \/ Child!Deliver \/ Child!StderrEnds
  BY <1>3, ChildReadInv, DeliverInv, StderrInv
<1>4. CASE Child!Write \/ Child!WriteClosed \/ Child!WriteDone \/ Child!NextEvent \/ Child!NextLine \/ Child!Drop
  BY <1>4, ChildRequestInv, NextLineInv, DropInv
<1>5. CASE \/ Child!LocalWriteFails \/ Child!LocalNextEnd \/ Child!LocalClose \/ Child!LocalAbort \/ Child!LocalReaped \/ Child!LocalTimeout
           \/ Child!SshWriteFails \/ Child!SshNextEnd \/ Child!SshClose \/ Child!SshAbort
  BY <1>5, LocalInv, LocalNextEndInv, SshStartInv, SshNextEndInv
<1>6. CASE Child!Cleanup
  BY <1>6, WaitInv, SettleInv, FinishInv DEF Child!Cleanup
<1> QED BY <1>1, <1>2, <1>3, <1>4, <1>5, <1>6 DEF Child!Next

(* The end of the stream, over one step. *)

EndStays ==
  /\ child_answers.ended /\ child_queue # <<>> /\ child_queue' = Tail(child_queue) => Head(child_queue) # "line"
  /\ child_op.pc = "stderr" /\ child_answers.first = "none" /\ child_answers'.first # "none" =>
       /\ child_corruption => child_answers'.first = "PROTOCOL"
       /\ child_child = "reaped" \/ child_killed
       /\ child_reader = "done" \/ child_lost
  /\ child_terminal' => child_child = "reaped" /\ ~child_stdin

\* A transport at rest whose end was told: a failed write or the end of the
\* stream is met with the child reaped or its cleanup begun.
LEMMA NextEndStays == ASSUME ChildDataOK, ChildIInv, [Child!Next]_(Child!vars) PROVE EndStays
<1>1. child_answers.ended /\ child_queue # <<>> => Head(child_queue) # "line"
  <2>1. child_answers.ended /\ child_queue # <<>> => child_queue \in Seq(Events) /\ 1 \in 1 .. Len(child_queue) /\ Head(child_queue) = child_queue[1]
    BY ChildTyped
  <2> QED BY <2>1 DEF ChildIInv, Sound, Told
<1>2. ASSUME child_op.pc = "stderr", child_answers.first = "none", child_answers'.first # "none"
      PROVE  /\ child_corruption => child_answers'.first = "PROTOCOL"
             /\ child_child = "reaped" \/ child_killed
             /\ child_reader = "done" \/ child_lost
  <2>1. (child_child = "reaped" \/ child_killed) /\ (child_reader = "done" \/ child_lost) /\ child_op.name # "idle"
    BY <1>2 DEF ChildIInv, Far
  <2>2. Child!Finish
    <3>1. ~Child!Emit("line") /\ ~Child!Emit("bad") /\ ~Child!Complain /\ ~Child!Exit /\ ~Child!LetGo /\ ~UNCHANGED Child!vars
      BY <1>2 DEF Child!Emit, Child!Complain, Child!Exit, Child!LetGo, Child!vars
    <3>2. ~Child!ReadLine /\ ~Child!ReadEnd /\ ~Child!Deliver /\ ~Child!StderrEnds
      BY <1>2 DEF Child!ReadLine, Child!ReadEnd, Child!Deliver, Child!StderrEnds
    <3>3. ~Child!Write /\ ~Child!WriteClosed /\ ~Child!WriteDone /\ ~Child!NextEvent /\ ~Child!NextLine /\ ~Child!Drop
      BY <1>2 DEF Child!Write, Child!WriteClosed, Child!WriteDone, Child!NextEvent, Child!NextLine,
         Child!Drop
    <3>4. /\ ~Child!LocalWriteFails /\ ~Child!LocalNextEnd /\ ~Child!LocalClose /\ ~Child!LocalAbort /\ ~Child!LocalReaped /\ ~Child!LocalTimeout
      BY <1>2 DEF Child!LocalWriteFails, Child!LocalNextEnd, Child!LocalClose, Child!LocalAbort,
         Child!LocalReaped, Child!LocalTimeout
    <3>5. ~Child!SshWriteFails /\ ~Child!SshNextEnd /\ ~Child!SshClose /\ ~Child!SshAbort
      BY <1>2, <2>1 DEF Child!SshWriteFails, Child!SshNextEnd, Child!SshClose, Child!SshAbort
    <3>6. ~Child!Reaped /\ ~Child!WaitTimeout /\ ~Child!KillTimeout /\ ~Child!Settle
      BY <1>2 DEF Child!Reaped, Child!WaitTimeout, Child!KillTimeout, Child!Settle
    <3> QED BY <3>1, <3>2, <3>3, <3>4, <3>5, <3>6 DEF Child!Next, Child!Cleanup
  <2>3. child_corruption => child_answers'.first = "PROTOCOL"
    BY <1>2, <2>2 DEF Child!Finish, Child!Ends, Child!Failure
  <2> QED BY <2>1, <2>3
<1>3. child_terminal' => child_child = "reaped" /\ ~child_stdin
  <2>1. CASE Child!Finish
    BY <2>1 DEF Child!Finish, ChildIInv, Far
  <2>2. CASE child_terminal' = child_terminal
    BY <2>2 DEF ChildIInv
  <2>3. Child!Finish \/ child_terminal' = child_terminal
    <3>1. Child!Emit("line") \/ Child!Emit("bad") \/ Child!Complain \/ Child!Exit \/ Child!LetGo \/ UNCHANGED Child!vars => child_terminal' = child_terminal
      BY DEF Child!Emit, Child!Complain, Child!Exit, Child!LetGo, Child!vars, Child!own
    <3>2. Child!ReadLine \/ Child!ReadEnd \/ Child!Deliver \/ Child!StderrEnds => child_terminal' = child_terminal
      BY DEF Child!ReadLine, Child!ReadEnd, Child!Deliver, Child!StderrEnds, Child!own
    <3>3. Child!Write \/ Child!WriteClosed \/ Child!WriteDone \/ Child!NextEvent \/ Child!NextLine \/ Child!Drop => child_terminal' = child_terminal
      BY DEF Child!Write, Child!WriteClosed, Child!WriteDone, Child!NextEvent, Child!NextLine, Child!Drop,
         Child!own
    <3>4. Child!LocalWriteFails \/ Child!LocalNextEnd \/ Child!LocalClose \/ Child!LocalAbort \/ Child!LocalReaped \/ Child!LocalTimeout
          => child_terminal' = child_terminal
      BY DEF Child!LocalWriteFails, Child!LocalNextEnd, Child!LocalClose, Child!LocalAbort,
         Child!LocalReaped, Child!LocalTimeout, Child!own
    <3>5. Child!SshWriteFails \/ Child!SshNextEnd \/ Child!SshClose \/ Child!SshAbort => child_terminal' = child_terminal
      BY DEF Child!SshWriteFails, Child!SshNextEnd, Child!SshClose, Child!SshAbort
    <3>6. Child!Reaped \/ Child!WaitTimeout \/ Child!KillTimeout \/ Child!Settle => child_terminal' = child_terminal
      BY DEF Child!Reaped, Child!WaitTimeout, Child!KillTimeout, Child!Settle, Child!own
    <3> QED BY <3>1, <3>2, <3>3, <3>4, <3>5, <3>6 DEF Child!Next, Child!Cleanup
  <2> QED BY <2>1, <2>2, <2>3
<1> QED BY <1>1, <1>2, <1>3 DEF EndStays

-----------------------------------------------------------------------------
(***************************************************************************)
(* Microsoft accounts, for any number of logins, launches, accounts and    *)
(* tokens.  A token that was given out and has still to be kept is where   *)
(* no other step finds it (Apart); so it is fresh when it is kept, and a   *)
(* token that was used up is never written again.                          *)
(***************************************************************************)
LoginDataOK ==
  MaxTokens \in Nat /\ None \notin Accounts /\ None \notin Logins /\ None \notin Login!Tokens
  /\ "pending" \notin Accounts

LoginSteps == {"idle", "open", "begin", "sleep", "poll", "keep", "exchange",
               "retry", "token", "clear", "account"}
LoginStates == [pc : LoginSteps, closed : BOOLEAN, account : Accounts \cup {None},
                token : Login!Tokens \cup {None}]
LaunchStates == [pc : {"idle", "get", "exchange", "keep"}, account : Accounts \cup {None},
                 read : Login!Tokens \cup {None}, token : Login!Tokens \cup {None}]
Removals == [pc : {"idle", "core", "keychain"}, account : Accounts \cup {None}]

\* The steps of a login that have a token which is not kept yet, and those
\* that have kept it.
Carrying == {"keep", "exchange", "retry", "token"}
Keeping == {"clear", "account"}

\* A login has an account from the exchange on, a launch and a removal always;
\* a token is that account's.
LoginFits(r) ==
  /\ r.pc \in Carrying \cup Keeping => r.token \in Login!Tokens
  /\ r.pc \in {"token", "clear", "account"} => r.account \in Accounts /\ r.token.of = r.account
LaunchFits(r) ==
  /\ r.pc # "idle" => r.account \in Accounts
  /\ r.pc \in {"exchange", "keep"} => r.read \in Login!Tokens /\ r.read.of = r.account
  /\ r.pc = "keep" => r.token \in Login!Tokens /\ r.token.of = r.account
LoginNamed ==
  /\ \A l \in Logins : LoginFits(login_logins[l])
  /\ \A x \in Launches : LaunchFits(login_launches[x])
  /\ login_removal.pc # "idle" => login_removal.account \in Accounts

\* Every token was given out.
Given ==
  /\ \A a \in Accounts : login_keychain[a] # None => login_keychain[a].n <= login_issued
  /\ \A l \in Logins : login_logins[l].pc \in Carrying => login_logins[l].token.n <= login_issued
  /\ \A x \in Launches : login_launches[x].pc \in {"exchange", "keep"} => login_launches[x].read.n <= login_issued
  /\ \A x \in Launches : login_launches[x].pc = "keep" => login_launches[x].token.n <= login_issued
  /\ \A t \in login_spent : t.n <= login_issued

\* A token that has still to be kept is in no other hands.
Free(t) ==
  /\ t \notin login_spent /\ \A a \in Accounts : login_keychain[a] # t
  /\ \A x \in Launches : login_launches[x].pc \in {"exchange", "keep"} => login_launches[x].read # t
Apart ==
  /\ \A l \in Logins : login_logins[l].pc \in Carrying =>
       /\ Free(login_logins[l].token)
       /\ \A m \in Logins \ {l} : login_logins[m].pc \in Carrying => login_logins[m].token # login_logins[l].token
       /\ \A x \in Launches : login_launches[x].pc = "keep" => login_launches[x].token # login_logins[l].token
  /\ \A x \in Launches : login_launches[x].pc = "keep" =>
       /\ Free(login_launches[x].token)
       /\ \A y \in Launches \ {x} : login_launches[y].pc = "keep" => login_launches[y].token # login_launches[x].token

Replaced ==
  \A a \in Accounts : login_keychain[a] \in login_spent =>
    \E x \in Launches : /\ login_launches[x].pc = "keep" /\ login_launches[x].account = a
                        /\ login_launches[x].read = login_keychain[a]

HaveTokens ==
  /\ \A a \in login_core : login_keychain[a] # None \/ a \in login_crossed
  /\ \A l \in Logins : login_logins[l].pc \in Keeping =>
       login_keychain[login_logins[l].account] # None \/ login_logins[l].account \in login_crossed

Tidy == Given /\ Apart /\ Replaced /\ Login!TokensAreOwn /\ HaveTokens

LoginIInv == Login!TypeOK /\ LoginNamed /\ Tidy /\ Login!CancelledStaysClosed

LEMMA LoginTypes == Login!TypeOK <=>
  /\ login_cancelled \in BOOLEAN /\ login_ref \in Logins \cup {None} /\ login_dialog \in BOOLEAN
  /\ login_logins \in [Logins -> LoginStates] /\ login_launches \in [Launches -> LaunchStates]
  /\ login_removal \in Removals
  /\ login_keychain \in [Login!Keys -> Login!Tokens \cup {None}] /\ login_issued \in 0 .. MaxTokens
  /\ login_core \in SUBSET Accounts /\ login_active \in Accounts \cup {None}
  /\ login_spent \in SUBSET Login!Tokens /\ login_crossed \in SUBSET Accounts
BY Zenon DEF Login!TypeOK, LoginStates, LaunchStates, LoginSteps, Removals

LEMMA IdleTypes ==
  /\ Login!Idle \in LoginStates /\ Login!Idle.pc = "idle" /\ Login!NoLaunch \in LaunchStates /\ Login!NoLaunch.pc = "idle"
  /\ Login!Rest \in Removals /\ Login!Rest.pc = "idle"
BY DEF Login!Idle, Login!NoLaunch, Login!Rest, LoginStates, LaunchStates, LoginSteps, Removals

LEMMA LoginInitInv == ASSUME LoginDataOK PROVE Login!Init => LoginIInv
<1> SUFFICES ASSUME Login!Init PROVE LoginIInv
  OBVIOUS
<1>1. login_logins \in [Logins -> LoginStates] /\ login_launches \in [Launches -> LaunchStates]
      /\ (\A l \in Logins : login_logins[l].pc = "idle") /\ (\A x \in Launches : login_launches[x].pc = "idle")
      /\ login_removal.pc = "idle" /\ login_removal \in Removals
  BY IdleTypes DEF Login!Init
<1>2. login_keychain \in [Login!Keys -> Login!Tokens \cup {None}] /\ \A a \in Accounts : login_keychain[a] = None
  BY DEF Login!Init, Login!Keys
<1>3. login_cancelled \in BOOLEAN
  BY DEF Login!Init
<1>4. login_dialog \in BOOLEAN
  BY DEF Login!Init
<1>0. login_issued \in 0 .. MaxTokens
  BY DEF Login!Init, LoginDataOK
<1>5. Login!TypeOK
  BY <1>0, <1>1, <1>2, <1>3, <1>4, LoginTypes DEF Login!Init
<1>6. LoginNamed /\ Login!CancelledStaysClosed
  BY <1>1 DEF Login!Init, LoginNamed, LoginFits, LaunchFits, Carrying, Keeping, Login!CancelledStaysClosed
<1>7. Given /\ Apart
  BY <1>1, <1>2 DEF Login!Init, Given, Apart, Carrying
<1>8. Replaced /\ Login!TokensAreOwn /\ HaveTokens
  BY <1>1, <1>2 DEF Login!Init, Replaced, Login!TokensAreOwn, HaveTokens, Keeping
<1> QED BY <1>5, <1>6, <1>7, <1>8 DEF LoginIInv, Tidy

(* A step of one login, with what its new state has to satisfy.            *)

LEMMA LoginStep ==
  ASSUME LoginDataOK, LoginIInv, NEW l \in Logins, NEW r \in LoginStates, LoginFits(r),
         login_logins' = [login_logins EXCEPT ![l] = r],
         UNCHANGED <<login_launches, login_removal, login_spent>>,
         login_cancelled' \in BOOLEAN, login_ref' \in Logins \cup {None}, login_dialog' \in BOOLEAN,
         login_keychain' \in [Login!Keys -> Login!Tokens \cup {None}], login_issued' \in 0 .. MaxTokens, login_issued <= login_issued',
         login_core' \in SUBSET Accounts, login_active' \in Accounts \cup {None}, login_crossed' \in SUBSET Accounts,
         \A a \in Accounts : \/ login_keychain'[a] = login_keychain[a]
                             \/ /\ a = login_logins[l].account /\ login_keychain'[a] = login_logins[l].token
                                /\ login_logins[l].pc = "token" /\ r.pc \notin Carrying,
         r.pc \in Carrying => (\/ login_logins[l].pc \in Carrying /\ r.token = login_logins[l].token
                               \/ login_issued' = login_issued + 1 /\ r.token.n = login_issued + 1),
         \A a \in Accounts : a \in login_crossed => (a \in login_crossed' \/ login_keychain'[a] # None),
         \A a \in login_core' \ login_core : login_logins[l].pc = "account" /\ a = login_logins[l].account,
         r.pc \in Keeping => (\/ login_logins[l].pc \in Keeping /\ r.account = login_logins[l].account
                              \/ login_keychain'[r.account] # None),
         login_cancelled' => ~login_dialog'
  PROVE  LoginIInv'
<1>1. login_logins' \in [Logins -> LoginStates] /\ login_logins'[l] = r
      /\ \A m \in Logins \ {l} : login_logins'[m] = login_logins[m]
  BY LoginTypes DEF LoginIInv
<1>2. Login!TypeOK'
  BY <1>1 DEF LoginIInv, Login!TypeOK, LoginStates, LoginSteps
<1>3. LoginNamed'
  BY <1>1 DEF LoginIInv, LoginNamed
<1>4. LoginFits(login_logins[l]) /\ login_issued \in Nat /\ login_spent \subseteq Login!Tokens
  BY DEF LoginIInv, LoginNamed, Login!TypeOK, LoginDataOK
<1>5. Given'
  <2>1. \A a \in Accounts : login_keychain'[a] # None => login_keychain'[a].n <= login_issued'
    BY <1>4 DEF LoginIInv, Tidy, Given, Login!TypeOK, Login!Keys, LoginFits, Carrying, Login!Tokens
  <2>2. \A m \in Logins : login_logins'[m].pc \in Carrying => login_logins'[m].token.n <= login_issued'
    BY <1>1, <1>4 DEF LoginIInv, LoginNamed, Tidy, Given, LoginFits, Login!Tokens
  <2>3. \A x \in Launches : login_launches'[x].pc \in {"exchange", "keep"} => login_launches'[x].read.n <= login_issued'
    BY <1>4 DEF LoginIInv, LoginNamed, LaunchFits, Tidy, Given, Login!Tokens
  <2>4. \A x \in Launches : login_launches'[x].pc = "keep" => login_launches'[x].token.n <= login_issued'
    BY <1>4 DEF LoginIInv, LoginNamed, LaunchFits, Tidy, Given, Login!Tokens
  <2>5. \A t \in login_spent' : t.n <= login_issued'
    BY <1>4 DEF LoginIInv, Tidy, Given, Login!Tokens
  <2> QED BY <2>1, <2>2, <2>3, <2>4, <2>5 DEF Given
\* A token in other hands is neither the one that is kept nor one just given.
<1>6. ASSUME NEW t, Free(t), login_logins[l].pc \in Carrying /\ r.pc \notin Carrying => t # login_logins[l].token
      PROVE  Free(t)'
  BY <1>6 DEF Free, Carrying
<1>7. ASSUME r.pc \in Carrying PROVE Free(r.token)'
  <2>1. CASE login_logins[l].pc \in Carrying /\ r.token = login_logins[l].token
    <3>1. Free(r.token)
      BY <2>1 DEF LoginIInv, Tidy, Apart
    <3> QED BY <1>6, <1>7, <3>1
  <2>2. CASE login_issued' = login_issued + 1 /\ r.token.n = login_issued + 1
    <3>1. r.token \notin login_spent'
      BY <1>4, <2>2 DEF LoginIInv, Tidy, Given, Login!Tokens
    <3>2. \A a \in Accounts : login_keychain'[a] # r.token
      <4>1. \A a \in Accounts : login_keychain[a] # r.token /\ login_keychain'[a] = login_keychain[a]
        BY <1>4, <1>7, <2>2 DEF LoginIInv, Tidy, Given, LoginDataOK, LoginFits, Login!Tokens, Carrying
      <4> QED BY <4>1
    <3>3. \A x \in Launches : login_launches'[x].pc \in {"exchange", "keep"} => login_launches'[x].read # r.token
      BY <1>4, <2>2 DEF LoginIInv, Tidy, Given
    <3> QED BY <3>1, <3>2, <3>3 DEF Free
  <2> QED BY <1>7, <2>1, <2>2
<1>8. Apart'
  <2>1. ASSUME NEW m \in Logins \ {l}, login_logins[m].pc \in Carrying
        PROVE  /\ Free(login_logins[m].token)
               /\ login_logins[l].pc \in Carrying => login_logins[m].token # login_logins[l].token
               /\ \A x \in Launches : login_launches[x].pc = "keep" => login_launches[x].token # login_logins[m].token
    BY <2>1 DEF LoginIInv, Tidy, Apart
  <2>2. ASSUME NEW x \in Launches, login_launches[x].pc = "keep"
        PROVE  /\ Free(login_launches[x].token)
               /\ login_logins[l].pc \in Carrying => login_launches[x].token # login_logins[l].token
               /\ \A y \in Launches \ {x} : login_launches[y].pc = "keep" => login_launches[y].token # login_launches[x].token
    BY <2>2 DEF LoginIInv, Tidy, Apart
  <2>3. ASSUME r.pc \in Carrying
        PROVE  /\ \A m \in Logins \ {l} : login_logins[m].pc \in Carrying => login_logins[m].token # r.token
               /\ \A x \in Launches : login_launches[x].pc = "keep" => login_launches[x].token # r.token
    <3>1. CASE login_logins[l].pc \in Carrying /\ r.token = login_logins[l].token
      BY <2>1, <2>2, <3>1
    <3>2. CASE login_issued' = login_issued + 1 /\ r.token.n = login_issued + 1
      BY <1>4, <3>2 DEF LoginIInv, Tidy, Given, Carrying
    <3> QED BY <2>3, <3>1, <3>2
  <2>4. \A m \in Logins \ {l} : login_logins[m].pc \in Carrying => Free(login_logins[m].token)'
    <3> SUFFICES ASSUME NEW m \in Logins \ {l}, login_logins[m].pc \in Carrying
                 PROVE  Free(login_logins[m].token)'
      OBVIOUS
    <3>1. PICK t : t = login_logins[m].token
      OBVIOUS
    <3>2. Free(t)'
      BY <1>6, <2>1, <3>1
    <3> QED BY <1>1, <3>1, <3>2 DEF Free
  <2>5. \A x \in Launches : login_launches[x].pc = "keep" => Free(login_launches[x].token)'
    <3> SUFFICES ASSUME NEW x \in Launches, login_launches[x].pc = "keep"
                 PROVE  Free(login_launches[x].token)'
      OBVIOUS
    <3>1. PICK t : t = login_launches[x].token
      OBVIOUS
    <3>2. Free(t)'
      BY <1>6, <2>2, <3>1
    <3> QED BY <3>1, <3>2 DEF Free
  <2>6. ASSUME NEW m \in Logins, login_logins'[m].pc \in Carrying
        PROVE  /\ Free(login_logins[m].token)'
               /\ \A k \in Logins \ {m} : login_logins'[k].pc \in Carrying => login_logins'[k].token # login_logins'[m].token
               /\ \A x \in Launches : login_launches'[x].pc = "keep" => login_launches'[x].token # login_logins'[m].token
    <3>1. CASE m = l
      BY <1>1, <1>7, <2>3, <2>6, <3>1 DEF Free
    <3>2. CASE m # l
      BY <1>1, <2>1, <2>3, <2>4, <2>6, <3>2 DEF LoginIInv, Tidy, Apart
    <3> QED BY <3>1, <3>2
  <2> QED BY <2>2, <2>5, <2>6 DEF Apart
<1>9. Replaced'
  BY <1>4 DEF LoginIInv, Tidy, Replaced, Apart, Free, Carrying
<1>10. Login!TokensAreOwn'
  BY <1>4 DEF LoginIInv, Tidy, Login!TokensAreOwn, LoginFits
<1>11. HaveTokens'
  <2>1. \A a \in Accounts : (login_keychain[a] # None \/ a \in login_crossed) => (login_keychain'[a] # None \/ a \in login_crossed')
    BY <1>4 DEF LoginDataOK, LoginFits, Carrying
  <2>2. \A m \in Logins : login_logins[m].pc \in Keeping => login_logins[m].account \in Accounts
    BY DEF LoginIInv, LoginNamed, LoginFits, Keeping
  <2>3. \A a \in login_core' : login_keychain'[a] # None \/ a \in login_crossed'
    BY <2>1, <2>2 DEF LoginIInv, Tidy, HaveTokens, Keeping
  <2>4. \A m \in Logins : login_logins'[m].pc \in Keeping =>
          login_keychain'[login_logins'[m].account] # None \/ login_logins'[m].account \in login_crossed'
    BY <1>1, <2>1, <2>2 DEF LoginIInv, Tidy, HaveTokens
  <2> QED BY <2>3, <2>4 DEF HaveTokens
<1>12. Login!CancelledStaysClosed'
  BY DEF Login!CancelledStaysClosed
<1> QED BY <1>2, <1>3, <1>5, <1>8, <1>9, <1>10, <1>11, <1>12 DEF LoginIInv, Tidy

\* A step of one launch.
LEMMA LaunchStep ==
  ASSUME LoginDataOK, LoginIInv, NEW x \in Launches, NEW r \in LaunchStates, LaunchFits(r),
         login_launches' = [login_launches EXCEPT ![x] = r],
         UNCHANGED <<login_cancelled, login_ref, login_dialog, login_logins, login_removal, login_core, login_active>>,
         login_keychain' \in [Login!Keys -> Login!Tokens \cup {None}], login_issued' \in 0 .. MaxTokens, login_issued <= login_issued',
         login_spent' \in SUBSET Login!Tokens, login_crossed' \in SUBSET Accounts,
         \A a \in Accounts : \/ login_keychain'[a] = login_keychain[a]
                             \/ /\ a = login_launches[x].account /\ login_keychain'[a] = login_launches[x].token
                                /\ login_launches[x].pc = "keep" /\ r.pc = "idle",
         \A t \in login_spent' : \/ t \in login_spent
                                 \/ r.pc = "keep" /\ login_launches[x].pc = "exchange" /\ t = login_launches[x].read,
         r.pc \in {"exchange", "keep"} => (\/ r.pc = "exchange" /\ r.read = login_keychain[r.account]
                                           \/ login_launches[x].pc = "exchange" /\ r.read = login_launches[x].read),
         r.pc = "keep" => login_issued' = login_issued + 1 /\ r.token.n = login_issued + 1,
         \A a \in Accounts : a \in login_crossed => (a \in login_crossed' \/ login_keychain'[a] # None),
         login_launches[x].pc = "keep" => (\/ login_launches[x].read \notin login_spent'
                                           \/ login_keychain'[login_launches[x].account] = login_launches[x].token)
  PROVE  LoginIInv'
<1>1. login_launches' \in [Launches -> LaunchStates] /\ login_launches'[x] = r
      /\ \A y \in Launches \ {x} : login_launches'[y] = login_launches[y]
  BY LoginTypes DEF LoginIInv
<1>2. Login!TypeOK'
  BY <1>1 DEF LoginIInv, Login!TypeOK, LaunchStates
<1>3. LoginNamed'
  BY <1>1 DEF LoginIInv, LoginNamed
<1>4. LaunchFits(login_launches[x]) /\ login_issued \in Nat /\ login_spent \subseteq Login!Tokens
  BY DEF LoginIInv, LoginNamed, Login!TypeOK, LoginDataOK
<1>5. Given'
  <2>1. \A a \in Accounts : login_keychain'[a] # None => login_keychain'[a].n <= login_issued'
    BY <1>4 DEF LoginIInv, Tidy, Given, Login!TypeOK, Login!Keys, LaunchFits, Login!Tokens
  <2>2. \A l \in Logins : login_logins'[l].pc \in Carrying => login_logins'[l].token.n <= login_issued'
    BY <1>4 DEF LoginIInv, LoginNamed, LoginFits, Tidy, Given, Login!Tokens
  <2>3. \A y \in Launches : login_launches'[y].pc \in {"exchange", "keep"} => login_launches'[y].read.n <= login_issued'
    BY <1>1, <1>4 DEF LoginIInv, Tidy, Given, LoginNamed, LaunchFits, Login!Tokens, LoginDataOK
  <2>4. \A y \in Launches : login_launches'[y].pc = "keep" => login_launches'[y].token.n <= login_issued'
    BY <1>1, <1>4 DEF LoginIInv, Tidy, Given, LoginNamed, LaunchFits, Login!Tokens
  <2>5. \A t \in login_spent' : t.n <= login_issued'
    BY <1>4 DEF LoginIInv, Tidy, Given, LaunchFits, Login!Tokens
  <2> QED BY <2>1, <2>2, <2>3, <2>4, <2>5 DEF Given
\* A token in other hands is not touched; one just given is in no hands.
<1>6. ASSUME NEW t, Free(t), login_launches[x].pc = "keep" => t # login_launches[x].token
      PROVE  Free(t)'
  BY <1>1, <1>4, <1>6 DEF Free, LaunchFits
<1>7. ASSUME r.pc = "keep" PROVE Free(r.token)'
  <2>1. r.token \notin login_spent'
    <3>1. \A t \in login_spent' : t.n <= login_issued
      BY <1>4 DEF LoginIInv, Tidy, Given, LaunchFits
    <3> QED BY <1>4, <1>7, <3>1
  <2>2. \A a \in Accounts : login_keychain'[a] # r.token
    BY <1>4, <1>7 DEF LoginIInv, Tidy, Given, LoginDataOK, LaunchFits
  <2>3. \A y \in Launches : login_launches'[y].pc \in {"exchange", "keep"} => login_launches'[y].read # r.token
    BY <1>1, <1>4, <1>7 DEF LoginIInv, Tidy, Given
  <2> QED BY <2>1, <2>2, <2>3 DEF Free
<1>8. Apart'
  <2>1. ASSUME NEW l \in Logins, login_logins[l].pc \in Carrying
        PROVE  /\ Free(login_logins[l].token)'
               /\ \A m \in Logins \ {l} : login_logins[m].pc \in Carrying => login_logins[m].token # login_logins[l].token
               /\ \A y \in Launches : login_launches'[y].pc = "keep" => login_launches'[y].token # login_logins[l].token
    <3>1. PICK t : t = login_logins[l].token
      OBVIOUS
    <3>2. /\ Free(t) /\ t.n <= login_issued
          /\ \A m \in Logins \ {l} : login_logins[m].pc \in Carrying => login_logins[m].token # t
          /\ \A y \in Launches : login_launches[y].pc = "keep" => login_launches[y].token # t
      BY <2>1, <3>1 DEF LoginIInv, Tidy, Apart, Given
    <3>3. Free(t)'
      BY <1>6, <3>2
    <3>4. \A y \in Launches : login_launches'[y].pc = "keep" => login_launches'[y].token # t
      BY <1>1, <1>4, <3>2
    <3>5. Free(login_logins[l].token)'
      BY <3>1, <3>3 DEF Free
    <3> QED BY <3>1, <3>2, <3>4, <3>5
  <2>2. ASSUME NEW y \in Launches, login_launches'[y].pc = "keep"
        PROVE  /\ Free(login_launches[y].token)'
               /\ \A z \in Launches \ {y} : login_launches'[z].pc = "keep" => login_launches'[z].token # login_launches'[y].token
    <3>1. CASE y = x
      BY <1>1, <1>4, <1>7, <2>2, <3>1 DEF Free, LoginIInv, Tidy, Given
    <3>2. CASE y # x
      <4>1. PICK t : t = login_launches[y].token /\ login_launches'[y] = login_launches[y] /\ login_launches[y].pc = "keep"
        BY <1>1, <2>2, <3>2
      <4>2. /\ Free(t) /\ t.n <= login_issued
            /\ \A z \in Launches \ {y} : login_launches[z].pc = "keep" => login_launches[z].token # t
        BY <4>1 DEF LoginIInv, Tidy, Apart, Given
      <4>3. Free(t)'
        BY <1>6, <3>2, <4>1, <4>2
      <4> QED BY <1>1, <1>4, <4>1, <4>2, <4>3 DEF Free
    <3> QED BY <3>1, <3>2
  <2> QED BY <2>1, <2>2 DEF Apart
<1>9. Replaced'
  <2> SUFFICES ASSUME NEW a \in Accounts, login_keychain'[a] \in login_spent'
               PROVE  \E y \in Launches : /\ login_launches'[y].pc = "keep" /\ login_launches'[y].account = a
                                           /\ login_launches'[y].read = login_keychain'[a]
    BY DEF Replaced
  <2>1. CASE login_keychain'[a] = login_launches[x].token /\ login_launches[x].pc = "keep"
    BY <2>1 DEF LoginIInv, Tidy, Apart, Free
  <2>2. CASE login_keychain'[a] = login_keychain[a] /\ login_keychain[a] \in login_spent
    <3>1. PICK y \in Launches : /\ login_launches[y].pc = "keep" /\ login_launches[y].account = a
                                /\ login_launches[y].read = login_keychain[a]
      BY <2>2 DEF LoginIInv, Tidy, Replaced
    <3>2. y # x
      BY <2>2, <3>1 DEF LoginIInv, Tidy, Apart, Free
    <3> QED BY <1>1, <2>2, <3>1, <3>2
  <2>3. CASE login_keychain'[a] = login_keychain[a] /\ r.pc = "keep" /\ login_launches[x].pc = "exchange" /\ login_keychain[a] = login_launches[x].read
    <3>1. r.read = login_launches[x].read /\ r.account = r.read.of
      BY <2>3 DEF LaunchFits
    <3>2. login_keychain[a].of = a
      BY <1>4, <2>3 DEF LoginIInv, Tidy, Login!TokensAreOwn, LaunchFits, LoginDataOK
    <3> QED BY <1>1, <2>3, <3>1, <3>2
  <2> QED BY <2>1, <2>2, <2>3
<1>10. Login!TokensAreOwn'
  BY <1>4 DEF LoginIInv, Tidy, Login!TokensAreOwn, LaunchFits
<1>11. HaveTokens'
  <2>1. \A a \in Accounts : (login_keychain[a] # None \/ a \in login_crossed) => (login_keychain'[a] # None \/ a \in login_crossed')
    BY <1>4 DEF LoginDataOK, LaunchFits
  <2>2. \A l \in Logins : login_logins[l].pc \in Keeping => login_logins[l].account \in Accounts
    BY DEF LoginIInv, LoginNamed, LoginFits, Keeping
  <2>3. login_core \subseteq Accounts
    BY DEF LoginIInv, Login!TypeOK
  <2> QED BY <2>1, <2>2, <2>3 DEF LoginIInv, Tidy, HaveTokens
<1>12. Login!CancelledStaysClosed'
  BY DEF LoginIInv, Login!CancelledStaysClosed
<1> QED BY <1>2, <1>3, <1>5, <1>8, <1>9, <1>10, <1>11, <1>12 DEF LoginIInv, Tidy

\* The removal and the choice of an account.
LEMMA AccountStep ==
  ASSUME LoginDataOK, LoginIInv, UNCHANGED <<login_cancelled, login_ref, login_dialog, login_logins, login_launches, login_issued, login_spent>>,
         login_keychain' \in [Login!Keys -> Login!Tokens \cup {None}], login_core' \subseteq login_core,
         login_active' \in Accounts \cup {None}, login_crossed' \in SUBSET Accounts, login_removal' \in Removals,
         login_removal'.pc # "idle" => login_removal'.account \in Accounts,
         \A a \in Accounts : \/ login_keychain'[a] = login_keychain[a]
                             \/ login_keychain'[a] = None /\ (Login!LoggedIn(a) => a \in login_crossed'),
         \A a \in Accounts : a \in login_crossed => a \in login_crossed'
  PROVE  LoginIInv'
<1>1. Login!TypeOK'
  BY DEF LoginIInv, Login!TypeOK, Removals
<1>2. LoginNamed' /\ Login!CancelledStaysClosed'
  BY DEF LoginIInv, LoginNamed, Login!CancelledStaysClosed
<1>3. login_spent \subseteq Login!Tokens /\ login_core \subseteq Accounts
  BY DEF LoginIInv, Login!TypeOK
<1>4. Given' /\ Login!TokensAreOwn'
  BY DEF LoginIInv, Tidy, Given, Login!TokensAreOwn
<1>5. ASSUME NEW t \in Login!Tokens, Free(t) PROVE Free(t)'
  BY <1>5 DEF Free, LoginDataOK
<1>6. \A l \in Logins : login_logins[l].pc \in Carrying => Free(login_logins[l].token)'
  BY <1>5 DEF LoginIInv, Tidy, Apart, LoginNamed, LoginFits, Free
<1>7. \A x \in Launches : login_launches[x].pc = "keep" => Free(login_launches[x].token)'
  BY <1>5 DEF LoginIInv, Tidy, Apart, LoginNamed, LaunchFits, Free
<1>8. Apart'
  BY <1>6, <1>7 DEF LoginIInv, Tidy, Apart
<1>9. Replaced'
  BY <1>3 DEF LoginIInv, Tidy, Replaced, LoginDataOK
<1>10. HaveTokens'
  <2>1. \A l \in Logins : login_logins[l].pc \in Keeping => login_logins[l].account \in Accounts
    BY DEF LoginIInv, LoginNamed, LoginFits, Keeping
  <2>2. \A l \in Logins : login_logins[l].pc \in Keeping =>
          login_keychain'[login_logins[l].account] # None \/ login_logins[l].account \in login_crossed'
    BY <2>1 DEF LoginIInv, Tidy, HaveTokens, Login!LoggedIn, Keeping
  <2>3. \A a \in login_core' : login_keychain'[a] # None \/ a \in login_crossed'
    BY <1>3 DEF LoginIInv, Tidy, HaveTokens, Login!LoggedIn
  <2> QED BY <2>2, <2>3 DEF HaveTokens
<1> QED BY <1>1, <1>2, <1>4, <1>8, <1>9, <1>10 DEF LoginIInv, Tidy

(* The steps of the login.                                                 *)

LEMMA LoginState ==
  ASSUME LoginIInv, NEW l \in Logins
  PROVE  /\ login_logins[l] \in LoginStates /\ LoginFits(login_logins[l])
         /\ \A pc \in LoginSteps :
              /\ [login_logins[l] EXCEPT !.pc = pc] \in LoginStates
              /\ [login_logins[l] EXCEPT !.pc = pc].pc = pc
              /\ [login_logins[l] EXCEPT !.pc = pc].account = login_logins[l].account
              /\ [login_logins[l] EXCEPT !.pc = pc].token = login_logins[l].token
<1>1. login_logins[l] \in LoginStates
  BY LoginTypes DEF LoginIInv
<1>2. \A pc \in LoginSteps : [login_logins[l] EXCEPT !.pc = pc] \in LoginStates
  BY <1>1 DEF LoginStates
<1> QED BY <1>1, <1>2 DEF LoginStates, LoginIInv, LoginNamed

LEMMA SetTypes ==
  ASSUME Login!TypeOK, NEW key \in Login!Keys, NEW t \in Login!Tokens \cup {None}, Login!Set(key, t)
  PROVE  /\ login_keychain' \in [Login!Keys -> Login!Tokens \cup {None}] /\ login_crossed' \in SUBSET Accounts
         /\ login_keychain'[key] = t /\ \A k \in Login!Keys \ {key} : login_keychain'[k] = login_keychain[k]
         /\ \A a \in Accounts : a \in login_crossed => (a \in login_crossed' \/ a = key)
BY DEF Login!Set, Login!TypeOK

\* Everything of the accounts is left as it is.
LEMMA StillTypes ==
  ASSUME LoginIInv
  PROVE  /\ login_cancelled \in BOOLEAN /\ login_ref \in Logins \cup {None} /\ login_dialog \in BOOLEAN
         /\ login_keychain \in [Login!Keys -> Login!Tokens \cup {None}] /\ login_issued \in 0 .. MaxTokens
         /\ login_spent \in SUBSET Login!Tokens /\ login_core \in SUBSET Accounts
         /\ login_active \in Accounts \cup {None} /\ login_crossed \in SUBSET Accounts
         /\ login_removal \in Removals /\ (login_removal.pc # "idle" => login_removal.account \in Accounts)
BY LoginTypes DEF LoginIInv, LoginNamed

\* What a loop does after an await, and how it ends.
LEMMA LoopStep ==
  ASSUME LoginDataOK, LoginIInv, NEW l \in Logins, NEW pc \in LoginSteps, NEW shows \in {TRUE, login_dialog},
         \/ Login!Ends(l) /\ (login_dialog' = login_dialog \/ login_dialog' = IF login_cancelled THEN login_dialog ELSE shows)
         \/ Login!Continue(l, pc, shows)
         \/ Login!Goes(l, pc) /\ login_dialog' = login_dialog,
         pc \in Carrying => login_logins[l].pc \in Carrying,
         pc \in Keeping => /\ login_logins[l].pc \in Keeping \/ login_logins[l].pc = "token"
                           /\ login_logins[l].pc = "token" => login_keychain'[login_logins[l].account] = login_logins[l].token,
         pc # "token",
         UNCHANGED <<login_cancelled, login_launches, login_removal, login_core, login_active, login_spent, login_issued>>,
         login_keychain' \in [Login!Keys -> Login!Tokens \cup {None}], login_crossed' \in SUBSET Accounts,
         \A a \in Accounts : \/ login_keychain'[a] = login_keychain[a]
                             \/ /\ a = login_logins[l].account /\ login_keychain'[a] = login_logins[l].token
                                /\ login_logins[l].pc = "token" /\ pc \in Keeping /\ Login!Goes(l, pc),
         \A a \in Accounts : a \in login_crossed => (a \in login_crossed' \/ login_keychain'[a] # None)
  PROVE  LoginIInv'
<1>0. LoginFits(login_logins[l])
  BY LoginState
<1>1. login_issued <= login_issued' /\ \A a \in login_core' \ login_core : FALSE
  BY StillTypes DEF LoginDataOK
<1>2. login_ref' \in Logins \cup {None}
  BY StillTypes DEF Login!Ends, Login!Goes, Login!Continue
<1>3. login_dialog' \in BOOLEAN
  BY StillTypes DEF Login!Ends, Login!Goes, Login!Continue
<1>4. login_cancelled' => ~login_dialog'
  BY DEF LoginIInv, Login!Ends, Login!Goes, Login!Continue, Login!CancelledStaysClosed
<1>5. login_cancelled' \in BOOLEAN
  BY StillTypes
<1>6. login_issued' \in 0 .. MaxTokens /\ login_core' \in SUBSET Accounts /\ login_active' \in Accounts \cup {None}
  BY StillTypes
<1>7. CASE Login!Ends(l)
  <2>1. login_logins' = [login_logins EXCEPT ![l] = Login!Idle] /\ LoginFits(Login!Idle)
        /\ Login!Idle.pc \notin Carrying /\ Login!Idle.pc \notin Keeping
    BY <1>7, IdleTypes DEF Login!Ends, LoginFits, Carrying, Keeping
  <2> QED BY <1>1, <1>2, <1>3, <1>4, <1>5, <1>6, <2>1, IdleTypes, LoginStep
<1>8. CASE Login!Goes(l, pc)
  <2> DEFINE r == [login_logins[l] EXCEPT !.pc = pc]
  <2>1. login_logins' = [login_logins EXCEPT ![l] = r]
    BY <1>8 DEF Login!Goes
  <2>2. r \in LoginStates /\ r.pc = pc /\ r.account = login_logins[l].account /\ r.token = login_logins[l].token
    BY LoginState
  <2> HIDE DEF r
  <2>3. LoginFits(r)
    BY <1>0, <2>2 DEF LoginFits, Carrying, Keeping
  <2>4. r.pc \in Keeping => (login_logins[l].pc \in Keeping /\ r.account = login_logins[l].account)
                            \/ login_keychain'[r.account] # None
    BY <1>0, <2>2 DEF LoginFits, Carrying, LoginDataOK
  <2>5. \A a \in Accounts : \/ login_keychain'[a] = login_keychain[a]
                            \/ /\ a = login_logins[l].account /\ login_keychain'[a] = login_logins[l].token
                               /\ login_logins[l].pc = "token" /\ r.pc \notin Carrying
    BY <2>2 DEF Carrying, Keeping
  <2> QED BY <1>1, <1>2, <1>3, <1>4, <1>5, <1>6, <2>1, <2>2, <2>3, <2>4, <2>5, LoginStep
<1> QED BY <1>7, <1>8 DEF Login!Continue

LEMMA LoginStartInv == ASSUME LoginDataOK, LoginIInv, NEW l \in Logins, Login!Start(l) PROVE LoginIInv'
<1> DEFINE r == [Login!Idle EXCEPT !.pc = "open"]
<1>1. r \in LoginStates /\ r.pc = "open"
  BY IdleTypes DEF LoginStates, LoginSteps
<1>2. login_logins' = [login_logins EXCEPT ![l] = r] /\ login_cancelled' = FALSE /\ login_dialog' = TRUE
      /\ UNCHANGED <<login_ref, login_keychain, login_issued, login_crossed, login_launches, login_removal, login_core, login_active, login_spent>>
  BY DEF Login!Start, Login!stable, Login!kept
<1> HIDE DEF r
<1>3. LoginFits(r) /\ r.pc \notin Carrying /\ r.pc \notin Keeping
  BY <1>1 DEF LoginFits, Carrying, Keeping
<1>4. login_cancelled' \in BOOLEAN
  BY <1>2
<1>5. login_dialog' \in BOOLEAN
  BY <1>2
<1>6. login_issued <= login_issued'
  BY <1>2, StillTypes DEF LoginDataOK
<1> QED BY <1>1, <1>2, <1>3, <1>4, <1>5, <1>6, StillTypes, LoginStep

LEMMA LoginCancelInv == ASSUME LoginDataOK, LoginIInv, Login!Cancel PROVE LoginIInv'
<1>1. \A l \in Logins : login_logins[l] \in LoginStates /\ [login_logins[l] EXCEPT !.closed = TRUE] \in LoginStates
  BY LoginTypes DEF LoginIInv, LoginStates
<1>2. login_logins' \in [Logins -> LoginStates]
  BY <1>1 DEF Login!Cancel
<1>3. \A l \in Logins : /\ login_logins'[l].pc = login_logins[l].pc /\ login_logins'[l].account = login_logins[l].account
                        /\ login_logins'[l].token = login_logins[l].token
  BY <1>1 DEF Login!Cancel, LoginStates
<1>4. login_cancelled' = TRUE /\ login_ref' = None /\ login_dialog' = FALSE
      /\ UNCHANGED <<login_keychain, login_issued, login_crossed, login_launches, login_removal, login_core, login_active, login_spent>>
  BY DEF Login!Cancel, Login!stable, Login!kept
<1>5. login_cancelled' \in BOOLEAN
  BY <1>4
<1>6. login_dialog' \in BOOLEAN
  BY <1>4
<1>7. Login!TypeOK'
  BY <1>2, <1>4, <1>5, <1>6 DEF LoginIInv, Login!TypeOK, LoginStates, LoginSteps
<1>8. LoginNamed'
  BY <1>3, <1>4 DEF LoginIInv, LoginNamed, LoginFits
<1>9. Given' /\ Replaced' /\ Login!TokensAreOwn'
  BY <1>3, <1>4 DEF LoginIInv, Tidy, Given, Replaced, Login!TokensAreOwn
<1>10. Apart'
  BY <1>3, <1>4 DEF LoginIInv, Tidy, Apart, Free
<1>11. HaveTokens' /\ Login!CancelledStaysClosed'
  BY <1>3, <1>4 DEF LoginIInv, Tidy, HaveTokens, Login!CancelledStaysClosed
<1> QED BY <1>7, <1>8, <1>9, <1>10, <1>11 DEF LoginIInv, Tidy

LEMMA LoginOpenedInv == ASSUME LoginDataOK, LoginIInv, NEW l \in Logins, Login!Opened(l) PROVE LoginIInv'
<1>1. UNCHANGED <<login_cancelled, login_dialog, login_keychain, login_issued, login_crossed, login_launches, login_removal, login_core, login_active, login_spent>>
  BY DEF Login!Opened, Login!stable, Login!kept
<1>2. CASE Login!Ends(l)
  <2>1. UNCHANGED login_dialog /\ "open" \in LoginSteps /\ "open" \notin Carrying /\ "open" \notin Keeping
    BY <1>1 DEF LoginSteps, Carrying, Keeping
  <2> QED BY <1>1, <1>2, <2>1, StillTypes, LoopStep
<1>3. CASE login_ref' = l /\ login_logins' = [login_logins EXCEPT ![l].pc = "begin"]
  <2> DEFINE r == [login_logins[l] EXCEPT !.pc = "begin"]
  <2>1. r \in LoginStates /\ r.pc = "begin"
    BY LoginState DEF LoginSteps
  <2>2. login_logins' = [login_logins EXCEPT ![l] = r]
    BY <1>3
  <2> HIDE DEF r
  <2>3. LoginFits(r) /\ r.pc \notin Carrying /\ r.pc \notin Keeping
    BY <2>1 DEF LoginFits, Carrying, Keeping
  <2>4. (login_cancelled' => ~login_dialog') /\ login_issued <= login_issued' /\ login_ref' \in Logins \cup {None}
    BY <1>1, <1>3, StillTypes DEF LoginIInv, Login!CancelledStaysClosed, LoginDataOK
  <2> QED BY <1>1, <2>1, <2>2, <2>3, <2>4, StillTypes, LoginStep
<1> QED BY <1>2, <1>3 DEF Login!Opened

\* Steps in which the loop only goes on, or ends.
LEMMA GoesOnInv ==
  ASSUME LoginDataOK, LoginIInv, NEW l \in Logins,
         Login!Begun(l) \/ Login!Slept(l) \/ Login!PollAgain(l) \/ Login!ExchangeAgain(l) \/ Login!Fails(l)
  PROVE  LoginIInv'
<1>1. UNCHANGED <<login_cancelled, login_keychain, login_issued, login_crossed, login_launches, login_removal, login_core, login_active, login_spent>>
  BY DEF Login!Begun, Login!Slept, Login!PollAgain, Login!ExchangeAgain, Login!Fails, Login!stable,
     Login!kept
<1>2. /\ login_keychain' \in [Login!Keys -> Login!Tokens \cup {None}] /\ login_crossed' \in SUBSET Accounts
      /\ \A a \in Accounts : a \in login_crossed => (a \in login_crossed' \/ login_keychain'[a] # None)
  BY <1>1, StillTypes
<1>3. \A pc \in {"sleep", "poll"} : pc \in LoginSteps \ {"token"} /\ pc \notin Carrying /\ pc \notin Keeping
  BY DEF LoginSteps, Carrying, Keeping
<1>4. CASE Login!Begun(l) \/ Login!Slept(l) \/ Login!PollAgain(l)
  <2>1. \/ Login!Continue(l, "sleep", TRUE) \/ Login!Continue(l, "poll", login_dialog)
        \/ Login!Goes(l, "sleep") /\ login_dialog' = login_dialog
    BY <1>4 DEF Login!Begun, Login!Slept, Login!PollAgain
  <2> QED BY <1>1, <1>2, <1>3, <2>1, LoopStep
<1>5. CASE Login!ExchangeAgain(l)
  <2>1. Login!Goes(l, "retry") /\ login_dialog' = login_dialog /\ login_logins[l].pc \in Carrying
        /\ "retry" \in LoginSteps \ {"token"} /\ "retry" \notin Keeping
    BY <1>5 DEF Login!ExchangeAgain, LoginSteps, Carrying, Keeping
  <2> QED BY <1>1, <1>2, <2>1, LoopStep
<1>6. CASE Login!Fails(l)
  <2>1. Login!Ends(l) /\ login_dialog' = IF login_cancelled THEN login_dialog ELSE TRUE
    BY <1>6 DEF Login!Fails
  <2> QED BY <1>1, <1>2, <1>3, <2>1, LoopStep
<1> QED BY <1>4, <1>5, <1>6

LEMMA IssueNext ==
  ASSUME LoginDataOK, LoginIInv, Login!Issue
  PROVE  login_issued' = login_issued + 1 /\ login_issued' \in 0 .. MaxTokens /\ login_issued' \in 1 .. MaxTokens /\ login_issued <= login_issued'
BY StillTypes DEF LoginDataOK, Login!Issue

LEMMA ApprovedInv ==
  ASSUME LoginDataOK, LoginIInv, NEW l \in Logins, NEW a \in Accounts, Login!Approved(l, a)
  PROVE  LoginIInv'
<1>1. PICK t : t = [of |-> a, n |-> login_issued + 1]
  OBVIOUS
<1>2. t \in Login!Tokens /\ t.n = login_issued + 1
  BY <1>1, IssueNext DEF Login!Approved, Login!Tokens
<1> DEFINE r == [login_logins[l] EXCEPT !.pc = "keep", !.token = t]
<1>3. login_logins[l] \in LoginStates
  BY LoginState
<1>4. r \in LoginStates /\ r.pc = "keep" /\ r.token = t
  BY <1>2, <1>3 DEF LoginStates, LoginSteps
<1>5. login_logins' = [login_logins EXCEPT ![l] = r]
      /\ UNCHANGED <<login_cancelled, login_ref, login_dialog, login_keychain, login_crossed, login_launches, login_removal, login_core, login_active, login_spent>>
  BY <1>1, IssueNext DEF Login!Approved, Login!stable
<1> HIDE DEF r
<1>6. LoginFits(r) /\ r.pc \notin Keeping
  BY <1>2, <1>4 DEF LoginFits, Carrying, Keeping
<1>7. login_cancelled' => ~login_dialog'
  BY <1>5 DEF LoginIInv, Login!CancelledStaysClosed
<1>8. r.pc \in Carrying => login_issued' = login_issued + 1 /\ r.token.n = login_issued + 1
  BY <1>2, <1>4, IssueNext DEF Login!Approved
<1>9. login_issued' \in 0 .. MaxTokens /\ login_issued <= login_issued'
  BY IssueNext DEF Login!Approved
<1> QED BY <1>4, <1>5, <1>6, <1>7, <1>8, <1>9, StillTypes, LoginStep

LEMMA ExchangedInv == ASSUME LoginDataOK, LoginIInv, NEW l \in Logins, Login!Exchanged(l) PROVE LoginIInv'
<1>1. UNCHANGED <<login_cancelled, login_dialog, login_keychain, login_issued, login_crossed, login_launches, login_removal, login_core, login_active, login_spent>>
  BY DEF Login!Exchanged, Login!stable, Login!kept
<1>2. CASE Login!Ends(l)
  <2>1. "open" \in LoginSteps /\ "open" \notin Carrying /\ "open" \notin Keeping /\ UNCHANGED login_dialog
    BY <1>1 DEF LoginSteps, Carrying, Keeping
  <2> QED BY <1>1, <1>2, <2>1, StillTypes, LoopStep
<1>3. CASE login_logins' = [login_logins EXCEPT ![l].pc = "token", ![l].account = login_logins[l].token.of] /\ login_ref' = login_ref
  <2>1. login_logins[l] \in LoginStates /\ login_logins[l].token \in Login!Tokens /\ login_logins[l].pc \in Carrying
    BY LoginState DEF Login!Exchanged, LoginFits, Carrying
  <2>2. PICK a \in Accounts : a = login_logins[l].token.of
    BY <2>1 DEF Login!Tokens
  <2> DEFINE r == [login_logins[l] EXCEPT !.pc = "token", !.account = a]
  <2>3. r \in LoginStates /\ r.pc = "token" /\ r.account = a /\ r.token = login_logins[l].token
    BY <2>1 DEF LoginStates, LoginSteps
  <2>4. login_logins' = [login_logins EXCEPT ![l] = r]
    BY <1>3, <2>2
  <2> HIDE DEF r
  <2>5. LoginFits(r) /\ r.pc \notin Keeping
    BY <2>1, <2>2, <2>3 DEF LoginFits, Keeping
  <2>6. (login_cancelled' => ~login_dialog') /\ login_issued <= login_issued' /\ login_ref' \in Logins \cup {None}
    BY <1>1, <1>3, StillTypes DEF LoginIInv, Login!CancelledStaysClosed, LoginDataOK
  <2> QED BY <1>1, <2>1, <2>3, <2>4, <2>5, <2>6, StillTypes, LoginStep
<1> QED BY <1>2, <1>3 DEF Login!Exchanged

\* Steps that write the keychain.
LEMMA KeepInv ==
  ASSUME LoginDataOK, LoginIInv, NEW l \in Logins, Login!KeepPending(l) \/ Login!SaveToken(l) \/ Login!ClearPending(l)
  PROVE  LoginIInv'
<1>1. UNCHANGED <<login_cancelled, login_issued, login_launches, login_removal, login_core, login_active, login_spent>>
  BY DEF Login!KeepPending, Login!SaveToken, Login!ClearPending, Login!stable
<1>2. Login!TypeOK /\ "pending" \in Login!Keys /\ LoginFits(login_logins[l]) /\ \A a \in Accounts : a \in Login!Keys /\ a # "pending"
  BY LoginState DEF Login!Keys, LoginDataOK, LoginIInv
<1>3. ASSUME NEW t \in Login!Tokens \cup {None}, Login!Set("pending", t)
      PROVE  /\ login_keychain' \in [Login!Keys -> Login!Tokens \cup {None}] /\ login_crossed' \in SUBSET Accounts
             /\ \A a \in Accounts : login_keychain'[a] = login_keychain[a] /\ (a \in login_crossed => a \in login_crossed')
  BY <1>2, <1>3, SetTypes
<1>4. CASE Login!KeepPending(l)
  <2>1. Login!Set("pending", login_logins[l].token) /\ Login!Continue(l, "exchange", TRUE) /\ login_logins[l].pc = "keep"
    BY <1>4 DEF Login!KeepPending
  <2>2. PICK t \in Login!Tokens : t = login_logins[l].token
    BY <1>2, <2>1 DEF LoginFits, Carrying
  <2>3. /\ login_keychain' \in [Login!Keys -> Login!Tokens \cup {None}] /\ login_crossed' \in SUBSET Accounts
        /\ \A a \in Accounts : login_keychain'[a] = login_keychain[a] /\ (a \in login_crossed => a \in login_crossed')
    BY <1>3, <2>1, <2>2
  <2>4. "exchange" \in LoginSteps \ {"token"} /\ login_logins[l].pc \in Carrying /\ "exchange" \notin Keeping
    BY <2>1 DEF LoginSteps, Carrying, Keeping
  <2> QED BY <1>1, <2>1, <2>3, <2>4, LoopStep
<1>5. CASE Login!SaveToken(l)
  <2>1. /\ Login!Set(login_logins[l].account, login_logins[l].token) /\ Login!Goes(l, "clear") /\ login_dialog' = login_dialog
        /\ login_logins[l].pc = "token"
    BY <1>5 DEF Login!SaveToken
  <2>2. login_logins[l].account \in Accounts /\ login_logins[l].token \in Login!Tokens
    BY <1>2, <2>1 DEF LoginFits, Carrying
  <2>3. PICK b \in Accounts, t \in Login!Tokens : b = login_logins[l].account /\ t = login_logins[l].token
    BY <2>2
  <2>4. Login!Set(b, t) /\ b \in Login!Keys
    BY <1>2, <2>1, <2>3
  <2>5. /\ login_keychain' \in [Login!Keys -> Login!Tokens \cup {None}] /\ login_crossed' \in SUBSET Accounts
        /\ login_keychain'[b] = t /\ \A k \in Login!Keys \ {b} : login_keychain'[k] = login_keychain[k]
        /\ \A a \in Accounts : a \in login_crossed => (a \in login_crossed' \/ a = b)
    BY <1>2, <2>4, SetTypes
  <2>6. /\ \A a \in Accounts : login_keychain'[a] = login_keychain[a] \/ (a = b /\ login_keychain'[a] = t)
        /\ \A a \in Accounts : a \in login_crossed => (a \in login_crossed' \/ login_keychain'[a] # None)
    BY <1>2, <2>5 DEF LoginDataOK
  <2>7. "clear" \in LoginSteps \ {"token"} /\ "clear" \in Keeping /\ "clear" \notin Carrying
    BY DEF LoginSteps, Carrying, Keeping
  <2> QED BY <1>1, <2>1, <2>3, <2>5, <2>6, <2>7, LoopStep
<1>6. CASE Login!ClearPending(l)
  <2>1. Login!Set("pending", None) /\ Login!Goes(l, "account") /\ login_dialog' = login_dialog /\ login_logins[l].pc = "clear"
    BY <1>6 DEF Login!ClearPending
  <2>2. /\ login_keychain' \in [Login!Keys -> Login!Tokens \cup {None}] /\ login_crossed' \in SUBSET Accounts
        /\ \A a \in Accounts : login_keychain'[a] = login_keychain[a] /\ (a \in login_crossed => a \in login_crossed')
    BY <1>3, <2>1
  <2>3. "account" \in LoginSteps \ {"token"} /\ login_logins[l].pc \in Keeping /\ "account" \notin Carrying
    BY <2>1 DEF LoginSteps, Carrying, Keeping
  <2> QED BY <1>1, <2>1, <2>2, <2>3, LoopStep
<1> QED BY <1>4, <1>5, <1>6

LEMMA SaveAccountInv == ASSUME LoginDataOK, LoginIInv, NEW l \in Logins, Login!SaveAccount(l) PROVE LoginIInv'
<1>1. login_core' = login_core \cup {login_logins[l].account} /\ login_active' = login_logins[l].account /\ Login!Ends(l)
      /\ login_dialog' = (login_dialog /\ login_cancelled) /\ login_logins[l].pc = "account"
      /\ UNCHANGED <<login_cancelled, login_launches, login_removal, login_keychain, login_issued, login_crossed, login_spent>>
  BY DEF Login!SaveAccount, Login!kept
<1>2. login_logins[l].account \in Accounts
  BY <1>1, LoginState DEF LoginFits
<1>3. login_logins' = [login_logins EXCEPT ![l] = Login!Idle] /\ login_ref' = None /\ LoginFits(Login!Idle)
      /\ Login!Idle.pc \notin Carrying /\ Login!Idle.pc \notin Keeping
  BY <1>1, IdleTypes DEF Login!Ends, LoginFits, Carrying, Keeping
<1>4. login_dialog' \in BOOLEAN
  BY <1>1
<1>5. (login_cancelled' => ~login_dialog') /\ login_issued <= login_issued'
  BY <1>1, StillTypes DEF LoginIInv, Login!CancelledStaysClosed, LoginDataOK
<1>6. login_core' \in SUBSET Accounts /\ login_active' \in Accounts \cup {None}
  BY <1>1, <1>2, StillTypes
<1> QED BY <1>1, <1>3, <1>4, <1>5, <1>6, IdleTypes, StillTypes, LoginStep

(* The accounts, the launches, a restart.                                  *)

LEMMA AccountsInv ==
  ASSUME LoginDataOK, LoginIInv,
         \/ Login!RemoveAccount \/ Login!RemoveToken \/ Login!RemovalFails
         \/ \E a \in Accounts : Login!Remove(a)
         \/ \E a \in login_core \cup {None} : Login!Choose(a)
  PROVE  LoginIInv'
<1>1. /\ login_removal \in Removals /\ (login_removal.pc # "idle" => login_removal.account \in Accounts)
      /\ login_keychain \in [Login!Keys -> Login!Tokens \cup {None}] /\ login_core \subseteq Accounts
      /\ login_active \in Accounts \cup {None} /\ login_crossed \subseteq Accounts
  BY StillTypes
<1>2. CASE Login!RemoveAccount
  <2>1. login_removal'.pc = "keychain" /\ login_removal'.account = login_removal.account /\ login_removal' \in Removals
    BY <1>1, <1>2 DEF Login!RemoveAccount, Removals
  <2> QED BY <1>1, <1>2, <2>1, AccountStep DEF Login!RemoveAccount, Login!login, Login!kept
<1>3. CASE Login!RemoveToken
  <2>1. /\ UNCHANGED <<login_cancelled, login_ref, login_dialog, login_logins, login_launches, login_issued, login_spent, login_core>>
        /\ login_removal' = Login!Rest /\ login_keychain' = [login_keychain EXCEPT ![login_removal.account] = None]
        /\ login_active' \in Accounts \cup {None} /\ login_removal.account \in Accounts
        /\ login_crossed' = login_crossed \cup {a \in {login_removal.account} : Login!LoggedIn(a)}
    BY <1>1, <1>3 DEF Login!RemoveToken, Login!login
  <2>2. login_keychain' \in [Login!Keys -> Login!Tokens \cup {None}]
        /\ \A a \in Accounts : login_keychain'[a] = login_keychain[a] \/ (a = login_removal.account /\ login_keychain'[a] = None)
    BY <1>1, <2>1 DEF Login!Keys
  <2>3. login_crossed' \in SUBSET Accounts
    BY <1>1, <2>1
  <2>4. Login!LoggedIn(login_removal.account) => login_removal.account \in login_crossed'
    BY <2>1
  <2>5. \A a \in Accounts : \/ login_keychain'[a] = login_keychain[a]
                            \/ login_keychain'[a] = None /\ (Login!LoggedIn(a) => a \in login_crossed')
    BY <2>2, <2>4
  <2>6. \A a \in Accounts : a \in login_crossed => a \in login_crossed'
    BY <2>1
  <2> QED BY <2>1, <2>2, <2>3, <2>5, <2>6, IdleTypes, AccountStep
<1>4. CASE Login!RemovalFails
  BY <1>1, <1>4, IdleTypes, AccountStep DEF Login!RemovalFails, Login!login, Login!kept
<1>5. ASSUME NEW a \in Accounts, Login!Remove(a) PROVE LoginIInv'
  <2>1. login_removal'.pc = "core" /\ login_removal'.account = a /\ login_removal' \in Removals
    BY <1>5 DEF Login!Remove, Removals
  <2> QED BY <1>1, <1>5, <2>1, AccountStep DEF Login!Remove, Login!login, Login!kept
<1>6. ASSUME NEW a \in login_core \cup {None}, Login!Choose(a) PROVE LoginIInv'
  <2>1. login_active' \in Accounts \cup {None}
    BY <1>1, <1>6 DEF Login!Choose
  <2>2. UNCHANGED <<login_cancelled, login_ref, login_dialog, login_logins, login_launches, login_removal, login_keychain, login_core, login_issued, login_spent, login_crossed>>
    BY <1>6 DEF Login!Choose, Login!login, Login!kept
  <2> QED BY <1>1, <2>1, <2>2, AccountStep
<1> QED BY <1>2, <1>3, <1>4, <1>5, <1>6

LEMMA LaunchState ==
  ASSUME LoginIInv, NEW x \in Launches
  PROVE  login_launches[x] \in LaunchStates /\ LaunchFits(login_launches[x])
BY LoginTypes DEF LoginIInv, LoginNamed

LEMMA LaunchesInv ==
  ASSUME LoginDataOK, LoginIInv, NEW x \in Launches,
         Login!Launch(x) \/ Login!GetToken(x) \/ Login!Rotate(x) \/ Login!LaunchEnds(x) \/ Login!KeepRotated(x)
  PROVE  LoginIInv'
<1>1. login_launches[x] \in LaunchStates /\ LaunchFits(login_launches[x]) /\ login_issued <= login_issued
  BY LaunchState, StillTypes DEF LoginDataOK
<1>0. UNCHANGED <<login_cancelled, login_ref, login_dialog, login_logins, login_removal, login_core, login_active>>
  BY DEF Login!Launch, Login!GetToken, Login!Rotate, Login!LaunchEnds, Login!KeepRotated, Login!login,
     Login!accounts
<1>2. LaunchFits(Login!NoLaunch)
  BY IdleTypes DEF LaunchFits
<1>3. CASE Login!Launch(x)
  <2>1. login_active \in Accounts
    BY <1>3, StillTypes DEF Login!Launch
  <2> DEFINE r == [Login!NoLaunch EXCEPT !.pc = "get", !.account = login_active]
  <2>2. r \in LaunchStates /\ r.pc = "get" /\ r.account \in Accounts
    BY <2>1, IdleTypes DEF LaunchStates
  <2>3. login_launches' = [login_launches EXCEPT ![x] = r] /\ login_launches[x].pc = "idle"
        /\ UNCHANGED <<login_keychain, login_issued, login_crossed, login_spent>>
    BY <1>3 DEF Login!Launch, Login!kept
  <2> HIDE DEF r
  <2>4. LaunchFits(r)
    BY <2>2 DEF LaunchFits
  <2> QED BY <1>0, <1>1, <2>2, <2>3, <2>4, StillTypes, LaunchStep
<1>4. CASE Login!LaunchEnds(x)
  <2>1. login_launches' = [login_launches EXCEPT ![x] = Login!NoLaunch]
        /\ UNCHANGED <<login_keychain, login_issued, login_crossed>>
        /\ login_spent' \subseteq login_spent /\ (login_launches[x].pc = "keep" => login_launches[x].read \notin login_spent')
    BY <1>4 DEF Login!LaunchEnds, Login!Lost, Login!kept
  <2>2. login_spent' \in SUBSET Login!Tokens
    BY <2>1, StillTypes
  <2> QED BY <1>0, <1>1, <1>2, <2>1, <2>2, IdleTypes, StillTypes, LaunchStep
<1>5. CASE Login!GetToken(x)
  <2>1. login_launches[x].account \in Accounts /\ login_keychain[login_launches[x].account] \in Login!Tokens
    BY <1>1, <1>5, StillTypes DEF Login!GetToken, LaunchFits, Login!Keys
  <2>2. PICK t \in Login!Tokens : t = login_keychain[login_launches[x].account] /\ t.of = login_launches[x].account
    BY <2>1 DEF LoginIInv, Tidy, Login!TokensAreOwn, LoginDataOK
  <2> DEFINE r == [login_launches[x] EXCEPT !.pc = "exchange", !.read = t]
  <2>3. login_launches' = [login_launches EXCEPT ![x] = r] /\ login_launches[x].pc = "get"
        /\ UNCHANGED <<login_keychain, login_issued, login_crossed, login_spent>>
    BY <1>5, <2>2 DEF Login!GetToken, Login!kept
  <2>4. r \in LaunchStates /\ r.pc = "exchange" /\ r.account = login_launches[x].account /\ r.read = t
    BY <1>1 DEF LaunchStates
  <2> HIDE DEF r
  <2>5. LaunchFits(r)
    BY <2>1, <2>2, <2>4 DEF LaunchFits
  <2> QED BY <1>0, <1>1, <2>2, <2>3, <2>4, <2>5, StillTypes, LaunchStep
<1>6. CASE Login!Rotate(x)
  <2>1. login_launches[x].pc = "exchange" /\ login_launches[x].read \in Login!Tokens /\ login_launches[x].account \in Accounts
        /\ login_launches[x].read.of = login_launches[x].account
    BY <1>1, <1>6 DEF Login!Rotate, LaunchFits
  <2>2. PICK t : t = [of |-> login_launches[x].read.of, n |-> login_issued + 1]
    OBVIOUS
  <2>3. login_issued' = login_issued + 1 /\ login_issued' \in 0 .. MaxTokens /\ login_issued <= login_issued' /\ login_issued + 1 \in 1 .. MaxTokens
    BY <1>6, IssueNext DEF Login!Rotate
  <2>4. t \in Login!Tokens /\ t.n = login_issued + 1 /\ t.of = login_launches[x].account
    BY <2>1, <2>2, <2>3 DEF Login!Tokens
  <2> DEFINE r == [login_launches[x] EXCEPT !.pc = "keep", !.token = t]
  <2>5. login_launches' = [login_launches EXCEPT ![x] = r] /\ login_spent' = login_spent \cup {login_launches[x].read}
        /\ UNCHANGED <<login_keychain, login_crossed>>
    BY <1>6, <2>2, <2>3 DEF Login!Rotate
  <2>6. /\ r \in LaunchStates /\ r.pc = "keep" /\ r.account = login_launches[x].account
        /\ r.read = login_launches[x].read /\ r.token = t
    BY <1>1, <2>4 DEF LaunchStates
  <2> HIDE DEF r
  <2>7. LaunchFits(r)
    BY <2>1, <2>4, <2>6 DEF LaunchFits
  <2>8. login_spent' \in SUBSET Login!Tokens
    BY <2>1, <2>5, StillTypes
  <2> QED BY <1>0, <1>1, <2>1, <2>3, <2>4, <2>5, <2>6, <2>7, <2>8, StillTypes, LaunchStep
<1>7. CASE Login!KeepRotated(x)
  <2>1. login_launches[x].pc = "keep" /\ login_launches' = [login_launches EXCEPT ![x] = Login!NoLaunch]
        /\ Login!Set(login_launches[x].account, login_launches[x].token)
        /\ UNCHANGED <<login_issued, login_spent>>
    BY <1>7 DEF Login!KeepRotated, Login!Kept
  <2>2. PICK b \in Accounts, t \in Login!Tokens : b = login_launches[x].account /\ t = login_launches[x].token
    BY <1>1, <2>1 DEF LaunchFits
  <2>3. Login!Set(b, t) /\ b \in Login!Keys /\ Login!TypeOK
    BY <2>1, <2>2 DEF Login!Keys, LoginIInv
  <2>4. /\ login_keychain' \in [Login!Keys -> Login!Tokens \cup {None}] /\ login_crossed' \in SUBSET Accounts
        /\ login_keychain'[b] = t /\ \A k \in Login!Keys \ {b} : login_keychain'[k] = login_keychain[k]
        /\ \A a \in Accounts : a \in login_crossed => (a \in login_crossed' \/ a = b)
    BY <2>3, SetTypes
  <2>5. /\ \A a \in Accounts : login_keychain'[a] = login_keychain[a] \/ (a = b /\ login_keychain'[a] = t)
        /\ \A a \in Accounts : a \in login_crossed => (a \in login_crossed' \/ login_keychain'[a] # None)
    BY <2>4 DEF LoginDataOK, Login!Keys
  <2> QED BY <1>0, <1>1, <1>2, <2>1, <2>2, <2>4, <2>5, IdleTypes, StillTypes, LaunchStep
<1> QED BY <1>3, <1>4, <1>5, <1>6, <1>7

LEMMA LoginRestartInv == ASSUME LoginDataOK, LoginIInv, Login!Restart PROVE LoginIInv'
<1>1. login_logins' \in [Logins -> LoginStates] /\ login_launches' \in [Launches -> LaunchStates]
      /\ (\A l \in Logins : login_logins'[l].pc = "idle") /\ (\A x \in Launches : login_launches'[x].pc = "idle")
      /\ login_removal'.pc = "idle" /\ login_removal' \in Removals
      /\ login_ref' = None /\ UNCHANGED <<login_keychain, login_core, login_active, login_issued, login_crossed>>
  BY IdleTypes DEF Login!Restart, Login!Fresh, Login!kept
<1>2. login_spent' = login_spent \ Login!Lost(Launches) /\ login_spent' \in SUBSET Login!Tokens
  BY StillTypes DEF Login!Restart
<1>3. login_cancelled' \in BOOLEAN
  BY DEF Login!Restart, Login!Fresh
<1>4. login_dialog' \in BOOLEAN
  BY DEF Login!Restart, Login!Fresh
<1>5. Login!TypeOK'
  BY <1>1, <1>2, <1>3, <1>4 DEF LoginIInv, Login!TypeOK, LoginStates, LaunchStates, LoginSteps, Removals
<1>6. LoginNamed'
  BY <1>1 DEF LoginNamed, LoginFits, LaunchFits, Carrying, Keeping
<1>7. Given' /\ Apart'
  BY <1>1, <1>2 DEF LoginIInv, Tidy, Given, Apart, Carrying
<1>8. Replaced'
  <2> SUFFICES ASSUME NEW a \in Accounts, login_keychain[a] \in login_spent' PROVE FALSE
    BY <1>1 DEF Replaced
  <2>1. PICK x \in Launches : login_launches[x].pc = "keep" /\ login_launches[x].read = login_keychain[a]
    BY <1>2 DEF LoginIInv, Tidy, Replaced
  <2> QED BY <1>2, <2>1 DEF Login!Lost
<1>9. Login!TokensAreOwn' /\ HaveTokens'
  BY <1>1 DEF LoginIInv, Tidy, Login!TokensAreOwn, HaveTokens, Keeping
<1>10. Login!CancelledStaysClosed'
  BY DEF Login!CancelledStaysClosed, Login!Restart, Login!Fresh
<1> QED BY <1>5, <1>6, <1>7, <1>8, <1>9, <1>10 DEF LoginIInv, Tidy

LEMMA LoginNextInv == ASSUME LoginDataOK, LoginIInv, [Login!Next]_(Login!vars) PROVE LoginIInv'
<1>1. CASE Login!Cancel \/ Login!Restart
  BY <1>1, LoginCancelInv, LoginRestartInv
<1>2. CASE \/ Login!RemoveAccount \/ Login!RemoveToken \/ Login!RemovalFails \/ (\E a \in Accounts : Login!Remove(a))
           \/ \E a \in login_core \cup {None} : Login!Choose(a)
  BY <1>2, AccountsInv
<1>3. ASSUME NEW l \in Logins, \/ Login!Start(l) \/ Login!Opened(l) \/ Login!SaveAccount(l) \/ Login!Exchanged(l)
                              \/ \E a \in Accounts : Login!Approved(l, a)
      PROVE  LoginIInv'
  BY <1>3, LoginStartInv, LoginOpenedInv, ApprovedInv, ExchangedInv, SaveAccountInv
<1>4. ASSUME NEW l \in Logins, Login!Begun(l) \/ Login!Slept(l) \/ Login!PollAgain(l) \/ Login!ExchangeAgain(l) \/ Login!Fails(l)
      PROVE  LoginIInv'
  BY <1>4, GoesOnInv
<1>5. ASSUME NEW l \in Logins, Login!KeepPending(l) \/ Login!SaveToken(l) \/ Login!ClearPending(l) PROVE LoginIInv'
  BY <1>5, KeepInv
<1>6. ASSUME NEW x \in Launches, Login!Launch(x) \/ Login!GetToken(x) \/ Login!Rotate(x) \/ Login!KeepRotated(x) \/ Login!LaunchEnds(x)
      PROVE  LoginIInv'
  BY <1>6, LaunchesInv
<1>7. CASE UNCHANGED Login!vars
  <2>1. Login!TypeOK'
    BY <1>7 DEF Login!vars, LoginIInv, Login!TypeOK
  <2>2. LoginNamed' /\ Login!CancelledStaysClosed'
    BY <1>7 DEF Login!vars, LoginIInv, LoginNamed, Login!CancelledStaysClosed
  <2>3. Tidy'
    BY <1>7 DEF Login!vars, LoginIInv, Tidy, Given, Apart, Free, Replaced, Login!TokensAreOwn, HaveTokens
  <2> QED BY <2>1, <2>2, <2>3 DEF LoginIInv
<1> QED BY <1>1, <1>2, <1>3, <1>4, <1>5, <1>6, <1>7 DEF Login!Next

\* What the invariant says of the tokens.
LEMMA InvTokens ==
  ASSUME LoginIInv
  PROVE  Login!CancelledStaysClosed /\ Login!SpentIsReplaced /\ Login!TokensAreOwn /\ Login!ListedHaveTokens
BY DEF LoginIInv, Tidy, Replaced, HaveTokens, Login!SpentIsReplaced, Login!ListedHaveTokens

-----------------------------------------------------------------------------
(***************************************************************************)
(* The session owner.  The session that is shown is that of the open of    *)
(* the current generation, which read a configuration no older than the    *)
(* one the page knows (Followed): an open that finds another generation    *)
(* closes what it had established.                                         *)
(***************************************************************************)
OwnerDataOK == None \notin Opens /\ MaxEdits \in Nat

\* What leads to the endpoint is the open of the current generation: its
\* session is the owner's once it is established, and it has read a
\* configuration no older than the one the page knows.
Followed ==
  /\ owner_shown <= owner_saved
  /\ owner_status = "ready" => owner_session # None
  /\ owner_session # None => owner_session = owner_current /\ owner_opens[owner_session].pc = "open" /\ owner_status = "ready"
  /\ \A o \in Opens : owner_opens[o].pc = "open" => owner_session = o
  /\ owner_current # None /\ owner_opens[owner_current].pc \in {"connecting", "open"} => owner_shown <= owner_opens[owner_current].version
  /\ \A o \in Opens : owner_opens[o].version <= owner_saved

OwnerIInv == Owner!TypeOK /\ Followed

LEMMA OwnerInitInv == ASSUME OwnerDataOK PROVE Owner!Init => OwnerIInv
BY DEF OwnerDataOK, Owner!Init, OwnerIInv, Owner!TypeOK, Followed, Owner!Idle

LEMMA OwnerNextInv == ASSUME OwnerDataOK, OwnerIInv, [Owner!Next]_(Owner!vars) PROVE OwnerIInv'
<1> DEFINE Runs == [pc : {"idle", "called", "connecting", "open", "closing"}, version : 0..MaxEdits]
<1>1. /\ owner_saved \in 0..MaxEdits /\ owner_shown \in 0..MaxEdits /\ owner_opens \in [Opens -> Runs]
      /\ Owner!Idle \in Runs /\ MaxEdits \in Nat /\ None \notin Opens
  BY DEF OwnerIInv, Owner!TypeOK, OwnerDataOK, Owner!Idle
<1>2. CASE UNCHANGED Owner!vars
  BY <1>2 DEF Owner!vars, OwnerIInv, Owner!TypeOK, Followed
<1>3. CASE Owner!Edit
  <2>1. Owner!TypeOK'
    BY <1>1, <1>3 DEF Owner!Edit, OwnerIInv, Owner!TypeOK
  <2>2. Followed'
    BY <1>1, <1>3 DEF Owner!Edit, OwnerIInv, Owner!TypeOK, Followed
  <2> QED BY <2>1, <2>2 DEF OwnerIInv
<1>4. ASSUME NEW o \in Opens, Owner!Effect(o) PROVE OwnerIInv'
  <2>1. PICK r : r = [owner_opens[o] EXCEPT !.pc = "called"]
    OBVIOUS
  <2>2. r \in Runs /\ r.pc = "called" /\ r.version = owner_opens[o].version
    BY <1>1, <2>1
  <2>3. /\ owner_opens' \in [Opens -> Runs] /\ owner_opens'[o] = r
        /\ \A p \in Opens \ {o} : owner_opens'[p].version = owner_opens[p].version
        /\ \A p \in Opens \ {o, owner_session} : owner_opens'[p] = owner_opens[p]
        /\ owner_session \in Opens => owner_opens'[owner_session].pc = "closing"
    BY <1>1, <1>4, <2>1, <2>2 DEF Owner!Effect, Owner!Closed
  <2>4. Owner!TypeOK'
    BY <1>1, <1>4, <2>3 DEF Owner!Effect, OwnerIInv, Owner!TypeOK
  <2>5. Followed'
    BY <1>1, <1>4, <2>2, <2>3 DEF Owner!Effect, OwnerIInv, Owner!TypeOK, Followed
  <2> QED BY <2>4, <2>5 DEF OwnerIInv
<1>5. ASSUME NEW o \in Opens, NEW r \in Runs, owner_opens' = [owner_opens EXCEPT ![o] = r],
             UNCHANGED <<owner_saved, owner_shown, owner_current, owner_session>>, owner_status' \in {owner_status, "error"},
             owner_status' = "error" => owner_status = "error" \/ owner_current = o,
             owner_opens[o].pc \notin {"open", "idle"}, r.version <= owner_saved,
             r.pc \notin {"open", "called"}, r.pc = "connecting" => r.version = owner_saved
      PROVE  OwnerIInv'
  <2>1. owner_opens' \in [Opens -> Runs] /\ owner_opens'[o] = r /\ \A p \in Opens \ {o} : owner_opens'[p] = owner_opens[p]
    BY <1>1, <1>5
  <2>2. Owner!TypeOK'
    BY <1>1, <1>5, <2>1 DEF OwnerIInv, Owner!TypeOK
  <2>3. Followed'
    BY <1>1, <1>5, <2>1 DEF OwnerIInv, Owner!TypeOK, Followed
  <2> QED BY <2>2, <2>3 DEF OwnerIInv
<1>6. ASSUME NEW o \in Opens, Owner!ReadConfig(o) \/ Owner!Fails(o) \/ Owner!CloseEnds(o) PROVE OwnerIInv'
  <2>1. CASE Owner!ReadConfig(o)
    <3>1. PICK r : r = [pc |-> "connecting", version |-> owner_saved]
      OBVIOUS
    <3>2. r \in Runs /\ r.version = owner_saved /\ r.pc = "connecting" /\ owner_saved <= owner_saved
      BY <1>1, <3>1
    <3>3. owner_opens' = [owner_opens EXCEPT ![o] = r] /\ owner_opens[o].pc = "called"
          /\ UNCHANGED <<owner_saved, owner_shown, owner_current, owner_session, owner_status>>
      BY <2>1, <3>1 DEF Owner!ReadConfig
    <3> QED BY <1>5, <3>2, <3>3
  <2>2. CASE Owner!Fails(o) \/ Owner!CloseEnds(o)
    BY <1>1, <1>5, <2>2 DEF Owner!Fails, Owner!CloseEnds, Owner!Idle
  <2> QED BY <1>6, <2>1, <2>2
<1>7. ASSUME NEW o \in Opens, Owner!Established(o) PROVE OwnerIInv'
  <2>1. CASE Owner!Owns(o)
    <3>1. owner_session = None /\ owner_current = o /\ owner_opens[o].pc = "connecting"
      BY <1>1, <1>7, <2>1 DEF Owner!Established, Owner!Owns, OwnerIInv, Owner!TypeOK, Followed
    <3>2. PICK r : r = [owner_opens[o] EXCEPT !.pc = "open"]
      OBVIOUS
    <3>3. r \in Runs /\ r.pc = "open" /\ r.version = owner_opens[o].version
      BY <1>1, <3>2
    <3>4. owner_opens' \in [Opens -> Runs] /\ owner_opens'[o] = r /\ \A p \in Opens \ {o} : owner_opens'[p] = owner_opens[p]
      BY <1>1, <1>7, <2>1, <3>1, <3>2, <3>3 DEF Owner!Established, Owner!Closed
    <3>5. Owner!TypeOK'
      BY <1>1, <1>7, <2>1, <3>4 DEF Owner!Established, OwnerIInv, Owner!TypeOK
    <3>6. Followed'
      BY <1>1, <1>7, <2>1, <3>1, <3>3, <3>4 DEF Owner!Established, OwnerIInv, Owner!TypeOK, Followed
    <3> QED BY <3>5, <3>6 DEF OwnerIInv
  <2>2. CASE ~Owner!Owns(o)
    <3>1. PICK r : r = [owner_opens[o] EXCEPT !.pc = "closing"]
      OBVIOUS
    <3>2. r \in Runs /\ r.pc = "closing" /\ r.version = owner_opens[o].version /\ r.version <= owner_saved
      BY <1>1, <3>1 DEF OwnerIInv, Followed
    <3>3. /\ owner_opens' = [owner_opens EXCEPT ![o] = r] /\ owner_opens[o].pc = "connecting"
          /\ UNCHANGED <<owner_saved, owner_shown, owner_current, owner_session, owner_status>>
      BY <1>1, <1>7, <2>2, <3>1 DEF Owner!Established
    <3> QED BY <1>5, <3>2, <3>3
  <2> QED BY <2>1, <2>2
<1> QED BY <1>2, <1>3, <1>4, <1>6, <1>7 DEF Owner!Next

LEMMA InvSessionFollowsEdit == ASSUME OwnerDataOK, OwnerIInv PROVE Owner!SessionFollowsEdit
BY DEF OwnerDataOK, OwnerIInv, Owner!TypeOK, Followed, Owner!SessionFollowsEdit

-----------------------------------------------------------------------------
(***************************************************************************)
(* The connection test.  A test that is not aborted is the current one, so *)
(* what is shown of a test is of that one: the invariant is the property.  *)
(***************************************************************************)
TestDataOK == None \notin Tests

TestIInv == Test!TypeOK /\ Test!OneTestShown

LEMMA TestInitInv == ASSUME TestDataOK PROVE Test!Init => TestIInv
BY DEF TestDataOK, Test!Init, TestIInv, Test!TypeOK, Test!OneTestShown, Test!Idle

LEMMA TestNextInv == ASSUME TestDataOK, TestIInv, [Test!Next]_(Test!vars) PROVE TestIInv'
<1> DEFINE Runs == [pc : {"idle", "opening", "pinging", "closing"}, aborted : BOOLEAN]
<1>1. test_tests \in [Tests -> Runs] /\ test_current \in Tests \cup {None} /\ Test!Idle \in Runs /\ None \notin Tests
  BY DEF TestIInv, Test!TypeOK, TestDataOK, Test!Idle
<1>2. /\ Test!Cancelled \in [Tests -> Runs]
      /\ \A t \in Tests : /\ Test!Cancelled[t].pc = test_tests[t].pc
                          /\ Test!Cancelled[t].aborted = (test_tests[t].aborted \/ t = test_current)
  <2>1. ASSUME NEW t \in Tests
        PROVE  /\ [test_tests[t] EXCEPT !.aborted = @ \/ t = test_current] \in Runs
               /\ [test_tests[t] EXCEPT !.aborted = @ \/ t = test_current].pc = test_tests[t].pc
               /\ [test_tests[t] EXCEPT !.aborted = @ \/ t = test_current].aborted
                    = (test_tests[t].aborted \/ t = test_current)
    BY <1>1, <2>1
  <2> QED BY <2>1 DEF Test!Cancelled
<1>3. CASE UNCHANGED Test!vars
  BY <1>3 DEF Test!vars, TestIInv, Test!TypeOK, Test!OneTestShown
<1>4. CASE Test!Cancel
  BY <1>1, <1>2, <1>4 DEF Test!Cancel, TestIInv, Test!TypeOK, Test!OneTestShown
<1>5. ASSUME NEW t \in Tests, Test!Run(t) PROVE TestIInv'
  <2>1. PICK r : r = [pc |-> "opening", aborted |-> FALSE]
    OBVIOUS
  <2>2. /\ test_tests' \in [Tests -> Runs] /\ test_tests'[t] = r /\ r.pc = "opening"
        /\ \A u \in Tests \ {t} : test_tests'[u] = Test!Cancelled[u]
    BY <1>1, <1>2, <1>5, <2>1 DEF Test!Run
  <2> QED BY <1>1, <1>2, <1>5, <2>2 DEF Test!Run, TestIInv, Test!TypeOK, Test!OneTestShown
<1>6. ASSUME NEW t \in Tests, NEW pc \in {"pinging", "closing"}, Test!Goes(t, pc)
      PROVE  /\ test_tests' \in [Tests -> Runs] /\ test_tests'[t].pc = pc /\ test_tests'[t].aborted = test_tests[t].aborted
             /\ \A u \in Tests \ {t} : test_tests'[u] = test_tests[u]
  <2>1. PICK r : r = [test_tests[t] EXCEPT !.pc = pc]
    OBVIOUS
  <2>2. r \in Runs /\ r.pc = pc /\ r.aborted = test_tests[t].aborted
    BY <1>1, <2>1
  <2>3. test_tests' = [test_tests EXCEPT ![t] = r]
    BY <1>1, <1>6, <2>1 DEF Test!Goes
  <2> QED BY <1>1, <2>2, <2>3
<1>7. ASSUME NEW t \in Tests, Test!Opened(t), test_tests'[t].pc = "pinging" PROVE TestIInv'
  <2>1. Test!Goes(t, "pinging") /\ UNCHANGED <<test_current, test_shows>> /\ ~test_tests[t].aborted
        /\ test_tests[t].pc = "opening"
    BY <1>6, <1>7 DEF Test!Opened
  <2> QED BY <1>1, <1>6, <2>1 DEF TestIInv, Test!TypeOK, Test!OneTestShown
<1>8. ASSUME NEW t \in Tests, NEW state \in {"error", "connected"}, Test!Goes(t, "closing"),
             Test!Publish(t, state), UNCHANGED test_current
      PROVE  TestIInv'
  BY <1>1, <1>6, <1>8 DEF Test!Publish, TestIInv, Test!TypeOK, Test!OneTestShown
<1>9. ASSUME NEW t \in Tests, Test!Opened(t) \/ Test!Fails(t) \/ Test!Pinged(t) PROVE TestIInv'
  <2>1. CASE Test!Opened(t)
    BY <1>6, <1>7, <1>8, <2>1 DEF Test!Opened
  <2>2. CASE Test!Fails(t) \/ Test!Pinged(t)
    BY <1>8, <2>2 DEF Test!Fails, Test!Pinged
  <2> QED BY <1>9, <2>1, <2>2
<1>10. ASSUME NEW t \in Tests, Test!Closed(t) PROVE TestIInv'
  <2>1. test_tests' \in [Tests -> Runs] /\ test_tests'[t] = Test!Idle /\ \A u \in Tests \ {t} : test_tests'[u] = test_tests[u]
    BY <1>1, <1>10 DEF Test!Closed
  <2> QED BY <1>1, <1>10, <2>1 DEF Test!Closed, Test!Idle, TestIInv, Test!TypeOK, Test!OneTestShown
<1> QED BY <1>3, <1>4, <1>5, <1>9, <1>10 DEF Test!Next

-----------------------------------------------------------------------------
(***************************************************************************)
(* The cleanup of the store.  A run that is heard is for the scope on the  *)
(* screen, and a deletion is for the scope whose preview was confirmed     *)
(* (Own), since a change of the scope clears both.                         *)
(***************************************************************************)
\* A run that is heard is for the settings on the screen, and a deletion is
\* for those whose preview was confirmed.
GcOwn(q) ==
  /\ q.pc # "idle" /\ q.live => q.scope = gc_scope
  /\ q.pc # "idle" /\ ~q.dry => q.seen = q.scope

GcIInv == Gc!TypeOK /\ gc_gc.preview \in {None, gc_scope} /\ \A r \in Cleanups : GcOwn(gc_runs[r])

GcRecords == [pc : {"idle", "opening", "scanning", "closing"}, dry : BOOLEAN,
            scope : Scopes \cup {None}, seen : Scopes \cup {None}, live : BOOLEAN]
GcPages == [pending : Cleanups \cup {None}, preview : Scopes \cup {None},
          shows : {"nothing", "result", "error"}]

LEMMA GcInitInv == Gc!Init => GcIInv
BY DEF Gc!Init, GcIInv, Gc!TypeOK, GcOwn, Gc!Idle, Gc!Fresh

\* A run moves on, and nothing of what it is for changes.
LEMMA GcMovesOn ==
  ASSUME GcIInv, NEW r \in Cleanups, NEW pc \in {"scanning", "closing"}, gc_runs[r].pc # "idle",
         gc_runs' = [gc_runs EXCEPT ![r].pc = pc], UNCHANGED gc_scope, gc_gc' \in GcPages,
         gc_gc'.preview \in {None, gc_scope}
  PROVE  GcIInv'
<1>1. gc_runs \in [Cleanups -> GcRecords]
  BY DEF GcIInv, Gc!TypeOK, GcRecords
<1>2. PICK q : q = [gc_runs[r] EXCEPT !.pc = pc]
  OBVIOUS
<1>3. q \in GcRecords /\ q.dry = gc_runs[r].dry /\ q.scope = gc_runs[r].scope /\ q.seen = gc_runs[r].seen
      /\ q.live = gc_runs[r].live
  BY <1>1, <1>2 DEF GcRecords
<1>4. gc_runs' \in [Cleanups -> GcRecords] /\ gc_runs'[r] = q /\ \A s \in Cleanups \ {r} : gc_runs'[s] = gc_runs[s]
  BY <1>1, <1>2, <1>3
<1>5. GcOwn(q)
  BY <1>3 DEF GcIInv, GcOwn
<1> QED BY <1>4, <1>5 DEF GcIInv, Gc!TypeOK, GcOwn, GcRecords, GcPages

LEMMA GcNextInv == ASSUME GcIInv, [Gc!Next]_(Gc!vars) PROVE GcIInv'
<1>1. gc_gc \in GcPages /\ gc_runs \in [Cleanups -> GcRecords] /\ gc_scope \in Scopes /\ Gc!Idle \in GcRecords
  BY DEF GcIInv, Gc!TypeOK, GcRecords, GcPages, Gc!Idle
<1>2. /\ Gc!Overtaken \in [Cleanups -> GcRecords]
      /\ \A r \in Cleanups : /\ ~Gc!Overtaken[r].live /\ Gc!Overtaken[r].pc = gc_runs[r].pc
                             /\ Gc!Overtaken[r].dry = gc_runs[r].dry /\ Gc!Overtaken[r].scope = gc_runs[r].scope
                             /\ Gc!Overtaken[r].seen = gc_runs[r].seen
  BY <1>1 DEF Gc!Overtaken, GcRecords
<1>3. Gc!Reset \in GcPages /\ Gc!Reset.preview = None /\ Gc!Reset.pending = gc_gc.pending
  BY <1>1 DEF Gc!Reset, GcPages
<1>4. CASE UNCHANGED Gc!vars
  BY <1>4 DEF Gc!vars, GcIInv, Gc!TypeOK, GcOwn
<1>5. ASSUME gc_runs' = Gc!Overtaken, gc_gc' \in GcPages, gc_gc'.preview = None, gc_scope' \in Scopes PROVE GcIInv'
  BY <1>2, <1>5 DEF GcIInv, Gc!TypeOK, GcOwn, GcRecords, GcPages
<1>6. CASE Gc!CancelPreview \/ Gc!Leave
  <2>1. Gc!Fresh \in GcPages /\ Gc!Fresh.preview = None
    BY DEF Gc!Fresh, GcPages
  <2> QED BY <1>1, <1>3, <1>5, <1>6, <2>1 DEF Gc!CancelPreview, Gc!Leave
<1>7. ASSUME NEW s \in Scopes, Gc!Configure(s) PROVE GcIInv'
  BY <1>3, <1>5, <1>7 DEF Gc!Configure
<1>8. ASSUME NEW r \in Cleanups, NEW dry \in BOOLEAN, Gc!Begin(r, dry) PROVE GcIInv'
  <2>1. PICK q : q = [pc |-> "opening", dry |-> dry, scope |-> gc_scope, seen |-> gc_gc.preview, live |-> TRUE]
    OBVIOUS
  <2>2. q \in GcRecords /\ q.scope = gc_scope /\ q.seen = gc_gc.preview /\ q.dry = dry
    BY <1>1, <2>1 DEF GcRecords, GcPages
  <2>3. gc_runs' \in [Cleanups -> GcRecords] /\ gc_runs'[r] = q /\ \A s \in Cleanups \ {r} : gc_runs'[s] = Gc!Overtaken[s]
    BY <1>2, <1>8, <2>1, <2>2 DEF Gc!Begin
  <2>4. dry \/ gc_gc.preview = gc_scope
    BY <1>8 DEF Gc!Begin, GcIInv
  <2>5. gc_gc' \in GcPages /\ gc_gc'.preview = None /\ UNCHANGED gc_scope
    BY <1>3, <1>8 DEF Gc!Begin, GcPages
  <2>6. \A s \in Cleanups : GcOwn(gc_runs[s])
    BY DEF GcIInv
  <2>7. \A s \in Cleanups : GcOwn(gc_runs'[s])
    BY <1>2, <2>2, <2>3, <2>4, <2>6 DEF GcOwn
  <2> QED BY <1>1, <2>3, <2>5, <2>7 DEF GcIInv, Gc!TypeOK, GcOwn, GcRecords, GcPages
<1>9. ASSUME NEW r \in Cleanups, Gc!Opened(r) PROVE GcIInv'
  <2>1. PICK pc : pc = (IF gc_runs[r].live THEN "scanning" ELSE "closing")
    OBVIOUS
  <2> QED BY <1>1, <1>9, <2>1, GcMovesOn DEF Gc!Opened, GcIInv
<1>10. ASSUME NEW r \in Cleanups, Gc!Scanned(r) PROVE GcIInv'
  <2>1. gc_runs[r].pc = "scanning" /\ gc_runs' = [gc_runs EXCEPT ![r].pc = "closing"] /\ UNCHANGED gc_scope
    BY <1>10 DEF Gc!Scanned
  <2>2. gc_runs[r].live => gc_runs[r].scope = gc_scope
    BY <2>1 DEF GcIInv, GcOwn
  <2>3. CASE gc_runs[r].live /\ gc_runs[r].dry
    <3>1. gc_gc' = [gc_gc EXCEPT !.preview = gc_scope]
      BY <1>10, <2>2, <2>3 DEF Gc!Scanned
    <3>2. gc_gc' \in GcPages /\ gc_gc'.preview = gc_scope
      BY <1>1, <3>1 DEF GcPages
    <3> QED BY <2>1, <3>2, GcMovesOn
  <2>4. CASE gc_runs[r].live /\ ~gc_runs[r].dry
    <3>1. gc_gc' = [gc_gc EXCEPT !.shows = "result"]
      BY <1>10, <2>4 DEF Gc!Scanned
    <3>2. gc_gc' \in GcPages /\ gc_gc'.preview = gc_gc.preview
      BY <1>1, <3>1 DEF GcPages
    <3> QED BY <2>1, <3>2, GcMovesOn DEF GcIInv
  <2>5. CASE ~gc_runs[r].live
    BY <1>1, <1>10, <2>1, <2>5, GcMovesOn DEF Gc!Scanned, GcIInv
  <2> QED BY <2>3, <2>4, <2>5
<1>11. ASSUME NEW r \in Cleanups, Gc!Fails(r) PROVE GcIInv'
  <2>1. gc_gc' \in GcPages /\ gc_gc'.preview \in {None, gc_scope}
    <3>1. CASE gc_runs[r].live
      BY <1>1, <1>11, <3>1 DEF Gc!Fails, GcPages
    <3>2. CASE ~gc_runs[r].live
      BY <1>1, <1>11, <3>2 DEF Gc!Fails, GcIInv
    <3> QED BY <3>1, <3>2
  <2> QED BY <1>11, <2>1, GcMovesOn DEF Gc!Fails
<1>12. ASSUME NEW r \in Cleanups, Gc!Closed(r) PROVE GcIInv'
  <2>1. gc_runs' \in [Cleanups -> GcRecords] /\ gc_runs'[r] = Gc!Idle /\ \A s \in Cleanups \ {r} : gc_runs'[s] = gc_runs[s]
    BY <1>1, <1>12 DEF Gc!Closed
  <2>2. PICK p : p = (IF gc_gc.pending = r THEN None ELSE gc_gc.pending)
    OBVIOUS
  <2>3. gc_gc' = [gc_gc EXCEPT !.pending = p] /\ p \in Cleanups \cup {None}
    BY <1>1, <1>12, <2>2 DEF Gc!Closed, GcPages
  <2>4. gc_gc' \in GcPages /\ gc_gc'.preview = gc_gc.preview /\ UNCHANGED gc_scope
    BY <1>1, <1>12, <2>3 DEF Gc!Closed, GcPages
  <2> QED BY <1>1, <2>1, <2>4 DEF GcIInv, Gc!TypeOK, GcOwn, Gc!Idle, GcRecords, GcPages
<1> QED BY <1>4, <1>6, <1>7, <1>8, <1>9, <1>10, <1>11, <1>12 DEF Gc!Next

LEMMA InvDeletesWhatWasPreviewed == ASSUME GcIInv PROVE Gc!DeletesWhatWasPreviewed
BY DEF GcIInv, GcOwn, Gc!DeletesWhatWasPreviewed

-----------------------------------------------------------------------------
(***************************************************************************)
(* The catalog dialog.  The request in force is what the dialog asks for,  *)
(* and the one answer that counts is the answer to it (InForce).           *)
(***************************************************************************)
CatalogDataOK == None \notin Catalog!Asks

\* The request in force is what the dialog asks for, and the answer that
\* counts is the answer to it.
CatalogInForce ==
  /\ catalog_current = Catalog!Asked(catalog_dialog)
  /\ \A c \in catalog_calls : c[2] => c[1] = catalog_current

CatalogIInv == Catalog!TypeOK /\ CatalogInForce /\ Catalog!OffersWhatWasAsked

CatalogDialogs == [open : BOOLEAN, provider : Catalogs, query : Queries,
            detail : Projects \cup {None}, results : Catalog!Asks \cup {None},
            searching : BOOLEAN, versions : Catalog!Asks \cup {None}, error : BOOLEAN]

LEMMA CatalogInitInv == Catalog!Init => CatalogIInv
<1> SUFFICES ASSUME Catalog!Init PROVE CatalogIInv
  OBVIOUS
<1>1. PICK p \in Catalogs, q \in Queries :
        catalog_dialog = [open |-> FALSE, provider |-> p, query |-> q, detail |-> None, results |-> None,
                  searching |-> FALSE, versions |-> None, error |-> FALSE]
  BY DEF Catalog!Init
<1>2. catalog_dialog \in CatalogDialogs /\ ~catalog_dialog.open
  BY <1>1 DEF CatalogDialogs
<1>3. catalog_install = Catalog!NoInstall /\ catalog_calls = {} /\ catalog_current = None /\ catalog_installed = [r \in Projects |-> None]
  BY DEF Catalog!Init
<1> QED BY <1>2, <1>3 DEF CatalogIInv, Catalog!TypeOK, CatalogInForce, Catalog!OffersWhatWasAsked,
           Catalog!Asked, CatalogDialogs

\* Whatever the dialog shows next, it asks anew.
LEMMA CatalogBecomesInv ==
  ASSUME CatalogDataOK, CatalogIInv, NEW d \in CatalogDialogs, Catalog!Becomes(d)
  PROVE  CatalogIInv'
<1>1. catalog_calls \in SUBSET (Catalog!Asks \X BOOLEAN)
  BY DEF CatalogIInv, Catalog!TypeOK
<1>2. Catalog!Disowned \in SUBSET (Catalog!Asks \X BOOLEAN) /\ \A c \in Catalog!Disowned : ~c[2]
  <2>1. ASSUME NEW c \in Catalog!Disowned PROVE c \in Catalog!Asks \X BOOLEAN /\ ~c[2]
    <3>1. PICK b \in catalog_calls : c = <<b[1], FALSE>>
      BY DEF Catalog!Disowned
    <3>2. b[1] \in Catalog!Asks
      BY <1>1
    <3> QED BY <3>1, <3>2
  <2> QED BY <2>1
<1>3. Catalog!Asked(d) \in Catalog!Asks \cup {None} /\ (d.open => Catalog!Asked(d) \in Catalog!Asks)
  BY DEF Catalog!Asked, Catalog!Asks, CatalogDialogs
<1>4. UNCHANGED <<catalog_install, catalog_installed>> /\ catalog_current' = Catalog!Asked(d)
  BY DEF Catalog!Becomes
<1>5. CASE Catalog!Asked(d) = None
  <2>1. catalog_dialog' = d /\ catalog_calls' = Catalog!Disowned /\ ~d.open
    BY <1>3, <1>5 DEF Catalog!Becomes, CatalogDataOK
  <2> QED BY <1>2, <1>3, <1>4, <2>1 DEF CatalogIInv, Catalog!TypeOK, CatalogInForce,
             Catalog!OffersWhatWasAsked, Catalog!Asked, CatalogDialogs
<1>6. CASE Catalog!Asked(d) # None
  <2>1. PICK e : e = Catalog!Starting(d)
    OBVIOUS
  <2>2. /\ e \in CatalogDialogs /\ e.open = d.open /\ e.provider = d.provider /\ e.query = d.query
        /\ e.detail = d.detail
    BY <2>1 DEF Catalog!Starting, CatalogDialogs
  <2>3. IF e.detail = None THEN e.searching ELSE e.versions = None
    BY <2>1 DEF Catalog!Starting, CatalogDialogs
  <2>4. Catalog!Asked(e) = Catalog!Asked(d)
    BY <2>2 DEF Catalog!Asked
  <2>5. catalog_dialog' = e /\ catalog_calls' = Catalog!Disowned \cup {<<Catalog!Asked(d), TRUE>>}
    BY <1>6, <2>1 DEF Catalog!Becomes
  <2>6. catalog_calls' \in SUBSET (Catalog!Asks \X BOOLEAN) /\ \A c \in catalog_calls' : c[2] => c[1] = Catalog!Asked(d)
    <3>1. PICK a \in Catalog!Asks : a = Catalog!Asked(d)
      BY <1>3, <1>6
    <3>2. ASSUME NEW c, c \in catalog_calls' PROVE c \in Catalog!Asks \X BOOLEAN /\ (c[2] => c[1] = a)
      <4>1. CASE c \in Catalog!Disowned
        BY <1>2, <4>1
      <4>2. CASE c = <<a, TRUE>>
        <5>1. c[1] = a /\ c[2] = TRUE
          BY <4>2
        <5> QED BY <3>1, <4>2, <5>1
      <4> QED BY <2>5, <3>1, <3>2, <4>1, <4>2
    <3> QED BY <3>1, <3>2
  <2>7. CatalogInForce'
    BY <1>4, <2>4, <2>5, <2>6 DEF CatalogInForce
  <2>8. Catalog!OffersWhatWasAsked'
    BY <2>3, <2>5 DEF Catalog!OffersWhatWasAsked
  <2>9. Catalog!TypeOK'
    BY <1>3, <1>4, <2>2, <2>5, <2>6 DEF CatalogIInv, Catalog!TypeOK, CatalogDialogs
  <2> QED BY <2>7, <2>8, <2>9 DEF CatalogIInv
<1> QED BY <1>5, <1>6

\* The answer that counts is to what the dialog shows.
LEMMA CatalogAnswerInv == ASSUME CatalogIInv, NEW c \in catalog_calls, Catalog!Answer(c) PROVE CatalogIInv'
<1>1. catalog_calls' \in SUBSET (Catalog!Asks \X BOOLEAN) /\ catalog_calls' \subseteq catalog_calls /\ UNCHANGED <<catalog_current, catalog_install, catalog_installed>>
  BY DEF Catalog!Answer, CatalogIInv, Catalog!TypeOK
<1>2. c[1] \in Catalog!Asks /\ catalog_dialog \in CatalogDialogs
  BY DEF CatalogIInv, Catalog!TypeOK, CatalogDialogs
<1>3. CASE ~c[2]
  BY <1>1, <1>3 DEF Catalog!Answer, CatalogIInv, Catalog!TypeOK, CatalogInForce,
     Catalog!OffersWhatWasAsked, Catalog!Asked
<1>4. CASE c[2]
  <2>1. c[1] = Catalog!Asked(catalog_dialog)
    BY <1>4 DEF CatalogIInv, CatalogInForce
  <2>2. ASSUME NEW e \in CatalogDialogs, catalog_dialog' = e, e.open = catalog_dialog.open, e.provider = catalog_dialog.provider,
               e.query = catalog_dialog.query, e.detail = catalog_dialog.detail,
               Catalog!OffersWhatWasAsked'
        PROVE  CatalogIInv'
    <3>1. Catalog!Asked(e) = Catalog!Asked(catalog_dialog)
      BY <2>2 DEF Catalog!Asked
    <3>2. CatalogInForce'
      BY <1>1, <2>2, <3>1 DEF CatalogIInv, CatalogInForce
    <3>3. Catalog!TypeOK'
      BY <1>1, <2>2 DEF CatalogIInv, Catalog!TypeOK, CatalogDialogs
    <3> QED BY <2>2, <3>2, <3>3 DEF CatalogIInv
  <2>3. CASE catalog_dialog' = [catalog_dialog EXCEPT !.results = c[1], !.searching = FALSE] /\ c[1].kind = "search"
    <3>1. PICK e : e = catalog_dialog'
      OBVIOUS
    <3>2. /\ e \in CatalogDialogs /\ e.open = catalog_dialog.open /\ e.provider = catalog_dialog.provider
          /\ e.query = catalog_dialog.query /\ e.detail = catalog_dialog.detail /\ e.results = c[1]
          /\ e.versions = catalog_dialog.versions
      BY <1>2, <2>3, <3>1 DEF CatalogDialogs
    <3>3. Catalog!Asked(e) = Catalog!Asked(catalog_dialog)
      BY <3>2 DEF Catalog!Asked
    <3>4. Catalog!OffersWhatWasAsked'
      BY <2>1, <3>1, <3>2, <3>3 DEF CatalogIInv, Catalog!OffersWhatWasAsked
    <3> QED BY <2>2, <3>1, <3>2, <3>4
  <2>4. CASE catalog_dialog' = [catalog_dialog EXCEPT !.error = TRUE, !.searching = FALSE] /\ c[1].kind = "search"
    <3>1. PICK e : e = catalog_dialog'
      OBVIOUS
    <3>2. /\ e \in CatalogDialogs /\ e.open = catalog_dialog.open /\ e.provider = catalog_dialog.provider
          /\ e.query = catalog_dialog.query /\ e.detail = catalog_dialog.detail /\ e.error
          /\ e.versions = catalog_dialog.versions
      BY <1>2, <2>4, <3>1 DEF CatalogDialogs
    <3>3. Catalog!Asked(e) = Catalog!Asked(catalog_dialog)
      BY <3>2 DEF Catalog!Asked
    <3>4. Catalog!OffersWhatWasAsked'
      BY <3>1, <3>2, <3>3 DEF CatalogIInv, Catalog!OffersWhatWasAsked
    <3> QED BY <2>2, <3>1, <3>2, <3>4
  <2>5. CASE catalog_dialog' = [catalog_dialog EXCEPT !.versions = c[1]] /\ c[1].kind # "search"
    <3>1. PICK e : e = catalog_dialog'
      OBVIOUS
    <3>2. /\ e \in CatalogDialogs /\ e.open = catalog_dialog.open /\ e.provider = catalog_dialog.provider
          /\ e.query = catalog_dialog.query /\ e.detail = catalog_dialog.detail /\ e.error = catalog_dialog.error
          /\ e.versions = c[1] /\ e.results = catalog_dialog.results /\ e.searching = catalog_dialog.searching
      BY <1>2, <2>5, <3>1 DEF CatalogDialogs
    <3>3. Catalog!Asked(e) = Catalog!Asked(catalog_dialog)
      BY <3>2 DEF Catalog!Asked
    <3>4. Catalog!OffersWhatWasAsked'
      BY <2>1, <3>1, <3>2, <3>3 DEF CatalogIInv, Catalog!OffersWhatWasAsked
    <3> QED BY <2>2, <3>1, <3>2, <3>4
  <2>6. CASE catalog_dialog' = [catalog_dialog EXCEPT !.error = TRUE] /\ c[1].kind # "search"
    <3>1. PICK e : e = catalog_dialog'
      OBVIOUS
    <3>2. /\ e \in CatalogDialogs /\ e.open = catalog_dialog.open /\ e.provider = catalog_dialog.provider
          /\ e.query = catalog_dialog.query /\ e.detail = catalog_dialog.detail /\ e.error
          /\ e.versions = catalog_dialog.versions
      BY <1>2, <2>6, <3>1 DEF CatalogDialogs
    <3>3. Catalog!Asked(e) = Catalog!Asked(catalog_dialog)
      BY <3>2 DEF Catalog!Asked
    <3>4. Catalog!OffersWhatWasAsked'
      BY <3>1, <3>2, <3>3 DEF CatalogIInv, Catalog!OffersWhatWasAsked
    <3> QED BY <2>2, <3>1, <3>2, <3>4
  <2> QED BY <1>4, <2>3, <2>4, <2>5, <2>6 DEF Catalog!Answer
<1> QED BY <1>3, <1>4

\* The install leaves the dialog and the requests alone.
LEMMA CatalogInstallInv ==
  ASSUME CatalogIInv, Catalog!SessionOpened \/ Catalog!Installed \/ \E v \in Versions : Catalog!Install(v)
  PROVE  CatalogIInv'
<1>1. UNCHANGED <<catalog_dialog, catalog_calls, catalog_current>>
  BY DEF Catalog!SessionOpened, Catalog!Installed, Catalog!Install
<1> DEFINE Installs == [step : {"opening", "core"}, project : Projects, version : Versions,
                        how : {"install", "set-version", "nothing"}]
<1>2. catalog_install \in Installs \cup {Catalog!NoInstall} /\ Catalog!NoInstall.step = "none"
  BY DEF CatalogIInv, Catalog!TypeOK, Catalog!NoInstall
<1>3. catalog_install' \in Installs \cup {Catalog!NoInstall} /\ catalog_installed' \in [Projects -> Versions \cup {None}]
  <2>1. CASE Catalog!SessionOpened
    BY <1>2, <2>1 DEF Catalog!SessionOpened, CatalogIInv, Catalog!TypeOK
  <2>2. CASE Catalog!Installed
    <3>1. catalog_install \in Installs
      BY <1>2, <2>2 DEF Catalog!Installed
    <3> QED BY <2>2, <3>1 DEF Catalog!Installed, CatalogIInv, Catalog!TypeOK
  <2>3. ASSUME NEW v \in Versions, Catalog!Install(v)
        PROVE  catalog_install' \in Installs \cup {Catalog!NoInstall} /\ catalog_installed' \in [Projects -> Versions \cup {None}]
    <3>1. catalog_dialog.detail \in Projects /\ Catalog!How(catalog_dialog.detail, v) \in {"install", "set-version", "nothing"}
      BY <2>3 DEF Catalog!Install, Catalog!How, CatalogIInv, Catalog!TypeOK
    <3> QED BY <2>3, <3>1 DEF Catalog!Install, CatalogIInv, Catalog!TypeOK
  <2> QED BY <2>1, <2>2, <2>3
<1> QED BY <1>1, <1>3 DEF CatalogIInv, Catalog!TypeOK, CatalogInForce, Catalog!OffersWhatWasAsked,
           Catalog!Asked

LEMMA CatalogNextInv == ASSUME CatalogDataOK, CatalogIInv, [Catalog!Next]_(Catalog!vars) PROVE CatalogIInv'
<1>1. catalog_dialog \in CatalogDialogs
  BY DEF CatalogIInv, Catalog!TypeOK, CatalogDialogs
<1>2. CASE UNCHANGED Catalog!vars
  BY <1>2 DEF Catalog!vars, CatalogIInv, Catalog!TypeOK, CatalogInForce, Catalog!OffersWhatWasAsked,
     Catalog!Asked
<1>3. CASE Catalog!Open
  <2>1. [catalog_dialog EXCEPT !.open = TRUE, !.detail = None] \in CatalogDialogs
    BY <1>1 DEF CatalogDialogs
  <2> QED BY <1>3, <2>1, CatalogBecomesInv DEF Catalog!Open
<1>4. CASE Catalog!Close
  <2>1. [catalog_dialog EXCEPT !.open = FALSE] \in CatalogDialogs
    BY <1>1 DEF CatalogDialogs
  <2> QED BY <1>4, <2>1, CatalogBecomesInv DEF Catalog!Close
<1>5. CASE Catalog!Back
  <2>1. [catalog_dialog EXCEPT !.detail = None] \in CatalogDialogs
    BY <1>1 DEF CatalogDialogs
  <2> QED BY <1>5, <2>1, CatalogBecomesInv DEF Catalog!Back
<1>6. ASSUME NEW q \in Queries, Catalog!Type(q) PROVE CatalogIInv'
  <2>1. [catalog_dialog EXCEPT !.query = q] \in CatalogDialogs
    BY <1>1 DEF CatalogDialogs
  <2> QED BY <1>6, <2>1, CatalogBecomesInv DEF Catalog!Type
<1>7. ASSUME NEW p \in Catalogs, Catalog!ChooseProvider(p) PROVE CatalogIInv'
  <2>1. [catalog_dialog EXCEPT !.provider = p, !.detail = None, !.results = None, !.versions = None] \in CatalogDialogs
    BY <1>1 DEF CatalogDialogs
  <2> QED BY <1>7, <2>1, CatalogBecomesInv DEF Catalog!ChooseProvider
<1>8. ASSUME NEW p \in Projects, Catalog!OpenProject(p) PROVE CatalogIInv'
  <2>1. [catalog_dialog EXCEPT !.detail = p] \in CatalogDialogs
    BY <1>1 DEF CatalogDialogs
  <2> QED BY <1>8, <2>1, CatalogBecomesInv DEF Catalog!OpenProject
<1>9. ASSUME NEW c \in catalog_calls, Catalog!Answer(c) PROVE CatalogIInv'
  BY <1>9, CatalogAnswerInv
<1>10. CASE Catalog!SessionOpened \/ Catalog!Installed \/ \E v \in Versions : Catalog!Install(v)
  BY <1>10, CatalogInstallInv
<1> QED BY <1>2, <1>3, <1>4, <1>5, <1>6, <1>7, <1>8, <1>9, <1>10 DEF Catalog!Next

-----------------------------------------------------------------------------
(***************************************************************************)
(* The RPC client.  However many sessions and calls there are, one request *)
(* at a time writes in the directory of an instance.  The lease tells      *)
(* which: a call that took it is the only one (OneLease), and a call that  *)
(* writes without it belongs to the import that holds it, which sends one  *)
(* at a time (OneOfImport, Covered).  LeaseHeld keeps the two kinds apart. *)
(***************************************************************************)
ClientUsedOK == Used \subseteq Client!Methods /\ None \notin Used /\ None # Client!Import

OneLease ==
  \A c, d \in Calls :
    (client_call[c].leased /\ client_call[d].leased /\ client_call[c].inst = client_call[d].inst) => c = d

OneOfImport == \A i \in Instances : \A c, d \in Client!OfImport(i) : c = d

\* A call without the lease is a read, or one of a running import.
ClientCovered ==
  \A c \in Calls : (client_call[c] # Client!Idle /\ ~client_call[c].leased) =>
    IF client_call[c].method \in Client!ImportMethods THEN client_importer[client_call[c].inst]
    ELSE ~Client!Coordinated(client_call[c].method)

ClientIInv == Client!TypeOK /\ Client!LeaseHeld /\ OneLease /\ OneOfImport /\ ClientCovered

(* The catalogue. *)

\* No method of the catalogue is the name a modpack import registers.
LEMMA ImportIsNoMethod == Client!Import \notin Client!Methods
BY DEF Client!Import, Client!Methods, Client!VersionMethods, Client!InstallMethods, Client!JavaMethods,
   Client!LaunchMethods,
       Client!InstanceMethods, Client!ServerMethods, Client!ServerWorldMethods, Client!ServerContentMethods,
       Client!ContentMethods, Client!DatapackMethods, Client!WorldMethods, Client!ModpackMethods,
       Client!AuthMethods,
       Client!AccountMethods, Client!ContentVerbs

\* The requests of an import would take the lease if a page sent them.
LEMMA ImportMethodsCoordinated == \A m \in Client!ImportMethods : Client!Coordinated(m)
BY DEF Client!ImportMethods, Client!Coordinated

\* Every method that writes in an instance takes the lease.
LEMMA WritersCoordinated == \A m \in Client!Methods : Client!Writes(m) => Client!Coordinated(m)
<1> SUFFICES ASSUME NEW m \in Client!Methods, Client!Writes(m) PROVE Client!Coordinated(m)
  OBVIOUS
<1>1. CASE m[1] \in {"mods", "resourcepacks", "shaderpacks", "datapacks"}
  <2>1. m \in Client!ContentMethods \cup Client!DatapackMethods
    BY <1>1 DEF Client!Methods, Client!VersionMethods, Client!InstallMethods, Client!JavaMethods,
       Client!LaunchMethods,
       Client!InstanceMethods, Client!ServerMethods, Client!ServerWorldMethods, Client!ServerContentMethods,
       Client!ContentMethods, Client!DatapackMethods, Client!WorldMethods, Client!ModpackMethods,
       Client!AuthMethods,
       Client!AccountMethods
  <2>2. m[2] \notin Client!Reads \/ ~Client!Writes(m)
    BY <1>1 DEF Client!Writes, Client!Reads
  <2> QED BY <2>1, <2>2 DEF Client!Coordinated
<1>2. CASE m[1] = "worlds"
  <2>1. m \in Client!WorldMethods
    BY <1>2 DEF Client!Methods, Client!VersionMethods, Client!InstallMethods, Client!JavaMethods,
       Client!LaunchMethods,
       Client!InstanceMethods, Client!ServerMethods, Client!ServerWorldMethods, Client!ServerContentMethods,
       Client!ContentMethods, Client!DatapackMethods, Client!WorldMethods, Client!ModpackMethods,
       Client!AuthMethods,
       Client!AccountMethods
  <2>2. m[2] \notin Client!Reads
    BY <1>2 DEF Client!Writes, Client!Reads
  <2> QED BY <2>1, <2>2 DEF Client!Coordinated
<1>3. CASE m = <<"worlds.backups", "delete">>
  BY <1>3 DEF Client!Coordinated, Client!WorldMethods, Client!Reads
<1>4. CASE m[1] \notin {"mods", "resourcepacks", "shaderpacks", "datapacks", "worlds"}
           /\ m # <<"worlds.backups", "delete">>
  BY <1>4 DEF Client!Writes, Client!Coordinated
<1> QED BY <1>1, <1>2, <1>3, <1>4

(* The invariant: no call and no lease at first; then one lemma for what a *)
(* call's end does, and one step per action.                               *)

LEMMA ClientInitInv == ASSUME ClientUsedOK PROVE Client!Init => ClientIInv
<1> SUFFICES ASSUME Client!Init PROVE ClientIInv
  OBVIOUS
<1> USE DEF Client!Init, Client!Idle
<1>1. Client!TypeOK  BY DEF Client!TypeOK
<1>2. Client!LeaseHeld  BY DEF Client!LeaseHeld
<1>3. OneLease  BY DEF OneLease
<1>4. OneOfImport  BY DEF OneOfImport, Client!OfImport
<1>5. ClientCovered  BY DEF ClientCovered
<1> QED BY <1>1, <1>2, <1>3, <1>4, <1>5 DEF ClientIInv

\* A call that ends gives back the lease if it had it, and nobody else's.
LEMMA RefuseInv ==
  ASSUME ClientUsedOK, ClientIInv, NEW c \in Calls, client_call[c] # Client!Idle, Client!Refuse(c), UNCHANGED client_importer
  PROVE  /\ client_active' \in [Instances -> Used \cup {None, Client!Import}]
         /\ client_call' \in [Calls -> Client!Asked \cup {Client!Idle}]
         /\ Client!LeaseHeld' /\ OneLease' /\ OneOfImport' /\ ClientCovered'
<1> USE DEF ClientUsedOK, ClientIInv, Client!TypeOK, Client!Refuse
<1>1. client_call[c] \in Client!Asked
  OBVIOUS
<1>2. client_call[c].inst \in Instances /\ client_call[c].method \in Used /\ client_call[c].leased \in BOOLEAN
  BY <1>1 DEF Client!Asked
<1>3. client_call' = [client_call EXCEPT ![c] = Client!Idle]
  OBVIOUS
<1>4. client_active' = client_active \/ (client_call[c].leased /\ client_active[client_call[c].inst] = client_call[c].method
                                          /\ client_active' = [client_active EXCEPT ![client_call[c].inst] = None])
  BY DEF Client!Released
<1>5. client_active' \in [Instances -> Used \cup {None, Client!Import}]
  BY <1>2, <1>4
<1>6. client_call' \in [Calls -> Client!Asked \cup {Client!Idle}]
  BY <1>3
<1>7. client_call'[c] = Client!Idle /\ ~Client!Idle.leased /\ \A d \in Calls \ {c} : client_call'[d] = client_call[d]
  BY <1>3 DEF Client!Idle
<1>8. OneLease'
  BY <1>7 DEF OneLease
<1>9. \A i \in Instances : Client!OfImport(i)' \subseteq Client!OfImport(i)
  BY <1>7 DEF Client!OfImport
<1>10. OneOfImport'
  BY <1>9 DEF OneOfImport
<1>11. ClientCovered'
  BY <1>7 DEF ClientCovered
<1>12. Client!LeaseHeld'
  <2>1. CASE client_active' = client_active
    BY <1>7, <2>1 DEF Client!LeaseHeld
  <2>2. CASE client_call[c].leased /\ client_active[client_call[c].inst] = client_call[c].method
             /\ client_active' = [client_active EXCEPT ![client_call[c].inst] = None]
    <3>1. ~client_importer[client_call[c].inst]
      BY <1>2, <2>2, ImportIsNoMethod DEF Client!LeaseHeld
    <3>2. \A i \in Instances : client_importer'[i] => client_active'[i] = Client!Import
      BY <2>2, <3>1 DEF Client!LeaseHeld
    <3>3. ASSUME NEW d \in Calls, client_call'[d] # Client!Idle, client_call'[d].leased
          PROVE  client_active'[client_call'[d].inst] = client_call'[d].method
      <4>1. d # c /\ client_call'[d] = client_call[d]
        BY <1>7, <3>3
      <4>2. client_call[d].inst # client_call[c].inst
        BY <2>2, <3>3, <4>1 DEF OneLease
      <4>3. client_call[d].inst \in Instances
        BY <3>3, <4>1 DEF Client!Asked
      <4> QED BY <2>2, <3>3, <4>1, <4>2, <4>3 DEF Client!LeaseHeld
    <3> QED BY <3>2, <3>3 DEF Client!LeaseHeld
  <2> QED BY <1>4, <2>1, <2>2
<1> QED BY <1>5, <1>6, <1>8, <1>10, <1>11, <1>12

\* A call that only moves on stays what it is.
LEMMA ClientMovesInv ==
  ASSUME ClientUsedOK, ClientIInv, NEW c \in Calls, client_call[c] # Client!Idle,
         NEW state \in {"sent", "queued", "core"},
         client_call' = [client_call EXCEPT ![c].state = state], UNCHANGED <<client_active, client_importer>>
  PROVE  /\ client_call' \in [Calls -> Client!Asked \cup {Client!Idle}]
         /\ Client!LeaseHeld' /\ OneLease' /\ OneOfImport' /\ ClientCovered'
<1> USE DEF ClientUsedOK, ClientIInv, Client!TypeOK
<1>1. client_call[c] \in Client!Asked
  OBVIOUS
<1>2. client_call'[c] \in Client!Asked
  BY <1>1 DEF Client!Asked
<1>3. \A i \in Instances : \A a \in Client!Asked : a # Client!Idle
  BY DEF Client!Asked, Client!Idle
<1>4. \A d \in Calls : /\ client_call'[d] = Client!Idle <=> client_call[d] = Client!Idle
                       /\ client_call'[d].inst = client_call[d].inst
                       /\ client_call'[d].method = client_call[d].method
                       /\ client_call'[d].leased = client_call[d].leased
  BY <1>1, <1>2 DEF Client!Asked, Client!Idle
<1>5. client_call' \in [Calls -> Client!Asked \cup {Client!Idle}]
  BY <1>2
<1>6. \A i \in Instances : Client!OfImport(i)' = Client!OfImport(i)
  BY <1>4 DEF Client!OfImport
<1>7. Client!LeaseHeld'  BY <1>4 DEF Client!LeaseHeld
<1>8. OneLease'  BY <1>4 DEF OneLease
<1>9. OneOfImport'  BY <1>6 DEF OneOfImport
<1>10. ClientCovered'  BY <1>4 DEF ClientCovered
<1> QED BY <1>5, <1>7, <1>8, <1>9, <1>10

\* A call that starts: with the lease free, with the import's own, or to read.
LEMMA ClientRequestInv ==
  ASSUME ClientUsedOK, ClientIInv, NEW c \in Calls, NEW m \in Used, NEW i \in Instances,
         NEW s \in Sessions, NEW keyed \in BOOLEAN,
         Client!Request(c, m, i, s, keyed) \/ Client!ImportRequest(c, m, i, s, keyed)
  PROVE  ClientIInv'
<1> USE DEF ClientUsedOK, ClientIInv, Client!TypeOK
<1>1. UNCHANGED <<client_session, client_importer, client_key>>
  BY DEF Client!Request, Client!ImportRequest
<1>2. client_call[c] = Client!Idle
  BY DEF Client!Request, Client!ImportRequest
<1>3. CASE Client!Request(c, m, i, s, keyed)
  <2> DEFINE q == [state |-> "sent", method |-> m, inst |-> i, on |-> s,
                   keyed |-> keyed, leased |-> Client!Coordinated(m)]
  <2>1. Client!Coordinated(m) \in BOOLEAN /\ q \in Client!Asked /\ q # Client!Idle
    BY DEF Client!Asked, Client!Coordinated, Client!Idle
  <2>2. client_call' = [client_call EXCEPT ![c] = q]
    BY <1>3 DEF Client!Request
  <2>3. q.method = m /\ q.inst = i /\ q.leased = Client!Coordinated(m)
    OBVIOUS
  <2> HIDE DEF q
  <2>4. client_call'[c] = q /\ \A d \in Calls \ {c} : client_call'[d] = client_call[d]
    BY <2>2
  <2>5. Client!Coordinated(m) => client_active[i] = None
    BY <1>3 DEF Client!Request
  <2>6. client_active' = IF Client!Coordinated(m) THEN [client_active EXCEPT ![i] = m] ELSE client_active
    BY <1>3 DEF Client!Request
  <2>7. Client!TypeOK'
    BY <1>1, <2>1, <2>2, <2>6
  <2>8. \A d \in Calls : client_call[d] # Client!Idle =>
           client_call[d].inst \in Instances /\ client_call[d].method \in Used
    BY DEF Client!Asked
  <2>9. Client!LeaseHeld'
    <3>1. CASE Client!Coordinated(m)
      <4>1. \A d \in Calls : (client_call[d] # Client!Idle /\ client_call[d].leased) => client_call[d].inst # i
        BY <2>5, <2>8, <3>1 DEF Client!LeaseHeld
      <4>2. ~client_importer[i] /\ client_active' = [client_active EXCEPT ![i] = m]
        BY <2>5, <2>6, <3>1 DEF Client!LeaseHeld
      <4> QED BY <1>1, <2>3, <2>4, <2>8, <4>1, <4>2 DEF Client!LeaseHeld
    <3>2. CASE ~Client!Coordinated(m)
      BY <1>1, <2>3, <2>4, <2>6, <3>2 DEF Client!LeaseHeld
    <3> QED BY <3>1, <3>2
  <2>10. OneLease'
    <3>1. \A d \in Calls \ {c} : client_call[d].leased => client_call[d] # Client!Idle /\ client_call[d].method \in Used
      BY DEF Client!Idle, Client!Asked
    <3>2. \A d \in Calls \ {c} : (client_call[d].leased /\ client_call[d].inst = i) => ~Client!Coordinated(m)
      BY <2>5, <3>1 DEF Client!LeaseHeld
    <3> QED BY <2>3, <2>4, <3>2 DEF OneLease
  <2>11. OneOfImport'
    <3>1. \A j \in Instances : Client!OfImport(j)' \subseteq Client!OfImport(j)
      BY <1>2, <2>3, <2>4, ImportMethodsCoordinated DEF Client!OfImport
    <3> QED BY <3>1 DEF OneOfImport
  <2>12. ClientCovered'
    BY <1>1, <2>3, <2>4, ImportMethodsCoordinated DEF ClientCovered
  <2> QED BY <2>7, <2>9, <2>10, <2>11, <2>12
<1>4. CASE Client!ImportRequest(c, m, i, s, keyed)
  <2> DEFINE q == [state |-> "sent", method |-> m, inst |-> i, on |-> s,
                   keyed |-> keyed, leased |-> FALSE]
  <2>1. q \in Client!Asked /\ q # Client!Idle
    BY DEF Client!Asked, Client!Idle
  <2>2. client_call' = [client_call EXCEPT ![c] = q] /\ UNCHANGED client_active
    BY <1>4 DEF Client!ImportRequest
  <2>3. q.method = m /\ q.inst = i /\ q.leased = FALSE
    OBVIOUS
  <2> HIDE DEF q
  <2>4. client_call'[c] = q /\ \A d \in Calls \ {c} : client_call'[d] = client_call[d]
    BY <2>2
  <2>5. client_importer[i] /\ Client!OfImport(i) = {} /\ m \in Client!ImportMethods
    BY <1>4 DEF Client!ImportRequest
  <2>6. Client!TypeOK'
    BY <1>1, <2>1, <2>2
  <2>7. Client!LeaseHeld'
    BY <1>1, <2>2, <2>3, <2>4 DEF Client!LeaseHeld
  <2>8. OneLease'
    BY <2>3, <2>4 DEF OneLease
  <2>9. OneOfImport'
    <3>1. Client!OfImport(i)' \subseteq {c}
      BY <2>4, <2>5 DEF Client!OfImport
    <3>2. \A j \in Instances \ {i} : Client!OfImport(j)' \subseteq Client!OfImport(j)
      BY <2>3, <2>4 DEF Client!OfImport
    <3> QED BY <3>1, <3>2 DEF OneOfImport
  <2>10. ClientCovered'
    BY <1>1, <2>3, <2>4, <2>5 DEF ClientCovered
  <2> QED BY <2>6, <2>7, <2>8, <2>9, <2>10
<1> QED BY <1>3, <1>4

\* An import takes the lease when it is free, and gives it back when none of
\* its requests is under way.
LEMMA ImportInv ==
  ASSUME ClientUsedOK, ClientIInv, NEW i \in Instances, Client!StartImport(i) \/ Client!EndImport(i)
  PROVE  ClientIInv'
<1> USE DEF ClientUsedOK, ClientIInv, Client!TypeOK
<1>1. UNCHANGED <<client_call, client_session, client_key>>
  BY DEF Client!StartImport, Client!EndImport
<1>2. OneLease' /\ OneOfImport'
  BY <1>1 DEF OneLease, OneOfImport, Client!OfImport
<1>3. \A c \in Calls : client_call[c] # Client!Idle => client_call[c].inst \in Instances /\ client_call[c].method \in Used
  BY DEF Client!Asked
<1>4. CASE Client!StartImport(i)
  <2>1. client_active[i] = None /\ client_active' = [client_active EXCEPT ![i] = Client!Import]
        /\ client_importer' = [client_importer EXCEPT ![i] = TRUE]
    BY <1>4 DEF Client!StartImport
  <2>2. Client!TypeOK'
    BY <1>1, <2>1
  <2>3. Client!LeaseHeld'
    BY <1>1, <1>3, <2>1 DEF Client!LeaseHeld
  <2>4. ClientCovered'
    BY <1>1, <1>3, <2>1 DEF ClientCovered
  <2> QED BY <1>2, <2>2, <2>3, <2>4
<1>5. CASE Client!EndImport(i)
  <2>1. client_importer[i] /\ Client!OfImport(i) = {} /\ client_importer' = [client_importer EXCEPT ![i] = FALSE]
        /\ client_active' = IF client_active[i] = Client!Import THEN [client_active EXCEPT ![i] = None] ELSE client_active
    BY <1>5 DEF Client!EndImport
  <2>2. client_active[i] = Client!Import
    BY <2>1 DEF Client!LeaseHeld
  <2>3. Client!TypeOK'
    BY <1>1, <2>1
  <2>4. Client!LeaseHeld'
    BY <1>1, <1>3, <2>1, <2>2, ImportIsNoMethod DEF Client!LeaseHeld
  <2>5. ClientCovered'
    BY <1>1, <1>3, <2>1 DEF ClientCovered, Client!OfImport
  <2> QED BY <1>2, <2>3, <2>4, <2>5
<1> QED BY <1>4, <1>5

LEMMA ClientNextInv == ASSUME ClientUsedOK PROVE ClientIInv /\ [Client!Next]_(Client!vars) => ClientIInv'
<1> SUFFICES ASSUME ClientIInv, [Client!Next]_(Client!vars) PROVE ClientIInv'
  OBVIOUS
<1> USE DEF ClientUsedOK
<1>1. CASE UNCHANGED Client!vars
  BY <1>1 DEF Client!vars, ClientIInv, Client!TypeOK, Client!LeaseHeld, OneLease, OneOfImport,
     Client!OfImport, ClientCovered
<1>2. ASSUME UNCHANGED <<client_active, client_call, client_importer>>,
             client_session' \in [Sessions -> {"new", "open", "keyed", "closed"}], client_key' \in BOOLEAN
      PROVE  ClientIInv'
  BY <1>2 DEF ClientIInv, Client!TypeOK, Client!LeaseHeld, OneLease, OneOfImport, Client!OfImport,
     ClientCovered
<1>3. CASE Client!SetKey
  BY <1>2, <1>3 DEF Client!SetKey, ClientIInv, Client!TypeOK
<1>4. ASSUME NEW s \in Sessions, Client!Open(s) \/ Client!Close(s) PROVE ClientIInv'
  BY <1>2, <1>4 DEF Client!Open, Client!Close, ClientIInv, Client!TypeOK
<1>5. ASSUME NEW s \in Sessions, Client!Lost(s) PROVE ClientIInv'
  <2>1. client_session' \in [Sessions -> {"new", "open", "keyed", "closed"}] /\ UNCHANGED <<client_importer, client_key>>
    BY <1>5 DEF Client!Lost, ClientIInv, Client!TypeOK
  <2>2. ASSUME NEW c \in Calls, client_call[c] # Client!Idle, Client!Refuse(c) PROVE ClientIInv'
    BY <2>1, <2>2, RefuseInv DEF ClientIInv, Client!TypeOK
  <2>3. CASE UNCHANGED <<client_active, client_call>>
    BY <1>2, <2>1, <2>3 DEF ClientIInv, Client!TypeOK
  <2> QED BY <1>5, <2>2, <2>3 DEF Client!Lost
<1>6. ASSUME NEW i \in Instances, Client!StartImport(i) \/ Client!EndImport(i) PROVE ClientIInv'
  BY <1>6, ImportInv
<1>7. ASSUME NEW c \in Calls, Client!Admit(c) PROVE ClientIInv'
  <2>1. client_call[c] # Client!Idle
    BY <1>7 DEF Client!Admit, Client!Idle
  <2>2. client_session' \in [Sessions -> {"new", "open", "keyed", "closed"}] /\ UNCHANGED <<client_importer, client_key>>
    BY <1>7 DEF Client!Admit, ClientIInv, Client!TypeOK
  <2>3. CASE client_call' = [client_call EXCEPT ![c].state = "queued"] /\ UNCHANGED client_active
    BY <2>1, <2>2, <2>3, ClientMovesInv DEF ClientIInv, Client!TypeOK
  <2>4. CASE Client!Refuse(c)
    BY <2>1, <2>2, <2>4, RefuseInv DEF ClientIInv, Client!TypeOK
  <2> QED BY <1>7, <2>3, <2>4 DEF Client!Admit
<1>8. ASSUME NEW c \in Calls, Client!Enter(c) PROVE ClientIInv'
  <2>1. client_call[c] # Client!Idle
    BY <1>8 DEF Client!Enter, Client!Idle
  <2>2. client_session' \in [Sessions -> {"new", "open", "keyed", "closed"}] /\ UNCHANGED <<client_importer, client_key>>
    BY <1>8 DEF Client!Enter, ClientIInv, Client!TypeOK
  <2>3. CASE client_call' = [client_call EXCEPT ![c].state = "core"] /\ UNCHANGED client_active
    BY <2>1, <2>2, <2>3, ClientMovesInv DEF ClientIInv, Client!TypeOK
  <2>4. CASE Client!Refuse(c)
    BY <2>1, <2>2, <2>4, RefuseInv DEF ClientIInv, Client!TypeOK
  <2> QED BY <1>8, <2>3, <2>4 DEF Client!Enter
<1>9. ASSUME NEW c \in Calls, Client!Answer(c) PROVE ClientIInv'
  <2>1. client_call[c] # Client!Idle
    BY <1>9 DEF Client!Answer, Client!Idle
  <2>2. client_session' \in [Sessions -> {"new", "open", "keyed", "closed"}] /\ UNCHANGED <<client_importer, client_key>>
    BY <1>9 DEF Client!Answer, ClientIInv, Client!TypeOK
  <2> QED BY <1>9, <2>1, <2>2, RefuseInv DEF Client!Answer, ClientIInv, Client!TypeOK
<1>10. ASSUME NEW c \in Calls, NEW m \in Used, NEW i \in Instances, NEW s \in Sessions,
              NEW k \in BOOLEAN, Client!Request(c, m, i, s, k) \/ Client!ImportRequest(c, m, i, s, k)
       PROVE  ClientIInv'
  BY <1>10, ClientRequestInv
<1> QED BY <1>1, <1>3, <1>4, <1>5, <1>6, <1>7, <1>8, <1>9, <1>10 DEF Client!Next

\* Two writers at a core in one instance both hold its lease, or are both of
\* its import, or one of each, which the lease rules out.
LEMMA InvWritersAlone == ASSUME ClientUsedOK PROVE ClientIInv => Client!WritersAlone
<1> SUFFICES ASSUME ClientIInv, NEW c \in Calls, NEW d \in Calls,
                    client_call[c].state = "core", client_call[d].state = "core",
                    client_call[c].inst = client_call[d].inst,
                    Client!Writes(client_call[c].method), Client!Writes(client_call[d].method)
             PROVE  c = d
  BY DEF Client!WritersAlone, Client!AtCore
<1> USE DEF ClientUsedOK, ClientIInv
<1>1. client_call[c] # Client!Idle /\ client_call[d] # Client!Idle
  BY DEF Client!Idle
<1>2. client_call[c] \in Client!Asked /\ client_call[d] \in Client!Asked
  BY <1>1 DEF Client!TypeOK
<1>3. /\ client_call[c].inst \in Instances
      /\ client_call[c].method \in Used /\ client_call[d].method \in Used
      /\ client_call[c].leased \in BOOLEAN /\ client_call[d].leased \in BOOLEAN
  BY <1>2 DEF Client!Asked
<1>4. Client!Coordinated(client_call[c].method) /\ Client!Coordinated(client_call[d].method)
  BY <1>3, WritersCoordinated
<1>5. \A x \in {c, d} : ~client_call[x].leased => x \in Client!OfImport(client_call[c].inst) /\ client_importer[client_call[c].inst]
  BY <1>1, <1>4 DEF ClientCovered, Client!OfImport
<1>6. \A x \in {c, d} : client_call[x].leased => ~client_importer[client_call[c].inst]
  BY <1>1, <1>3, ImportIsNoMethod DEF Client!LeaseHeld
<1> QED BY <1>3, <1>5, <1>6 DEF OneLease, OneOfImport

\* The bridge refuses nothing that the gate of the client lets through.
LEMMA GateHolds == Client!GateAgrees
<1> SUFFICES ASSUME NEW m \in Client!Methods, NEW k \in BOOLEAN, Client!GateAllows(m, k)
             PROVE  Client!BridgeAllows(m, k, Client!WireProvider(m, k))
  BY DEF Client!GateAgrees
<1>1. m[1] \notin {"server.resourcepacks", "server.shaderpacks"}
  BY DEF Client!Methods, Client!VersionMethods, Client!InstallMethods, Client!JavaMethods,
     Client!LaunchMethods,
     Client!InstanceMethods, Client!ServerMethods, Client!ServerWorldMethods, Client!ServerContentMethods,
     Client!ContentMethods, Client!DatapackMethods, Client!WorldMethods, Client!ModpackMethods,
     Client!AuthMethods,
     Client!AccountMethods
<1>2. k => \/ m = <<"modpack", "install">>
           \/ m[1] \in Client!KeyedFamilies \cup {"server.mods", "server.datapacks"}
              /\ m[2] \in {"install", "set-version"}
  BY <1>1 DEF Client!GateAllows
<1>3. m = <<"modpack", "install">> => m[2] = "install"
  OBVIOUS
<1>4. m[1] \in Client!KeyedFamilies \cup {"server.mods", "server.datapacks"} => m # <<"modpack", "install">>
  BY DEF Client!KeyedFamilies
<1> QED BY <1>2, <1>3, <1>4 DEF Client!BridgeAllows, Client!WireProvider

-----------------------------------------------------------------------------
(***************************************************************************)
(* The console of a server, for any log, chunk and number of visits.  The  *)
(* text that is shown is a piece of one log that ends at the cursor, which *)
(* is where the read under way begins (ReadsInv, TextInv); while lines of  *)
(* a stopped server are unread, its session, if there is one, has a last   *)
(* read under way (UnreadInv).                                             *)
(***************************************************************************)
Places == (1 .. MaxLogs) \X (0 .. MaxLog)

ConsoleDataOK ==
  /\ MaxLogs \in Nat \ {0} /\ MaxLog \in Nat /\ Chunk \in Nat /\ MaxText \in Nat
  /\ MaxVisits \in Nat \ {0} /\ None \notin Places

ConsoleLogs == [file : 1 .. MaxLogs, len : 0 .. MaxLog]
Cursors == Places \cup {None}
Reads == [id : BOOLEAN, awaited : BOOLEAN, cursor : Cursors]
Consoles ==
  [open : BOOLEAN, scope : 0 .. MaxVisits, session : BOOLEAN,
   opening : {"none", "waiting", "connecting", "reading"}, reads : SUBSET Reads,
   inFlight : BOOLEAN, final : BOOLEAN, timer : BOOLEAN, running : BOOLEAN,
   cursor : Cursors, text : Seq(Console!Bytes), command : {"none", "own", "old"}, unread : BOOLEAN]

After(b) == <<b[1], b[2] + 1>>

\* A stretch of a log that ends where the cursor is.
Stretch(t) == t \in Seq(Console!Bytes) /\ \A i \in 2 .. Len(t) : t[i] = After(t[i - 1])
EndsAt(t, k) == t # <<>> => k = After(t[Len(t)])

\* At most one read counts, and it was sent from the cursor as it is.
ReadsInv(d) ==
  /\ \A r, s \in d.reads : r.id /\ s.id => r = s
  /\ \A r \in d.reads : r.id => d.inFlight /\ d.session /\ r.cursor = d.cursor
  /\ d.inFlight => d.session
  /\ ~d.open => d.reads = {} /\ ~d.session /\ d.opening = "none"
TextInv(d) ==
  /\ Stretch(d.text) /\ Len(d.text) <= MaxText
  /\ d.open => EndsAt(d.text, d.cursor)

Base(d) == d \in Consoles /\ ReadsInv(d) /\ TextInv(d)

\* What is unread will be read once the read under way has ended, or there is
\* no session to read it on.
UnreadInv(d) == d.open /\ d.unread => ~d.running /\ (d.session => d.inFlight /\ d.final)
OpeningInv(d) == d.opening \in {"waiting", "connecting"} => ~d.session

Good(d) == Base(d) /\ UnreadInv(d) /\ OpeningInv(d)

ConsoleIInv ==
  /\ console_rev \in 1 .. MaxVisits /\ console_running \in BOOLEAN /\ console_log \in ConsoleLogs \cup {None}
  /\ Good(console_c)

LEMMA BlankFacts ==
  ASSUME ConsoleDataOK
  PROVE  /\ Console!Blank \in Consoles /\ Console!Blank.open = FALSE /\ Console!Blank.session = FALSE /\ Console!Blank.opening = "none"
         /\ Console!Blank.reads = {} /\ Console!Blank.inFlight = FALSE /\ Console!Blank.text = <<>> /\ Console!Blank.scope = 0
BY DEF Console!Blank, Consoles, Cursors, ConsoleDataOK

LEMMA ConsoleInvTypes == ASSUME ConsoleIInv PROVE Console!TypeOK
<1>1. console_c \in Consoles /\ Len(console_c.text) <= MaxText
  BY DEF ConsoleIInv, Good, Base, TextInv
<1>2. DOMAIN console_c = DOMAIN Console!Blank
  BY <1>1 DEF Consoles, Console!Blank
<1>3. /\ {console_c.open, console_c.session, console_c.inFlight, console_c.final, console_c.timer, console_c.running, console_c.unread} \subseteq BOOLEAN
      /\ console_c.scope \in 0 .. MaxVisits /\ console_c.opening \in {"none", "waiting", "connecting", "reading"}
      /\ console_c.cursor \in Cursors /\ console_c.text \in Seq(Console!Bytes) /\ console_c.command \in {"none", "own", "old"}
  BY <1>1 DEF Consoles
<1>4. \A r \in console_c.reads : {r.id, r.awaited} \subseteq BOOLEAN /\ r.cursor \in Cursors
  BY <1>1 DEF Consoles, Reads
<1> QED BY <1>1, <1>2, <1>3, <1>4 DEF ConsoleIInv, Console!TypeOK, ConsoleLogs, Cursors, Places

LEMMA EmptyText == ASSUME NEW k PROVE Stretch(<<>>) /\ EndsAt(<<>>, k) /\ Len(<<>>) = 0
BY DEF Stretch, EndsAt

LEMMA ConsoleInitInv == ASSUME ConsoleDataOK, Console!Init PROVE ConsoleIInv
<1>1. ReadsInv(Console!Blank) /\ UnreadInv(Console!Blank) /\ OpeningInv(Console!Blank)
  BY BlankFacts DEF ReadsInv, UnreadInv, OpeningInv
<1>2. TextInv(Console!Blank)
  <2>1. Stretch(<<>>) /\ Len(<<>>) = 0
    BY EmptyText
  <2>2. Console!Blank.text = <<>> /\ Console!Blank.open = FALSE
    BY BlankFacts
  <2>3. Stretch(Console!Blank.text) /\ Len(Console!Blank.text) = 0
    BY <2>1, <2>2
  <2> QED BY <2>2, <2>3 DEF TextInv, ConsoleDataOK
<1>3. Good(Console!Blank)
  BY <1>1, <1>2, BlankFacts DEF Good, Base
<1>4. console_rev \in 1 .. MaxVisits
  BY DEF Console!Init, ConsoleDataOK
<1>5. console_running \in BOOLEAN
  BY DEF Console!Init
<1> QED BY <1>3, <1>4, <1>5 DEF Console!Init, ConsoleIInv

\* The console is closed, and its text stays until it is opened again.
LEMMA ShutGood ==
  ASSUME ConsoleDataOK, NEW d \in Consoles, Stretch(d.text), Len(d.text) <= MaxText PROVE Good(Console!Shut(d))
<1>1. PICK x : x = Console!Old(d.command)
  OBVIOUS
<1>2. x \in {"none", "own", "old"}
  BY <1>1 DEF Console!Old
<1>3. PICK e : e = [Console!Blank EXCEPT !.text = d.text, !.command = x]
  OBVIOUS
<1>4. d.text \in Seq(Console!Bytes)
  BY DEF Consoles
<1>5. /\ e \in Consoles /\ e.open = FALSE /\ e.session = FALSE /\ e.opening = "none"
      /\ e.reads = {} /\ e.inFlight = FALSE /\ e.text = d.text
  BY <1>2, <1>3, <1>4, BlankFacts DEF Consoles
<1>6. Console!Shut(d) = e
  BY <1>1, <1>3 DEF Console!Shut
<1> QED BY <1>5, <1>6 DEF Good, Base, ReadsInv, TextInv, UnreadInv, OpeningInv

\* A read is sent, unless one is under way or there is no session.
LEMMA ReadingGood ==
  ASSUME ConsoleDataOK, NEW d, Base(d), d.open /\ d.unread => ~d.running,
         d.open /\ d.unread /\ d.inFlight => d.final
  PROVE  LET e == Console!Reading(d)
         IN /\ Base(e) /\ UnreadInv(e) /\ e.session = d.session /\ e.opening = d.opening
            /\ e.open = d.open /\ (d.session => e.inFlight)
<1>1. d \in Consoles
  BY DEF Base
<1>2. CASE d.inFlight \/ ~d.session
  BY <1>1, <1>2 DEF Console!Reading, UnreadInv, Base, ReadsInv
<1>3. CASE ~(d.inFlight \/ ~d.session)
  <2>1. PICK q : q = [id |-> TRUE, awaited |-> FALSE, cursor |-> d.cursor]
    OBVIOUS
  <2>2. q \in Reads /\ q.id = TRUE /\ q.cursor = d.cursor
    BY <1>1, <2>1 DEF Reads, Consoles
  <2>3. PICK e : e = [d EXCEPT !.inFlight = TRUE, !.unread = FALSE, !.reads = d.reads \cup {q}]
    OBVIOUS
  <2>4. d.reads \cup {q} \subseteq Reads
    BY <1>1, <2>2 DEF Consoles
  <2>5. /\ e \in Consoles /\ e.open = d.open /\ e.session = d.session /\ e.opening = d.opening
        /\ e.reads = d.reads \cup {q} /\ e.inFlight = TRUE /\ e.text = d.text /\ e.cursor = d.cursor
        /\ e.unread = FALSE
    BY <1>1, <2>3, <2>4 DEF Consoles
  <2>6. Console!Reading(d) = e
    BY <1>1, <1>3, <2>1, <2>3 DEF Console!Reading, Consoles
  <2>7. \A r \in d.reads : ~r.id
    BY <1>3 DEF Base, ReadsInv
  <2>8. ReadsInv(e)
    BY <1>3, <2>2, <2>5, <2>7 DEF Base, ReadsInv
  <2>9. TextInv(e)
    BY <2>5 DEF Base, TextInv
  <2> QED BY <2>5, <2>6, <2>8, <2>9 DEF Base, UnreadInv
<1> QED BY <1>2, <1>3

\* The read that is under way, or sent now, is one that the opening waits for.
LEMMA AwaitingGood ==
  ASSUME ConsoleDataOK, NEW d, Base(d), d.session, d.open /\ d.unread => ~d.running,
         d.open /\ d.unread /\ d.inFlight => d.final
  PROVE  Good(Console!Awaiting(d))
<1>1. PICK e : e = Console!Reading(d)
  OBVIOUS
<1>2. Base(e) /\ UnreadInv(e) /\ e.session /\ e.inFlight /\ e \in Consoles
  BY <1>1, ReadingGood DEF Base
<1>3. PICK s : s = {IF r.id THEN [r EXCEPT !.awaited = TRUE] ELSE r : r \in e.reads}
  OBVIOUS
<1>4. PICK x : x = [e EXCEPT !.opening = "reading", !.reads = s]
  OBVIOUS
<1>5. Console!Awaiting(d) = x
  BY <1>1, <1>2, <1>3, <1>4 DEF Console!Awaiting, Consoles
<1>6. e.reads \subseteq Reads
  BY <1>2 DEF Consoles
<1>7. \A q \in s : q \in Reads /\ \E r \in e.reads : /\ q.id = r.id /\ q.cursor = r.cursor
                                                     /\ q = IF r.id THEN [r EXCEPT !.awaited = TRUE] ELSE r
  BY <1>3, <1>6 DEF Reads
<1>8. /\ x \in Consoles /\ x.open = e.open /\ x.session = e.session /\ x.opening = "reading"
      /\ x.reads = s /\ x.inFlight = e.inFlight /\ x.text = e.text /\ x.cursor = e.cursor
      /\ x.unread = e.unread /\ x.final = e.final /\ x.running = e.running
  BY <1>2, <1>4, <1>7 DEF Consoles
<1>9. e.open
  BY <1>2 DEF Base, ReadsInv
<1>10. ReadsInv(x)
  <2>1. ASSUME NEW p \in s, NEW q \in s, p.id, q.id PROVE p = q
    <3>1. PICK r \in e.reads : p.id = r.id /\ p = IF r.id THEN [r EXCEPT !.awaited = TRUE] ELSE r
      BY <1>7
    <3>2. PICK t \in e.reads : q.id = t.id /\ q = IF t.id THEN [t EXCEPT !.awaited = TRUE] ELSE t
      BY <1>7
    <3>3. r = t
      BY <1>2, <2>1, <3>1, <3>2 DEF Base, ReadsInv
    <3> QED BY <3>1, <3>2, <3>3
  <2>2. \A q \in s : q.id => q.cursor = e.cursor
    BY <1>2, <1>7 DEF Base, ReadsInv
  <2> QED BY <1>2, <1>8, <1>9, <2>1, <2>2 DEF ReadsInv
<1>11. TextInv(x) /\ UnreadInv(x) /\ OpeningInv(x)
  BY <1>2, <1>8 DEF Base, TextInv, UnreadInv, OpeningInv
<1> QED BY <1>5, <1>8, <1>10, <1>11 DEF Good, Base

\* A request ends.
LEMMA ConsoleEndedFacts ==
  ASSUME NEW d \in Consoles, NEW r \in d.reads
  PROVE  LET e == Console!Ended(d, r)
         IN /\ e \in Consoles /\ e.reads = d.reads \ {r}
            /\ e.open = d.open /\ e.session = d.session /\ e.opening \in {d.opening, "none"}
            /\ e.inFlight = d.inFlight /\ e.text = d.text /\ e.cursor = d.cursor
            /\ e.unread = d.unread /\ e.final = d.final /\ e.running = d.running
            /\ e.timer = d.timer /\ e.command = d.command /\ e.scope = d.scope
<1>1. PICK x : x = IF r.awaited THEN "none" ELSE d.opening
  OBVIOUS
<1>2. PICK s : s = d.reads \ {r}
  OBVIOUS
<1>3. x \in {d.opening, "none"} /\ s \subseteq Reads
  BY <1>1, <1>2 DEF Consoles
<1>4. PICK e : e = [d EXCEPT !.reads = s, !.opening = x]
  OBVIOUS
<1>5. Console!Ended(d, r) = e
  BY <1>1, <1>2, <1>4 DEF Console!Ended, Consoles
<1>6. /\ e \in Consoles /\ e.reads = s
      /\ e.open = d.open /\ e.session = d.session /\ e.opening = x
      /\ e.inFlight = d.inFlight /\ e.text = d.text /\ e.cursor = d.cursor
      /\ e.unread = d.unread /\ e.final = d.final /\ e.running = d.running
      /\ e.timer = d.timer /\ e.command = d.command /\ e.scope = d.scope
  BY <1>3, <1>4 DEF Consoles
<1> QED BY <1>2, <1>3, <1>5, <1>6

LEMMA EndedGood ==
  ASSUME NEW d, Good(d), NEW r \in d.reads, ~r.id PROVE Good(Console!Ended(d, r))
<1>1. d \in Consoles
  BY DEF Good, Base
<1> QED BY <1>1, ConsoleEndedFacts DEF Good, Base, ReadsInv, TextInv, UnreadInv, OpeningInv

\* The session failed.
LEMMA RetiredGood ==
  ASSUME NEW d \in Consoles, TextInv(d), ~d.open => d.reads = {} /\ d.opening = "none",
         d.open /\ d.unread => ~d.running
  PROVE  Good(Console!Retired(d))
<1>1. PICK s : s = {[r EXCEPT !.id = FALSE] : r \in d.reads}
  OBVIOUS
<1>2. PICK x : x = Console!Old(d.command)
  OBVIOUS
<1>3. s \subseteq Reads /\ (\A r \in s : r.id = FALSE) /\ (d.reads = {} => s = {})
  <2>1. \A r \in Reads : [r EXCEPT !.id = FALSE] \in Reads /\ [r EXCEPT !.id = FALSE].id = FALSE
    BY DEF Reads
  <2>2. d.reads \subseteq Reads
    BY DEF Consoles
  <2> QED BY <1>1, <2>1, <2>2
<1>4. x \in {"none", "own", "old"}
  BY <1>2 DEF Console!Old
<1>5. PICK e : e = [d EXCEPT !.session = FALSE, !.inFlight = FALSE, !.timer = FALSE, !.final = FALSE,
                             !.command = x, !.reads = s]
  OBVIOUS
<1>6. Console!Retired(d) = e
  BY <1>1, <1>2, <1>5 DEF Console!Retired, Consoles
<1>7. /\ e \in Consoles /\ e.reads = s /\ e.open = d.open /\ e.session = FALSE /\ e.opening = d.opening
      /\ e.inFlight = FALSE /\ e.text = d.text /\ e.cursor = d.cursor
      /\ e.unread = d.unread /\ e.running = d.running
  BY <1>3, <1>4, <1>5 DEF Consoles
<1> QED BY <1>3, <1>6, <1>7 DEF Good, Base, ReadsInv, TextInv, UnreadInv, OpeningInv

\* The read that counted ended, and the console shows t up to the cursor k.
LEMMA SettledGood ==
  ASSUME ConsoleDataOK, NEW d, Good(d), NEW r \in d.reads, r.id, NEW e \in Consoles, e.reads = d.reads \ {r},
         e.open = d.open, e.session = d.session, e.opening \in {d.opening, "none"},
         e.unread = d.unread, e.final = d.final, e.running = d.running, TextInv(e)
  PROVE  Good(Console!Settled(e))
<1>1. d.session /\ d.open /\ d.inFlight /\ \A s \in e.reads : ~s.id
  BY DEF Good, Base, ReadsInv
<1>2. d.unread => ~d.running /\ d.final
  BY <1>1 DEF Good, UnreadInv
<1>3. PICK f : f = [e EXCEPT !.inFlight = FALSE]
  OBVIOUS
<1>4. /\ f \in Consoles /\ f.reads = e.reads /\ f.open = e.open /\ f.session = e.session
      /\ f.opening = e.opening /\ f.inFlight = FALSE /\ f.text = e.text /\ f.cursor = e.cursor
      /\ f.unread = e.unread /\ f.running = e.running /\ f.final = e.final
  BY <1>3 DEF Consoles
<1>5. OpeningInv(f)
  BY <1>1, <1>4 DEF Good, OpeningInv
<1>6. Base(f)
  BY <1>1, <1>4 DEF Base, ReadsInv, TextInv
<1>7. CASE f.final /\ ~f.running
  <2>1. PICK g : g = [f EXCEPT !.final = FALSE]
    OBVIOUS
  <2>2. /\ g \in Consoles /\ g.reads = f.reads /\ g.open = f.open /\ g.session = f.session
        /\ g.opening = f.opening /\ g.inFlight = FALSE /\ g.text = f.text /\ g.cursor = f.cursor
        /\ g.unread = f.unread /\ g.running = f.running
    BY <1>4, <2>1 DEF Consoles
  <2>3. Base(g)
    BY <1>6, <2>2, <1>4 DEF Base, ReadsInv, TextInv
  <2>4. Console!Settled(e) = Console!Reading(g)
    BY <1>3, <1>7, <2>1 DEF Console!Settled
  <2>5. Base(Console!Reading(g)) /\ UnreadInv(Console!Reading(g)) /\ Console!Reading(g).session = g.session
        /\ Console!Reading(g).opening = g.opening
    BY <1>7, <2>2, <2>3, ReadingGood
  <2>6. OpeningInv(Console!Reading(g))
    BY <1>5, <2>2, <2>5 DEF OpeningInv
  <2> QED BY <2>4, <2>5, <2>6 DEF Good
<1>8. CASE ~(f.final /\ ~f.running)
  <2>1. PICK g : g = [f EXCEPT !.timer = f.running]
    OBVIOUS
  <2>2. f.running \in BOOLEAN
    BY <1>4 DEF Consoles
  <2>3. /\ g \in Consoles /\ g.reads = f.reads /\ g.open = f.open /\ g.session = f.session
        /\ g.opening = f.opening /\ g.inFlight = FALSE /\ g.text = f.text /\ g.cursor = f.cursor
        /\ g.unread = f.unread /\ g.running = f.running
    BY <1>4, <2>1, <2>2 DEF Consoles
  <2>4. Base(g) /\ OpeningInv(g)
    BY <1>4, <1>5, <1>6, <2>3 DEF Base, ReadsInv, TextInv, OpeningInv
  <2>5. ~g.unread
    BY <1>2, <1>4, <1>8, <2>3
  <2>6. Console!Settled(e) = g
    BY <1>3, <1>8, <2>1 DEF Console!Settled
  <2> QED BY <2>4, <2>5, <2>6 DEF Good, UnreadInv
<1> QED BY <1>7, <1>8

(* The answers.                                                            *)

LEMMA PlaceFacts ==
  ASSUME ConsoleDataOK, NEW b \in Console!Bytes PROVE After(b) \in Places /\ After(b) # None
<1>1. b[1] \in 1 .. MaxLogs /\ b[2] \in 0 .. MaxLog - 1
  BY DEF Console!Bytes
<1>2. b[2] + 1 \in 0 .. MaxLog
  BY <1>1 DEF ConsoleDataOK
<1>3. After(b) \in Places
  BY <1>1, <1>2 DEF After, Places
<1> QED BY <1>3 DEF ConsoleDataOK

\* What the core answers is a stretch that ends at its cursor and, unless it
\* is a new tail, begins at the cursor it was asked from.
LEMMA ReplyFacts ==
  ASSUME ConsoleDataOK, console_log \in ConsoleLogs, NEW k \in Cursors
  PROVE  LET a == Console!Reply(k)
         IN /\ a.next \in Places /\ Stretch(a.text) /\ EndsAt(a.text, a.next)
            /\ k # None /\ ~a.reset => /\ a.text # <<>> => a.text[1] = k
                                       /\ a.text = <<>> => a.next = k
<1>1. /\ console_log.file \in 1 .. MaxLogs /\ console_log.len \in Nat /\ console_log.len <= MaxLog /\ Chunk \in Nat
      /\ MaxLog \in Nat
  BY DEF ConsoleLogs, ConsoleDataOK
<1>2. k # None => k \in Places /\ k[1] \in 1 .. MaxLogs /\ k[2] \in Nat /\ k = <<k[1], k[2]>>
  BY DEF Cursors, Places
<1>3. PICK reset : reset = (k # None /\ (k[1] # console_log.file \/ k[2] > console_log.len))
  OBVIOUS
<1>4. PICK start : start = IF k # None /\ ~reset THEN k[2]
                           ELSE IF console_log.len > Chunk THEN console_log.len - Chunk ELSE 0
  OBVIOUS
<1>5. PICK end : end = Console!Min2(console_log.len, start + Chunk)
  OBVIOUS
<1>6. PICK text : text = [i \in 1 .. (end - start) |-> <<console_log.file, start + i - 1>>]
  OBVIOUS
<1>7. /\ Console!Reply(k).reset = reset /\ Console!Reply(k).next = <<console_log.file, end>> /\ Console!Reply(k).text = text
  BY <1>3, <1>4, <1>5, <1>6 DEF Console!Reply
<1>8. start \in Nat /\ start <= console_log.len
  <2>1. CASE k # None /\ ~reset
    <3>1. start = k[2] /\ k[2] \in Nat
      BY <1>2, <1>4, <2>1
    <3>2. ~(k[2] > console_log.len)
      BY <1>3, <2>1
    <3> QED BY <1>1, <3>1, <3>2
  <2>2. CASE ~(k # None /\ ~reset)
    <3>1. start = IF console_log.len > Chunk THEN console_log.len - Chunk ELSE 0
      BY <1>4, <2>2
    <3> QED BY <1>1, <3>1
  <2> QED BY <2>1, <2>2
<1>9. end \in Nat /\ end <= console_log.len /\ start <= end
  BY <1>1, <1>5, <1>8 DEF Console!Min2
<1>10. <<console_log.file, end>> \in Places
  BY <1>1, <1>9 DEF Places
<1>11. \A i \in 1 .. (end - start) : <<console_log.file, start + i - 1>> \in Console!Bytes
  BY <1>1, <1>8, <1>9 DEF Console!Bytes
<1>12. /\ text \in Seq(Console!Bytes) /\ Len(text) = end - start
       /\ \A i \in 1 .. Len(text) : text[i] = <<console_log.file, start + i - 1>>
  <2>1. PICK n \in Nat : n = end - start
    BY <1>8, <1>9
  <2>2. text = [i \in 1 .. n |-> <<console_log.file, start + i - 1>>]
    BY <1>6, <2>1
  <2>3. text \in [1 .. n -> Console!Bytes]
    BY <1>11, <2>1, <2>2
  <2>4. text \in Seq(Console!Bytes)
    BY <2>3
  <2>5. Len(text) = n
    BY <2>2, <2>4, LenProperties
  <2> QED BY <2>1, <2>2, <2>4, <2>5
<1>13. Stretch(text)
  <2>1. ASSUME NEW i \in 2 .. Len(text) PROVE text[i] = After(text[i - 1])
    <3>1. i - 1 \in 1 .. Len(text) /\ i \in 1 .. Len(text)
      BY <1>8, <1>9, <1>12
    <3>2. text[i - 1] = <<console_log.file, start + (i - 1) - 1>> /\ text[i] = <<console_log.file, start + i - 1>>
      BY <1>12, <3>1
    <3>3. start + (i - 1) - 1 + 1 = start + i - 1
      BY <1>8, <2>1
    <3> QED BY <3>2, <3>3 DEF After
  <2> QED BY <1>12, <2>1 DEF Stretch
<1>14. EndsAt(text, <<console_log.file, end>>)
  <2> SUFFICES ASSUME text # <<>> PROVE <<console_log.file, end>> = After(text[Len(text)])
    BY DEF EndsAt
  <2>1. Len(text) \in 1 .. Len(text)
    BY <1>8, <1>9, <1>12
  <2>2. text[Len(text)] = <<console_log.file, start + (end - start) - 1>>
    BY <1>12, <2>1
  <2>3. start + (end - start) - 1 + 1 = end
    BY <1>8, <1>9
  <2> QED BY <2>2, <2>3 DEF After
<1>15. ASSUME k # None, ~reset
       PROVE  /\ text # <<>> => text[1] = k
              /\ text = <<>> => <<console_log.file, end>> = k
  <2>1. start = k[2] /\ k[1] = console_log.file /\ k = <<console_log.file, start>>
    BY <1>2, <1>3, <1>4, <1>15
  <2>2. ASSUME text # <<>> PROVE text[1] = k
    <3>1. 1 \in 1 .. Len(text)
      BY <1>8, <1>9, <1>12, <2>2
    <3>2. text[1] = <<console_log.file, start + 1 - 1>> /\ start + 1 - 1 = start
      BY <1>8, <1>12, <3>1
    <3> QED BY <2>1, <3>2
  <2>3. ASSUME text = <<>> PROVE end = start
    BY <1>8, <1>9, <1>12, <2>3
  <2> QED BY <2>1, <2>2, <2>3
<1> QED BY <1>7, <1>10, <1>13, <1>14, <1>15

\* Two stretches that meet are one.
LEMMA JoinFacts ==
  ASSUME ConsoleDataOK, NEW t, NEW u, Stretch(t), Stretch(u), NEW k, NEW next,
         EndsAt(t, k), EndsAt(u, next), t # <<>> /\ u # <<>> => u[1] = k, u = <<>> => next = k
  PROVE  Stretch(t \o u) /\ EndsAt(t \o u, next)
<1>1. /\ t \in Seq(Console!Bytes) /\ u \in Seq(Console!Bytes) /\ t \o u \in Seq(Console!Bytes)
      /\ Len(t) \in Nat /\ Len(u) \in Nat /\ Len(t \o u) = Len(t) + Len(u)
      /\ \A i \in 1 .. Len(t) : (t \o u)[i] = t[i]
      /\ \A i \in 1 .. Len(u) : (t \o u)[Len(t) + i] = u[i]
  BY DEF Stretch
<1>2. ASSUME NEW i \in 2 .. Len(t) + Len(u) PROVE (t \o u)[i] = After((t \o u)[i - 1])
  <2>1. CASE i <= Len(t)
    <3>1. i \in 2 .. Len(t) /\ i \in 1 .. Len(t) /\ i - 1 \in 1 .. Len(t)
      BY <1>1, <2>1
    <3>2. (t \o u)[i] = t[i] /\ (t \o u)[i - 1] = t[i - 1]
      BY <1>1, <3>1
    <3> QED BY <3>1, <3>2 DEF Stretch
  <2>2. CASE i = Len(t) + 1
    <3>1. Len(t) \in 1 .. Len(t) /\ 1 \in 1 .. Len(u) /\ i - 1 = Len(t)
      BY <1>1, <1>2, <2>2
    <3>2. (t \o u)[i] = u[1] /\ (t \o u)[i - 1] = t[Len(t)]
      BY <1>1, <2>2, <3>1
    <3>3. t # <<>> /\ u # <<>>
      BY <3>1
    <3> QED BY <3>2, <3>3 DEF EndsAt
  <2>3. CASE i > Len(t) + 1
    <3>0. i - Len(t) \in 2 .. Len(u)
      BY <1>1, <1>2, <2>3
    <3>1. PICK j \in 2 .. Len(u) : j = i - Len(t)
      BY <3>0
    <3>2. j \in 1 .. Len(u) /\ j - 1 \in 1 .. Len(u) /\ i = Len(t) + j /\ i - 1 = Len(t) + (j - 1)
      BY <1>1, <3>1
    <3>3. (t \o u)[i] = u[j] /\ (t \o u)[i - 1] = u[j - 1]
      BY <1>1, <3>2
    <3> QED BY <3>1, <3>3 DEF Stretch
  <2> QED BY <1>1, <2>1, <2>2, <2>3
<1>3. Stretch(t \o u)
  BY <1>1, <1>2 DEF Stretch
<1>4. ASSUME t \o u # <<>> PROVE next = After((t \o u)[Len(t \o u)])
  <2>1. CASE u # <<>>
    <3>1. Len(u) \in 1 .. Len(u)
      BY <1>1, <2>1
    <3>2. (t \o u)[Len(t \o u)] = u[Len(u)]
      BY <1>1, <3>1
    <3> QED BY <2>1, <3>2 DEF EndsAt
  <2>2. CASE u = <<>>
    <3>1. Len(u) = 0 /\ Len(t \o u) = Len(t) /\ t # <<>>
      BY <1>1, <1>4, <2>2
    <3>2. Len(t) \in 1 .. Len(t)
      BY <1>1, <3>1
    <3>3. (t \o u)[Len(t \o u)] = t[Len(t)]
      BY <1>1, <3>1, <3>2
    <3> QED BY <2>2, <3>1, <3>3 DEF EndsAt
  <2> QED BY <2>1, <2>2
<1> QED BY <1>3, <1>4 DEF EndsAt

\* The end of a stretch is one.
LEMMA TrimmedFacts ==
  ASSUME ConsoleDataOK, NEW t, Stretch(t), NEW u \in Console!Trimmed(t), NEW k, EndsAt(t, k)
  PROVE  Stretch(u) /\ EndsAt(u, k) /\ Len(u) <= MaxText
<1>1. t \in Seq(Console!Bytes) /\ Len(t) \in Nat /\ MaxText \in Nat
  BY DEF Stretch, ConsoleDataOK
<1>2. CASE Len(t) <= MaxText
  BY <1>2 DEF Console!Trimmed
<1>3. CASE ~(Len(t) <= MaxText)
  <2>1. PICK cut \in (Len(t) - MaxText) .. Len(t) : u = SubSeq(t, cut + 1, Len(t))
    BY <1>3 DEF Console!Trimmed
  <2>2. cut \in Nat /\ cut <= Len(t) /\ Len(t) - cut <= MaxText
    BY <1>1, <1>3, <2>1
  <2>3. \A i \in cut + 1 .. Len(t) : t[i] \in Console!Bytes
    BY <1>1, <2>2
  <2>4. /\ u \in Seq(Console!Bytes) /\ Len(u) = Len(t) - cut
        /\ \A i \in 1 .. Len(t) - (cut + 1) + 1 : u[i] = t[(cut + 1) + i - 1]
    BY <1>1, <2>1, <2>2, <2>3, SubSeqProperties
  <2>5. \A i \in 1 .. Len(u) : u[i] = t[cut + i]
    BY <1>1, <2>2, <2>4
  <2>6. ASSUME NEW i \in 2 .. Len(u) PROVE u[i] = After(u[i - 1])
    <3>1. i \in 1 .. Len(u) /\ i - 1 \in 1 .. Len(u) /\ cut + i \in 2 .. Len(t) /\ cut + (i - 1) = cut + i - 1
      BY <1>1, <2>2, <2>4, <2>6
    <3>2. u[i] = t[cut + i] /\ u[i - 1] = t[cut + i - 1]
      BY <2>5, <3>1
    <3> QED BY <3>1, <3>2 DEF Stretch
  <2>7. ASSUME u # <<>> PROVE k = After(u[Len(u)])
    <3>1. Len(u) \in 1 .. Len(u) /\ cut + Len(u) = Len(t) /\ t # <<>>
      BY <1>1, <2>2, <2>4, <2>7
    <3>2. u[Len(u)] = t[Len(t)]
      BY <2>5, <3>1
    <3> QED BY <3>1, <3>2 DEF EndsAt
  <2> QED BY <2>2, <2>4, <2>6, <2>7 DEF Stretch, EndsAt
<1> QED BY <1>2, <1>3

(* The steps.                                                              *)

LEMMA ConsoleFacts ==
  ASSUME ConsoleIInv
  PROVE  /\ console_c \in Consoles /\ Base(console_c) /\ ReadsInv(console_c) /\ TextInv(console_c) /\ Stretch(console_c.text)
         /\ Len(console_c.text) <= MaxText /\ UnreadInv(console_c) /\ OpeningInv(console_c) /\ console_c.reads \subseteq Reads
BY DEF ConsoleIInv, Good, Base, TextInv, Consoles

\* A step of the console that leaves it good.
LEMMA ConsoleStep ==
  ASSUME ConsoleIInv, NEW e, Good(e), console_c' = e, console_running' \in BOOLEAN, UNCHANGED <<console_rev, console_log>>
  PROVE  ConsoleIInv'
<1>1. console_rev' \in 1 .. MaxVisits /\ console_log' \in ConsoleLogs \cup {None}
  BY DEF ConsoleIInv
<1> QED BY <1>1 DEF ConsoleIInv, Good, Base, ReadsInv, TextInv, UnreadInv, OpeningInv, Stretch, EndsAt,
           After

\* The console notices that the screen is of another endpoint, or is closed.
LEMMA ShutStep ==
  ASSUME ConsoleDataOK, ConsoleIInv, console_c' = Console!Shut(console_c), console_running' \in BOOLEAN, UNCHANGED <<console_rev, console_log>>
  PROVE  ConsoleIInv'
BY ConsoleFacts, ShutGood, ConsoleStep

LEMMA WriteInv == ASSUME ConsoleDataOK, ConsoleIInv, Console!Write PROVE ConsoleIInv'
<1>1. console_log' \in ConsoleLogs
  BY DEF Console!Write, ConsoleIInv, ConsoleLogs, ConsoleDataOK
<1>2. UNCHANGED <<console_rev, console_running, console_c>>
  BY DEF Console!Write
<1> QED BY <1>1, <1>2 DEF ConsoleIInv, Good, Base, ReadsInv, TextInv, UnreadInv, OpeningInv, Stretch,
           EndsAt, After

LEMMA VisitInv == ASSUME ConsoleDataOK, ConsoleIInv, Console!Visit PROVE ConsoleIInv'
<1>1. console_rev' \in 1 .. MaxVisits
  BY DEF Console!Visit, ConsoleIInv, ConsoleDataOK
<1>2. UNCHANGED <<console_log, console_running, console_c>>
  BY DEF Console!Visit
<1> QED BY <1>1, <1>2 DEF ConsoleIInv, Good, Base, ReadsInv, TextInv, UnreadInv, OpeningInv, Stretch,
           EndsAt, After

LEMMA OpenInv == ASSUME ConsoleDataOK, ConsoleIInv, Console!Open PROVE ConsoleIInv'
<1>1. PICK s : s = Console!Shut(console_c)
  OBVIOUS
<1>2. PICK e : e = [s EXCEPT !.open = TRUE, !.scope = console_rev, !.opening = "connecting",
                             !.text = <<>>, !.running = console_running, !.unread = ~console_running]
  OBVIOUS
<1>3. Good(s)
  BY <1>1, ConsoleFacts, ShutGood
<1>4. s.session = FALSE /\ s.reads = {} /\ s.inFlight = FALSE
  BY <1>1, ConsoleFacts DEF Console!Shut, Console!Blank
<1>5. s \in Consoles /\ console_rev \in 0 .. MaxVisits /\ console_running \in BOOLEAN /\ <<>> \in Seq(Console!Bytes)
  BY <1>3 DEF Good, Base, ConsoleIInv, ConsoleDataOK
<1>6. (~console_running) \in BOOLEAN
  OBVIOUS
<1>7. /\ e \in Consoles /\ e.session = s.session /\ e.reads = s.reads /\ e.inFlight = s.inFlight
      /\ e.open = TRUE /\ e.text = <<>> /\ e.running = console_running /\ e.unread = ~console_running
  BY <1>2, <1>5, <1>6 DEF Consoles
<1>8. Len(e.text) = 0 /\ Stretch(e.text) /\ EndsAt(e.text, e.cursor)
  BY <1>7, EmptyText
<1>9. TextInv(e)
  BY <1>8 DEF TextInv, ConsoleDataOK
<1>10. ReadsInv(e) /\ UnreadInv(e) /\ OpeningInv(e)
  BY <1>4, <1>7 DEF ReadsInv, UnreadInv, OpeningInv
<1>11. console_c' = e /\ UNCHANGED <<console_rev, console_log>> /\ console_running' \in BOOLEAN
  BY <1>1, <1>2, <1>5 DEF Console!Open
<1> QED BY <1>7, <1>9, <1>10, <1>11, ConsoleStep DEF Good, Base

LEMMA CloseInv == ASSUME ConsoleDataOK, ConsoleIInv, Console!Close PROVE ConsoleIInv'
<1>1. console_c' = Console!Shut(console_c) /\ console_running' \in BOOLEAN /\ UNCHANGED <<console_rev, console_log>>
  BY DEF Console!Close, ConsoleIInv
<1> QED BY <1>1, ShutStep

LEMMA SetRunningInv == ASSUME ConsoleDataOK, ConsoleIInv, Console!SetRunning PROVE ConsoleIInv'
<1>1. console_running' \in BOOLEAN /\ UNCHANGED <<console_rev, console_log>> /\ console_c \in Consoles /\ Base(console_c) /\ OpeningInv(console_c) /\ Good(console_c)
  BY ConsoleFacts DEF Console!SetRunning, ConsoleIInv
<1>2. CASE ~console_c.open \/ console_c.running = console_running'
  <2>1. console_c' = console_c
    BY <1>2 DEF Console!SetRunning
  <2> QED BY <1>1, <2>1, ConsoleStep
<1>3. CASE ~(~console_c.open \/ console_c.running = console_running') /\ ~Console!Current
  <2>1. console_c' = Console!Shut(console_c)
    BY <1>3 DEF Console!SetRunning
  <2> QED BY <1>1, <2>1, ShutStep
<1>4. CASE ~(~console_c.open \/ console_c.running = console_running') /\ Console!Current /\ console_running'
  <2>1. PICK d : d = [console_c EXCEPT !.running = TRUE, !.final = FALSE, !.timer = FALSE, !.unread = FALSE]
    OBVIOUS
  <2>2. /\ d \in Consoles /\ d.unread = FALSE /\ d.opening = console_c.opening /\ d.session = console_c.session
        /\ d.open = console_c.open /\ d.inFlight = console_c.inFlight /\ d.reads = console_c.reads /\ d.text = console_c.text
        /\ d.cursor = console_c.cursor
    BY <1>1, <2>1 DEF Consoles
  <2>5. Base(d)
    BY <1>1, <2>2 DEF Base, ReadsInv, TextInv
  <2>3. console_c' = Console!Reading(d)
    BY <1>4, <2>1 DEF Console!SetRunning
  <2>4. Good(Console!Reading(d))
    BY <1>1, <2>2, <2>5, ReadingGood DEF Good, OpeningInv
  <2> QED BY <1>1, <2>3, <2>4, ConsoleStep
<1>5. CASE ~(~console_c.open \/ console_c.running = console_running') /\ Console!Current /\ ~console_running'
  <2>1. PICK d : d = [console_c EXCEPT !.running = FALSE, !.unread = TRUE]
    OBVIOUS
  <2>2. console_c' = Console!Stopped(d)
    BY <1>5, <2>1 DEF Console!SetRunning
  <2>3. /\ d \in Consoles /\ d.running = FALSE /\ d.unread = TRUE /\ d.open = console_c.open
        /\ d.session = console_c.session /\ d.inFlight = console_c.inFlight /\ d.opening = console_c.opening
        /\ d.reads = console_c.reads /\ d.text = console_c.text /\ d.cursor = console_c.cursor
    BY <1>1, <2>1 DEF Consoles
  <2>4. Base(d)
    BY <1>1, <2>3 DEF Base, ReadsInv, TextInv
  <2>5. /\ Base(d) /\ d.running = FALSE /\ d.unread = TRUE /\ d.open = console_c.open /\ d.session = console_c.session
        /\ d.inFlight = console_c.inFlight /\ d.opening = console_c.opening
    BY <2>3, <2>4
  <2>6. d \in Consoles
    BY <2>3
  <2>7. CASE d.inFlight
    <3>1. PICK e : e = [d EXCEPT !.timer = FALSE, !.final = TRUE]
      OBVIOUS
    <3>2. /\ e \in Consoles /\ e.running = FALSE /\ e.final = TRUE /\ e.unread = TRUE
          /\ e.open = d.open /\ e.session = d.session /\ e.inFlight = d.inFlight
          /\ e.opening = d.opening /\ e.reads = d.reads /\ e.text = d.text /\ e.cursor = d.cursor
      BY <2>5, <2>6, <3>1 DEF Consoles
    <3>3. Base(e)
      BY <2>5, <3>2 DEF Base, ReadsInv, TextInv
    <3>4. Good(e)
      BY <1>1, <2>5, <2>7, <3>2, <3>3 DEF Good, UnreadInv, OpeningInv
    <3>5. console_c' = e
      BY <2>2, <2>7, <3>1 DEF Console!Stopped
    <3> QED BY <1>1, <3>4, <3>5, ConsoleStep
  <2>8. CASE ~d.inFlight
    <3>1. PICK e : e = [d EXCEPT !.timer = FALSE, !.final = FALSE]
      OBVIOUS
    <3>2. /\ e \in Consoles /\ e.running = FALSE /\ e.unread = TRUE
          /\ e.open = d.open /\ e.session = d.session /\ e.inFlight = d.inFlight
          /\ e.opening = d.opening /\ e.reads = d.reads /\ e.text = d.text /\ e.cursor = d.cursor
      BY <2>5, <2>6, <3>1 DEF Consoles
    <3>3. Base(e)
      BY <2>5, <3>2 DEF Base, ReadsInv, TextInv
    <3>4. Good(Console!Reading(e))
      BY <1>1, <2>5, <2>8, <3>2, <3>3, ReadingGood DEF Good, OpeningInv
    <3>5. console_c' = Console!Reading(e)
      BY <2>2, <2>8, <3>1 DEF Console!Stopped
    <3> QED BY <1>1, <3>4, <3>5, ConsoleStep
  <2> QED BY <2>7, <2>8
<1> QED BY <1>2, <1>3, <1>4, <1>5

\* The timer is disarmed.
LEMMA TimerFacts ==
  ASSUME ConsoleIInv
  PROVE  LET d == [console_c EXCEPT !.timer = FALSE]
         IN /\ Good(d) /\ d.session = console_c.session /\ d.inFlight = console_c.inFlight /\ d.open = console_c.open
            /\ d.running = console_c.running /\ d.unread = console_c.unread /\ d.final = console_c.final /\ d.opening = console_c.opening
<1>1. Base(console_c) /\ console_c \in Consoles /\ UnreadInv(console_c) /\ OpeningInv(console_c)
  BY ConsoleFacts
<1>2. PICK d : d = [console_c EXCEPT !.timer = FALSE]
  OBVIOUS
<1>3. /\ d \in Consoles /\ d.session = console_c.session /\ d.inFlight = console_c.inFlight /\ d.open = console_c.open
      /\ d.running = console_c.running /\ d.unread = console_c.unread /\ d.final = console_c.final /\ d.opening = console_c.opening
      /\ d.reads = console_c.reads /\ d.text = console_c.text /\ d.cursor = console_c.cursor
  BY <1>1, <1>2 DEF Consoles
<1>4. Base(d)
  BY <1>1, <1>3 DEF Base, ReadsInv, TextInv
<1> QED BY <1>1, <1>2, <1>3, <1>4 DEF Good, UnreadInv, OpeningInv

\* Only the opening changes; there is a session if it waits for none.
LEMMA OpeningGood ==
  ASSUME NEW d, Good(d), d.open, NEW o \in {"none", "waiting", "connecting", "reading"},
         o \in {"waiting", "connecting"} => ~d.session
  PROVE  Good([d EXCEPT !.opening = o])
<1>1. PICK e : e = [d EXCEPT !.opening = o]
  OBVIOUS
<1>2. d \in Consoles
  BY DEF Good, Base
<1>3. /\ e \in Consoles /\ e.running = d.running /\ e.final = d.final
      /\ e.unread = d.unread /\ e.open = d.open /\ e.session = d.session /\ e.inFlight = d.inFlight
      /\ e.opening = o /\ e.reads = d.reads /\ e.text = d.text /\ e.cursor = d.cursor
  BY <1>1, <1>2 DEF Consoles
<1>4. ReadsInv(e) /\ TextInv(e)
  BY <1>3 DEF Good, Base, ReadsInv, TextInv
<1> QED BY <1>1, <1>3, <1>4 DEF Good, Base, UnreadInv, OpeningInv

LEMMA RetryInv == ASSUME ConsoleDataOK, ConsoleIInv, Console!Retry PROVE ConsoleIInv'
<1>1. console_running' \in BOOLEAN /\ UNCHANGED <<console_rev, console_log>> /\ console_c.open
  BY DEF Console!Retry, ConsoleIInv
<1>2. CASE ~Console!Current
  <2>1. console_c' = Console!Shut(console_c)
    BY <1>2 DEF Console!Retry
  <2> QED BY <1>1, <2>1, ShutStep
<1>3. CASE Console!Current
  <2>1. PICK d : d = [console_c EXCEPT !.timer = FALSE]
    OBVIOUS
  <2>2. Good(d) /\ d.open
    BY <1>1, <2>1, TimerFacts
  <2>3. CASE d.session
    <3>1. console_c' = Console!Awaiting(d)
      BY <1>3, <2>1, <2>3 DEF Console!Retry
    <3>2. Good(Console!Awaiting(d))
      BY <2>2, <2>3, AwaitingGood DEF Good, UnreadInv
    <3> QED BY <1>1, <3>1, <3>2, ConsoleStep
  <2>4. CASE ~d.session
    <3>1. console_c' = [d EXCEPT !.opening = "waiting"]
      BY <1>3, <2>1, <2>4 DEF Console!Retry
    <3>2. Good([d EXCEPT !.opening = "waiting"])
      BY <2>2, <2>4, OpeningGood
    <3> QED BY <1>1, <3>1, <3>2, ConsoleStep
  <2> QED BY <2>3, <2>4
<1> QED BY <1>2, <1>3

LEMMA ReconnectInv == ASSUME ConsoleDataOK, ConsoleIInv, Console!Reconnect PROVE ConsoleIInv'
<1>1. console_running' \in BOOLEAN /\ UNCHANGED <<console_rev, console_log>> /\ console_c.opening = "waiting" /\ Good(console_c)
  BY DEF Console!Reconnect, ConsoleIInv
<1>2. console_c.open /\ ~console_c.session
  BY <1>1, ConsoleFacts DEF ReadsInv, OpeningInv
<1>3. CASE ~Console!Current
  <2>1. console_c' = Console!Shut(console_c)
    BY <1>3 DEF Console!Reconnect
  <2> QED BY <1>1, <2>1, ShutStep
<1>4. CASE Console!Current
  <2>1. console_c' = [console_c EXCEPT !.opening = "connecting"]
    BY <1>4 DEF Console!Reconnect
  <2>2. Good([console_c EXCEPT !.opening = "connecting"])
    BY <1>1, <1>2, OpeningGood
  <2> QED BY <1>1, <2>1, <2>2, ConsoleStep
<1> QED BY <1>3, <1>4

LEMMA ConnectedInv == ASSUME ConsoleDataOK, ConsoleIInv, Console!Connected PROVE ConsoleIInv'
<1>1. console_running' \in BOOLEAN /\ UNCHANGED <<console_rev, console_log>> /\ console_c.opening = "connecting" /\ Good(console_c) /\ console_c \in Consoles
  BY ConsoleFacts DEF Console!Connected, ConsoleIInv
<1>2. console_c.open /\ ~console_c.session /\ ~console_c.inFlight /\ \A r \in console_c.reads : ~r.id
  BY <1>1, ConsoleFacts DEF ReadsInv, OpeningInv
<1>3. CASE console_c' = Console!Shut(console_c)
  BY <1>1, <1>3, ShutStep
<1>4. CASE console_c' = [console_c EXCEPT !.opening = "none"]
  BY <1>1, <1>2, <1>4, OpeningGood, ConsoleStep
<1>5. CASE console_c' = Console!Awaiting([console_c EXCEPT !.session = TRUE])
  <2>1. PICK d : d = [console_c EXCEPT !.session = TRUE]
    OBVIOUS
  <2>2. /\ d \in Consoles /\ d.session = TRUE /\ d.open = console_c.open /\ d.inFlight = console_c.inFlight
        /\ d.reads = console_c.reads /\ d.text = console_c.text /\ d.cursor = console_c.cursor /\ d.unread = console_c.unread
        /\ d.running = console_c.running /\ d.opening = console_c.opening
    BY <1>1, <2>1 DEF Consoles
  <2>3. Base(d)
    BY <1>2, <2>2, ConsoleFacts DEF Base, ReadsInv, TextInv
  <2>4. d.open /\ d.unread => ~d.running
    BY <2>2, ConsoleFacts DEF UnreadInv
  <2>5. Good(Console!Awaiting(d))
    BY <1>2, <2>2, <2>3, <2>4, AwaitingGood
  <2> QED BY <1>1, <1>5, <2>1, <2>5, ConsoleStep
<1> QED BY <1>3, <1>4, <1>5 DEF Console!Connected

LEMMA TickInv == ASSUME ConsoleDataOK, ConsoleIInv, Console!Tick PROVE ConsoleIInv'
<1>1. console_running' \in BOOLEAN /\ UNCHANGED <<console_rev, console_log>>
  BY DEF Console!Tick, ConsoleIInv
<1>2. PICK d : d = [console_c EXCEPT !.timer = FALSE]
  OBVIOUS
<1>3. Good(d)
  BY <1>2, TimerFacts
<1>4. Good(Console!Reading(d))
  <2>1. Base(d) /\ UnreadInv(d) /\ OpeningInv(d)
    BY <1>3 DEF Good
  <2>2. Base(Console!Reading(d)) /\ UnreadInv(Console!Reading(d)) /\ Console!Reading(d).session = d.session /\ Console!Reading(d).opening = d.opening
    BY <2>1, ReadingGood DEF UnreadInv, Base, ReadsInv
  <2> QED BY <2>1, <2>2 DEF Good, OpeningInv
<1>5. console_c' \in {Console!Shut(console_c), Console!Reading(d), d}
  BY <1>2 DEF Console!Tick
<1>6. CASE console_c' = Console!Shut(console_c)
  BY <1>1, <1>6, ShutStep
<1>7. CASE console_c' = d
  BY <1>1, <1>3, <1>7, ConsoleStep
<1>8. CASE console_c' = Console!Reading(d)
  BY <1>1, <1>4, <1>8, ConsoleStep
<1> QED BY <1>5, <1>6, <1>7, <1>8

\* The answer to the read that counts: what the screen shows goes on with it.
LEMMA ConsoleAnswerFacts ==
  ASSUME ConsoleDataOK, ConsoleIInv, console_log \in ConsoleLogs, NEW r \in console_c.reads, r.id,
         NEW t \in Console!Trimmed(IF Console!Reply(r.cursor).reset THEN Console!Reply(r.cursor).text ELSE console_c.text \o Console!Reply(r.cursor).text)
  PROVE  Stretch(t) /\ EndsAt(t, Console!Reply(r.cursor).next) /\ Len(t) <= MaxText /\ Console!Reply(r.cursor).next \in Places
<1>1. PICK a : a = Console!Reply(r.cursor)
  OBVIOUS
<1>2. r.cursor = console_c.cursor /\ console_c.open /\ r.cursor \in Cursors
  BY ConsoleFacts DEF ReadsInv, Reads
<1>3. EndsAt(console_c.text, console_c.cursor) /\ Stretch(console_c.text)
  BY <1>2, ConsoleFacts DEF TextInv
<1>4. /\ a.next \in Places /\ Stretch(a.text) /\ EndsAt(a.text, a.next)
      /\ r.cursor # None /\ ~a.reset => /\ a.text # <<>> => a.text[1] = r.cursor
                                        /\ a.text = <<>> => a.next = r.cursor
  BY <1>1, <1>2, ReplyFacts
<1>5. CASE a.reset
  BY <1>1, <1>4, <1>5, TrimmedFacts
<1>6. CASE ~a.reset
  <2>1. CASE console_c.text = <<>>
    <3>1. console_c.text \o a.text = a.text
      BY <1>4, <2>1 DEF Stretch
    <3>2. t \in Console!Trimmed(a.text)
      BY <1>1, <1>6, <3>1
    <3>3. Stretch(t) /\ EndsAt(t, a.next) /\ Len(t) <= MaxText
      BY <1>4, <3>2, TrimmedFacts
    <3> QED BY <1>1, <1>4, <3>3
  <2>2. CASE console_c.text # <<>>
    <3>1. console_c.text \in Seq(Console!Bytes) /\ Len(console_c.text) \in 1 .. Len(console_c.text)
      BY <1>3, <2>2 DEF Stretch
    <3>2. console_c.text[Len(console_c.text)] \in Console!Bytes
      BY <3>1
    <3>3. console_c.cursor = After(console_c.text[Len(console_c.text)])
      BY <1>3, <2>2 DEF EndsAt
    <3>4. console_c.cursor # None
      BY <3>2, <3>3, PlaceFacts
    <3>5. (a.text # <<>> => a.text[1] = console_c.cursor) /\ (a.text = <<>> => a.next = console_c.cursor)
      BY <1>2, <1>4, <1>6, <3>4
    <3>6. Stretch(console_c.text \o a.text) /\ EndsAt(console_c.text \o a.text, a.next)
      BY <1>3, <1>4, <3>5, JoinFacts
    <3>7. t \in Console!Trimmed(console_c.text \o a.text)
      BY <1>1, <1>6
    <3>8. Stretch(t) /\ EndsAt(t, a.next) /\ Len(t) <= MaxText
      BY <3>6, <3>7, TrimmedFacts
    <3> QED BY <1>1, <1>4, <3>8
  <2> QED BY <2>1, <2>2
<1> QED BY <1>5, <1>6

\* The read that counts ends, and the console shows t up to k.
LEMMA CountedGood ==
  ASSUME ConsoleDataOK, ConsoleIInv, NEW r \in console_c.reads, r.id, NEW k \in Cursors, NEW t, Stretch(t), EndsAt(t, k),
         Len(t) <= MaxText
  PROVE  Good(Console!Settled([Console!Ended(console_c, r) EXCEPT !.cursor = k, !.text = t]))
<1>1. PICK d : d = Console!Ended(console_c, r)
  OBVIOUS
<1>2. /\ d \in Consoles /\ d.reads = console_c.reads \ {r}
      /\ d.open = console_c.open /\ d.session = console_c.session /\ d.opening \in {console_c.opening, "none"}
      /\ d.unread = console_c.unread /\ d.final = console_c.final /\ d.running = console_c.running
  BY <1>1, ConsoleFacts, ConsoleEndedFacts
<1>3. PICK e : e = [d EXCEPT !.cursor = k, !.text = t]
  OBVIOUS
<1>4. t \in Seq(Console!Bytes)
  BY DEF Stretch
<1>5. /\ e \in Consoles /\ e.reads = d.reads /\ e.open = d.open /\ e.session = d.session
      /\ e.opening = d.opening /\ e.unread = d.unread /\ e.final = d.final /\ e.running = d.running
      /\ e.cursor = k /\ e.text = t
  BY <1>2, <1>3, <1>4 DEF Consoles
<1>6. TextInv(e)
  BY <1>5 DEF TextInv
<1>7. Good(console_c)
  BY DEF ConsoleIInv
<1>8. Good(Console!Settled(e))
  BY <1>2, <1>5, <1>6, <1>7, SettledGood
<1> QED BY <1>1, <1>3, <1>8

LEMMA AnsweredInv == ASSUME ConsoleDataOK, ConsoleIInv, NEW r \in console_c.reads, Console!Answered(r) PROVE ConsoleIInv'
<1>1. console_running' \in BOOLEAN /\ UNCHANGED <<console_rev, console_log>> /\ console_log \in ConsoleLogs /\ Good(console_c)
  BY DEF Console!Answered, ConsoleIInv
<1>2. CASE ~Console!Current
  <2>1. console_c' = Console!Shut(console_c)
    BY <1>2 DEF Console!Answered
  <2> QED BY <1>1, <2>1, ShutStep
<1>3. CASE Console!Current /\ ~r.id
  <2>1. console_c' = Console!Ended(console_c, r)
    BY <1>3 DEF Console!Answered, Console!Accepts
  <2> QED BY <1>1, <1>3, <2>1, EndedGood, ConsoleStep
<1>4. CASE Console!Current /\ r.id
  <2>1. PICK a : a = Console!Reply(r.cursor)
    OBVIOUS
  <2>2. PICK d : d = Console!Ended(console_c, r)
    OBVIOUS
  <2>3. d.text = console_c.text
    BY <2>2, ConsoleFacts, ConsoleEndedFacts
  <2>4. PICK t \in Console!Trimmed(IF a.reset THEN a.text ELSE d.text \o a.text) :
          console_c' = Console!Settled([d EXCEPT !.cursor = a.next, !.text = t])
    BY <1>4, <2>1, <2>2 DEF Console!Answered, Console!Accepts
  <2>5. Stretch(t) /\ EndsAt(t, a.next) /\ Len(t) <= MaxText /\ a.next \in Cursors
    BY <1>1, <1>4, <2>1, <2>3, <2>4, ConsoleAnswerFacts DEF Cursors
  <2>6. Good(Console!Settled([d EXCEPT !.cursor = a.next, !.text = t]))
    BY <1>4, <2>2, <2>5, CountedGood
  <2> QED BY <1>1, <2>4, <2>6, ConsoleStep
<1> QED BY <1>2, <1>3, <1>4

LEMMA FailedInv == ASSUME ConsoleDataOK, ConsoleIInv, NEW r \in console_c.reads, Console!Failed(r) PROVE ConsoleIInv'
<1>1. console_running' \in BOOLEAN /\ UNCHANGED <<console_rev, console_log>> /\ Good(console_c) /\ console_c \in Consoles
  BY ConsoleFacts DEF Console!Failed, ConsoleIInv
<1>2. CASE ~Console!Current
  <2>1. console_c' = Console!Shut(console_c)
    BY <1>2 DEF Console!Failed
  <2> QED BY <1>1, <2>1, ShutStep
<1>3. CASE Console!Current /\ ~r.id
  <2>1. console_c' = Console!Ended(console_c, r)
    BY <1>3 DEF Console!Failed
  <2> QED BY <1>1, <1>3, <2>1, EndedGood, ConsoleStep
<1>4. CASE Console!Current /\ r.id
  <2>1. PICK d : d = Console!Ended(console_c, r)
    OBVIOUS
  <2>2. /\ d \in Consoles /\ d.reads = console_c.reads \ {r}
        /\ d.open = console_c.open /\ d.session = console_c.session /\ d.opening \in {console_c.opening, "none"}
        /\ d.unread = console_c.unread /\ d.final = console_c.final /\ d.running = console_c.running
        /\ d.text = console_c.text /\ d.cursor = console_c.cursor
    BY <1>1, <2>1, ConsoleEndedFacts
  <2>3. TextInv(d)
    BY <2>2, ConsoleFacts DEF TextInv
  <2>4. \/ console_c' = Console!Settled(d)
        \/ console_c' = Console!Retired(d)
        \/ console_c' = Console!Settled([d EXCEPT !.cursor = None, !.text = <<>>])
    BY <1>4, <2>1 DEF Console!Failed
  <2>5. CASE console_c' = Console!Settled(d)
    <3>1. Good(Console!Settled(d))
      BY <1>1, <1>4, <2>2, <2>3, SettledGood
    <3> QED BY <1>1, <2>5, <3>1, ConsoleStep
  <2>6. CASE console_c' = Console!Retired(d)
    <3>1. ~d.open => d.reads = {} /\ d.opening = "none"
      BY <2>2, ConsoleFacts DEF ReadsInv
    <3>2. d.open /\ d.unread => ~d.running
      BY <2>2, ConsoleFacts DEF UnreadInv
    <3> QED BY <1>1, <2>2, <2>3, <2>6, <3>1, <3>2, RetiredGood, ConsoleStep
  <2>7. CASE console_c' = Console!Settled([d EXCEPT !.cursor = None, !.text = <<>>])
    <3>1. Stretch(<<>>) /\ EndsAt(<<>>, None) /\ Len(<<>>) = 0 /\ None \in Cursors
      BY EmptyText DEF Cursors
    <3>2. Len(<<>>) <= MaxText
      BY <3>1 DEF ConsoleDataOK
    <3>3. Good(Console!Settled([d EXCEPT !.cursor = None, !.text = <<>>]))
      BY <1>4, <2>1, <3>1, <3>2, CountedGood
    <3> QED BY <1>1, <2>7, <3>3, ConsoleStep
  <2> QED BY <2>4, <2>5, <2>6, <2>7
<1> QED BY <1>2, <1>3, <1>4

\* Only the command changes.
LEMMA CommandGood ==
  ASSUME NEW d, Good(d), NEW x \in {"none", "own", "old"}
  PROVE  LET e == [d EXCEPT !.command = x]
         IN /\ Good(e) /\ e \in Consoles /\ e.text = d.text /\ e.open = d.open /\ e.reads = d.reads
            /\ e.opening = d.opening /\ e.unread = d.unread /\ e.running = d.running
<1>1. PICK e : e = [d EXCEPT !.command = x]
  OBVIOUS
<1>2. d \in Consoles
  BY DEF Good, Base
<1>3. /\ e \in Consoles /\ e.running = d.running /\ e.final = d.final
      /\ e.unread = d.unread /\ e.open = d.open /\ e.session = d.session /\ e.inFlight = d.inFlight
      /\ e.opening = d.opening /\ e.reads = d.reads /\ e.text = d.text /\ e.cursor = d.cursor
  BY <1>1, <1>2 DEF Consoles
<1>4. ReadsInv(e) /\ TextInv(e)
  BY <1>3 DEF Good, Base, ReadsInv, TextInv
<1>5. UnreadInv(e) /\ OpeningInv(e)
  BY <1>3 DEF Good, UnreadInv, OpeningInv
<1> QED BY <1>1, <1>3, <1>4, <1>5 DEF Good, Base

LEMMA SubmitInv == ASSUME ConsoleDataOK, ConsoleIInv, Console!Submit PROVE ConsoleIInv'
<1>1. console_running' \in BOOLEAN /\ UNCHANGED <<console_rev, console_log>> /\ Good(console_c)
  BY DEF Console!Submit, ConsoleIInv
<1>2. CASE ~Console!Current
  <2>1. console_c' = Console!Shut(console_c)
    BY <1>2 DEF Console!Submit
  <2> QED BY <1>1, <2>1, ShutStep
<1>3. CASE Console!Current
  <2>1. console_c' = [console_c EXCEPT !.command = "own"]
    BY <1>3 DEF Console!Submit
  <2>2. Good([console_c EXCEPT !.command = "own"])
    BY <1>1, CommandGood
  <2> QED BY <1>1, <2>1, <2>2, ConsoleStep
<1> QED BY <1>2, <1>3

LEMMA CommandedInv == ASSUME ConsoleDataOK, ConsoleIInv, Console!Commanded PROVE ConsoleIInv'
<1>1. console_running' \in BOOLEAN /\ UNCHANGED <<console_rev, console_log>> /\ Good(console_c) /\ console_c \in Consoles
  BY ConsoleFacts DEF Console!Commanded, ConsoleIInv
<1>2. PICK d : d = [console_c EXCEPT !.command = "none"]
  OBVIOUS
<1>3. /\ Good(d) /\ d \in Consoles /\ d.text = console_c.text /\ d.open = console_c.open /\ d.reads = console_c.reads
      /\ d.opening = console_c.opening /\ d.unread = console_c.unread /\ d.running = console_c.running
  BY <1>1, <1>2, CommandGood
<1>4. console_c' = Console!Shut(d) \/ console_c' = d \/ console_c' = Console!Retired(d)
  BY <1>2 DEF Console!Commanded
<1>5. CASE console_c' = Console!Shut(d)
  <2>1. Good(Console!Shut(d))
    BY <1>3, ConsoleFacts, ShutGood
  <2> QED BY <1>1, <1>5, <2>1, ConsoleStep
<1>6. CASE console_c' = d
  BY <1>1, <1>3, <1>6, ConsoleStep
<1>7. CASE console_c' = Console!Retired(d)
  <2>1. TextInv(d)
    BY <1>3 DEF Good, Base
  <2>2. (~d.open => d.reads = {} /\ d.opening = "none") /\ (d.open /\ d.unread => ~d.running)
    BY <1>3 DEF Good, Base, ReadsInv, UnreadInv
  <2> QED BY <1>1, <1>3, <1>7, <2>1, <2>2, RetiredGood, ConsoleStep
<1> QED BY <1>4, <1>5, <1>6, <1>7

LEMMA ConsoleNextInv == ASSUME ConsoleDataOK, ConsoleIInv, [Console!Next]_(Console!vars) PROVE ConsoleIInv'
<1>1. CASE Console!Write
  BY <1>1, WriteInv
<1>2. CASE Console!Visit
  BY <1>2, VisitInv
<1>3. CASE Console!Open
  BY <1>3, OpenInv
<1>4. CASE Console!Close
  BY <1>4, CloseInv
<1>5. CASE Console!SetRunning
  BY <1>5, SetRunningInv
<1>6. CASE Console!Retry
  BY <1>6, RetryInv
<1>7. CASE Console!Reconnect
  BY <1>7, ReconnectInv
<1>8. CASE Console!Connected
  BY <1>8, ConnectedInv
<1>9. CASE Console!Tick
  BY <1>9, TickInv
<1>10. CASE Console!Submit
  BY <1>10, SubmitInv
<1>11. CASE Console!Commanded
  BY <1>11, CommandedInv
<1>12. ASSUME NEW r \in console_c.reads, Console!Answered(r) \/ Console!Failed(r) PROVE ConsoleIInv'
  BY <1>12, AnsweredInv, FailedInv
<1>13. CASE UNCHANGED Console!vars
  <2>1. console_c' = console_c /\ console_running' = console_running /\ UNCHANGED <<console_rev, console_log>>
    BY <1>13 DEF Console!vars
  <2>2. Good(console_c) /\ console_running' \in BOOLEAN
    BY <2>1 DEF ConsoleIInv
  <2> QED BY <2>1, <2>2, ConsoleStep
<1> QED BY <1>1, <1>2, <1>3, <1>4, <1>5, <1>6, <1>7, <1>8, <1>9, <1>10, <1>11, <1>12, <1>13 DEF Console!Next

LEMMA InvTextIsContiguous == ASSUME ConsoleIInv PROVE Console!TextIsContiguous
<1>1. Stretch(console_c.text) /\ (console_c.open => EndsAt(console_c.text, console_c.cursor))
  BY ConsoleFacts DEF TextInv
<1> QED BY <1>1 DEF Console!TextIsContiguous, Stretch, EndsAt, After

LEMMA InvLastLinesRead == ASSUME ConsoleIInv PROVE Console!LastLinesRead
BY ConsoleFacts DEF Console!LastLinesRead, UnreadInv

-----------------------------------------------------------------------------
(***************************************************************************)
(* The saves of an instance, for any names and backups.  While the page is *)
(* there it shows an error, or what the core has, or a request that will   *)
(* load the lists again waits in its queue, or the worlds were changed and *)
(* nobody told the page since it read them (SavesUpToDate).                *)
(***************************************************************************)
\* Cardinality as the part has it.
LEMMA SavesSameSize == \A S : Saves!Cardinality(S) = Cardinality(S)
BY DEF Saves!Cardinality, Cardinality

SavesDataOK == MaxRuns \in Nat /\ IsFiniteSet(Saved) /\ None \notin Iconed

PageRecords == [lists : Saves!Lists \cup {None}, error : BOOLEAN,
                icons : [Saved -> Contents \cup {None}], busy : Saves!Subjects \cup {"file", None}]
SavesDialogs == [kind : Saves!Named \cup Saves!Confirmed, on : Saves!Subjects \cup {None}]

\* An operation is on a world or on a backup, and names a world if it makes one.
Fits(op, on) ==
  /\ op \in {"rename", "duplicate", "backup", "deleteWorld", "export"} => on \in Saved
  /\ op \in {"restore", "deleteBackup"} => on \in SaveBackups
Makes == {"rename", "duplicate", "import", "restore"}
SoundOps == {w \in Saves!Op : Fits(w.op, w.on) /\ (w.op \in Makes => w.name \in Saved)}
SoundRequests ==
  [kind : {"op"}, what : SoundOps] \cup [kind : {"lists"}, ends : BOOLEAN]
    \cup [kind : {"icon"}, name : Saved]

\* What is shown is what is there, or it will be read, or nobody told the page.
SavesUpToDate == saves_alive => \/ saves_page.error \/ Awaits(saves_queue, "lists") \/ saves_untold
                                \/ /\ saves_page.lists = saves_core
                                   /\ \A n \in Saved : saves_page.icons[n] \in {None, saves_core.worlds[n]}

SavesTyped ==
  /\ saves_core \in Saves!Lists
  /\ saves_page \in PageRecords
  /\ saves_dialog # None => saves_dialog \in SavesDialogs /\ Fits(saves_dialog.kind, saves_dialog.on)
  /\ saves_queue \in Seq(SoundRequests)
  /\ saves_alive \in BOOLEAN
  /\ saves_runs \in 0 .. MaxRuns /\ saves_untold \in BOOLEAN

SavesIInv == SavesTyped /\ SavesUpToDate

LEMMA SavesInvTypes == ASSUME SavesIInv PROVE Saves!TypeOK
<1>1. SoundRequests \subseteq Saves!Requests
  BY DEF SoundRequests, Saves!Requests, SoundOps
<1>2. \A q \in Seq(SoundRequests) : q \in Seq(Saves!Requests)
  BY <1>1
<1> QED BY <1>2 DEF SavesIInv, SavesTyped, Saves!TypeOK, PageRecords, SavesDialogs

LEMMA SavesLoadFacts == /\ Saves!Load \in SoundRequests /\ Saves!Load.kind = "lists"
                        /\ [kind |-> "lists", ends |-> TRUE] \in SoundRequests
BY DEF Saves!Load, SoundRequests

LEMMA SavesInitInv == ASSUME SavesDataOK, Saves!Init PROVE SavesIInv
<1>1. saves_queue \in Seq(SoundRequests) /\ Awaits(saves_queue, "lists")
  BY SavesLoadFacts DEF Saves!Init, Awaits
<1>2. saves_page \in PageRecords
  BY DEF Saves!Init, PageRecords, Saves!NoIcons
<1>3. saves_core \in Saves!Lists
  BY DEF Saves!Init, Saves!Lists
<1>4. saves_alive \in BOOLEAN /\ saves_untold \in BOOLEAN
  BY DEF Saves!Init
<1>5. SavesTyped
  BY <1>1, <1>2, <1>3, <1>4 DEF SavesDataOK, Saves!Init, SavesTyped
<1> QED BY <1>1, <1>5 DEF SavesIInv, SavesUpToDate

\* The page or a dialog changes, but not what the page shows; it is told of no
\* change of the worlds.
LEMMA PageStep ==
  ASSUME SavesIInv, saves_page' \in PageRecords, saves_page'.lists = saves_page.lists, saves_page'.icons = saves_page.icons,
         saves_page.error => saves_page'.error, UNCHANGED saves_alive, saves_core' \in Saves!Lists,
         Saves!Untold \/ UNCHANGED <<saves_core, saves_untold>>,
         saves_queue' \in Seq(SoundRequests), Awaits(saves_queue, "lists") => Awaits(saves_queue', "lists"),
         saves_dialog' # None => saves_dialog' \in SavesDialogs /\ Fits(saves_dialog'.kind, saves_dialog'.on),
         saves_runs' \in 0 .. MaxRuns
  PROVE  SavesIInv'
<1>1. saves_untold' \in BOOLEAN
  BY DEF SavesIInv, SavesTyped, Saves!Untold
<1>2. SavesTyped'
  BY <1>1 DEF SavesIInv, SavesTyped
<1>3. SavesUpToDate'
  BY DEF SavesIInv, SavesTyped, SavesUpToDate, Saves!Untold
<1> QED BY <1>2, <1>3 DEF SavesIInv

LEMMA ReloadInv == ASSUME SavesIInv, Saves!Reload PROVE SavesIInv'
<1>1. CASE saves_alive
  <2>1. saves_queue' \in Seq(SoundRequests) /\ (Awaits(saves_queue, "lists") => Awaits(saves_queue', "lists"))
    <3>1. saves_queue \in Seq(SoundRequests) /\ saves_queue' = Append(saves_queue, Saves!Load)
      BY <1>1 DEF Saves!Reload, SavesIInv, SavesTyped
    <3> QED BY <3>1, SavesLoadFacts, AppendAwaits
  <2> QED BY <1>1, <2>1, PageStep DEF Saves!Reload, SavesIInv, SavesTyped
<1>2. CASE ~saves_alive
  <2>1. saves_page' \in PageRecords /\ saves_page'.lists = saves_page.lists /\ saves_page'.icons = saves_page.icons /\ saves_page'.error
    BY <1>2 DEF Saves!Reload, SavesIInv, SavesTyped, PageRecords
  <2> QED BY <1>2, <2>1, PageStep DEF Saves!Reload, SavesIInv, SavesTyped
<1> QED BY <1>1, <1>2

LEMMA OpenDialogInv ==
  ASSUME SavesIInv, NEW kind \in Saves!Named \cup Saves!Confirmed, NEW x \in Saves!Subjects \cup {None}, Saves!OpenDialog(kind, x)
  PROVE  SavesIInv'
<1>1. PICK d : d = [kind |-> kind, on |-> x]
  OBVIOUS
<1>2. d \in SavesDialogs /\ saves_dialog' = d
  BY <1>1 DEF SavesDialogs, Saves!OpenDialog
<1>3. Fits(kind, x)
  <2>1. kind \in {"import", "restore", "deleteBackup", "rename", "duplicate", "backup", "deleteWorld"}
    BY DEF Saves!Named, Saves!Confirmed
  <2>2. CASE kind = "import"
    BY <2>2 DEF Fits
  <2>3. CASE kind \in {"restore", "deleteBackup"}
    <3>1. x \in Saves!ShownBackups
      BY <2>3 DEF Saves!OpenDialog
    <3> QED BY <2>3, <3>1 DEF Fits, Saves!ShownBackups
  <2>4. CASE kind \in {"rename", "duplicate", "backup", "deleteWorld"}
    <3>1. x \in Saves!ShownWorlds
      BY <2>4 DEF Saves!OpenDialog
    <3> QED BY <2>4, <3>1 DEF Fits, Saves!ShownWorlds
  <2> QED BY <2>1, <2>2, <2>3, <2>4
<1> QED BY <1>1, <1>2, <1>3, PageStep DEF Saves!OpenDialog, SavesIInv, SavesTyped

\* An operation is refused at once, or joins the queue.
LEMMA RunStep ==
  ASSUME SavesDataOK, SavesIInv, NEW w \in SoundOps, NEW s \in Saves!Subjects \cup {"file", None}, Saves!Run(w, s),
         saves_dialog' # None => saves_dialog' = saves_dialog
  PROVE  SavesIInv'
<1>1. saves_runs' \in 0 .. MaxRuns /\ UNCHANGED <<saves_core, saves_alive, saves_untold>> /\ saves_core \in Saves!Lists
  BY DEF SavesDataOK, Saves!Run, SavesIInv, SavesTyped
<1>2. \A b \in Saves!Subjects \cup {"file", None} :
        saves_page' = [saves_page EXCEPT !.busy = b] => /\ saves_page' \in PageRecords /\ saves_page'.lists = saves_page.lists
                                                         /\ saves_page'.icons = saves_page.icons /\ saves_page'.error = saves_page.error
  BY DEF SavesIInv, SavesTyped, PageRecords
<1>3. CASE Saves!Leased \/ ~saves_alive
  BY <1>1, <1>2, <1>3, PageStep DEF Saves!Run, SavesIInv, SavesTyped
<1>4. CASE ~(Saves!Leased \/ ~saves_alive)
  <2>1. PICK q : q = [kind |-> "op", what |-> w]
    OBVIOUS
  <2>2. q \in SoundRequests /\ saves_queue' = Append(saves_queue, q)
    BY <1>4, <2>1 DEF Saves!Run, SoundRequests
  <2>3. saves_queue' \in Seq(SoundRequests) /\ (Awaits(saves_queue, "lists") => Awaits(saves_queue', "lists"))
    BY <2>2, AppendAwaits DEF SavesIInv, SavesTyped
  <2> QED BY <1>1, <1>2, <1>4, <2>3, PageStep DEF Saves!Run, SavesIInv, SavesTyped
<1> QED BY <1>3, <1>4

LEMMA SubmitNameInv ==
  ASSUME SavesDataOK, SavesIInv, NEW n \in Saved, NEW r \in BOOLEAN, Saves!SubmitName(n, r) PROVE SavesIInv'
<1>1. saves_dialog \in SavesDialogs /\ Fits(saves_dialog.kind, saves_dialog.on)
  BY DEF Saves!SubmitName, SavesIInv, SavesTyped
<1>2. PICK w : w = [op |-> saves_dialog.kind, on |-> saves_dialog.on, name |-> n, replace |-> r]
  OBVIOUS
<1>3. PICK s : s = (IF saves_dialog.kind = "import" THEN "file" ELSE saves_dialog.on)
  OBVIOUS
<1>4. w \in SoundOps
  BY <1>1, <1>2 DEF SoundOps, Saves!Op, SavesDialogs, Fits
<1>5. s \in Saves!Subjects \cup {"file", None}
  BY <1>1, <1>3 DEF SavesDialogs
<1>6. Saves!Run(w, s) /\ saves_dialog' = None
  BY <1>2, <1>3 DEF Saves!SubmitName
<1> QED BY <1>4, <1>5, <1>6, RunStep

LEMMA SubmitConfirmInv == ASSUME SavesDataOK, SavesIInv, Saves!SubmitConfirm PROVE SavesIInv'
<1>1. saves_dialog \in SavesDialogs /\ Fits(saves_dialog.kind, saves_dialog.on) /\ saves_dialog.kind \in Saves!Confirmed
  BY DEF Saves!SubmitConfirm, SavesIInv, SavesTyped
<1>2. PICK w : w = [op |-> saves_dialog.kind, on |-> saves_dialog.on, name |-> None, replace |-> FALSE]
  OBVIOUS
<1>3. w \in SoundOps /\ saves_dialog.on \in Saves!Subjects \cup {"file", None}
  BY <1>1, <1>2 DEF SoundOps, Saves!Op, SavesDialogs, Fits, Makes, Saves!Confirmed
<1>4. Saves!Run(w, saves_dialog.on) /\ saves_dialog' = None
  BY <1>2 DEF Saves!SubmitConfirm
<1> QED BY <1>3, <1>4, RunStep

LEMMA ExportInv == ASSUME SavesDataOK, SavesIInv, NEW n \in Saved, Saves!Export(n) PROVE SavesIInv'
<1>1. PICK w : w = [op |-> "export", on |-> n, name |-> None, replace |-> FALSE]
  OBVIOUS
<1>2. w \in SoundOps /\ n \in Saves!Subjects
  BY <1>1 DEF SoundOps, Saves!Op, Saves!Subjects, Fits, Makes
<1>3. Saves!Run(w, n) /\ saves_dialog' = saves_dialog
  BY <1>1 DEF Saves!Export
<1> QED BY <1>2, <1>3, RunStep

LEMMA PutType ==
  ASSUME saves_core \in Saves!Lists, NEW n, NEW c \in Contents \cup {None} PROVE Saves!Put(n, c) \in Saves!Lists
BY DEF Saves!Put, Saves!Lists

LEMMA ResultsType ==
  ASSUME saves_core \in Saves!Lists, NEW w \in SoundOps, NEW x \in Saves!Results(w) PROVE x \in Saves!Lists
<1>1. /\ w.op \in {"rename", "duplicate", "backup", "restore", "import", "deleteWorld",
                   "deleteBackup", "export"}
      /\ Fits(w.op, w.on) /\ (w.op \in Makes => w.name \in Saved)
  BY DEF SoundOps, Saves!Op, Saves!Named, Saves!Confirmed
<1>2. CASE w.op = "rename"
  <2>1. PICK c : c = saves_core.worlds[w.on]
    OBVIOUS
  <2>2. c \in Contents \cup {None} /\ saves_core.worlds \in [Saved -> Contents \cup {None}]
    BY <1>1, <1>2, <2>1 DEF Fits, Saves!Lists
  <2>3. PICK f : f = [saves_core.worlds EXCEPT ![w.name] = c, ![w.on] = None]
    OBVIOUS
  <2>4. f \in [Saved -> Contents \cup {None}]
    BY <2>2, <2>3
  <2>5. x = [saves_core EXCEPT !.worlds = f]
    BY <1>2, <2>1, <2>3 DEF Saves!Results
  <2> QED BY <2>4, <2>5 DEF Saves!Lists
<1>3. CASE w.op = "duplicate"
  <2>1. saves_core.worlds[w.on] \in Contents \cup {None} /\ x = Saves!Put(w.name, saves_core.worlds[w.on])
    BY <1>1, <1>3 DEF Fits, Saves!Lists, Saves!Results
  <2> QED BY <2>1, PutType
<1>4. CASE w.op = "deleteWorld"
  BY <1>4, PutType DEF Saves!Results
<1>5. CASE w.op = "export"
  BY <1>5 DEF Saves!Results
<1>6. CASE w.op = "import"
  <2>1. PICK c \in Contents : x = Saves!Put(w.name, c)
    BY <1>6 DEF Saves!Results
  <2> QED BY <2>1, PutType
<1>7. CASE w.op = "backup"
  <2>1. PICK f \in SaveBackups : x = [saves_core EXCEPT !.backups[f] = saves_core.worlds[w.on]]
    BY <1>7 DEF Saves!Results
  <2>2. saves_core.worlds[w.on] \in Contents \cup {None}
    BY <1>1, <1>7 DEF Fits, Saves!Lists
  <2> QED BY <2>1, <2>2 DEF Saves!Lists
<1>8. CASE w.op = "restore"
  <2>1. saves_core.backups[w.on] \in Contents \cup {None} /\ x = Saves!Put(w.name, saves_core.backups[w.on])
    BY <1>1, <1>8 DEF Fits, Saves!Lists, Saves!Results
  <2> QED BY <2>1, PutType
<1>9. CASE w.op = "deleteBackup"
  BY <1>9 DEF Saves!Results, Saves!Lists
<1> QED BY <1>1, <1>2, <1>3, <1>4, <1>5, <1>6, <1>7, <1>8, <1>9

LEMMA SavesPartlyType ==
  ASSUME saves_core \in Saves!Lists, NEW w \in SoundOps, NEW x \in Saves!Partly(w) PROVE x \in Saves!Lists
<1>1. CASE x \in Saves!Results(w)
  BY <1>1, ResultsType
<1>2. CASE x = saves_core
  BY <1>2
<1>3. CASE x = Saves!Put(w.name, None)
  BY <1>3, PutType
<1> QED BY <1>1, <1>2, <1>3 DEF Saves!Partly

LEMMA DoneInv == ASSUME SavesIInv, Saves!Done PROVE SavesIInv'
<1>1. saves_queue \in Seq(SoundRequests) /\ saves_queue # <<>> /\ saves_page \in PageRecords /\ saves_core \in Saves!Lists
  BY DEF SavesIInv, SavesTyped, Saves!Done
<1>2. PICK w : w = Head(saves_queue).what
  OBVIOUS
<1>3. /\ w \in SoundOps /\ Tail(saves_queue) \in Seq(SoundRequests)
      /\ Awaits(Tail(saves_queue), "lists") <=> Awaits(saves_queue, "lists")
  <2>1. Head(saves_queue) \in SoundRequests /\ Head(saves_queue).kind = "op"
    BY <1>1, TailAwaits DEF Saves!Done
  <2>2. Head(saves_queue).what \in SoundOps
    BY <2>1 DEF SoundRequests
  <2> QED BY <1>1, <1>2, <2>1, <2>2, TailAwaits
<1>4. CASE saves_core' \in Saves!Results(w) /\ saves_queue' = Saves!AfterRun(w) /\ UNCHANGED <<saves_page, saves_untold>>
  <2>1. saves_core' \in Saves!Lists
    BY <1>1, <1>3, <1>4, ResultsType
  <2>2. PICK e : e = [kind |-> "lists", ends |-> TRUE]
    OBVIOUS
  <2>3. e \in SoundRequests /\ e.kind = "lists" /\ saves_queue' = Append(Tail(saves_queue), e)
    BY <1>4, <2>2, SavesLoadFacts DEF Saves!AfterRun
  <2>4. saves_queue' \in Seq(SoundRequests) /\ Awaits(saves_queue', "lists")
    BY <1>3, <2>3, AppendAwaits
  <2>5. SavesTyped'
    BY <1>4, <2>1, <2>4 DEF Saves!Done, SavesIInv, SavesTyped
  <2> QED BY <2>4, <2>5 DEF SavesIInv, SavesUpToDate
<1>5. CASE saves_queue' = Tail(saves_queue) /\ saves_page' = [saves_page EXCEPT !.busy = None] /\ saves_core' \in Saves!Partly(w) /\ Saves!Untold
  <2>1. /\ saves_page' \in PageRecords /\ saves_page'.lists = saves_page.lists /\ saves_page'.icons = saves_page.icons
        /\ saves_page'.error = saves_page.error
    BY <1>1, <1>5 DEF PageRecords
  <2>2. saves_core' \in Saves!Lists
    BY <1>1, <1>3, <1>5, SavesPartlyType
  <2> QED BY <1>3, <1>5, <2>1, <2>2, PageStep DEF Saves!Done, SavesIInv, SavesTyped
<1> QED BY <1>2, <1>4, <1>5 DEF Saves!Done

LEMMA IconRequestsType ==
  ASSUME SavesDataOK, NEW ns \in SUBSET Saved
  PROVE  Saves!IconRequests(ns) \in Seq(SoundRequests) /\ ~Awaits(Saves!IconRequests(ns), "lists")
<1>1. IsFiniteSet(ns)
  BY FS_Subset DEF SavesDataOK
<1>2. PICK m \in Nat : m = Cardinality(ns)
  BY <1>1, OrderOf
<1>3. PICK f \in [1 .. m -> ns] : \A n \in ns : \E k \in 1 .. m : f[k] = n
  BY <1>1, <1>2, OrderOf
<1>4. PICK R : R = [kind : {"icon"}, name : ns]
  OBVIOUS
<1>5. PICK g : g = [k \in 1 .. m |-> [kind |-> "icon", name |-> f[k]]]
  OBVIOUS
<1>6. g \in [1 .. m -> R] /\ \A n \in ns : \E k \in DOMAIN g : g[k].name = n
  BY <1>3, <1>4, <1>5
<1>7. PICK q : q = Saves!IconRequests(ns)
  OBVIOUS
<1>8. q \in [1 .. m -> R]
  BY <1>2, <1>4, <1>6, <1>7, SavesSameSize DEF Saves!IconRequests
<1>9. R \subseteq SoundRequests /\ \A r \in R : r.kind # "lists"
  BY <1>4 DEF SoundRequests
<1>10. q \in Seq(SoundRequests) /\ Len(q) = m /\ \A k \in 1 .. m : q[k] \in R
  BY <1>8, <1>9
<1> QED BY <1>7, <1>9, <1>10 DEF Awaits

LEMMA SavesListedInv == ASSUME SavesDataOK, SavesIInv, Saves!Listed PROVE SavesIInv'
<1>1. saves_queue \in Seq(SoundRequests) /\ saves_queue # <<>> /\ saves_page \in PageRecords /\ saves_core \in Saves!Lists
  BY DEF SavesIInv, SavesTyped, Saves!Listed
<1>2. PICK p : p = Saves!Relisted
  OBVIOUS
<1>3. p \in PageRecords /\ p.lists = saves_core /\ p.icons = Saves!NoIcons
  BY <1>1, <1>2 DEF Saves!Relisted, PageRecords, Saves!NoIcons
<1>4. PICK b : b = IF Head(saves_queue).ends THEN None ELSE p.busy
  OBVIOUS
<1>5. b \in Saves!Subjects \cup {"file", None} /\ saves_page' = [p EXCEPT !.busy = b]
  BY <1>2, <1>3, <1>4 DEF Saves!Listed, PageRecords
<1>6. saves_page' \in PageRecords /\ saves_page'.lists = saves_core /\ saves_page'.icons = Saves!NoIcons
  BY <1>3, <1>5 DEF PageRecords
<1>7. PICK ns : ns = {n \in Saved : saves_core.worlds[n] \in Iconed}
  OBVIOUS
<1>8. saves_queue' = Tail(saves_queue) \o Saves!IconRequests(ns) /\ ns \in SUBSET Saved
  BY <1>7 DEF Saves!Listed
<1>9. saves_queue' \in Seq(SoundRequests)
  BY <1>1, <1>8, TailAwaits, IconRequestsType, ConcatAwaits
<1>10. SavesTyped'
  BY <1>6, <1>9 DEF Saves!Listed, SavesIInv, SavesTyped
<1>11. SavesUpToDate'
  BY <1>6 DEF Saves!Listed, SavesUpToDate, Saves!NoIcons
<1> QED BY <1>10, <1>11 DEF SavesIInv

LEMMA ListFailsInv == ASSUME SavesIInv, Saves!ListFails PROVE SavesIInv'
<1>1. saves_queue \in Seq(SoundRequests) /\ saves_queue # <<>> /\ saves_page \in PageRecords
  BY DEF SavesIInv, SavesTyped, Saves!ListFails
<1>2. PICK b : b = IF Head(saves_queue).ends THEN None ELSE saves_page.busy
  OBVIOUS
<1>3. b \in Saves!Subjects \cup {"file", None} /\ saves_page' = [saves_page EXCEPT !.error = TRUE, !.busy = b]
  BY <1>1, <1>2 DEF Saves!ListFails, PageRecords
<1>4. saves_page' \in PageRecords /\ saves_page'.error
  BY <1>1, <1>3 DEF PageRecords
<1>5. saves_queue' \in Seq(SoundRequests)
  BY <1>1, TailAwaits DEF Saves!ListFails
<1> QED BY <1>4, <1>5 DEF Saves!ListFails, SavesIInv, SavesTyped, SavesUpToDate

LEMMA IconInv == ASSUME SavesDataOK, SavesIInv, Saves!Icon PROVE SavesIInv'
<1>1. saves_queue \in Seq(SoundRequests) /\ saves_queue # <<>> /\ saves_page \in PageRecords /\ saves_core \in Saves!Lists
  BY DEF SavesIInv, SavesTyped, Saves!Icon
<1>2. PICK n : n = Head(saves_queue).name
  OBVIOUS
<1>3. n \in Saved /\ saves_queue' \in Seq(SoundRequests) /\ (Awaits(saves_queue', "lists") <=> Awaits(saves_queue, "lists"))
  <2>1. Head(saves_queue) \in SoundRequests /\ Head(saves_queue).kind = "icon" /\ saves_queue' = Tail(saves_queue)
    BY <1>1, TailAwaits DEF Saves!Icon
  <2>2. Head(saves_queue).name \in Saved
    BY <2>1 DEF SoundRequests
  <2> QED BY <1>1, <1>2, <2>1, <2>2, TailAwaits
<1>4. CASE saves_core.worlds[n] \in Iconed
  <2>1. saves_page' = [saves_page EXCEPT !.icons[n] = saves_core.worlds[n]] /\ UNCHANGED <<saves_core, saves_dialog, saves_alive, saves_runs, saves_untold>>
    BY <1>2, <1>4 DEF Saves!Icon
  <2>2. saves_core.worlds[n] \in Contents \cup {None}
    BY <1>1, <1>3 DEF Saves!Lists
  <2>3. /\ saves_page' \in PageRecords /\ saves_page'.lists = saves_page.lists /\ saves_page'.error = saves_page.error
        /\ saves_page'.icons[n] = saves_core.worlds[n] /\ \A m \in Saved \ {n} : saves_page'.icons[m] = saves_page.icons[m]
    BY <1>1, <1>3, <2>1, <2>2 DEF PageRecords
  <2> QED BY <1>3, <2>1, <2>3 DEF SavesIInv, SavesTyped, SavesUpToDate
<1>5. CASE saves_core.worlds[n] \notin Iconed
  BY <1>1, <1>2, <1>3, <1>5, PageStep DEF Saves!Icon, SavesIInv, SavesTyped
<1> QED BY <1>4, <1>5

LEMMA SavesDieInv == ASSUME SavesIInv, Saves!Die PROVE SavesIInv'
<1>1. saves_queue \in Seq(SoundRequests) /\ saves_page \in PageRecords /\ saves_core \in Saves!Lists
  BY DEF SavesIInv, SavesTyped
<1>2. saves_core' \in Saves!Lists
  <2>1. CASE saves_queue # <<>> /\ Head(saves_queue).kind = "op" /\ saves_core' \in Saves!Partly(Head(saves_queue).what)
    <3>1. Head(saves_queue) \in SoundRequests
      BY <1>1, <2>1, TailAwaits
    <3>2. Head(saves_queue).what \in SoundOps
      BY <2>1, <3>1 DEF SoundRequests
    <3> QED BY <1>1, <2>1, <3>2, SavesPartlyType
  <2>2. CASE saves_core' = saves_core
    BY <1>1, <2>2
  <2> QED BY <2>1, <2>2 DEF Saves!Die
<1>3. PICK e \in BOOLEAN : e = (saves_page.error \/ \E k \in DOMAIN saves_queue : saves_queue[k].kind = "lists")
  BY <1>1 DEF PageRecords
<1>4. saves_page' = [saves_page EXCEPT !.busy = None, !.error = e]
  BY <1>3 DEF Saves!Die
<1>5. saves_page' \in PageRecords
  BY <1>1, <1>4 DEF PageRecords
<1>6. saves_queue' \in Seq(SoundRequests) /\ saves_alive' = FALSE /\ UNCHANGED <<saves_dialog, saves_runs>>
      /\ saves_untold' \in BOOLEAN
  BY DEF Saves!Die, SavesIInv, SavesTyped, Saves!Untold
<1> QED BY <1>2, <1>5, <1>6 DEF SavesIInv, SavesTyped, SavesUpToDate

LEMMA SavesNextInv == ASSUME SavesDataOK, SavesIInv, [Saves!Next]_(Saves!vars) PROVE SavesIInv'
<1>1. CASE UNCHANGED Saves!vars
  BY <1>1 DEF Saves!vars, SavesIInv, SavesTyped, SavesUpToDate, Awaits
<1>0. CASE Saves!Elsewhere
  <2>1. saves_core' \in Saves!Lists
    BY <1>0, PutType DEF Saves!Elsewhere, SavesIInv, SavesTyped
  <2>2. saves_runs' \in 0 .. MaxRuns
    BY <1>0 DEF SavesDataOK, Saves!Elsewhere, SavesIInv, SavesTyped
  <2> QED BY <1>0, <2>1, <2>2, PageStep DEF Saves!Elsewhere, SavesIInv, SavesTyped
<1>2. CASE Saves!Dismiss
  BY <1>2, PageStep DEF Saves!Dismiss, SavesIInv, SavesTyped
<1>3. CASE Saves!Reload \/ Saves!SubmitConfirm \/ Saves!Done \/ Saves!Listed \/ Saves!ListFails \/ Saves!Icon \/ Saves!Die
  BY <1>3, ReloadInv, SubmitConfirmInv, DoneInv, SavesListedInv, ListFailsInv, IconInv, SavesDieInv
<1>4. ASSUME NEW kind \in Saves!Named \cup Saves!Confirmed, NEW x \in Saves!Subjects \cup {None}, Saves!OpenDialog(kind, x)
      PROVE  SavesIInv'
  BY <1>4, OpenDialogInv
<1>5. ASSUME NEW n \in Saved, NEW r \in BOOLEAN, Saves!SubmitName(n, r) PROVE SavesIInv'
  BY <1>5, SubmitNameInv
<1>6. ASSUME NEW n \in Saved, Saves!Export(n) PROVE SavesIInv'
  BY <1>6, ExportInv
<1> QED BY <1>0, <1>1, <1>2, <1>3, <1>4, <1>5, <1>6 DEF Saves!Next

LEMMA InvListsCatchUp == ASSUME SavesIInv PROVE Saves!ListsCatchUp
BY EmptyAwaits DEF SavesIInv, SavesUpToDate, Saves!ListsCatchUp

-----------------------------------------------------------------------------
(***************************************************************************)
(* The content of an instance: the same argument over one list             *)
(* (ContentUpToDate).                                                      *)
(***************************************************************************)
ContentDataOK == MaxChanges \in Nat

Panels == [status : {"loading", "error", "ready"}, list : Content!Entries \cup {None},
           pending : ContentFiles \cup {None}, confirm : ContentFiles \cup {None},
           adopting : BOOLEAN, search : BOOLEAN]

\* What is shown is what is there, or it will be read, or nobody told the panel.
ContentUpToDate == content_alive =>
  content_panel.status = "error" \/ content_panel.list = content_core \/ Awaits(content_queue, "list") \/ content_untold

ContentIInv == Content!TypeOK /\ ContentUpToDate

LEMMA ContentTypes == ASSUME Content!TypeOK PROVE content_panel \in Panels /\ content_queue \in Seq(Content!Requests) /\ content_core \in Content!Entries
BY DEF Content!TypeOK, Panels

LEMMA InstallTypes ==
  ASSUME Content!TypeOK
  PROVE  content_install \in {"none", "opening", "core"} /\ content_orphan \in BOOLEAN /\ content_untold \in BOOLEAN
BY DEF Content!TypeOK

LEMMA UntoldType == ASSUME Content!TypeOK, Content!Untold PROVE content_untold' \in BOOLEAN
BY DEF Content!TypeOK, Content!Untold

LEMMA UnmountsType == ASSUME Content!TypeOK, Content!Unmounts
  PROVE content_install' \in {"none", "opening", "core"} /\ content_orphan' \in BOOLEAN
BY DEF Content!TypeOK, Content!Unmounts

LEMMA ContentLoadFacts == Content!Load \in Content!Requests /\ Content!Load.kind = "list" /\ [kind |-> "list", ends |-> TRUE] \in Content!Requests
BY DEF Content!Load, Content!Requests

LEMMA ContentInitInv == ASSUME ContentDataOK, Content!Init PROVE ContentIInv
<1>1. content_queue \in Seq(Content!Requests) /\ Awaits(content_queue, "list")
  BY ContentLoadFacts DEF Content!Init, Awaits
<1>2. content_panel \in Panels
  BY DEF Content!Init, Panels
<1>3. content_alive \in BOOLEAN /\ content_orphan \in BOOLEAN /\ content_untold \in BOOLEAN
  BY DEF Content!Init
<1>4. Content!TypeOK
  BY <1>1, <1>2, <1>3 DEF ContentDataOK, Content!Init, Content!TypeOK, Panels
<1> QED BY <1>1, <1>4 DEF ContentIInv, ContentUpToDate

\* The panel changes, but not what it shows; it is told of no change.
LEMMA PanelStep ==
  ASSUME ContentIInv, content_panel' \in Panels, content_panel'.list = content_panel.list,
         content_panel'.status = content_panel.status \/ content_panel'.status = "error",
         content_queue' \in Seq(Content!Requests), Awaits(content_queue, "list") => Awaits(content_queue', "list"),
         content_core' \in Content!Entries, UNCHANGED content_alive, Content!Untold \/ UNCHANGED <<content_core, content_untold>>,
         content_install' \in {"none", "opening", "core"}, content_orphan' \in BOOLEAN, content_changes' \in 0 .. MaxChanges
  PROVE  ContentIInv'
<1>1. content_untold' \in BOOLEAN
  BY UntoldType, InstallTypes DEF ContentIInv
<1>2. ContentUpToDate'
  BY InstallTypes DEF ContentIInv, ContentUpToDate, Content!Untold
<1> QED BY <1>1, <1>2 DEF ContentIInv, Content!TypeOK, Panels

\* A request joins the queue.
LEMMA AskStep ==
  ASSUME ContentIInv, NEW q \in Content!Requests, content_queue' = Append(content_queue, q), content_panel' \in Panels,
         content_panel'.list = content_panel.list, content_panel'.status = content_panel.status, UNCHANGED <<content_alive, content_untold>>,
         content_core' = content_core \/ (content_core' \in Content!Entries /\ q.kind = "list"),
         content_install' \in {"none", "opening", "core"}, content_orphan' \in BOOLEAN, content_changes' \in 0 .. MaxChanges
  PROVE  ContentIInv'
<1>1. content_queue' \in Seq(Content!Requests) /\ (Awaits(content_queue', "list") <=> Awaits(content_queue, "list") \/ q.kind = "list")
  BY AppendAwaits, ContentTypes DEF ContentIInv
<1> QED BY <1>1 DEF ContentIInv, Content!TypeOK, ContentUpToDate, Panels

\* The list will be read, or cannot be.
LEMMA LoadsStep ==
  ASSUME ContentIInv, Content!Loads, content_core' \in Content!Entries, UNCHANGED <<content_alive, content_untold>>,
         content_install' \in {"none", "opening", "core"}, content_orphan' \in BOOLEAN, content_changes' \in 0 .. MaxChanges
  PROVE  ContentIInv'
<1>1. CASE content_alive
  BY <1>1, AskStep, ContentTypes, ContentLoadFacts DEF Content!Loads, ContentIInv
<1>2. CASE ~content_alive
  BY <1>2, ContentTypes DEF Content!Loads, ContentIInv, Content!TypeOK, ContentUpToDate, Panels
<1> QED BY <1>1, <1>2

LEMMA ChangeStep ==
  ASSUME ContentDataOK, ContentIInv, NEW q \in Content!Requests, NEW marked \in Panels, NEW cleared \in Panels,
         marked.list = content_panel.list, marked.status = content_panel.status, cleared.list = content_panel.list,
         cleared.status = content_panel.status, Content!Change(q, marked, cleared)
  PROVE  ContentIInv'
<1>1. /\ content_changes' \in 0 .. MaxChanges /\ content_install' \in {"none", "opening", "core"}
      /\ content_orphan' \in BOOLEAN /\ UNCHANGED <<content_core, content_untold, content_alive>>
      /\ content_core \in Content!Entries /\ content_queue \in Seq(Content!Requests)
  BY DEF ContentDataOK, Content!Change, ContentIInv, Content!TypeOK
<1>2. CASE Content!Leased \/ ~content_alive
  BY <1>1, <1>2, PanelStep DEF Content!Change
<1>3. CASE ~(Content!Leased \/ ~content_alive)
  BY <1>1, <1>3, AskStep DEF Content!Change
<1> QED BY <1>2, <1>3

LEMMA MarkedFacts ==
  ASSUME Content!TypeOK, NEW f \in ContentFiles \cup {None}
  PROVE  Content!Marked(f) \in Panels /\ Content!Marked(f).list = content_panel.list /\ Content!Marked(f).status = content_panel.status
BY ContentTypes DEF Content!Marked, Panels

LEMMA ToggleInv == ASSUME ContentDataOK, ContentIInv, NEW f \in ContentFiles, Content!Toggle(f) PROVE ContentIInv'
<1>1. PICK q : q = [kind |-> IF content_panel.list[f] = "on" THEN "disable" ELSE "enable", file |-> f]
  OBVIOUS
<1>2. q \in Content!Requests
  BY <1>1 DEF Content!Requests, Content!Ops
<1>3. Content!Change(q, Content!Marked(f), Content!Marked(None))
  BY <1>1 DEF Content!Toggle
<1> QED BY <1>2, <1>3, ChangeStep, MarkedFacts DEF ContentIInv

LEMMA RemoveInv == ASSUME ContentDataOK, ContentIInv, NEW f \in ContentFiles, Content!Remove(f) PROVE ContentIInv'
<1>1. PICK q : q = [kind |-> "remove", file |-> f]
  OBVIOUS
<1>2. q \in Content!Requests
  BY <1>1 DEF Content!Requests, Content!Ops
<1>3. Content!Change(q, Content!Marked(f), Content!Marked(None))
  BY <1>1 DEF Content!Remove
<1> QED BY <1>2, <1>3, ChangeStep, MarkedFacts DEF ContentIInv

LEMMA AdoptInv == ASSUME ContentDataOK, ContentIInv, Content!Adopt PROVE ContentIInv'
<1>1. PICK q : q = [kind |-> "adopt", file |-> None]
  OBVIOUS
<1>2. PICK p : p = [content_panel EXCEPT !.adopting = TRUE]
  OBVIOUS
<1>3. q \in Content!Requests /\ p \in Panels /\ p.list = content_panel.list /\ p.status = content_panel.status /\ content_panel \in Panels
  BY <1>1, <1>2, ContentTypes DEF Content!Requests, Content!Ops, Panels, ContentIInv
<1>4. Content!Change(q, p, content_panel)
  BY <1>1, <1>2 DEF Content!Adopt
<1> QED BY <1>3, <1>4, ChangeStep

LEMMA ContentAfterType == ASSUME Content!TypeOK, NEW q \in Content!Requests, q.kind \in Content!Ops PROVE Content!After(q) \in Content!Entries
<1>1. q.kind \in {"enable", "disable", "remove", "adopt"}
  BY DEF Content!Ops
<1>2. content_core \in Content!Entries
  BY DEF Content!TypeOK
<1>3. CASE q.kind = "enable"
  BY <1>2, <1>3 DEF Content!After, Content!Entries
<1>4. CASE q.kind = "disable"
  BY <1>2, <1>4 DEF Content!After, Content!Entries
<1>5. CASE q.kind = "remove"
  BY <1>2, <1>5 DEF Content!After, Content!Entries
<1>6. CASE q.kind = "adopt"
  BY <1>2, <1>6 DEF Content!After, Content!Entries
<1> QED BY <1>1, <1>3, <1>4, <1>5, <1>6

LEMMA ContentPartlyType == ASSUME Content!TypeOK, NEW q, NEW c \in Content!Partly(q) PROVE c \in Content!Entries
BY DEF Content!TypeOK, Content!Partly

LEMMA InstalledType == ASSUME NEW c \in Content!Installed PROVE c \in Content!Entries
BY DEF Content!Installed, Content!Adding

LEMMA ChangedInv == ASSUME ContentIInv, Content!Changed PROVE ContentIInv'
<1>1. /\ content_queue \in Seq(Content!Requests) /\ content_queue # <<>> /\ content_panel \in Panels /\ Content!TypeOK
  BY ContentTypes DEF ContentIInv, Content!Changed
<1>2. PICK q : q = Head(content_queue)
  OBVIOUS
<1>3. /\ q \in Content!Requests /\ q.kind \in Content!Ops /\ q.kind # "list" /\ Tail(content_queue) \in Seq(Content!Requests)
      /\ Awaits(Tail(content_queue), "list") <=> Awaits(content_queue, "list")
  BY <1>1, <1>2, TailAwaits DEF Content!Changed, Content!Ops
<1>4. /\ content_install' \in {"none", "opening", "core"} /\ content_orphan' \in BOOLEAN /\ content_alive' = content_alive
      /\ content_changes' \in 0 .. MaxChanges
  BY DEF Content!Changed, ContentIInv, Content!TypeOK
<1>5. CASE Content!Accepts(q) /\ content_core' = Content!After(q) /\ content_queue' = Content!ThenRead(q) /\ UNCHANGED <<content_panel, content_untold>>
  <2>1. content_core' \in Content!Entries
    BY <1>1, <1>3, <1>5, ContentAfterType
  <2>2. content_queue' \in Seq(Content!Requests) /\ Awaits(content_queue', "list")
    <3>1. PICK e : e = [kind |-> "list", ends |-> TRUE]
      OBVIOUS
    <3>2. e \in Content!Requests /\ e.kind = "list" /\ content_queue' = Append(Tail(content_queue), e)
      BY <1>5, <3>1, ContentLoadFacts DEF Content!ThenRead
    <3> QED BY <1>3, <3>2, AppendAwaits
  <2> QED BY <1>4, <1>5, <2>1, <2>2 DEF ContentIInv, Content!TypeOK, ContentUpToDate
<1>6. CASE content_queue' = Tail(content_queue) /\ content_panel' = Content!Unmarked(q) /\ content_core' \in Content!Partly(q) /\ Content!Untold
  <2>1. content_panel' \in Panels /\ content_panel'.list = content_panel.list /\ content_panel'.status = content_panel.status
    <3>1. CASE q.kind = "adopt"
      BY <1>1, <1>6, <3>1 DEF Content!Unmarked, Panels
    <3>2. CASE q.kind # "adopt"
      BY <1>1, <1>6, <3>2 DEF Content!Unmarked, Panels
    <3> QED BY <3>1, <3>2
  <2>2. content_core' \in Content!Entries
    BY <1>1, <1>6, ContentPartlyType
  <2> QED BY <1>3, <1>4, <1>6, <2>1, <2>2, PanelStep
<1> QED BY <1>2, <1>5, <1>6 DEF Content!Changed

LEMMA ContentEndedFacts ==
  ASSUME Content!TypeOK, NEW p \in Panels
  PROVE  Content!Ended(p) \in Panels /\ Content!Ended(p).list = p.list /\ Content!Ended(p).status = p.status
<1>1. CASE Head(content_queue).ends
  BY <1>1 DEF Content!Ended, Panels
<1>2. CASE ~Head(content_queue).ends
  BY <1>2 DEF Content!Ended
<1> QED BY <1>1, <1>2

LEMMA ContentListedInv == ASSUME ContentIInv, Content!Listed PROVE ContentIInv'
<1>1. content_queue \in Seq(Content!Requests) /\ content_queue # <<>> /\ content_panel \in Panels /\ content_core \in Content!Entries /\ Content!TypeOK
  BY ContentTypes DEF ContentIInv, Content!Listed
<1>2. content_queue' \in Seq(Content!Requests)
  BY <1>1, TailAwaits DEF Content!Listed
<1>3. PICK p : p = [content_panel EXCEPT !.status = "ready", !.list = content_core]
  OBVIOUS
<1>4. PICK r : r = [content_panel EXCEPT !.status = "error"]
  OBVIOUS
<1>5. p \in Panels /\ r \in Panels /\ p.list = content_core /\ r.status = "error"
  BY <1>1, <1>3, <1>4 DEF Panels
<1>6. CASE content_panel' = Content!Ended(p)
  <2>1. content_panel' \in Panels /\ content_panel'.list = content_core
    BY <1>1, <1>5, <1>6, ContentEndedFacts
  <2>2. content_core' = content_core /\ content_alive' = content_alive /\ content_changes' = content_changes
    BY DEF Content!Listed
  <2>3. content_install' \in {"none", "opening", "core"} /\ content_orphan' \in BOOLEAN /\ content_untold' \in BOOLEAN
    BY <1>1, InstallTypes, UnmountsType DEF Content!Listed
  <2> QED BY <1>1, <1>2, <2>1, <2>2, <2>3 DEF ContentIInv, Content!TypeOK, ContentUpToDate, Panels
<1>7. CASE content_panel' = Content!Ended(r)
  <2>1. content_panel' \in Panels /\ content_panel'.status = "error"
    BY <1>1, <1>5, <1>7, ContentEndedFacts
  <2>2. content_core' = content_core /\ content_alive' = content_alive /\ content_changes' = content_changes
    BY DEF Content!Listed
  <2>3. content_install' \in {"none", "opening", "core"} /\ content_orphan' \in BOOLEAN /\ content_untold' \in BOOLEAN
    BY <1>1, InstallTypes, UnmountsType DEF Content!Listed
  <2> QED BY <1>1, <1>2, <2>1, <2>2, <2>3 DEF ContentIInv, Content!TypeOK, ContentUpToDate, Panels
<1> QED BY <1>3, <1>4, <1>6, <1>7 DEF Content!Listed

LEMMA InstallDoneInv == ASSUME ContentIInv, Content!InstallDone \/ Content!OrphanDone PROVE ContentIInv'
<1>1. /\ content_install' \in {"none", "opening", "core"} /\ content_orphan' \in BOOLEAN
      /\ content_alive' = content_alive /\ content_changes' \in 0 .. MaxChanges
      /\ content_core' \in Content!Entries /\ content_panel \in Panels /\ content_queue \in Seq(Content!Requests)
  BY ContentTypes, InstallTypes, InstalledType DEF Content!InstallDone, Content!OrphanDone, ContentIInv,
     Content!TypeOK
<1>2. CASE Content!Told /\ UNCHANGED content_untold
  BY <1>1, <1>2, LoadsStep DEF Content!Told
<1>3. CASE Content!Untold /\ UNCHANGED <<content_panel, content_queue>>
  BY <1>1, <1>3, PanelStep
<1> QED BY <1>2, <1>3 DEF Content!InstallDone, Content!OrphanDone

LEMMA ContentDieInv == ASSUME ContentIInv, Content!Die PROVE ContentIInv'
<1>1. content_queue \in Seq(Content!Requests) /\ content_panel \in Panels /\ content_core \in Content!Entries /\ Content!TypeOK
  BY ContentTypes DEF ContentIInv
<1>2. content_core' \in Content!Entries
  BY <1>1, ContentPartlyType DEF Content!Die
<1>3. PICK s : s = (IF \E k \in DOMAIN content_queue : content_queue[k].kind = "list" THEN "error" ELSE content_panel.status)
  OBVIOUS
<1>4. content_panel' = [content_panel EXCEPT !.pending = None, !.adopting = FALSE, !.status = s]
  BY <1>3 DEF Content!Die
<1>5. s \in {"loading", "error", "ready"}
  BY <1>1, <1>3 DEF Panels
<1>6. content_panel' \in Panels
  BY <1>1, <1>4, <1>5 DEF Panels
<1>7. content_queue' \in Seq(Content!Requests) /\ content_alive' = FALSE /\ content_changes' = content_changes
  BY DEF Content!Die
<1>8. content_install' \in {"none", "opening", "core"} /\ content_orphan' \in BOOLEAN /\ content_untold' \in BOOLEAN
  BY <1>1, InstallTypes, UnmountsType, UntoldType DEF Content!Die
<1> QED BY <1>1, <1>2, <1>6, <1>7, <1>8 DEF ContentIInv, Content!TypeOK, ContentUpToDate, Panels

LEMMA ContentNextInv == ASSUME ContentDataOK, ContentIInv, [Content!Next]_(Content!vars) PROVE ContentIInv'
<1>1. content_panel \in Panels /\ content_core \in Content!Entries
  BY ContentTypes DEF ContentIInv
<1>2. CASE UNCHANGED Content!vars
  BY <1>2 DEF Content!vars, ContentIInv, Content!TypeOK, ContentUpToDate, Awaits
<1>3. CASE Content!Retry
  BY <1>3, LoadsStep DEF Content!Retry, ContentIInv, Content!TypeOK
<1>0. CASE Content!Elsewhere
  <2>1. content_core' \in Content!Entries /\ content_changes' \in 0 .. MaxChanges
    BY <1>0 DEF ContentDataOK, Content!Elsewhere, ContentIInv, Content!TypeOK
  <2> QED BY <1>0, <1>1, <2>1, PanelStep DEF Content!Elsewhere, ContentIInv, Content!TypeOK
<1>4. ASSUME NEW f \in ContentFiles \cup {None}, Content!Confirm(f) PROVE ContentIInv'
  <2>1. content_panel' \in Panels /\ content_panel'.list = content_panel.list /\ content_panel'.status = content_panel.status
    BY <1>1, <1>4 DEF Content!Confirm, Panels
  <2> QED BY <1>4, <2>1, PanelStep DEF Content!Confirm, ContentIInv, Content!TypeOK
<1>5. ASSUME NEW open \in BOOLEAN, Content!Search(open) PROVE ContentIInv'
  <2>1. content_panel' \in Panels /\ content_panel'.list = content_panel.list /\ content_panel'.status = content_panel.status
    BY <1>1, <1>5 DEF Content!Search, Panels
  <2> QED BY <1>5, <2>1, PanelStep DEF Content!Search, ContentIInv, Content!TypeOK
<1>6. CASE Content!Install
  BY <1>1, <1>6, PanelStep DEF ContentDataOK, Content!Install, ContentIInv, Content!TypeOK
<1>7. CASE Content!InstallOpened
  <2>1. content_install' \in {"none", "opening", "core"}
    BY <1>7 DEF Content!InstallOpened
  <2> QED BY <1>1, <1>7, <2>1, PanelStep DEF Content!InstallOpened, ContentIInv, Content!TypeOK
<1>8. CASE Content!Adopt \/ Content!Changed \/ Content!Listed \/ Content!InstallDone \/ Content!OrphanDone \/ Content!Die
  BY <1>8, AdoptInv, ChangedInv, ContentListedInv, InstallDoneInv, ContentDieInv
<1>9. ASSUME NEW f \in ContentFiles, Content!Toggle(f) \/ Content!Remove(f) PROVE ContentIInv'
  BY <1>9, ToggleInv, RemoveInv
<1> QED BY <1>0, <1>2, <1>3, <1>4, <1>5, <1>6, <1>7, <1>8, <1>9 DEF Content!Next

LEMMA InvPanelCatchesUp == ASSUME ContentIInv PROVE Content!PanelCatchesUp
BY EmptyAwaits DEF ContentIInv, ContentUpToDate, Content!PanelCatchesUp

-----------------------------------------------------------------------------
(***************************************************************************)
(* The data packs of a client's world, for any number of mounts of the     *)
(* panel.  The run of the current mount is the one that is pending         *)
(* (RunInv), an open session is that of a run which has still to close it  *)
(* (LiveInv), and what was read last is what the core has, unless          *)
(* something failed or changed behind the panel since (RestInv).           *)
(***************************************************************************)
DatapacksDataOK == Mounts \in Nat \ {0} /\ MaxElsewhere \in Nat

Cores == [packs : Datapacks!Packs, locked : BOOLEAN]
Runs == [step : Datapacks!Steps, change : Datapacks!Changes \cup {None}, current : BOOLEAN, session : 0 .. 2]
Views == [content : Datapacks!Packs \cup {None}, locked : BOOLEAN \cup {None},
          pending : BOOLEAN, error : BOOLEAN, unread : BOOLEAN]

\* The run that is heard is that of the mount on the screen.
RunInv ==
  /\ \A c \in 1 .. Mounts :
       /\ datapacks_run[c].current => c = datapacks_mount /\ datapacks_run[c].step # "none"
       /\ datapacks_run[c].step \in {"checking", "acting"} => datapacks_run[c].change \in Datapacks!Changes
  /\ datapacks_view.pending = datapacks_run[datapacks_mount].current

\* An open session is the one its run has, and it has one.
Parted == {"none", "opening", "reopening"}
LiveInv ==
  \A c \in 1 .. Mounts, n \in {1, 2} :
    <<c, n>> \in datapacks_live => n = datapacks_run[c].session /\ datapacks_run[c].step \notin Parted

\* What was read last is there, unless something has failed since.
True(v, x, packs, r) ==
  (v.content # None /\ ~v.error /\ ~v.unread /\ ~x /\ (r.current => r.step \in {"looking", "closing"}))
    => v.content = packs
RestInv == True(datapacks_view, datapacks_touched, datapacks_core.packs, datapacks_run[datapacks_mount])

DatapacksIInv == Datapacks!TypeOK /\ RunInv /\ LiveInv /\ RestInv

LEMMA DatapacksTypes ==
  ASSUME Datapacks!TypeOK
  PROVE  /\ datapacks_core \in Cores /\ datapacks_view \in Views /\ datapacks_run \in [1 .. Mounts -> Runs] /\ datapacks_mount \in 1 .. Mounts
         /\ datapacks_live \subseteq (1 .. Mounts) \X {1, 2}
BY DEF Datapacks!TypeOK, Cores, Views, Runs

LEMMA DatapacksEmptyFacts == Datapacks!Empty \in Views /\ Datapacks!Empty.content = None /\ Datapacks!Empty.pending = FALSE
BY DEF Datapacks!Empty, Views

LEMMA DatapacksInitInv == ASSUME DatapacksDataOK, Datapacks!Init PROVE DatapacksIInv
<1>1. datapacks_view \in Views /\ datapacks_view.content = None /\ datapacks_view.pending = FALSE
  BY DatapacksEmptyFacts DEF Datapacks!Init
<1>2. Datapacks!NoRun \in Runs /\ Datapacks!NoRun.current = FALSE /\ Datapacks!NoRun.step = "none"
  BY DEF Datapacks!NoRun, Runs, Datapacks!Steps
<1>3. datapacks_run \in [1 .. Mounts -> Runs] /\ datapacks_mount \in 1 .. Mounts /\ \A c \in 1 .. Mounts : datapacks_run[c] = Datapacks!NoRun
  BY <1>2 DEF Datapacks!Init, DatapacksDataOK
<1>4. Datapacks!TypeOK
  <2>1. /\ datapacks_core \in [packs : Datapacks!Packs, locked : BOOLEAN] /\ datapacks_live \subseteq (1 .. Mounts) \X {1, 2}
        /\ datapacks_elsewhere \in 0 .. MaxElsewhere /\ datapacks_touched \in BOOLEAN
    <3>1. datapacks_live \subseteq (1 .. Mounts) \X {1, 2}
      BY DEF Datapacks!Init
    <3>2. datapacks_elsewhere \in 0 .. MaxElsewhere
      BY DEF Datapacks!Init, DatapacksDataOK
    <3>3. datapacks_touched \in BOOLEAN
      BY DEF Datapacks!Init
    <3>4. datapacks_core \in [packs : Datapacks!Packs, locked : BOOLEAN]
      BY DEF Datapacks!Init
    <3> QED BY <3>1, <3>2, <3>3, <3>4
  <2> QED BY <1>1, <1>3, <2>1 DEF Datapacks!TypeOK, Views, Runs
<1>5. RunInv /\ LiveInv /\ RestInv
  BY <1>1, <1>2, <1>3 DEF Datapacks!Init, RunInv, LiveInv, RestInv, True
<1> QED BY <1>4, <1>5 DEF DatapacksIInv

\* One run moves.  If it is heard, it answers for what is shown; if not, it
\* leaves the panel alone.
LEMMA MoveStep ==
  ASSUME DatapacksDataOK, DatapacksIInv, NEW c \in 1 .. Mounts, NEW r \in Runs, datapacks_run' = [datapacks_run EXCEPT ![c] = r],
         r.current => datapacks_run[c].current /\ r.step # "none",
         r.step \in {"checking", "acting"} => r.change \in Datapacks!Changes,
         datapacks_live' \subseteq (1 .. Mounts) \X {1, 2},
         \A d \in (1 .. Mounts) \ {c}, n \in {1, 2} : <<d, n>> \in datapacks_live' => <<d, n>> \in datapacks_live,
         \A n \in {1, 2} : <<c, n>> \in datapacks_live' => n = r.session /\ r.step \notin Parted,
         UNCHANGED <<datapacks_mount, datapacks_elsewhere>>, datapacks_core' \in Cores, datapacks_view' \in Views, datapacks_touched' \in BOOLEAN,
         datapacks_run[c].current => datapacks_view'.pending = r.current /\ True(datapacks_view', datapacks_touched', datapacks_core'.packs, r),
         ~datapacks_run[c].current => datapacks_view' = datapacks_view /\ (datapacks_touched' \/ (datapacks_touched' = datapacks_touched /\ datapacks_core'.packs = datapacks_core.packs))
  PROVE  DatapacksIInv'
<1>1. datapacks_run \in [1 .. Mounts -> Runs] /\ datapacks_mount \in 1 .. Mounts /\ datapacks_view \in Views
  BY DatapacksTypes DEF DatapacksIInv
<1>2. datapacks_run' \in [1 .. Mounts -> Runs] /\ datapacks_run'[c] = r /\ \A d \in (1 .. Mounts) \ {c} : datapacks_run'[d] = datapacks_run[d]
  BY <1>1
<1>3. Datapacks!TypeOK'
  BY <1>2 DEF DatapacksIInv, Datapacks!TypeOK, Cores, Views, Runs
<1>4. LiveInv'
  BY <1>2 DEF DatapacksIInv, LiveInv
<1>5. \A d \in 1 .. Mounts : /\ datapacks_run'[d].current => d = datapacks_mount' /\ datapacks_run'[d].step # "none"
                             /\ datapacks_run'[d].step \in {"checking", "acting"} => datapacks_run'[d].change \in Datapacks!Changes
  BY <1>2 DEF DatapacksIInv, RunInv
<1>6. CASE datapacks_run[c].current
  <2>1. c = datapacks_mount
    BY <1>6 DEF DatapacksIInv, RunInv
  <2>2. datapacks_run'[datapacks_mount'] = r
    BY <1>2, <2>1
  <2> QED BY <1>3, <1>4, <1>5, <1>6, <2>2 DEF DatapacksIInv, RunInv, RestInv
<1>7. CASE ~datapacks_run[c].current
  <2>1. datapacks_run'[datapacks_mount'].current = datapacks_run[datapacks_mount].current /\ (datapacks_run[datapacks_mount].current => datapacks_run'[datapacks_mount'] = datapacks_run[datapacks_mount])
    <3>1. CASE c = datapacks_mount
      BY <1>1, <1>2, <1>7, <3>1 DEF Runs
    <3>2. CASE c # datapacks_mount
      BY <1>1, <1>2, <3>2
    <3> QED BY <3>1, <3>2
  <2>2. RestInv'
    BY <1>1, <1>7, <2>1 DEF DatapacksIInv, RestInv, True
  <2>3. datapacks_view'.pending = datapacks_run'[datapacks_mount'].current
    BY <1>7, <2>1 DEF DatapacksIInv, RunInv
  <2> QED BY <1>3, <1>4, <1>5, <2>2, <2>3 DEF DatapacksIInv, RunInv
<1> QED BY <1>6, <1>7

\* A run goes on to another step, with its session or without it.
LEMMA GoesStep ==
  ASSUME DatapacksDataOK, DatapacksIInv, NEW c \in 1 .. Mounts, NEW s \in Datapacks!Steps \ {"none", "checking"}, Datapacks!Goes(c, s),
         s = "acting" => datapacks_run[c].change \in Datapacks!Changes,
         (datapacks_live' = datapacks_live /\ s \notin Parted) \/ datapacks_live' = Datapacks!Closed(c),
         UNCHANGED <<datapacks_mount, datapacks_elsewhere>>, datapacks_core' \in Cores, datapacks_view' \in Views, datapacks_touched' \in BOOLEAN,
         datapacks_run[c].current =>
           /\ datapacks_view'.pending = datapacks_view.pending
           /\ \A r \in Runs : r.current /\ r.step = s => True(datapacks_view', datapacks_touched', datapacks_core'.packs, r),
         ~datapacks_run[c].current => datapacks_view' = datapacks_view /\ (datapacks_touched' \/ (datapacks_touched' = datapacks_touched /\ datapacks_core'.packs = datapacks_core.packs))
  PROVE  DatapacksIInv'
<1>1. datapacks_run \in [1 .. Mounts -> Runs] /\ datapacks_run[c] \in Runs
  BY DatapacksTypes DEF DatapacksIInv
<1>2. PICK x : x = IF s = "acting" THEN datapacks_run[c].change ELSE None
  OBVIOUS
<1>3. PICK r : r = [datapacks_run[c] EXCEPT !.step = s, !.change = x]
  OBVIOUS
<1>4. x \in Datapacks!Changes \cup {None} /\ (s = "acting" => x \in Datapacks!Changes)
  BY <1>1, <1>2
<1>5. /\ r \in Runs /\ r.step = s /\ r.change = x /\ r.current = datapacks_run[c].current
      /\ r.session = datapacks_run[c].session
  BY <1>1, <1>3, <1>4 DEF Runs
<1>6. datapacks_run' = [datapacks_run EXCEPT ![c] = r]
  BY <1>1, <1>2, <1>3 DEF Datapacks!Goes, Runs
<1>7. /\ datapacks_live' \subseteq (1 .. Mounts) \X {1, 2}
      /\ \A d \in (1 .. Mounts) \ {c}, n \in {1, 2} : <<d, n>> \in datapacks_live' => <<d, n>> \in datapacks_live
      /\ \A n \in {1, 2} : <<c, n>> \in datapacks_live' => n = r.session /\ r.step \notin Parted
  BY <1>5, DatapacksTypes DEF DatapacksIInv, LiveInv, Datapacks!Closed
<1>8. datapacks_run[c].current => datapacks_view.pending = TRUE
  BY <1>1 DEF DatapacksIInv, RunInv
<1>9. datapacks_run[c].current => datapacks_view'.pending = r.current /\ True(datapacks_view', datapacks_touched', datapacks_core'.packs, r)
  BY <1>1, <1>5, <1>8 DEF Runs
<1>10. r.step \in {"checking", "acting"} => r.change \in Datapacks!Changes
  BY <1>4, <1>5
<1>11. r.current => datapacks_run[c].current /\ r.step # "none"
  BY <1>5
<1> QED BY <1>5, <1>6, <1>7, <1>9, <1>10, <1>11, MoveStep

LEMMA RefreshingFacts ==
  ASSUME Datapacks!TypeOK, NEW failed \in BOOLEAN
  PROVE  Datapacks!Refreshing(failed) \in Views /\ Datapacks!Refreshing(failed).content = None
         /\ Datapacks!Refreshing(failed).pending = datapacks_view.pending
BY DatapacksTypes DEF Datapacks!Refreshing, Views

LEMMA FailsFacts ==
  ASSUME Datapacks!TypeOK, NEW c
  PROVE  /\ Datapacks!Fails(c) \in Views /\ Datapacks!Fails(c).pending = datapacks_view.pending
         /\ ~datapacks_run[c].current => Datapacks!Fails(c) = datapacks_view
         /\ datapacks_run[c].current => Datapacks!Fails(c).error = TRUE
BY DatapacksTypes DEF Datapacks!Fails, Views

LEMMA UnreadFacts ==
  ASSUME Datapacks!TypeOK
  PROVE  LET v == [datapacks_view EXCEPT !.unread = TRUE]
         IN v \in Views /\ v.pending = datapacks_view.pending /\ v.unread = TRUE
BY DatapacksTypes DEF Views

LEMMA DatapacksStartInv ==
  ASSUME DatapacksDataOK, DatapacksIInv, NEW x \in Datapacks!Changes \cup {None}, Datapacks!Start(x) PROVE DatapacksIInv'
<1>1. /\ datapacks_run \in [1 .. Mounts -> Runs] /\ datapacks_mount \in 1 .. Mounts /\ datapacks_view \in Views /\ datapacks_core \in Cores
      /\ datapacks_view.content \in Datapacks!Packs \cup {None}
  BY DatapacksTypes DEF DatapacksIInv, Views
<1>2. PICK r : r = [step |-> "opening", change |-> x, current |-> TRUE, session |-> 0]
  OBVIOUS
<1>3. r \in Runs /\ r.step = "opening" /\ r.current = TRUE /\ r.change = x
  BY <1>2 DEF Runs, Datapacks!Steps
<1>4. datapacks_run' = [datapacks_run EXCEPT ![datapacks_mount] = r] /\ datapacks_run[datapacks_mount].step = "none"
  BY <1>2 DEF Datapacks!Start
<1>5. datapacks_run' \in [1 .. Mounts -> Runs] /\ datapacks_run'[datapacks_mount] = r /\ \A d \in (1 .. Mounts) \ {datapacks_mount} : datapacks_run'[d] = datapacks_run[d]
  BY <1>1, <1>3, <1>4
<1>6. datapacks_view' = [datapacks_view EXCEPT !.pending = TRUE, !.error = FALSE, !.unread = FALSE]
      /\ UNCHANGED <<datapacks_core, datapacks_live, datapacks_mount, datapacks_elsewhere, datapacks_touched>>
  BY DEF Datapacks!Start
<1>7. datapacks_view' \in Views /\ datapacks_view'.pending = TRUE
  BY <1>1, <1>6 DEF Views
<1>8. Datapacks!TypeOK'
  BY <1>5, <1>6, <1>7 DEF DatapacksIInv, Datapacks!TypeOK, Runs, Views
<1>9. LiveInv'
  BY <1>4, <1>5, <1>6 DEF DatapacksIInv, LiveInv, Parted
<1>10. RestInv'
  BY <1>3, <1>5, <1>6 DEF RestInv, True
<1>11. RunInv'
  BY <1>3, <1>5, <1>6, <1>7 DEF DatapacksIInv, RunInv
<1> QED BY <1>8, <1>9, <1>10, <1>11 DEF DatapacksIInv

\* The mount is left, or its run cancelled: nothing is shown any more.
LEMMA LeaveStep ==
  ASSUME DatapacksDataOK, DatapacksIInv, NEW m \in 1 .. Mounts, datapacks_mount' = m, datapacks_run' = Datapacks!Disowned(datapacks_mount),
         datapacks_live' = Datapacks!Closed(datapacks_mount), datapacks_view' = Datapacks!Empty, UNCHANGED <<datapacks_core, datapacks_elsewhere, datapacks_touched>>
  PROVE  DatapacksIInv'
<1>1. datapacks_run \in [1 .. Mounts -> Runs] /\ datapacks_mount \in 1 .. Mounts
  BY DatapacksTypes DEF DatapacksIInv
<1>2. /\ datapacks_run' \in [1 .. Mounts -> Runs]
      /\ \A d \in 1 .. Mounts : /\ datapacks_run'[d].step = datapacks_run[d].step /\ datapacks_run'[d].change = datapacks_run[d].change
                                /\ datapacks_run'[d].session = datapacks_run[d].session
                                /\ datapacks_run'[d].current = (datapacks_run[d].current /\ d # datapacks_mount)
  BY <1>1 DEF Datapacks!Disowned, Runs
<1>3. \A d \in 1 .. Mounts : datapacks_run'[d].current = FALSE
  BY <1>1, <1>2 DEF DatapacksIInv, RunInv, Runs
<1>4. Datapacks!TypeOK'
  BY <1>2, DatapacksEmptyFacts DEF DatapacksIInv, Datapacks!TypeOK, Runs, Views, Datapacks!Closed
<1>5. LiveInv'
  BY <1>2 DEF DatapacksIInv, LiveInv, Datapacks!Closed
<1>6. RunInv' /\ RestInv'
  BY <1>2, <1>3, DatapacksEmptyFacts DEF DatapacksIInv, RunInv, RestInv, True
<1> QED BY <1>4, <1>5, <1>6 DEF DatapacksIInv

LEMMA FinallyStep ==
  ASSUME DatapacksDataOK, DatapacksIInv, NEW c \in 1 .. Mounts, NEW failed \in BOOLEAN, Datapacks!Finally(c, failed),
         UNCHANGED <<datapacks_live, datapacks_mount, datapacks_elsewhere>>, datapacks_core' \in Cores, datapacks_touched' \in BOOLEAN,
         ~datapacks_run[c].current => datapacks_touched' \/ (datapacks_touched' = datapacks_touched /\ datapacks_core'.packs = datapacks_core.packs)
  PROVE  DatapacksIInv'
<1>1. datapacks_view \in Views /\ Datapacks!TypeOK /\ (datapacks_run[c].current => c = datapacks_mount)
  BY DatapacksTypes DEF DatapacksIInv, RunInv
<1>2. {"closing", "releasing", "listing"} \subseteq Datapacks!Steps \ {"none", "checking", "acting"}
      /\ {"closing", "releasing", "listing"} \cap Parted = {}
  BY DEF Datapacks!Steps, Parted
<1>3. CASE ~datapacks_run[c].current
  <2>1. Datapacks!Goes(c, "closing") /\ datapacks_view' = datapacks_view
    BY <1>3 DEF Datapacks!Finally
  <2> QED BY <1>1, <1>2, <1>3, <2>1, GoesStep
<1>4. CASE datapacks_run[c].current /\ Datapacks!Fresh(datapacks_run[c].change)
  <2>1. Datapacks!Goes(c, "releasing") /\ datapacks_view' \in {Datapacks!Fails(c), datapacks_view}
    BY <1>4 DEF Datapacks!Finally
  <2>2. datapacks_view' \in Views /\ datapacks_view'.pending = datapacks_view.pending
    BY <1>1, <2>1, FailsFacts
  <2>3. \A r \in Runs : r.current /\ r.step = "releasing" => True(datapacks_view', datapacks_touched', datapacks_core'.packs, r)
    BY DEF True
  <2> QED BY <1>2, <1>4, <2>1, <2>2, <2>3, GoesStep
<1>5. CASE datapacks_run[c].current /\ ~Datapacks!Fresh(datapacks_run[c].change)
  <2>1. Datapacks!Goes(c, "listing") /\ datapacks_view' = Datapacks!Refreshing(failed)
    BY <1>5 DEF Datapacks!Finally
  <2>2. datapacks_view' \in Views /\ datapacks_view'.pending = datapacks_view.pending /\ datapacks_view'.content = None
    BY <1>1, <2>1, RefreshingFacts
  <2>3. \A r \in Runs : r.current /\ r.step = "listing" => True(datapacks_view', datapacks_touched', datapacks_core'.packs, r)
    BY DEF True
  <2> QED BY <1>2, <1>5, <2>1, <2>2, <2>3, GoesStep
<1> QED BY <1>3, <1>4, <1>5

LEMMA DatapacksOpenedInv == ASSUME DatapacksDataOK, DatapacksIInv, NEW c \in 1 .. Mounts, Datapacks!Opened(c) PROVE DatapacksIInv'
<1>1. /\ datapacks_view \in Views /\ Datapacks!TypeOK /\ datapacks_core \in Cores /\ datapacks_run \in [1 .. Mounts -> Runs] /\ datapacks_run[c] \in Runs
      /\ datapacks_live \subseteq (1 .. Mounts) \X {1, 2} /\ datapacks_touched \in BOOLEAN
      /\ datapacks_run[c].step = "opening" /\ (datapacks_run[c].current => datapacks_view.pending = TRUE)
      /\ UNCHANGED <<datapacks_core, datapacks_mount, datapacks_elsewhere, datapacks_touched>>
  BY DatapacksTypes DEF DatapacksIInv, RunInv, Datapacks!TypeOK, Datapacks!Opened, Runs
<1>2. ASSUME NEW s \in {"closing", "listing", "checking"}, datapacks_run' = [datapacks_run EXCEPT ![c].step = s, ![c].session = 1],
             datapacks_live' = datapacks_live \cup {<<c, 1>>}, datapacks_view' \in Views,
             datapacks_run[c].current => s # "closing" /\ datapacks_view'.pending = datapacks_view.pending,
             datapacks_run[c].current /\ s = "checking" => datapacks_run[c].change # None,
             ~datapacks_run[c].current => s = "closing" /\ datapacks_view' = datapacks_view
      PROVE  DatapacksIInv'
  <2>1. PICK r : r = [datapacks_run[c] EXCEPT !.step = s, !.session = 1]
    OBVIOUS
  <2>2. /\ r \in Runs /\ r.step = s /\ r.session = 1 /\ r.current = datapacks_run[c].current
        /\ r.change = datapacks_run[c].change
    <3>1. /\ datapacks_run[c].change \in Datapacks!Changes \cup {None} /\ datapacks_run[c].current \in BOOLEAN /\ s \in Datapacks!Steps
          /\ r.step = s /\ r.session = 1 /\ r.current = datapacks_run[c].current /\ r.change = datapacks_run[c].change
      BY <1>1, <1>2, <2>1 DEF Runs, Datapacks!Steps
    <3>2. r = [step |-> s, change |-> datapacks_run[c].change, current |-> datapacks_run[c].current, session |-> 1]
      BY <1>1, <1>2, <2>1 DEF Runs
    <3>3. r \in Runs
      BY <3>1, <3>2 DEF Runs
    <3> QED BY <1>1, <1>2, <2>1, <3>1, <3>3
  <2>3. datapacks_run' = [datapacks_run EXCEPT ![c] = r]
    BY <1>1, <1>2, <2>1
  <2>4. /\ datapacks_live' \subseteq (1 .. Mounts) \X {1, 2}
        /\ \A d \in (1 .. Mounts) \ {c}, n \in {1, 2} : <<d, n>> \in datapacks_live' => <<d, n>> \in datapacks_live
        /\ \A n \in {1, 2} : <<c, n>> \in datapacks_live' => n = r.session /\ r.step \notin Parted
    <3>1. <<c, 1>> \in (1 .. Mounts) \X {1, 2} /\ \A n \in {1, 2} : <<c, n>> \notin datapacks_live
      BY <1>1 DEF DatapacksIInv, LiveInv, Parted
    <3>2. datapacks_live' \subseteq (1 .. Mounts) \X {1, 2}
      BY <1>1, <1>2, <3>1
    <3> QED BY <1>1, <1>2, <2>2, <3>1, <3>2 DEF Parted
  <2>5. datapacks_run[c].current => datapacks_view'.pending = r.current /\ True(datapacks_view', datapacks_touched', datapacks_core'.packs, r)
    BY <1>1, <1>2, <2>2 DEF True, Runs
  <2>6. r.step \in {"checking", "acting"} => r.change \in Datapacks!Changes
    BY <1>1, <1>2, <2>2 DEF Runs
  <2>7. r.current => datapacks_run[c].current /\ r.step # "none"
    BY <1>2, <2>2
  <2>8. UNCHANGED <<datapacks_mount, datapacks_elsewhere>> /\ datapacks_core' \in Cores /\ datapacks_view' \in Views /\ datapacks_touched' \in BOOLEAN
    BY <1>1, <1>2
  <2>9. ~datapacks_run[c].current => datapacks_view' = datapacks_view /\ (datapacks_touched' \/ (datapacks_touched' = datapacks_touched /\ datapacks_core'.packs = datapacks_core.packs))
    BY <1>1, <1>2
  <2> QED BY <2>2, <2>3, <2>4, <2>5, <2>6, <2>7, <2>8, <2>9, MoveStep
<1>3. CASE /\ datapacks_live' = datapacks_live \cup {<<c, 1>>}
           /\ ~datapacks_run[c].current /\ datapacks_run' = [datapacks_run EXCEPT ![c].step = "closing", ![c].session = 1]
           /\ UNCHANGED datapacks_view
  BY <1>1, <1>2, <1>3
<1>4. CASE /\ datapacks_live' = datapacks_live \cup {<<c, 1>>} /\ datapacks_run[c].current
           /\ datapacks_run' = [datapacks_run EXCEPT ![c].step = "listing", ![c].session = 1]
           /\ datapacks_view' = Datapacks!Refreshing(FALSE)
  BY <1>1, <1>2, <1>4, RefreshingFacts
<1>5. CASE /\ datapacks_live' = datapacks_live \cup {<<c, 1>>} /\ datapacks_run[c].current /\ datapacks_run[c].change # None
           /\ datapacks_run' = [datapacks_run EXCEPT ![c].step = "checking", ![c].session = 1]
           /\ UNCHANGED datapacks_view
  BY <1>1, <1>2, <1>5
<1>6. CASE Datapacks!Goes(c, "closing") /\ datapacks_view' = Datapacks!Fails(c) /\ UNCHANGED datapacks_live
  <2>1. datapacks_view' \in Views /\ datapacks_view'.pending = datapacks_view.pending /\ (datapacks_run[c].current => datapacks_view'.error = TRUE)
        /\ (~datapacks_run[c].current => datapacks_view' = datapacks_view)
    BY <1>1, <1>6, FailsFacts
  <2>2. datapacks_run[c].current => \A r \in Runs : r.current /\ r.step = "closing" => True(datapacks_view', datapacks_touched', datapacks_core'.packs, r)
    BY <2>1 DEF True
  <2>3. "closing" \in Datapacks!Steps \ {"none", "checking"} /\ "closing" \notin Parted
    BY DEF Datapacks!Steps, Parted
  <2> QED BY <1>1, <1>6, <2>1, <2>2, <2>3, GoesStep
<1> QED BY <1>3, <1>4, <1>5, <1>6 DEF Datapacks!Opened

LEMMA CheckedInv == ASSUME DatapacksDataOK, DatapacksIInv, NEW c \in 1 .. Mounts, Datapacks!Checked(c) PROVE DatapacksIInv'
<1>1. /\ datapacks_view \in Views /\ datapacks_core \in Cores /\ datapacks_touched \in BOOLEAN
      /\ datapacks_run[c].change \in Datapacks!Changes /\ UNCHANGED <<datapacks_core, datapacks_live, datapacks_mount, datapacks_elsewhere, datapacks_touched>>
  BY DatapacksTypes DEF DatapacksIInv, RunInv, Datapacks!TypeOK, Datapacks!Checked
<1>2. CASE datapacks_run[c].current /\ Datapacks!Goes(c, "acting") /\ datapacks_view' = [datapacks_view EXCEPT !.locked = FALSE]
  <2>1. datapacks_view' \in Views /\ datapacks_view'.pending = datapacks_view.pending
    BY <1>1, <1>2 DEF Views
  <2>2. \A r \in Runs : r.current /\ r.step = "acting" => True(datapacks_view', datapacks_touched', datapacks_core'.packs, r)
    BY DEF True
  <2>3. "acting" \in Datapacks!Steps \ {"none", "checking"} /\ "acting" \notin Parted
    BY DEF Datapacks!Steps, Parted
  <2> QED BY <1>1, <1>2, <2>1, <2>2, <2>3, GoesStep
<1>3. CASE Datapacks!Finally(c, TRUE)
  BY <1>1, <1>3, FinallyStep
<1> QED BY <1>2, <1>3 DEF Datapacks!Checked

LEMMA DatapacksAfterType ==
  ASSUME datapacks_core \in Cores, NEW x \in Datapacks!Changes, NEW p \in Datapacks!After(x) PROVE p \in Datapacks!Packs
<1>1. datapacks_core.packs \in Datapacks!Packs
  BY DEF Cores
<1>2. /\ x.op \in {"toggle", "remove", "adopt", "install", "set-version"}
      /\ x.op \in {"toggle", "remove", "set-version"} => x.file \in WorldPacks
  BY DEF Datapacks!Changes
<1>3. CASE x.op = "toggle"
  <2>1. PICK v : v = IF datapacks_core.packs[x.file] = "on" THEN "off" ELSE "on"
    OBVIOUS
  <2>2. p = [datapacks_core.packs EXCEPT ![x.file] = v] /\ v \in {"none", "on", "off", "loose"}
    BY <1>1, <1>2, <1>3, <2>1 DEF Datapacks!After, Datapacks!Packs
  <2> QED BY <1>1, <2>2 DEF Datapacks!Packs
<1>4. CASE x.op = "remove"
  BY <1>1, <1>4 DEF Datapacks!After, Datapacks!Packs
<1>5. CASE x.op = "adopt"
  BY <1>1, <1>5 DEF Datapacks!After, Datapacks!Packs
<1>6. CASE x.op = "install"
  BY <1>1, <1>6 DEF Datapacks!After, Datapacks!Packs
<1>7. CASE x.op = "set-version"
  BY <1>1, <1>7 DEF Datapacks!After, Datapacks!Packs
<1> QED BY <1>2, <1>3, <1>4, <1>5, <1>6, <1>7

LEMMA ActedInv == ASSUME DatapacksDataOK, DatapacksIInv, NEW c \in 1 .. Mounts, Datapacks!Acted(c) PROVE DatapacksIInv'
<1>1. /\ datapacks_core \in Cores /\ datapacks_touched \in BOOLEAN /\ datapacks_run[c].change \in Datapacks!Changes /\ datapacks_run[c] \in Runs
      /\ UNCHANGED <<datapacks_live, datapacks_mount, datapacks_elsewhere>>
  BY DatapacksTypes DEF DatapacksIInv, RunInv, Datapacks!TypeOK, Datapacks!Acted
<1>2. ASSUME NEW p \in Datapacks!After(datapacks_run[c].change), datapacks_core' = [datapacks_core EXCEPT !.packs = p],
             datapacks_touched' = (datapacks_touched \/ ~datapacks_run[c].current), NEW failed \in BOOLEAN, Datapacks!Finally(c, failed)
      PROVE  DatapacksIInv'
  <2>1. p \in Datapacks!Packs
    BY <1>1, <1>2, DatapacksAfterType
  <2>2. datapacks_core' \in Cores
    BY <1>1, <1>2, <2>1 DEF Cores
  <2>3. datapacks_touched' \in BOOLEAN /\ (~datapacks_run[c].current => datapacks_touched')
    BY <1>2
  <2> QED BY <1>1, <1>2, <2>2, <2>3, FinallyStep
<1>3. CASE Datapacks!Finally(c, TRUE) /\ UNCHANGED <<datapacks_core, datapacks_touched>>
  BY <1>1, <1>3, FinallyStep
<1> QED BY <1>2, <1>3 DEF Datapacks!Acted

LEMMA ReleasedInv == ASSUME DatapacksDataOK, DatapacksIInv, NEW c \in 1 .. Mounts, Datapacks!Released(c) PROVE DatapacksIInv'
<1>1. /\ datapacks_view \in Views /\ datapacks_core \in Cores /\ datapacks_touched \in BOOLEAN
      /\ datapacks_live' = Datapacks!Closed(c) /\ UNCHANGED <<datapacks_core, datapacks_view, datapacks_mount, datapacks_elsewhere, datapacks_touched>>
  BY DatapacksTypes DEF DatapacksIInv, Datapacks!TypeOK, Datapacks!Released
<1>2. PICK s : s = IF datapacks_run[c].current THEN "reopening" ELSE "closing"
  OBVIOUS
<1>3. s \in Datapacks!Steps \ {"none", "checking", "acting"} /\ Datapacks!Goes(c, s) /\ (datapacks_run[c].current => s = "reopening")
  BY <1>2 DEF Datapacks!Released, Datapacks!Steps
<1>4. \A r \in Runs : r.current /\ r.step = "reopening" => True(datapacks_view', datapacks_touched', datapacks_core'.packs, r)
  BY DEF True
<1> QED BY <1>1, <1>3, <1>4, GoesStep

LEMMA ReopenedInv == ASSUME DatapacksDataOK, DatapacksIInv, NEW c \in 1 .. Mounts, Datapacks!Reopened(c) PROVE DatapacksIInv'
<1>1. /\ datapacks_view \in Views /\ Datapacks!TypeOK /\ datapacks_core \in Cores /\ datapacks_run \in [1 .. Mounts -> Runs] /\ datapacks_run[c] \in Runs
      /\ datapacks_live \subseteq (1 .. Mounts) \X {1, 2} /\ datapacks_touched \in BOOLEAN /\ datapacks_view.error \in BOOLEAN
      /\ datapacks_run[c].step = "reopening" /\ (datapacks_run[c].current => datapacks_view.pending = TRUE)
      /\ UNCHANGED <<datapacks_core, datapacks_mount, datapacks_elsewhere, datapacks_touched>>
  BY DatapacksTypes DEF DatapacksIInv, RunInv, Datapacks!TypeOK, Datapacks!Reopened, Runs, Views
<1>2. CASE /\ datapacks_live' = datapacks_live \cup {<<c, 2>>}
           /\ datapacks_run' = [datapacks_run EXCEPT ![c].session = 2,
                                 ![c].step = IF datapacks_run[c].current THEN "listing" ELSE "closing"]
           /\ datapacks_view' = IF datapacks_run[c].current THEN Datapacks!Refreshing(datapacks_view.error) ELSE datapacks_view
  <2>1. PICK s : s = IF datapacks_run[c].current THEN "listing" ELSE "closing"
    OBVIOUS
  <2>2. PICK r : r = [datapacks_run[c] EXCEPT !.session = 2, !.step = s]
    OBVIOUS
  <2>3. /\ r \in Runs /\ r.step = s /\ r.session = 2 /\ r.current = datapacks_run[c].current
        /\ s \in {"listing", "closing"}
    <3>1. /\ datapacks_run[c].change \in Datapacks!Changes \cup {None} /\ datapacks_run[c].current \in BOOLEAN /\ s \in Datapacks!Steps
          /\ r.step = s /\ r.session = 2 /\ r.current = datapacks_run[c].current /\ r.change = datapacks_run[c].change
      BY <1>1, <2>1, <2>2 DEF Runs, Datapacks!Steps
    <3>2. r = [step |-> s, change |-> datapacks_run[c].change, current |-> datapacks_run[c].current, session |-> 2]
      BY <1>1, <2>1, <2>2 DEF Runs
    <3>3. r \in Runs
      BY <3>1, <3>2 DEF Runs
    <3> QED BY <1>1, <2>1, <2>2, <3>1, <3>3
  <2>4. datapacks_run' = [datapacks_run EXCEPT ![c] = r]
    BY <1>1, <1>2, <2>1, <2>2
  <2>5. /\ datapacks_live' \subseteq (1 .. Mounts) \X {1, 2}
        /\ \A d \in (1 .. Mounts) \ {c}, n \in {1, 2} : <<d, n>> \in datapacks_live' => <<d, n>> \in datapacks_live
        /\ \A n \in {1, 2} : <<c, n>> \in datapacks_live' => n = r.session /\ r.step \notin Parted
    <3>1. <<c, 2>> \in (1 .. Mounts) \X {1, 2} /\ \A n \in {1, 2} : <<c, n>> \notin datapacks_live
      BY <1>1 DEF DatapacksIInv, LiveInv, Parted
    <3>2. datapacks_live' \subseteq (1 .. Mounts) \X {1, 2}
      BY <1>1, <1>2, <3>1
    <3> QED BY <1>1, <1>2, <2>3, <3>1, <3>2 DEF Parted
  <2>6. datapacks_view' \in Views
    BY <1>1, <1>2, RefreshingFacts
  <2>7. datapacks_run[c].current => datapacks_view'.pending = r.current /\ True(datapacks_view', datapacks_touched', datapacks_core'.packs, r)
    BY <1>1, <1>2, <2>3, RefreshingFacts DEF True, Runs
  <2>8. UNCHANGED <<datapacks_mount, datapacks_elsewhere>> /\ datapacks_core' \in Cores /\ datapacks_view' \in Views /\ datapacks_touched' \in BOOLEAN
    BY <1>1, <1>2, <2>6
  <2>9. ~datapacks_run[c].current => datapacks_view' = datapacks_view /\ (datapacks_touched' \/ (datapacks_touched' = datapacks_touched /\ datapacks_core'.packs = datapacks_core.packs))
    BY <1>1, <1>2
  <2>10. /\ r.current => datapacks_run[c].current /\ r.step # "none"
         /\ r.step \in {"checking", "acting"} => r.change \in Datapacks!Changes
    BY <2>1, <2>3
  <2> QED BY <2>3, <2>4, <2>5, <2>6, <2>7, <2>8, <2>9, <2>10, MoveStep
<1>3. CASE /\ Datapacks!Goes(c, "closing") /\ UNCHANGED datapacks_live
           /\ datapacks_view' = IF datapacks_run[c].current THEN [datapacks_view EXCEPT !.unread = TRUE] ELSE datapacks_view
  <2>1. datapacks_view' \in Views /\ datapacks_view'.pending = datapacks_view.pending /\ (datapacks_run[c].current => datapacks_view'.unread = TRUE)
    BY <1>1, <1>3, UnreadFacts
  <2>2. datapacks_run[c].current => \A r \in Runs : r.current /\ r.step = "closing" => True(datapacks_view', datapacks_touched', datapacks_core'.packs, r)
    BY <2>1 DEF True
  <2>3. "closing" \in Datapacks!Steps \ {"none", "checking"} /\ "closing" \notin Parted
    BY DEF Datapacks!Steps, Parted
  <2> QED BY <1>1, <1>3, <2>1, <2>2, <2>3, GoesStep
<1> QED BY <1>2, <1>3 DEF Datapacks!Reopened

\* A read that fails is shown to have.
LEMMA UnreadStep ==
  ASSUME DatapacksDataOK, DatapacksIInv, NEW c \in 1 .. Mounts, Datapacks!Unread(c), UNCHANGED <<datapacks_core, datapacks_live, datapacks_mount, datapacks_elsewhere, datapacks_touched>>
  PROVE  DatapacksIInv'
<1>1. datapacks_view \in Views /\ Datapacks!TypeOK /\ datapacks_core \in Cores /\ datapacks_touched \in BOOLEAN
  BY DatapacksTypes DEF DatapacksIInv, Datapacks!TypeOK
<1>2. datapacks_view' \in Views /\ datapacks_view'.pending = datapacks_view.pending /\ (datapacks_run[c].current => datapacks_view'.unread = TRUE)
  BY <1>1, UnreadFacts DEF Datapacks!Unread
<1>3. datapacks_run[c].current => \A r \in Runs : r.current /\ r.step = "closing" => True(datapacks_view', datapacks_touched', datapacks_core'.packs, r)
  BY <1>2 DEF True
<1>4. "closing" \in Datapacks!Steps \ {"none", "checking"} /\ "closing" \notin Parted
  BY DEF Datapacks!Steps, Parted
<1> QED BY <1>1, <1>2, <1>3, <1>4, GoesStep DEF Datapacks!Unread

LEMMA DatapacksListedInv == ASSUME DatapacksDataOK, DatapacksIInv, NEW c \in 1 .. Mounts, Datapacks!Listed(c) PROVE DatapacksIInv'
<1>1. datapacks_view \in Views /\ datapacks_core \in Cores /\ datapacks_core.packs \in Datapacks!Packs
      /\ UNCHANGED <<datapacks_core, datapacks_live, datapacks_mount, datapacks_elsewhere>>
  BY DatapacksTypes DEF DatapacksIInv, Datapacks!Listed, Cores
<1>2. CASE datapacks_run[c].current /\ Datapacks!Goes(c, "looking") /\ datapacks_view' = [datapacks_view EXCEPT !.content = datapacks_core.packs]
           /\ datapacks_touched' = FALSE
  <2>1. datapacks_view' \in Views /\ datapacks_view'.pending = datapacks_view.pending /\ datapacks_view'.content = datapacks_core'.packs
    BY <1>1, <1>2 DEF Views
  <2>2. \A r \in Runs : r.current /\ r.step = "looking" => True(datapacks_view', datapacks_touched', datapacks_core'.packs, r)
    BY <2>1 DEF True
  <2>3. "looking" \in Datapacks!Steps \ {"none", "checking"} /\ "looking" \notin Parted
    BY DEF Datapacks!Steps, Parted
  <2> QED BY <1>1, <1>2, <2>1, <2>2, <2>3, GoesStep
<1>3. CASE Datapacks!Unread(c) /\ UNCHANGED datapacks_touched
  BY <1>1, <1>3, UnreadStep
<1> QED BY <1>2, <1>3 DEF Datapacks!Listed

LEMMA LookedInv == ASSUME DatapacksDataOK, DatapacksIInv, NEW c \in 1 .. Mounts, Datapacks!Looked(c) PROVE DatapacksIInv'
<1>1. /\ datapacks_view \in Views /\ datapacks_core \in Cores /\ datapacks_core.locked \in BOOLEAN /\ datapacks_touched \in BOOLEAN
      /\ datapacks_run[c] \in Runs /\ datapacks_run[c].step = "looking"
      /\ UNCHANGED <<datapacks_core, datapacks_live, datapacks_mount, datapacks_elsewhere, datapacks_touched>>
  BY DatapacksTypes DEF DatapacksIInv, Datapacks!Looked, Cores, Datapacks!TypeOK
<1>2. CASE datapacks_run[c].current /\ Datapacks!Goes(c, "closing") /\ datapacks_view' = [datapacks_view EXCEPT !.locked = datapacks_core.locked]
  <2>1. /\ datapacks_view' \in Views /\ datapacks_view'.pending = datapacks_view.pending /\ datapacks_view'.content = datapacks_view.content
        /\ datapacks_view'.error = datapacks_view.error /\ datapacks_view'.unread = datapacks_view.unread
    BY <1>1, <1>2 DEF Views
  <2>2. c = datapacks_mount
    BY <1>2 DEF DatapacksIInv, RunInv
  <2>3. \A r \in Runs : r.current /\ r.step = "closing" => True(datapacks_view', datapacks_touched', datapacks_core'.packs, r)
    BY <1>1, <2>1, <2>2 DEF DatapacksIInv, RestInv, True
  <2>4. "closing" \in Datapacks!Steps \ {"none", "checking"} /\ "closing" \notin Parted
    BY DEF Datapacks!Steps, Parted
  <2> QED BY <1>1, <1>2, <2>1, <2>3, <2>4, GoesStep
<1>3. CASE Datapacks!Unread(c)
  BY <1>1, <1>3, UnreadStep
<1> QED BY <1>2, <1>3 DEF Datapacks!Looked

LEMMA EndedInv == ASSUME DatapacksDataOK, DatapacksIInv, NEW c \in 1 .. Mounts, Datapacks!Ended(c) PROVE DatapacksIInv'
<1>1. /\ datapacks_view \in Views /\ datapacks_core \in Cores /\ datapacks_run[c] \in Runs /\ datapacks_run[c].step = "closing"
      /\ datapacks_live \subseteq (1 .. Mounts) \X {1, 2} /\ datapacks_touched \in BOOLEAN
      /\ datapacks_run' = [datapacks_run EXCEPT ![c] = Datapacks!NoRun] /\ datapacks_live' = Datapacks!Closed(c)
      /\ UNCHANGED <<datapacks_core, datapacks_mount, datapacks_elsewhere, datapacks_touched>>
  BY DatapacksTypes DEF DatapacksIInv, Datapacks!TypeOK, Datapacks!Ended
<1>2. Datapacks!NoRun \in Runs /\ Datapacks!NoRun.step = "none" /\ Datapacks!NoRun.current = FALSE
  BY DEF Datapacks!NoRun, Runs, Datapacks!Steps
<1>3. /\ datapacks_live' \subseteq (1 .. Mounts) \X {1, 2}
      /\ \A d \in (1 .. Mounts) \ {c}, n \in {1, 2} : <<d, n>> \in datapacks_live' => <<d, n>> \in datapacks_live
      /\ \A n \in {1, 2} : <<c, n>> \notin datapacks_live'
  BY <1>1 DEF DatapacksIInv, LiveInv, Datapacks!Closed
<1>4. CASE datapacks_run[c].current
  <2>1. datapacks_view' = [datapacks_view EXCEPT !.pending = FALSE] /\ c = datapacks_mount
    BY <1>4 DEF Datapacks!Ended, DatapacksIInv, RunInv
  <2>2. /\ datapacks_view' \in Views /\ datapacks_view'.pending = FALSE /\ datapacks_view'.content = datapacks_view.content
        /\ datapacks_view'.error = datapacks_view.error /\ datapacks_view'.unread = datapacks_view.unread
    BY <1>1, <2>1 DEF Views
  <2>3. True(datapacks_view', datapacks_touched', datapacks_core'.packs, Datapacks!NoRun)
    BY <1>1, <1>2, <2>1, <2>2 DEF DatapacksIInv, RestInv, True
  <2> QED BY <1>1, <1>2, <1>3, <1>4, <2>2, <2>3, MoveStep
<1>5. CASE ~datapacks_run[c].current
  BY <1>1, <1>2, <1>3, <1>5, MoveStep DEF Datapacks!Ended
<1> QED BY <1>4, <1>5

LEMMA ElsewhereInv == ASSUME DatapacksDataOK, DatapacksIInv, Datapacks!Elsewhere PROVE DatapacksIInv'
<1>1. /\ datapacks_core \in Cores /\ datapacks_elsewhere' \in 0 .. MaxElsewhere /\ UNCHANGED <<datapacks_view, datapacks_run, datapacks_live, datapacks_mount>>
  BY DatapacksTypes DEF DatapacksDataOK, Datapacks!Elsewhere, DatapacksIInv, Datapacks!TypeOK
<1>2. CASE datapacks_core' = [datapacks_core EXCEPT !.locked = ~@] /\ UNCHANGED datapacks_touched
  <2>1. datapacks_core' \in Cores /\ datapacks_core'.packs = datapacks_core.packs
    BY <1>1, <1>2 DEF Cores
  <2> QED BY <1>1, <1>2, <2>1 DEF DatapacksIInv, Datapacks!TypeOK, RunInv, LiveInv, RestInv, True, Cores
<1>3. ASSUME datapacks_touched' = TRUE, NEW p \in Datapacks!Packs, datapacks_core' = [datapacks_core EXCEPT !.packs = p] PROVE DatapacksIInv'
  <2>1. datapacks_core' \in Cores
    BY <1>1, <1>3 DEF Cores
  <2> QED BY <1>1, <1>3, <2>1 DEF DatapacksIInv, Datapacks!TypeOK, RunInv, LiveInv, RestInv, True, Cores
<1> QED BY <1>2, <1>3 DEF Datapacks!Elsewhere

LEMMA DatapacksNextInv == ASSUME DatapacksDataOK, DatapacksIInv, [Datapacks!Next]_(Datapacks!vars) PROVE DatapacksIInv'
<1>1. CASE UNCHANGED Datapacks!vars
  BY <1>1 DEF Datapacks!vars, DatapacksIInv, Datapacks!TypeOK, RunInv, LiveInv, RestInv
<1>2. CASE Datapacks!Load
  BY <1>2, DatapacksStartInv DEF Datapacks!Load
<1>3. CASE Datapacks!Cancel
  <2>1. datapacks_mount \in 1 .. Mounts
    BY DEF DatapacksIInv, Datapacks!TypeOK
  <2> QED BY <1>3, <2>1, LeaveStep DEF Datapacks!Cancel
<1>4. CASE Datapacks!Remount
  <2>1. datapacks_mount + 1 \in 1 .. Mounts
    BY <1>4 DEF Datapacks!Remount, DatapacksDataOK, DatapacksIInv, Datapacks!TypeOK
  <2> QED BY <1>4, <2>1, LeaveStep DEF Datapacks!Remount
<1>5. CASE Datapacks!Elsewhere
  BY <1>5, ElsewhereInv
<1>6. ASSUME NEW x \in Datapacks!Changes, Datapacks!Change(x) PROVE DatapacksIInv'
  BY <1>6, DatapacksStartInv DEF Datapacks!Change
<1>7. ASSUME NEW c \in 1 .. Mounts,
             Datapacks!Opened(c) \/ Datapacks!Checked(c) \/ Datapacks!Acted(c) \/ Datapacks!Released(c) \/ Datapacks!Reopened(c)
               \/ Datapacks!Listed(c) \/ Datapacks!Looked(c) \/ Datapacks!Ended(c)
      PROVE  DatapacksIInv'
  BY <1>7, DatapacksOpenedInv, CheckedInv, ActedInv, ReleasedInv, ReopenedInv, DatapacksListedInv,
     LookedInv, EndedInv
<1> QED BY <1>1, <1>2, <1>3, <1>4, <1>5, <1>6, <1>7 DEF Datapacks!Next

LEMMA InvShownAreThere == ASSUME DatapacksIInv PROVE Datapacks!ShownAreThere
BY DEF DatapacksIInv, RunInv, RestInv, True, Datapacks!ShownAreThere

LEMMA InvNoSessionLeft == ASSUME DatapacksIInv PROVE Datapacks!NoSessionLeft
BY DEF DatapacksIInv, LiveInv, Parted, Datapacks!NoSessionLeft

-----------------------------------------------------------------------------
(***************************************************************************)
(* The servers of the mock core, for any logs and starts.  The record of a *)
(* server is whole (Row), no two that run share a process, and while the   *)
(* server still has the file that a client follows, the client's text is   *)
(* the piece of it from where it began to its cursor (Follows).            *)
(***************************************************************************)
Chars == {"a", "c", "d"}
FakeServersLogs == [file : 0 .. MaxFiles, bytes : Seq(Chars)]
Rows ==
  [installed : BOOLEAN, eula : BOOLEAN, properties : {"none", "plain", "password"},
   running : BOOLEAN, pid : (0 .. MaxStarts) \cup {None}, stale : BOOLEAN, log : {None} \cup FakeServersLogs]
Clients ==
  [id : Servers, file : 0 .. MaxFiles, from : 0 .. MaxBytes, cursor : 0 .. MaxBytes, text : Seq(Chars)]

FakeServersDataOK ==
  /\ Limits \subseteq Nat /\ MaxStarts \in Nat /\ MaxFiles \in Nat \ {0} /\ MaxBytes \in Nat \ {0, 1}
  /\ None \notin 0 .. MaxStarts /\ None \notin FakeServersLogs

\* A server that was installed can start, one that runs was; its log is of a
\* file that is not given again, but for that of the default scenario.
Row(i, r, pids, files) ==
  /\ r \in Rows
  /\ r.installed => r.eula /\ r.properties # "none"
  /\ r.running <=> r.pid # None
  /\ r.running => r.installed /\ r.log # None /\ r.pid < pids
  /\ r.log # None => /\ Len(r.log.bytes) <= MaxBytes
                     /\ r.log.file < files \/ (i = "running" /\ r.log.file = 1)

\* The client has a piece of the log it follows.
Follows(c, r) ==
  r # None /\ r.log # None /\ r.log.file = c.file /\ ~(c.id = "running" /\ c.file = 1) =>
    /\ c.from <= c.cursor /\ c.cursor <= Len(r.log.bytes)
    /\ c.text = FakeServers!Piece(r.log.bytes, c.from, c.cursor)

ClientOK(c, r, files) ==
  /\ c \in Clients /\ FakeServers!Whole(c.text)
  /\ c.file < files \/ (c.id = "running" /\ c.file = 1)
  /\ Follows(c, r)

FakeServersIInv ==
  /\ servers_servers \in [Servers -> {None} \cup Rows]
  /\ servers_nextPid \in 1 .. MaxStarts + 1 /\ servers_nextFile \in 0 .. MaxFiles + 1
  /\ \A i \in Servers : servers_servers[i] # None => Row(i, servers_servers[i], servers_nextPid, servers_nextFile)
  /\ \A i, j \in Servers : i # j /\ servers_servers[i] # None /\ servers_servers[j] # None /\ servers_servers[i].running
                         => servers_servers[j].pid # servers_servers[i].pid
  /\ servers_client # None => ClientOK(servers_client, servers_servers[servers_client.id], servers_nextFile)

(* Pieces of a text.                                                       *)

LEMMA PieceFacts ==
  ASSUME NEW s \in Seq(Chars), NEW a \in Nat, NEW b \in Nat, a <= b, b <= Len(s)
  PROVE  /\ FakeServers!Piece(s, a, b) \in Seq(Chars) /\ Len(FakeServers!Piece(s, a, b)) = b - a
         /\ \A i \in 1 .. b - a : FakeServers!Piece(s, a, b)[i] = s[a + i]
<1>1. Len(s) \in Nat /\ \A i \in a + 1 .. b : s[i] \in Chars
  OBVIOUS
<1>2. /\ SubSeq(s, a + 1, b) \in Seq(Chars)
      /\ Len(SubSeq(s, a + 1, b)) = IF a + 1 <= b THEN b - (a + 1) + 1 ELSE 0
      /\ \A i \in 1 .. b - (a + 1) + 1 : SubSeq(s, a + 1, b)[i] = s[(a + 1) + i - 1]
  BY <1>1, SubSeqProperties
<1>3. b - (a + 1) + 1 = b - a /\ \A i \in 1 .. b - a : (a + 1) + i - 1 = a + i
  OBVIOUS
<1>4. Len(SubSeq(s, a + 1, b)) = b - a
  BY <1>2
<1> QED BY <1>2, <1>3, <1>4 DEF FakeServers!Piece

LEMMA NothingWhole ==
  ASSUME NEW s \in Seq(Chars), NEW a \in Nat, a <= Len(s) PROVE FakeServers!Piece(s, a, a) = <<>> /\ FakeServers!Whole(FakeServers!Piece(s, a, a))
<1>1. Len(FakeServers!Piece(s, a, a)) = 0 /\ FakeServers!Piece(s, a, a) \in Seq(Chars)
  BY PieceFacts
<1>2. FakeServers!Piece(s, a, a) = <<>>
  BY <1>1
<1> QED BY <1>2 DEF FakeServers!Whole

\* A piece of a log stays one as the log grows.
LEMMA GrownPiece ==
  ASSUME NEW s \in Seq(Chars), NEW t \in Seq(Chars), NEW a \in Nat, NEW b \in Nat, a <= b, b <= Len(s)
  PROVE  FakeServers!Piece(s \o t, a, b) = FakeServers!Piece(s, a, b) /\ b <= Len(s \o t)
<1>1. /\ s \o t \in Seq(Chars) /\ Len(s \o t) = Len(s) + Len(t) /\ Len(s) \in Nat /\ Len(t) \in Nat
      /\ \A i \in 1 .. Len(s) : (s \o t)[i] = s[i]
  OBVIOUS
<1>2. b <= Len(s \o t)
  BY <1>1
<1>3. /\ FakeServers!Piece(s \o t, a, b) \in Seq(Chars) /\ Len(FakeServers!Piece(s \o t, a, b)) = b - a
      /\ \A i \in 1 .. b - a : FakeServers!Piece(s \o t, a, b)[i] = (s \o t)[a + i]
  BY <1>1, <1>2, PieceFacts
<1>4. /\ FakeServers!Piece(s, a, b) \in Seq(Chars) /\ Len(FakeServers!Piece(s, a, b)) = b - a
      /\ \A i \in 1 .. b - a : FakeServers!Piece(s, a, b)[i] = s[a + i]
  BY PieceFacts
<1>5. \A i \in 1 .. b - a : FakeServers!Piece(s \o t, a, b)[i] = FakeServers!Piece(s, a, b)[i]
  <2> SUFFICES ASSUME NEW i \in 1 .. b - a PROVE FakeServers!Piece(s \o t, a, b)[i] = FakeServers!Piece(s, a, b)[i]
    OBVIOUS
  <2>1. a + i \in 1 .. Len(s)
    BY <1>1
  <2> QED BY <1>1, <1>3, <1>4, <2>1
<1> QED BY <1>2, <1>3, <1>4, <1>5, SeqEqual

\* Two pieces that meet are one.
LEMMA JoinedPiece ==
  ASSUME NEW s \in Seq(Chars), NEW a \in Nat, NEW b \in Nat, NEW d \in Nat, a <= b, b <= d, d <= Len(s)
  PROVE  FakeServers!Piece(s, a, b) \o FakeServers!Piece(s, b, d) = FakeServers!Piece(s, a, d)
<1>1. PICK x : x = FakeServers!Piece(s, a, b)
  OBVIOUS
<1>2. PICK y : y = FakeServers!Piece(s, b, d)
  OBVIOUS
<1>3. PICK z : z = FakeServers!Piece(s, a, d)
  OBVIOUS
<1>4. b <= Len(s) /\ a <= d
  OBVIOUS
<1>5. x \in Seq(Chars) /\ Len(x) = b - a /\ \A i \in 1 .. b - a : x[i] = s[a + i]
  BY <1>1, <1>4, PieceFacts
<1>6. y \in Seq(Chars) /\ Len(y) = d - b /\ \A i \in 1 .. d - b : y[i] = s[b + i]
  BY <1>2, <1>4, PieceFacts
<1>7. z \in Seq(Chars) /\ Len(z) = d - a /\ \A i \in 1 .. d - a : z[i] = s[a + i]
  BY <1>3, <1>4, PieceFacts
<1>8. PICK m \in Nat : m = b - a
  OBVIOUS
<1>9. PICK n \in Nat : n = d - b
  OBVIOUS
<1>10. /\ x \o y \in Seq(Chars) /\ Len(x \o y) = m + n
       /\ \A i \in 1 .. m + n : (x \o y)[i] = IF i <= m THEN x[i] ELSE y[i - m]
  <2>1. Len(x) = m /\ Len(y) = n
    BY <1>5, <1>6, <1>8, <1>9
  <2>2. /\ x \o y \in Seq(Chars) /\ Len(x \o y) = Len(x) + Len(y)
        /\ \A i \in 1 .. Len(x) + Len(y) : (x \o y)[i] = IF i <= Len(x) THEN x[i] ELSE y[i - Len(x)]
    BY <1>5, <1>6, ConcatProperties
  <2> QED BY <2>1, <2>2
<1>11. \A i \in 1 .. m + n : (x \o y)[i] = z[i]
  <2> SUFFICES ASSUME NEW i \in 1 .. m + n PROVE (x \o y)[i] = z[i]
    OBVIOUS
  <2>0. i \in 1 .. d - a
    BY <1>8, <1>9
  <2>1. CASE i <= m
    <3>1. i \in 1 .. b - a
      BY <1>8, <2>1
    <3> QED BY <1>5, <1>7, <1>10, <2>0, <2>1, <3>1
  <2>2. CASE ~(i <= m)
    <3>1. i - m \in 1 .. d - b /\ b + (i - m) = a + i
      BY <1>8, <1>9, <2>2
    <3>2. y[i - m] = s[a + i]
      BY <1>6, <3>1
    <3> QED BY <1>7, <1>10, <2>0, <2>2, <3>2
  <2> QED BY <2>1, <2>2
<1>12. m + n = d - a
  BY <1>8, <1>9
<1> QED BY <1>1, <1>2, <1>3, <1>7, <1>10, <1>11, <1>12, SeqEqual

LEMMA JoinedWhole ==
  ASSUME NEW s \in Seq(Chars), NEW t \in Seq(Chars), FakeServers!Whole(s), FakeServers!Whole(t)
  PROVE  s \o t \in Seq(Chars) /\ FakeServers!Whole(s \o t)
<1>1. /\ s \o t \in Seq(Chars) /\ Len(s \o t) = Len(s) + Len(t) /\ Len(s) \in Nat /\ Len(t) \in Nat
      /\ \A i \in 1 .. Len(s) : (s \o t)[i] = s[i]
      /\ \A i \in 1 .. Len(t) : (s \o t)[Len(s) + i] = t[i]
  OBVIOUS
<1>2. CASE s = <<>>
  BY <1>2
<1>3. CASE t = <<>>
  BY <1>3
<1>4. CASE s # <<>> /\ t # <<>>
  <2>1. 1 \in 1 .. Len(s) /\ Len(t) \in 1 .. Len(t)
    BY <1>1, <1>4
  <2>2. (s \o t)[1] = s[1] /\ (s \o t)[Len(s \o t)] = t[Len(t)]
    BY <1>1, <2>1
  <2>3. Head(s \o t) = (s \o t)[1] /\ Head(s) = s[1]
    BY <1>1, <1>4
  <2>4. Head(s) # "d" /\ t[Len(t)] # "c"
    BY <1>4 DEF FakeServers!Whole
  <2> QED BY <1>1, <2>2, <2>3, <2>4 DEF FakeServers!Whole
<1> QED BY <1>1, <1>2, <1>3, <1>4

\* What an answer gives is a piece of the log in whole characters.
LEMMA FakeServersAnswerFacts ==
  ASSUME NEW log \in FakeServersLogs, NEW cursor, cursor = None \/ cursor \in Nat, NEW file, NEW limit \in Nat
  PROVE  LET a == FakeServers!Answer(log, cursor, file, limit)
         IN /\ a.from \in Nat /\ a.to \in Nat /\ a.from <= a.to /\ a.to <= Len(log.bytes)
            /\ a.text = FakeServers!Piece(log.bytes, a.from, a.to) /\ FakeServers!Whole(a.text) /\ a.text \in Seq(Chars)
            /\ a.file = log.file /\ a.goesOn \in BOOLEAN
            /\ a.goesOn => cursor # None /\ file = log.file /\ a.from = cursor
<1>1. PICK s \in Seq(Chars) : s = log.bytes
  BY DEF FakeServersLogs
<1>2. Len(s) \in Nat
  OBVIOUS
<1>3. PICK known \in BOOLEAN : known = (cursor # None /\ file = log.file /\ FakeServers!IsBoundary(log.bytes, cursor))
  OBVIOUS
<1>4. PICK from : from = IF known THEN cursor ELSE FakeServers!TailOf(log.bytes, limit)
  OBVIOUS
<1>5. PICK to : to = FakeServers!EndOf(log.bytes, from, limit)
  OBVIOUS
<1>6. /\ FakeServers!Answer(log, cursor, file, limit).text = FakeServers!Piece(s, from, to)
      /\ FakeServers!Answer(log, cursor, file, limit).from = from /\ FakeServers!Answer(log, cursor, file, limit).to = to
      /\ FakeServers!Answer(log, cursor, file, limit).file = log.file
      /\ FakeServers!Answer(log, cursor, file, limit).goesOn = known
  BY <1>1, <1>3, <1>4, <1>5 DEF FakeServers!Answer
<1>7. from \in Nat /\ from <= Len(s)
  <2>1. CASE known
    BY <1>1, <1>3, <1>4, <2>1 DEF FakeServers!IsBoundary
  <2>2. CASE ~known
    <3>1. PICK low \in Nat : low = IF limit > Len(s) THEN 0 ELSE Len(s) - limit
      BY <1>2
    <3>2. low <= Len(s)
      BY <1>2, <3>1
    <3>3. PICK B : B = {b \in low .. Len(s) : FakeServers!Whole(FakeServers!Piece(s, b, Len(s)))}
      OBVIOUS
    <3>4. Len(s) \in B
      BY <1>2, <3>2, <3>3, NothingWhole
    <3>5. B \in SUBSET Nat /\ B # {}
      BY <1>2, <3>3, <3>4
    <3>6. \E m \in B : \A k \in B : m <= k
      BY <3>5, LeastOf
    <3>7. FakeServers!Min(B) \in B
      BY <3>6 DEF FakeServers!Min
    <3>8. from = FakeServers!Min(B)
      BY <1>1, <1>4, <2>2, <3>1, <3>3 DEF FakeServers!TailOf
    <3> QED BY <1>2, <3>3, <3>7, <3>8
  <2> QED BY <2>1, <2>2
<1>8. to \in Nat /\ from <= to /\ to <= Len(s) /\ FakeServers!Whole(FakeServers!Piece(s, from, to))
  <2>1. PICK high : high = FakeServers!Min({Len(s), from + limit})
    OBVIOUS
  <2>2. high \in Nat /\ from <= high /\ high <= Len(s)
    <3>1. {Len(s), from + limit} \in SUBSET Nat /\ {Len(s), from + limit} # {}
      BY <1>2, <1>7
    <3>2. \E m \in {Len(s), from + limit} : \A k \in {Len(s), from + limit} : m <= k
      BY <3>1, LeastOf
    <3>3. high \in {Len(s), from + limit} /\ \A k \in {Len(s), from + limit} : high <= k
      BY <2>1, <3>2 DEF FakeServers!Min
    <3> QED BY <1>2, <1>7, <3>3
  <2>3. PICK E : E = {e \in from .. high : FakeServers!Whole(FakeServers!Piece(s, from, e))}
    OBVIOUS
  <2>4. from \in E
    BY <1>2, <1>7, <2>2, <2>3, NothingWhole
  <2>5. E \in SUBSET (0 .. high) /\ E # {}
    BY <1>7, <2>2, <2>3, <2>4
  <2>6. \E m \in E : \A k \in E : m >= k
    BY <2>2, <2>5, GreatestOf
  <2>7. FakeServers!Max(E) \in E
    BY <2>6 DEF FakeServers!Max
  <2>8. to = FakeServers!Max(E)
    BY <1>1, <1>5, <2>1, <2>3 DEF FakeServers!EndOf
  <2> QED BY <1>2, <1>7, <2>2, <2>3, <2>7, <2>8
<1>9. FakeServers!Piece(s, from, to) \in Seq(Chars)
  BY <1>2, <1>7, <1>8, PieceFacts
<1>10. known => cursor # None /\ file = log.file /\ from = cursor
  BY <1>3, <1>4
<1> QED BY <1>1, <1>6, <1>7, <1>8, <1>9, <1>10

(* The servers.                                                            *)

Extends(s, t) == \E u \in Seq(Chars) : t = s \o u

\* What a change of a server does with its log and its processes.
FakeServersKept(old, r, pid, file) ==
  /\ r.running => \/ old # None /\ old.running /\ r.pid = old.pid
                  \/ r.pid = pid
  /\ r.log # None => \/ /\ old # None /\ old.log # None /\ r.log.file = old.log.file
                        /\ Extends(old.log.bytes, r.log.bytes)
                     \/ r.log.file = file

LEMMA RowGrows ==
  ASSUME NEW i, NEW r, NEW p \in Nat, NEW q \in Nat, NEW f \in Nat, NEW g \in Nat,
         Row(i, r, p, f), p <= q, f <= g, FakeServersDataOK
  PROVE  Row(i, r, q, g)
<1>1. r \in Rows
  BY DEF Row
<1>2. r.pid # None => r.pid \in Nat
  BY <1>1 DEF Rows
<1>3. r.log # None => r.log.file \in Nat
  BY <1>1 DEF Rows, FakeServersLogs
<1> QED BY <1>1, <1>2, <1>3 DEF Row

LEMMA RowStep ==
  ASSUME FakeServersDataOK, FakeServersIInv, NEW i \in Servers, NEW r, servers_servers' = [servers_servers EXCEPT ![i] = r], servers_client' = servers_client,
         NEW p \in {servers_nextPid, servers_nextPid + 1}, servers_nextPid' = p, p <= MaxStarts + 1,
         NEW f \in {servers_nextFile, servers_nextFile + 1}, servers_nextFile' = f, f <= MaxFiles + 1,
         r = None \/ (Row(i, r, p, f) /\ FakeServersKept(servers_servers[i], r, servers_nextPid, servers_nextFile))
  PROVE  FakeServersIInv'
<1>1. /\ servers_servers \in [Servers -> {None} \cup Rows] /\ servers_nextPid \in Nat /\ servers_nextFile \in Nat /\ servers_nextPid >= 1
      /\ p \in Nat /\ f \in Nat /\ servers_nextPid <= p /\ servers_nextFile <= f
  BY DEF FakeServersIInv
<1>2. r \in {None} \cup Rows
  BY DEF Row
<1>3. PICK s : s = servers_servers'
  OBVIOUS
<1>4. s \in [Servers -> {None} \cup Rows] /\ s[i] = r /\ \A j \in Servers \ {i} : s[j] = servers_servers[j]
  BY <1>1, <1>2, <1>3
<1>5. p \in 1 .. MaxStarts + 1 /\ f \in 0 .. MaxFiles + 1
  BY <1>1 DEF FakeServersDataOK
<1>6. ASSUME NEW j \in Servers, s[j] # None PROVE Row(j, s[j], p, f)
  <2>1. CASE j = i
    BY <1>4, <1>6, <2>1
  <2>2. CASE j # i
    <3>1. s[j] = servers_servers[j] /\ Row(j, servers_servers[j], servers_nextPid, servers_nextFile)
      BY <1>4, <1>6, <2>2 DEF FakeServersIInv
    <3> QED BY <1>1, <3>1, RowGrows
  <2> QED BY <2>1, <2>2
<1>7. ASSUME NEW j \in Servers, NEW k \in Servers, j # k, s[j] # None, s[k] # None, s[j].running
      PROVE  s[k].pid # s[j].pid
  <2>0. \A l \in Servers : servers_servers[l] # None => servers_servers[l].pid = None \/ (servers_servers[l].pid < servers_nextPid /\ servers_servers[l].running)
    BY DEF FakeServersIInv, Row
  <2>1. CASE j # i /\ k # i
    BY <1>4, <1>7, <2>1 DEF FakeServersIInv
  <2>2. CASE j = i
    <3>1. k # i /\ s[k] = servers_servers[k] /\ s[j] = r /\ r # None /\ r.running
      BY <1>4, <1>7, <2>2
    <3>2. r.pid # None
      BY <3>1 DEF Row
    <3>3. CASE servers_servers[i] # None /\ servers_servers[i].running /\ r.pid = servers_servers[i].pid
      BY <1>7, <3>1, <3>3 DEF FakeServersIInv
    <3>4. CASE r.pid = servers_nextPid
      BY <1>1, <1>7, <2>0, <3>1, <3>2, <3>4
    <3> QED BY <3>1, <3>3, <3>4 DEF FakeServersKept
  <2>3. CASE k = i
    <3>1. j # i /\ s[j] = servers_servers[j] /\ s[k] = r /\ r # None
      BY <1>4, <1>7, <2>3
    <3>2. servers_servers[j].pid # None /\ servers_servers[j].pid < servers_nextPid
      BY <1>7, <3>1 DEF FakeServersIInv, Row
    <3>3. CASE r.running
      <4>1. CASE servers_servers[i] # None /\ servers_servers[i].running /\ r.pid = servers_servers[i].pid
        BY <1>7, <2>3, <3>1, <4>1 DEF FakeServersIInv
      <4>2. CASE r.pid = servers_nextPid
        BY <1>1, <3>1, <3>2, <4>2
      <4> QED BY <3>1, <3>3, <4>1, <4>2 DEF FakeServersKept
    <3>4. CASE ~r.running
      BY <3>1, <3>2, <3>4 DEF Row
    <3> QED BY <3>3, <3>4
  <2> QED BY <2>1, <2>2, <2>3
<1>8. ASSUME servers_client # None PROVE ClientOK(servers_client, s[servers_client.id], f)
  <2>1. PICK c : c = servers_client
    OBVIOUS
  <2>2. ClientOK(c, servers_servers[c.id], servers_nextFile) /\ c \in Clients /\ c.id \in Servers
    BY <1>8, <2>1 DEF FakeServersIInv, ClientOK, Clients
  <2>3. c.file \in Nat
    BY <2>2 DEF Clients
  <2>4. c.file < f \/ (c.id = "running" /\ c.file = 1)
    BY <1>1, <2>2, <2>3 DEF ClientOK
  <2>5. Follows(c, s[c.id])
    <3>1. CASE c.id # i
      BY <1>4, <2>2, <3>1 DEF ClientOK
    <3>2. CASE c.id = i
      <4> SUFFICES ASSUME r # None, r.log # None, r.log.file = c.file, ~(c.id = "running" /\ c.file = 1)
                   PROVE  /\ c.from <= c.cursor /\ c.cursor <= Len(r.log.bytes)
                          /\ c.text = FakeServers!Piece(r.log.bytes, c.from, c.cursor)
        BY <1>4, <3>2 DEF Follows
      <4>1. r.log.file # servers_nextFile
        BY <1>1, <2>2, <2>3 DEF ClientOK
      <4>2. /\ servers_servers[i] # None /\ servers_servers[i].log # None /\ r.log.file = servers_servers[i].log.file
            /\ Extends(servers_servers[i].log.bytes, r.log.bytes)
        BY <4>1 DEF FakeServersKept
      <4>3. /\ c.from <= c.cursor /\ c.cursor <= Len(servers_servers[i].log.bytes)
            /\ c.text = FakeServers!Piece(servers_servers[i].log.bytes, c.from, c.cursor)
        BY <2>2, <3>2, <4>2 DEF ClientOK, Follows
      <4>4. PICK b \in Seq(Chars) : b = servers_servers[i].log.bytes
        <5>1. servers_servers[i] \in Rows
          BY <1>1, <4>2
        <5>2. servers_servers[i].log \in FakeServersLogs
          BY <4>2, <5>1 DEF Rows
        <5> QED BY <5>2 DEF FakeServersLogs
      <4>5. PICK t \in Seq(Chars) : r.log.bytes = b \o t
        BY <4>2, <4>4 DEF Extends
      <4>6. c.from \in Nat /\ c.cursor \in Nat
        BY <2>2 DEF Clients
      <4>7. FakeServers!Piece(b \o t, c.from, c.cursor) = FakeServers!Piece(b, c.from, c.cursor) /\ c.cursor <= Len(b \o t)
        BY <4>3, <4>4, <4>6, GrownPiece
      <4> QED BY <4>3, <4>4, <4>5, <4>7
    <3> QED BY <3>1, <3>2
  <2> QED BY <2>1, <2>2, <2>4, <2>5 DEF ClientOK
<1>9. PICK c : c = servers_client
  OBVIOUS
<1>10. servers_servers' = s /\ servers_nextPid' = p /\ servers_nextFile' = f /\ servers_client' = c
  BY <1>3, <1>9
<1>11. c # None => ClientOK(c, s[c.id], f)
  BY <1>8, <1>9
<1> HIDE <1>3
<1> QED BY <1>4, <1>5, <1>6, <1>7, <1>10, <1>11
        DEF FakeServersIInv, Row, ClientOK, Follows, FakeServers!Whole, FakeServers!Piece

\* A change of a server that keeps its processes and the ids.
LEMMA QuietStep ==
  ASSUME FakeServersDataOK, FakeServersIInv, NEW i \in Servers, NEW r, FakeServers!Change(i, r), FakeServers!Quiet,
         r = None \/ (Row(i, r, servers_nextPid, servers_nextFile) /\ FakeServersKept(servers_servers[i], r, servers_nextPid, servers_nextFile))
  PROVE  FakeServersIInv'
<1>1. servers_servers' = [servers_servers EXCEPT ![i] = r] /\ servers_client' = servers_client /\ servers_nextPid' = servers_nextPid /\ servers_nextFile' = servers_nextFile
  BY DEF FakeServers!Change, FakeServers!Quiet
<1>2. servers_nextPid <= MaxStarts + 1 /\ servers_nextFile <= MaxFiles + 1
  BY DEF FakeServersIInv, FakeServersDataOK
<1> QED BY <1>1, <1>2, RowStep

LEMMA RowFacts ==
  ASSUME FakeServersIInv, NEW i \in Servers, servers_servers[i] # None
  PROVE  Row(i, servers_servers[i], servers_nextPid, servers_nextFile) /\ servers_servers[i] \in Rows
BY DEF FakeServersIInv, Row

LEMMA SameLog == ASSUME NEW s \in Seq(Chars) PROVE Extends(s, s)
<1>1. <<>> \in Seq(Chars) /\ s = s \o <<>>
  OBVIOUS
<1> QED BY <1>1 DEF Extends

LEMMA LogType ==
  ASSUME NEW r \in Rows, r.log # None
  PROVE  r.log \in FakeServersLogs /\ r.log.bytes \in Seq(Chars) /\ r.log.file \in 0 .. MaxFiles
         /\ r.log = [file |-> r.log.file, bytes |-> r.log.bytes]
BY DEF Rows, FakeServersLogs

\* A text is written where a log is.
LEMMA AppendFacts ==
  ASSUME FakeServersDataOK, NEW i, NEW r, NEW p, NEW f, Row(i, r, p, f), NEW t \in Seq(Chars),
         NEW n \in Nat, Len(t) <= n, FakeServers!Fits(r, n)
  PROVE  LET e == FakeServers!Append2(r, t)
         IN /\ Row(i, e, p, f) /\ e.running = r.running /\ e.pid = r.pid /\ e.installed = r.installed
            /\ r.log = None => e = r
            /\ r.log # None => /\ e.log # None /\ e.log.file = r.log.file
                               /\ Extends(r.log.bytes, e.log.bytes)
                               /\ e.log.bytes = r.log.bytes \o t
                               /\ Len(e.log.bytes) = Len(r.log.bytes) + Len(t)
<1>1. r \in Rows
  BY DEF Row
<1>2. CASE r.log = None
  BY <1>2 DEF FakeServers!Append2
<1>3. CASE r.log # None
  <2>1. PICK b \in Seq(Chars) : b = r.log.bytes
    BY <1>1, <1>3, LogType
  <2>2. PICK g \in 0 .. MaxFiles : g = r.log.file
    BY <1>1, <1>3, LogType
  <2>3. PICK l : l = [file |-> g, bytes |-> b \o t]
    OBVIOUS
  <2>4. /\ b \o t \in Seq(Chars) /\ Len(b \o t) = Len(b) + Len(t) /\ Len(b) + n <= MaxBytes
        /\ Len(t) \in Nat /\ Len(b) \in Nat
    BY <1>3, <2>1 DEF FakeServers!Fits
  <2>5. l \in FakeServersLogs /\ l.file = g /\ l.bytes = b \o t
    BY <2>2, <2>3, <2>4 DEF FakeServersLogs
  <2>6. PICK e : e = [r EXCEPT !.log = l]
    OBVIOUS
  <2>7. FakeServers!Append2(r, t) = e
    <3>1. [r.log EXCEPT !.bytes = @ \o t] = l
      <4>1. PICK q \in FakeServersLogs : q = r.log
        BY <1>1, <1>3, LogType
      <4>2. q.bytes = b /\ q.file = g
        BY <2>1, <2>2, <4>1
      <4>3. [q EXCEPT !.bytes = @ \o t] = [file |-> g, bytes |-> b \o t]
        <5>1. PICK x : x = [q EXCEPT !.bytes = q.bytes \o t]
          OBVIOUS
        <5>2. x \in FakeServersLogs /\ x.file = g /\ x.bytes = b \o t
          BY <2>4, <4>1, <4>2, <5>1 DEF FakeServersLogs
        <5>3. x = [file |-> x.file, bytes |-> x.bytes]
          BY <5>2 DEF FakeServersLogs
        <5> QED BY <5>1, <5>2, <5>3
      <4> QED BY <2>3, <4>1, <4>3
    <3>2. FakeServers!Append2(r, t) = [r EXCEPT !.log = [r.log EXCEPT !.bytes = @ \o t]]
      BY <1>3 DEF FakeServers!Append2
    <3> QED BY <2>6, <3>1, <3>2
  <2>8. /\ e \in Rows /\ e.running = r.running /\ e.pid = r.pid /\ e.installed = r.installed
        /\ e.eula = r.eula /\ e.properties = r.properties /\ e.log = l
    BY <1>1, <2>5, <2>6 DEF Rows
  <2>9. l # None
    BY <2>5 DEF FakeServersDataOK
  <2>10. Len(l.bytes) <= MaxBytes
    BY <2>4, <2>5 DEF FakeServersDataOK
  <2>11. Row(i, e, p, f)
    BY <1>3, <2>2, <2>5, <2>8, <2>9, <2>10 DEF Row
  <2>12. Extends(b, l.bytes)
    BY <2>5 DEF Extends
  <2> QED BY <1>3, <2>1, <2>2, <2>4, <2>5, <2>7, <2>8, <2>9, <2>11, <2>12
<1> QED BY <1>2, <1>3

LEMMA StoppedFacts ==
  ASSUME FakeServersDataOK, NEW i, NEW r, NEW p, NEW f, Row(i, r, p, f)
  PROVE  LET e == FakeServers!Stopped(r)
         IN Row(i, e, p, f) /\ e.running = FALSE /\ e.log = r.log /\ e.installed = r.installed
<1>1. r \in Rows
  BY DEF Row
<1>2. PICK e : e = [r EXCEPT !.running = FALSE, !.pid = None]
  OBVIOUS
<1>3. /\ e \in Rows /\ e.running = FALSE /\ e.pid = None /\ e.installed = r.installed
      /\ e.eula = r.eula /\ e.properties = r.properties /\ e.log = r.log
  BY <1>1, <1>2 DEF Rows
<1>4. Row(i, e, p, f)
  BY <1>3 DEF Row
<1> QED BY <1>2, <1>3, <1>4 DEF FakeServers!Stopped

\* A server is started: it has the next processes, and a log.
LEMMA StartedFacts ==
  ASSUME FakeServersDataOK, FakeServersIInv, NEW i \in Servers, NEW r, Row(i, r, servers_nextPid, servers_nextFile), FakeServers!CanStart(r), FakeServers!Fits(r, 1),
         r.log = None => servers_nextFile <= MaxFiles, NEW f, f = IF r.log = None THEN servers_nextFile + 1 ELSE servers_nextFile
  PROVE  LET e == FakeServers!Started(r)
         IN /\ Row(i, e, servers_nextPid + 1, f) /\ e.pid = servers_nextPid /\ e.log # None
            /\ r.log = None => e.log.file = servers_nextFile
            /\ r.log # None => e.log.file = r.log.file /\ Extends(r.log.bytes, e.log.bytes)
<1>1. /\ r \in Rows /\ r.installed /\ servers_nextPid \in 1 .. MaxStarts /\ servers_nextFile \in Nat /\ MaxFiles \in Nat
      /\ MaxStarts \in Nat
  BY DEF Row, FakeServers!CanStart, FakeServersIInv, FakeServersDataOK
<1>2. PICK s : s = [r EXCEPT !.running = TRUE, !.pid = servers_nextPid]
  OBVIOUS
<1>3. /\ s \in Rows /\ s.running = TRUE /\ s.pid = servers_nextPid /\ s.installed = r.installed
      /\ s.eula = r.eula /\ s.properties = r.properties /\ s.log = r.log
  <2>1. servers_nextPid \in 0 .. MaxStarts
    BY <1>1
  <2> QED BY <1>1, <1>2, <2>1 DEF Rows
<1>4. servers_nextPid # None
  BY <1>1 DEF FakeServersDataOK
<1>5. <<"a">> \in Seq(Chars) /\ Len(<<"a">>) = 1
  BY DEF Chars
<1>6. CASE r.log = None
  <2>1. PICK l : l = [file |-> servers_nextFile, bytes |-> <<"a">>]
    OBVIOUS
  <2>2. l \in FakeServersLogs /\ l.file = servers_nextFile /\ l.bytes = <<"a">>
    BY <1>1, <1>5, <1>6, <2>1 DEF FakeServersLogs
  <2>3. PICK e : e = [s EXCEPT !.log = l]
    OBVIOUS
  <2>4. /\ e \in Rows /\ e.running = TRUE /\ e.pid = servers_nextPid /\ e.installed = r.installed
        /\ e.eula = r.eula /\ e.properties = r.properties /\ e.log = l
    BY <1>3, <2>2, <2>3 DEF Rows
  <2>5. l # None /\ Len(l.bytes) <= MaxBytes
    BY <1>5, <2>2 DEF FakeServersDataOK
  <2>6. f = servers_nextFile + 1 /\ l.file < f
    BY <1>1, <1>6, <2>2
  <2>7. servers_nextPid < servers_nextPid + 1
    BY <1>1
  <2>8. Row(i, e, servers_nextPid + 1, f)
    BY <1>1, <1>4, <2>4, <2>5, <2>6, <2>7 DEF Row
  <2>9. FakeServers!Started(r) = e
    BY <1>2, <1>6, <2>1, <2>3 DEF FakeServers!Started
  <2> QED BY <1>6, <2>2, <2>4, <2>5, <2>8, <2>9
<1>7. CASE r.log # None
  <2>1. servers_nextPid < servers_nextPid + 1
    BY <1>1
  <2>2. Row(i, s, servers_nextPid + 1, f)
    BY <1>1, <1>3, <1>4, <1>7, <2>1 DEF Row
  <2>3. FakeServers!Fits(s, 1)
    BY <1>3 DEF FakeServers!Fits
  <2>4. PICK e : e = FakeServers!Append2(s, <<"a">>)
    OBVIOUS
  <2>5. /\ Row(i, e, servers_nextPid + 1, f) /\ e.pid = servers_nextPid /\ e.log # None /\ e.log.file = r.log.file
        /\ Extends(r.log.bytes, e.log.bytes)
    <3>1. PICK t : t = <<"a">>
      OBVIOUS
    <3>2. t \in Seq(Chars) /\ Len(t) <= 1 /\ 1 \in Nat /\ e = FakeServers!Append2(s, t)
      BY <1>5, <2>4, <3>1
    <3>3. PICK p : p = servers_nextPid + 1
      OBVIOUS
    <3>4. Row(i, s, p, f)
      BY <2>2, <3>3
    <3>5. /\ Row(i, e, p, f) /\ e.pid = s.pid
          /\ s.log # None => /\ e.log # None /\ e.log.file = s.log.file
                             /\ Extends(s.log.bytes, e.log.bytes)
      BY <2>3, <3>2, <3>4, AppendFacts
    <3> QED BY <1>3, <1>7, <3>3, <3>5
  <2>6. FakeServers!Started(r) = e
    BY <1>2, <1>7, <2>4 DEF FakeServers!Started
  <2> QED BY <1>7, <2>5, <2>6
<1> QED BY <1>6, <1>7

LEMMA FakeServersEmptyFacts ==
  ASSUME FakeServersDataOK, NEW i, NEW p, NEW f
  PROVE  /\ FakeServers!Empty \in Rows /\ Row(i, FakeServers!Empty, p, f) /\ FakeServers!Empty.running = FALSE /\ FakeServers!Empty.log = None
         /\ FakeServers!Empty.installed = FALSE /\ FakeServers!Empty.pid = None
<1>1. /\ FakeServers!Empty \in Rows /\ FakeServers!Empty.running = FALSE /\ FakeServers!Empty.log = None /\ FakeServers!Empty.pid = None
      /\ FakeServers!Empty.installed = FALSE
  BY DEF FakeServers!Empty, Rows
<1> QED BY <1>1 DEF Row

\* What of a server neither runs nor logs is changed.
LEMMA AsideRow ==
  ASSUME FakeServersDataOK, FakeServersIInv, NEW i \in Servers, servers_servers[i] # None, NEW r \in Rows,
         r.running = servers_servers[i].running, r.pid = servers_servers[i].pid, r.log = servers_servers[i].log,
         r.installed => r.eula /\ r.properties # "none", servers_servers[i].installed => r.installed
  PROVE  Row(i, r, servers_nextPid, servers_nextFile) /\ FakeServersKept(servers_servers[i], r, servers_nextPid, servers_nextFile)
<1>1. Row(i, servers_servers[i], servers_nextPid, servers_nextFile) /\ servers_servers[i] \in Rows
  BY RowFacts
<1>2. Row(i, r, servers_nextPid, servers_nextFile)
  BY <1>1 DEF Row
<1>3. r.log # None => Extends(servers_servers[i].log.bytes, r.log.bytes)
  BY SameLog, LogType
<1> QED BY <1>2, <1>3 DEF FakeServersKept
(* The requests.                                                           *)

LEMMA CreateInv == ASSUME FakeServersDataOK, FakeServersIInv, NEW i \in Servers, FakeServers!Create(i) PROVE FakeServersIInv'
<1>1. PICK eula \in BOOLEAN : FakeServers!Change(i, [FakeServers!Empty EXCEPT !.eula = eula])
  BY DEF FakeServers!Create
<1>2. PICK r : r = [FakeServers!Empty EXCEPT !.eula = eula]
  OBVIOUS
<1>3. /\ FakeServers!Empty \in Rows /\ FakeServers!Empty.running = FALSE /\ FakeServers!Empty.log = None
      /\ FakeServers!Empty.installed = FALSE /\ FakeServers!Empty.pid = None
  BY FakeServersEmptyFacts
<1>4. r \in Rows /\ r.running = FALSE /\ r.log = None /\ r.installed = FALSE /\ r.pid = None
  BY <1>2, <1>3 DEF Rows
<1>5. Row(i, r, servers_nextPid, servers_nextFile) /\ FakeServersKept(servers_servers[i], r, servers_nextPid, servers_nextFile)
  BY <1>4 DEF Row, FakeServersKept
<1>6. FakeServers!Change(i, r) /\ FakeServers!Quiet
  BY <1>1, <1>2 DEF FakeServers!Create
<1> QED BY <1>5, <1>6, QuietStep

LEMMA FakeServersInstallInv == ASSUME FakeServersDataOK, FakeServersIInv, NEW i \in Servers, FakeServers!Install(i) PROVE FakeServersIInv'
<1>1. servers_servers[i] # None /\ ~servers_servers[i].running
  BY DEF FakeServers!Install
<1>2. PICK q \in Rows : q = servers_servers[i]
  BY <1>1, RowFacts
<1>3. PICK x \in {"none", "plain", "password"} : x = (IF q.properties = "none" THEN "plain" ELSE q.properties) /\ x # "none"
  BY <1>2 DEF Rows
<1>4. PICK r : r = [q EXCEPT !.installed = TRUE, !.eula = TRUE, !.properties = x]
  OBVIOUS
<1>5. /\ r \in Rows /\ r.running = q.running /\ r.pid = q.pid /\ r.log = q.log
      /\ r.installed = TRUE /\ r.eula = TRUE /\ r.properties # "none"
  BY <1>2, <1>3, <1>4 DEF Rows
<1>6. Row(i, r, servers_nextPid, servers_nextFile) /\ FakeServersKept(servers_servers[i], r, servers_nextPid, servers_nextFile)
  BY <1>1, <1>2, <1>5, AsideRow
<1>7. r = [servers_servers[i] EXCEPT !.installed = TRUE, !.eula = TRUE,
                             !.properties = IF @ = "none" THEN "plain" ELSE @]
  BY <1>2, <1>3, <1>4 DEF Rows
<1>8. FakeServers!Change(i, r) /\ FakeServers!Quiet
  BY <1>7 DEF FakeServers!Install
<1> QED BY <1>6, <1>8, QuietStep

LEMMA StatusInv == ASSUME FakeServersDataOK, FakeServersIInv, NEW i \in Servers, FakeServers!Status(i) PROVE FakeServersIInv'
<1>1. servers_servers[i] # None
  BY DEF FakeServers!Status
<1>2. Row(i, servers_servers[i], servers_nextPid, servers_nextFile) /\ servers_servers[i] \in Rows
  BY <1>1, RowFacts
<1>3. PICK r : r = [servers_servers[i] EXCEPT !.stale = FALSE]
  OBVIOUS
<1>4. /\ r \in Rows /\ r.running = servers_servers[i].running /\ r.pid = servers_servers[i].pid /\ r.log = servers_servers[i].log
      /\ r.installed = servers_servers[i].installed /\ r.eula = servers_servers[i].eula
      /\ r.properties = servers_servers[i].properties
  BY <1>2, <1>3 DEF Rows
<1>5. Row(i, r, servers_nextPid, servers_nextFile) /\ FakeServersKept(servers_servers[i], r, servers_nextPid, servers_nextFile)
  <2>1. (r.installed => r.eula /\ r.properties # "none") /\ (servers_servers[i].installed => r.installed)
    BY <1>2, <1>4 DEF Row
  <2> QED BY <1>1, <1>4, <2>1, AsideRow
<1>6. FakeServers!Change(i, r) /\ FakeServers!Quiet
  BY <1>3 DEF FakeServers!Status
<1> QED BY <1>5, <1>6, QuietStep

LEMMA PropertiesInv == ASSUME FakeServersDataOK, FakeServersIInv, NEW i \in Servers, FakeServers!PropertiesSet(i) PROVE FakeServersIInv'
<1>1. servers_servers[i] # None
  BY DEF FakeServers!PropertiesSet
<1>2. Row(i, servers_servers[i], servers_nextPid, servers_nextFile) /\ servers_servers[i] \in Rows
  BY <1>1, RowFacts
<1>3. PICK r : r = [servers_servers[i] EXCEPT !.properties = "password"]
  OBVIOUS
<1>4. /\ r \in Rows /\ r.running = servers_servers[i].running /\ r.pid = servers_servers[i].pid /\ r.log = servers_servers[i].log
      /\ r.installed = servers_servers[i].installed /\ r.eula = servers_servers[i].eula /\ r.properties = "password"
  BY <1>2, <1>3 DEF Rows
<1>5. Row(i, r, servers_nextPid, servers_nextFile) /\ FakeServersKept(servers_servers[i], r, servers_nextPid, servers_nextFile)
  <2>1. (r.installed => r.eula /\ r.properties # "none") /\ (servers_servers[i].installed => r.installed)
    BY <1>2, <1>4 DEF Row
  <2> QED BY <1>1, <1>4, <2>1, AsideRow
<1>6. FakeServers!Change(i, r) /\ FakeServers!Quiet
  BY <1>3 DEF FakeServers!PropertiesSet
<1> QED BY <1>5, <1>6, QuietStep

LEMMA DeleteInv == ASSUME FakeServersDataOK, FakeServersIInv, NEW i \in Servers, FakeServers!Delete(i) PROVE FakeServersIInv'
<1>1. FakeServers!Change(i, None) /\ FakeServers!Quiet
  BY DEF FakeServers!Delete
<1> QED BY <1>1, QuietStep

\* The text of an operation is in the alphabet, and of its length.
LEMMA TextFacts ==
  /\ \A t \in FakeServers!Texts : t \in Seq(Chars) /\ Len(t) \in 0 .. 2
  /\ <<"a">> \in Seq(Chars) /\ Len(<<"a">>) = 1
<1>1. <<>> \in Seq(Chars) /\ Len(<<>>) = 0
  OBVIOUS
<1>2. <<"a">> \in Seq(Chars) /\ Len(<<"a">>) = 1
  BY DEF Chars
<1>3. <<"c", "d">> \in Seq(Chars) /\ Len(<<"c", "d">>) = 2
  BY DEF Chars
<1> QED BY <1>1, <1>2, <1>3 DEF FakeServers!Texts

LEMMA CommandInv == ASSUME FakeServersDataOK, FakeServersIInv, NEW i \in Servers, FakeServers!Command(i) PROVE FakeServersIInv'
<1>1. servers_servers[i] # None /\ servers_servers[i].running /\ FakeServers!Quiet
  BY DEF FakeServers!Command
<1>2. Row(i, servers_servers[i], servers_nextPid, servers_nextFile) /\ servers_servers[i] \in Rows
  BY <1>1, RowFacts
<1>3. PICK t \in FakeServers!Texts : FakeServers!Fits(servers_servers[i], Len(t)) /\ FakeServers!Change(i, FakeServers!Append2(servers_servers[i], t))
  BY DEF FakeServers!Command
<1>4. t \in Seq(Chars) /\ Len(t) \in Nat /\ Len(t) <= Len(t)
  BY <1>3, TextFacts
<1>5. PICK r : r = FakeServers!Append2(servers_servers[i], t)
  OBVIOUS
<1>6. servers_servers[i].log # None
  BY <1>1, <1>2 DEF Row
<1>7. /\ Row(i, r, servers_nextPid, servers_nextFile) /\ r.running = servers_servers[i].running /\ r.pid = servers_servers[i].pid
      /\ r.log.file = servers_servers[i].log.file /\ Extends(servers_servers[i].log.bytes, r.log.bytes)
  BY <1>2, <1>3, <1>4, <1>5, <1>6, AppendFacts
<1>8. FakeServersKept(servers_servers[i], r, servers_nextPid, servers_nextFile)
  BY <1>1, <1>6, <1>7 DEF FakeServersKept
<1> QED BY <1>1, <1>3, <1>5, <1>7, <1>8, QuietStep

LEMMA StopInv == ASSUME FakeServersDataOK, FakeServersIInv, NEW i \in Servers, FakeServers!Stop(i) PROVE FakeServersIInv'
<1>1. servers_servers[i] # None /\ servers_servers[i].running /\ FakeServers!Quiet /\ FakeServers!Fits(servers_servers[i], 1)
      /\ FakeServers!Change(i, FakeServers!Append2(FakeServers!Stopped(servers_servers[i]), <<"a">>))
  BY DEF FakeServers!Stop
<1>2. Row(i, servers_servers[i], servers_nextPid, servers_nextFile) /\ servers_servers[i].log # None
  BY <1>1, RowFacts DEF Row
<1>3. PICK s : s = FakeServers!Stopped(servers_servers[i])
  OBVIOUS
<1>4. Row(i, s, servers_nextPid, servers_nextFile) /\ s.running = FALSE /\ s.log = servers_servers[i].log
  BY <1>2, <1>3, StoppedFacts
<1>5. PICK t : t = <<"a">>
  OBVIOUS
<1>6. t \in Seq(Chars) /\ Len(t) <= 1 /\ 1 \in Nat /\ FakeServers!Fits(s, 1)
  BY <1>1, <1>4, <1>5, TextFacts DEF FakeServers!Fits
<1>7. PICK r : r = FakeServers!Append2(s, t)
  OBVIOUS
<1>8. /\ Row(i, r, servers_nextPid, servers_nextFile) /\ r.running = FALSE
      /\ r.log.file = s.log.file /\ Extends(s.log.bytes, r.log.bytes)
  BY <1>2, <1>4, <1>6, <1>7, AppendFacts
<1>9. FakeServersKept(servers_servers[i], r, servers_nextPid, servers_nextFile)
  BY <1>1, <1>2, <1>4, <1>8 DEF FakeServersKept
<1>10. FakeServers!Change(i, r)
  BY <1>1, <1>3, <1>5, <1>7
<1> QED BY <1>1, <1>8, <1>9, <1>10, QuietStep

LEMMA FakeServersStartInv == ASSUME FakeServersDataOK, FakeServersIInv, NEW i \in Servers, FakeServers!Start(i) PROVE FakeServersIInv'
<1>1. /\ servers_servers[i] # None /\ FakeServers!CanStart(servers_servers[i]) /\ FakeServers!Fits(servers_servers[i], 1)
      /\ servers_servers[i].log = None => servers_nextFile <= MaxFiles
      /\ FakeServers!Change(i, FakeServers!Started(servers_servers[i])) /\ servers_client' = servers_client
      /\ servers_nextPid' = servers_nextPid + 1
      /\ servers_nextFile' = IF servers_servers[i].log = None THEN servers_nextFile + 1 ELSE servers_nextFile
  BY DEF FakeServers!Start
<1>2. Row(i, servers_servers[i], servers_nextPid, servers_nextFile)
  BY <1>1, RowFacts
<1>3. PICK f : f = IF servers_servers[i].log = None THEN servers_nextFile + 1 ELSE servers_nextFile
  OBVIOUS
<1>4. PICK r : r = FakeServers!Started(servers_servers[i])
  OBVIOUS
<1>5. /\ Row(i, r, servers_nextPid + 1, f) /\ r.pid = servers_nextPid
      /\ servers_servers[i].log = None => r.log.file = servers_nextFile
      /\ servers_servers[i].log # None => r.log.file = servers_servers[i].log.file /\ Extends(servers_servers[i].log.bytes, r.log.bytes)
  BY <1>1, <1>2, <1>3, <1>4, StartedFacts
<1>6. FakeServersKept(servers_servers[i], r, servers_nextPid, servers_nextFile)
  BY <1>1, <1>5 DEF FakeServersKept
<1>7. f \in {servers_nextFile, servers_nextFile + 1} /\ f <= MaxFiles + 1
  BY <1>1, <1>3 DEF FakeServersIInv, FakeServersDataOK
<1>8. PICK p : p = servers_nextPid + 1
  OBVIOUS
<1>9. p \in {servers_nextPid, servers_nextPid + 1} /\ p <= MaxStarts + 1
  BY <1>1, <1>8 DEF FakeServers!CanStart, FakeServersIInv, FakeServersDataOK
<1>10. servers_servers' = [servers_servers EXCEPT ![i] = r] /\ servers_nextPid' = p /\ servers_nextFile' = f /\ servers_client' = servers_client
  BY <1>1, <1>3, <1>4, <1>8 DEF FakeServers!Change
<1>11. Row(i, r, p, f)
  BY <1>5, <1>8
<1> QED BY <1>6, <1>7, <1>9, <1>10, <1>11, RowStep

LEMMA ExtendsTwice ==
  ASSUME NEW s, NEW t, NEW u, s \in Seq(Chars), Extends(s, t), Extends(t, u) PROVE Extends(s, u)
<1>1. PICK x \in Seq(Chars) : t = s \o x
  BY DEF Extends
<1>2. PICK y \in Seq(Chars) : u = t \o y
  BY DEF Extends
<1>3. u = s \o (x \o y) /\ x \o y \in Seq(Chars)
  BY <1>1, <1>2, ConcatAssociative
<1> QED BY <1>3 DEF Extends

LEMMA FakeServersRestartInv == ASSUME FakeServersDataOK, FakeServersIInv, NEW i \in Servers, FakeServers!Restart(i) PROVE FakeServersIInv'
<1>1. servers_servers[i] # None /\ servers_servers[i].running /\ FakeServers!Fits(servers_servers[i], 2) /\ servers_client' = servers_client
  BY DEF FakeServers!Restart
<1>2. Row(i, servers_servers[i], servers_nextPid, servers_nextFile) /\ servers_servers[i].log # None /\ servers_servers[i] \in Rows
      /\ servers_servers[i].installed
  BY <1>1, RowFacts DEF Row
<1>3. PICK t : t = <<"a">>
  OBVIOUS
<1>4. t \in Seq(Chars) /\ Len(t) = 1 /\ Len(t) <= 2 /\ 2 \in Nat
  BY <1>3, TextFacts
<1>5. PICK q : q = FakeServers!Append2(servers_servers[i], t)
  OBVIOUS
<1>6. /\ Row(i, q, servers_nextPid, servers_nextFile) /\ q.installed /\ q.log # None
      /\ q.log.file = servers_servers[i].log.file /\ Extends(servers_servers[i].log.bytes, q.log.bytes)
      /\ Len(q.log.bytes) = Len(servers_servers[i].log.bytes) + Len(t)
  <2>1. PICK n \in Nat : n = 2
    OBVIOUS
  <2>2. PICK old : old = servers_servers[i]
    OBVIOUS
  <2>3. Row(i, old, servers_nextPid, servers_nextFile) /\ FakeServers!Fits(old, n) /\ Len(t) <= n /\ q = FakeServers!Append2(old, t)
    BY <1>1, <1>2, <1>4, <1>5, <2>1, <2>2
  <2>a. t \in Seq(Chars) /\ n \in Nat /\ Len(t) <= n
    BY <1>4, <2>1
  <2>4. LET e == FakeServers!Append2(old, t)
        IN /\ Row(i, e, servers_nextPid, servers_nextFile) /\ e.installed = old.installed
           /\ old.log # None => /\ e.log # None /\ e.log.file = old.log.file
                                /\ Extends(old.log.bytes, e.log.bytes)
                                /\ Len(e.log.bytes) = Len(old.log.bytes) + Len(t)
    BY <2>a, <2>3, AppendFacts
  <2> QED BY <1>2, <2>2, <2>3, <2>4
<1>7. PICK s : s = FakeServers!Stopped(q)
  OBVIOUS
<1>8. Row(i, s, servers_nextPid, servers_nextFile) /\ s.running = FALSE /\ s.log = q.log /\ s.installed
  BY <1>6, <1>7, StoppedFacts
<1>9. /\ FakeServers!CanStart(s) /\ FakeServers!Change(i, FakeServers!Started(s)) /\ servers_nextPid' = servers_nextPid + 1
      /\ servers_nextFile' = IF s.log = None THEN servers_nextFile + 1 ELSE servers_nextFile
  BY <1>3, <1>5, <1>7, <1>8 DEF FakeServers!Restart
<1>10. servers_nextFile' = servers_nextFile
  BY <1>6, <1>8, <1>9
<1>11. FakeServers!Fits(s, 1)
  <2>1. Len(servers_servers[i].log.bytes) + 2 <= MaxBytes
    BY <1>1, <1>2 DEF FakeServers!Fits
  <2>2. Len(servers_servers[i].log.bytes) \in Nat
    BY <1>2, LogType
  <2>3. PICK k \in Nat : k = Len(servers_servers[i].log.bytes)
    BY <2>2
  <2>4. Len(s.log.bytes) = k + 1
    BY <1>4, <1>6, <1>8, <2>3
  <2>5. Len(s.log.bytes) + 1 <= MaxBytes
    BY <2>1, <2>3, <2>4 DEF FakeServersDataOK
  <2> QED BY <2>5 DEF FakeServers!Fits
<1>12. PICK r : r = FakeServers!Started(s)
  OBVIOUS
<1>13. PICK f : f = IF s.log = None THEN servers_nextFile + 1 ELSE servers_nextFile
  OBVIOUS
<1>14. f = servers_nextFile /\ (s.log = None => servers_nextFile <= MaxFiles)
  BY <1>6, <1>8, <1>13
<1>15. /\ Row(i, r, servers_nextPid + 1, f) /\ r.pid = servers_nextPid
       /\ r.log.file = s.log.file /\ Extends(s.log.bytes, r.log.bytes)
  BY <1>6, <1>8, <1>9, <1>11, <1>12, <1>13, <1>14, StartedFacts
<1>16. servers_servers[i].log.bytes \in Seq(Chars)
  BY <1>2, LogType
<1>17. Extends(servers_servers[i].log.bytes, r.log.bytes) /\ r.log.file = servers_servers[i].log.file
  BY <1>6, <1>8, <1>15, <1>16, ExtendsTwice
<1>18. FakeServersKept(servers_servers[i], r, servers_nextPid, servers_nextFile)
  BY <1>1, <1>2, <1>15, <1>17 DEF FakeServersKept
<1>19. PICK p : p = servers_nextPid + 1
  OBVIOUS
<1>20. p \in {servers_nextPid, servers_nextPid + 1} /\ p <= MaxStarts + 1
  BY <1>9, <1>19 DEF FakeServers!CanStart, FakeServersIInv, FakeServersDataOK
<1>21. f \in {servers_nextFile, servers_nextFile + 1} /\ f <= MaxFiles + 1
  BY <1>14 DEF FakeServersIInv, FakeServersDataOK
<1>22. servers_servers' = [servers_servers EXCEPT ![i] = r] /\ servers_nextPid' = p /\ servers_nextFile' = f
  BY <1>9, <1>10, <1>12, <1>14, <1>19 DEF FakeServers!Change
<1>23. Row(i, r, p, f)
  BY <1>15, <1>19
<1> QED BY <1>1, <1>18, <1>20, <1>21, <1>22, <1>23, RowStep

LEMMA RotateInv == ASSUME FakeServersDataOK, FakeServersIInv, NEW i \in Servers, FakeServers!Rotate(i) PROVE FakeServersIInv'
<1>1. /\ servers_servers[i] # None /\ servers_nextFile <= MaxFiles /\ servers_nextFile' = servers_nextFile + 1
      /\ servers_nextPid' = servers_nextPid /\ servers_client' = servers_client
  BY DEF FakeServers!Rotate
<1>2. PICK t \in FakeServers!Texts : FakeServers!Change(i, [servers_servers[i] EXCEPT !.log = [file |-> servers_nextFile, bytes |-> t]])
  BY DEF FakeServers!Rotate
<1>3. t \in Seq(Chars) /\ Len(t) \in 0 .. 2
  BY <1>2, TextFacts
<1>4. Row(i, servers_servers[i], servers_nextPid, servers_nextFile) /\ servers_servers[i] \in Rows
  BY <1>1, RowFacts
<1>5. servers_nextFile \in 0 .. MaxFiles /\ servers_nextFile \in Nat /\ servers_nextPid \in Nat /\ servers_nextPid <= MaxStarts + 1
  BY <1>1 DEF FakeServersIInv, FakeServersDataOK
<1>6. PICK l : l = [file |-> servers_nextFile, bytes |-> t]
  OBVIOUS
<1>7. l \in FakeServersLogs /\ l.file = servers_nextFile /\ l.bytes = t
  BY <1>3, <1>5, <1>6 DEF FakeServersLogs
<1>8. PICK r : r = [servers_servers[i] EXCEPT !.log = l]
  OBVIOUS
<1>9. /\ r \in Rows /\ r.running = servers_servers[i].running /\ r.pid = servers_servers[i].pid
      /\ r.installed = servers_servers[i].installed /\ r.eula = servers_servers[i].eula
      /\ r.properties = servers_servers[i].properties /\ r.log = l
  BY <1>4, <1>7, <1>8 DEF Rows
<1>10. PICK f : f = servers_nextFile + 1
  OBVIOUS
<1>11. l # None /\ Len(l.bytes) <= MaxBytes /\ l.file < f
  <2>1. l # None
    BY <1>7 DEF FakeServersDataOK
  <2>2. Len(l.bytes) <= MaxBytes
    <3>1. MaxBytes >= 2 /\ MaxBytes \in Nat
      BY DEF FakeServersDataOK
    <3>2. PICK k \in 0 .. 2 : k = Len(t)
      BY <1>3
    <3> QED BY <1>7, <3>1, <3>2
  <2> QED BY <1>5, <1>7, <1>10, <2>1, <2>2
<1>12. Row(i, r, servers_nextPid, f)
  BY <1>4, <1>9, <1>11 DEF Row
<1>13. FakeServersKept(servers_servers[i], r, servers_nextPid, servers_nextFile)
  BY <1>1, <1>7, <1>9 DEF FakeServersKept
<1>14. servers_servers' = [servers_servers EXCEPT ![i] = r] /\ servers_nextFile' = f
  BY <1>1, <1>2, <1>6, <1>8, <1>10 DEF FakeServers!Change
<1>15. f \in {servers_nextFile, servers_nextFile + 1} /\ f <= MaxFiles + 1
  BY <1>5, <1>10 DEF FakeServersDataOK
<1> QED BY <1>1, <1>5, <1>12, <1>13, <1>14, <1>15, RowStep

(* The reader.                                                             *)

LEMMA FakeServersReadInv == ASSUME FakeServersDataOK, FakeServersIInv, NEW i \in Servers, NEW limit \in Limits, FakeServers!Read(i, limit) PROVE FakeServersIInv'
<1>1. servers_servers[i] # None /\ servers_servers[i].log # None /\ UNCHANGED <<servers_servers, servers_nextPid, servers_nextFile>>
  BY DEF FakeServers!Read
<1>2. Row(i, servers_servers[i], servers_nextPid, servers_nextFile) /\ servers_servers[i] \in Rows
  BY <1>1, RowFacts
<1>3. PICK log \in FakeServersLogs : log = servers_servers[i].log
  BY <1>1, <1>2, LogType
<1>4. PICK mine \in BOOLEAN : mine = (servers_client # None /\ servers_client.id = i)
  OBVIOUS
<1>5. PICK k : k = IF mine THEN servers_client.cursor ELSE None
  OBVIOUS
<1>6. PICK g : g = IF mine THEN servers_client.file ELSE None
  OBVIOUS
<1>7. PICK a : a = FakeServers!Answer(log, k, g, limit)
  OBVIOUS
<1>8. mine => ClientOK(servers_client, servers_servers[i], servers_nextFile) /\ servers_client \in Clients
  BY <1>4 DEF FakeServersIInv, ClientOK
<1>9. limit \in Nat /\ (k = None \/ k \in Nat)
  <2>1. mine => servers_client.cursor \in Nat
    BY <1>8 DEF Clients
  <2> QED BY <1>5, <2>1 DEF FakeServersDataOK
<1>10. /\ a.from \in Nat /\ a.to \in Nat /\ a.from <= a.to /\ a.to <= Len(log.bytes)
       /\ a.text = FakeServers!Piece(log.bytes, a.from, a.to) /\ FakeServers!Whole(a.text) /\ a.text \in Seq(Chars)
       /\ a.file = log.file /\ a.goesOn \in BOOLEAN
       /\ a.goesOn => k # None /\ g = log.file /\ a.from = k
  BY <1>7, <1>9, FakeServersAnswerFacts
<1>11. PICK e : e = [id |-> i, file |-> a.file, cursor |-> a.to,
                     from |-> IF mine /\ a.goesOn THEN servers_client.from ELSE a.from,
                     text |-> IF mine /\ a.goesOn THEN servers_client.text \o a.text ELSE a.text]
  OBVIOUS
<1>12. servers_client' = e
  <2>1. CASE mine
    <3>1. a = FakeServers!Answer(servers_servers[i].log, servers_client.cursor, servers_client.file, limit)
      BY <1>3, <1>5, <1>6, <1>7, <2>1
    <3> QED BY <1>4, <1>11, <2>1, <3>1 DEF FakeServers!Read
  <2>2. CASE ~mine
    <3>1. a = FakeServers!Answer(servers_servers[i].log, None, None, limit)
      BY <1>3, <1>5, <1>6, <1>7, <2>2
    <3> QED BY <1>4, <1>11, <2>2, <3>1 DEF FakeServers!Read
  <2> QED BY <2>1, <2>2
<1>13. PICK b \in Seq(Chars) : b = log.bytes
  BY DEF FakeServersLogs
<1>14. /\ Len(b) \in Nat /\ Len(b) <= MaxBytes /\ log.file \in 0 .. MaxFiles
       /\ log.file < servers_nextFile \/ (i = "running" /\ log.file = 1)
  BY <1>1, <1>2, <1>3, <1>13 DEF Row, FakeServersLogs
<1>15. a.from \in 0 .. MaxBytes /\ a.to \in 0 .. MaxBytes
  BY <1>10, <1>13, <1>14 DEF FakeServersDataOK
<1>16. /\ e.id = i /\ e.file = log.file /\ e.cursor = a.to
       /\ e.from = (IF mine /\ a.goesOn THEN servers_client.from ELSE a.from)
       /\ e.text = (IF mine /\ a.goesOn THEN servers_client.text \o a.text ELSE a.text)
  BY <1>10, <1>11
<1>17. CASE mine /\ a.goesOn
  <2>1. PICK c : c = servers_client
    OBVIOUS
  <2>2. /\ c \in Clients /\ FakeServers!Whole(c.text) /\ c.text \in Seq(Chars) /\ c.from \in 0 .. MaxBytes
        /\ c.cursor = a.from /\ c.file = log.file /\ c.id = i /\ Follows(c, servers_servers[i])
    BY <1>4, <1>5, <1>6, <1>8, <1>10, <1>17, <2>1 DEF ClientOK, Clients
  <2>3. e.from = c.from /\ e.text = c.text \o a.text
    BY <1>16, <1>17, <2>1
  <2>4. e.text \in Seq(Chars) /\ FakeServers!Whole(e.text)
    BY <1>10, <2>2, <2>3, JoinedWhole
  <2>5. e = [id |-> i, file |-> log.file, cursor |-> a.to, from |-> c.from, text |-> c.text \o a.text]
    BY <1>10, <1>11, <1>17, <2>1
  <2>6. e \in Clients
    BY <1>14, <1>15, <2>2, <2>3, <2>4, <2>5 DEF Clients
  <2>7. Follows(e, servers_servers[i])
    <3> SUFFICES ASSUME ~(i = "running" /\ log.file = 1)
                 PROVE  e.from <= e.cursor /\ e.cursor <= Len(b) /\ e.text = FakeServers!Piece(b, e.from, e.cursor)
      BY <1>3, <1>13, <1>16 DEF Follows
    <3>1. c.from <= c.cursor /\ c.cursor <= Len(b) /\ c.text = FakeServers!Piece(b, c.from, c.cursor)
      BY <1>1, <1>3, <1>13, <2>2 DEF Follows
    <3>2. c.from \in Nat
      BY <2>2 DEF FakeServersDataOK
    <3>3. FakeServers!Piece(b, c.from, a.from) \o FakeServers!Piece(b, a.from, a.to) = FakeServers!Piece(b, c.from, a.to)
      BY <1>10, <1>13, <2>2, <3>1, <3>2, JoinedPiece
    <3>4. e.text = FakeServers!Piece(b, c.from, a.to)
      BY <1>10, <1>13, <2>2, <2>3, <3>1, <3>3
    <3> QED BY <1>10, <1>13, <1>16, <2>2, <2>3, <3>1, <3>2, <3>4
  <2>8. ClientOK(e, servers_servers[i], servers_nextFile)
    BY <1>14, <1>16, <2>4, <2>6, <2>7 DEF ClientOK
  <2> QED BY <1>1, <1>12, <1>16, <2>8
          DEF FakeServersIInv, Row, ClientOK, Follows, FakeServers!Whole, FakeServers!Piece
<1>18. CASE ~(mine /\ a.goesOn)
  <2>1. e.from = a.from /\ e.text = a.text
    BY <1>16, <1>18
  <2>2. e = [id |-> i, file |-> log.file, cursor |-> a.to, from |-> a.from, text |-> a.text]
    BY <1>10, <1>11, <1>18
  <2>3. e \in Clients
    BY <1>10, <1>14, <1>15, <2>2 DEF Clients
  <2>4. Follows(e, servers_servers[i])
    BY <1>3, <1>10, <1>16, <2>1 DEF Follows
  <2>5. ClientOK(e, servers_servers[i], servers_nextFile)
    BY <1>10, <1>14, <1>16, <2>1, <2>3, <2>4 DEF ClientOK
  <2> QED BY <1>1, <1>12, <1>16, <2>5
          DEF FakeServersIInv, Row, ClientOK, Follows, FakeServers!Whole, FakeServers!Piece
<1> QED BY <1>17, <1>18

LEMMA DemoFacts ==
  ASSUME FakeServersDataOK, NEW i
  PROVE  /\ Row(i, FakeServers!Demo(i), 1, 0)
         /\ FakeServers!Demo(i).running => i = "running"
<1>1. /\ FakeServers!Empty \in Rows /\ FakeServers!Empty.running = FALSE /\ FakeServers!Empty.log = None
      /\ FakeServers!Empty.installed = FALSE /\ FakeServers!Empty.pid = None
  BY FakeServersEmptyFacts
<1>2. CASE i = "running"
  <2>1. PICK l : l = [file |-> 1, bytes |-> <<"a">>]
    OBVIOUS
  <2>2. l \in FakeServersLogs /\ l.file = 1 /\ l.bytes = <<"a">>
    BY <2>1, TextFacts DEF FakeServersLogs, FakeServersDataOK
  <2>3. PICK r : r = [FakeServers!Empty EXCEPT !.installed = TRUE, !.eula = TRUE, !.properties = "plain",
                                   !.running = TRUE, !.pid = 0, !.log = l]
    OBVIOUS
  <2>4. FakeServers!Demo(i) = r
    BY <1>2, <2>1, <2>3 DEF FakeServers!Demo
  <2>5. 0 \in 0 .. MaxStarts /\ 0 # None
    BY DEF FakeServersDataOK
  <2>6. /\ r \in Rows /\ r.installed = TRUE /\ r.eula = TRUE /\ r.properties = "plain"
        /\ r.running = TRUE /\ r.pid = 0 /\ r.log = l
    BY <1>1, <2>2, <2>3, <2>5 DEF Rows
  <2>7. l # None /\ Len(l.bytes) <= MaxBytes
    BY <2>2, TextFacts DEF FakeServersDataOK
  <2>8. Row(i, r, 1, 0)
    <3>1. r.installed => r.eula /\ r.properties # "none"
      BY <2>6
    <3>2. r.running <=> r.pid # None
      BY <2>5, <2>6
    <3>3. r.running => r.installed /\ r.log # None /\ r.pid < 1
      BY <2>6, <2>7
    <3>4. r.log # None => /\ Len(r.log.bytes) <= MaxBytes
                         /\ (r.log.file < 0 \/ (i = "running" /\ r.log.file = 1))
      BY <1>2, <2>2, <2>6, <2>7
    <3>5. r \in Rows
      BY <2>6
    <3> QED BY ONLY <3>1, <3>2, <3>3, <3>4, <3>5, Zenon DEF Row
  <2> QED BY <1>2, <2>4, <2>8
<1>3. CASE i = "stale"
  <2>1. PICK r : r = [FakeServers!Empty EXCEPT !.installed = TRUE, !.eula = TRUE, !.properties = "plain", !.stale = TRUE]
    OBVIOUS
  <2>2. "stale" # "running"
    OBVIOUS
  <2>3. FakeServers!Demo(i) = r
    BY <1>3, <2>1, <2>2 DEF FakeServers!Demo
  <2>4. /\ r \in Rows /\ r.installed = TRUE /\ r.eula = TRUE /\ r.properties = "plain"
        /\ r.running = FALSE /\ r.pid = None /\ r.log = None
    BY <1>1, <2>1 DEF Rows
  <2>5. Row(i, r, 1, 0)
    BY <2>4 DEF Row
  <2> QED BY <2>3, <2>4, <2>5
<1>4. CASE i # "running" /\ i # "stale"
  <2>1. FakeServers!Demo(i) = FakeServers!Empty
    BY <1>4 DEF FakeServers!Demo
  <2> QED BY <1>1, <2>1 DEF Row
<1> QED BY <1>2, <1>3, <1>4

LEMMA FakeServersInitInv == ASSUME FakeServersDataOK, FakeServers!Init PROVE FakeServersIInv
<1>1. /\ servers_nextPid = 1 /\ servers_nextFile = 0 /\ servers_client = None
      /\ servers_servers = [i \in Servers |-> None] \/ servers_servers = [i \in Servers |-> FakeServers!Demo(i)]
  BY DEF FakeServers!Init
<1>2. \A i \in Servers : servers_servers[i] = None \/ (Row(i, servers_servers[i], 1, 0) /\ (servers_servers[i].running => i = "running"))
  BY <1>1, DemoFacts
<1>3. servers_servers \in [Servers -> {None} \cup Rows]
  <2>1. \A i \in Servers : servers_servers[i] \in {None} \cup Rows
    BY <1>2 DEF Row
  <2> QED BY <1>1, <2>1
<1>4. servers_nextPid \in 1 .. MaxStarts + 1 /\ servers_nextFile \in 0 .. MaxFiles + 1
  BY <1>1 DEF FakeServersDataOK
<1>5. \A i \in Servers : servers_servers[i] # None => Row(i, servers_servers[i], servers_nextPid, servers_nextFile)
  BY <1>1, <1>2
<1>6. ASSUME NEW i \in Servers, NEW j \in Servers, i # j, servers_servers[i] # None, servers_servers[j] # None,
             servers_servers[i].running
      PROVE  servers_servers[j].pid # servers_servers[i].pid
  <2>1. i = "running"
    BY <1>2, <1>6
  <2>2. ~servers_servers[j].running
    BY <1>2, <1>6, <2>1
  <2> QED BY <1>2, <1>6, <2>2 DEF Row
<1>7. servers_client # None => ClientOK(servers_client, servers_servers[servers_client.id], servers_nextFile)
  BY <1>1
<1> QED BY <1>3, <1>4, <1>5, <1>6, <1>7 DEF FakeServersIInv

LEMMA FakeServersNextInv == ASSUME FakeServersDataOK, FakeServersIInv, [FakeServers!Next]_(FakeServers!vars) PROVE FakeServersIInv'
<1>1. CASE UNCHANGED FakeServers!vars
  BY <1>1 DEF FakeServers!vars, FakeServersIInv, Row, ClientOK, Follows, FakeServers!Whole,
     FakeServers!Piece
<1>2. ASSUME NEW i \in Servers,
             \/ FakeServers!Create(i) \/ FakeServers!Install(i) \/ FakeServers!Start(i) \/ FakeServers!Stop(i) \/ FakeServers!Restart(i) \/ FakeServers!Status(i)
             \/ FakeServers!Command(i) \/ FakeServers!PropertiesSet(i) \/ FakeServers!Delete(i) \/ FakeServers!Rotate(i)
      PROVE  FakeServersIInv'
  BY <1>2, CreateInv, FakeServersInstallInv, FakeServersStartInv, StopInv, FakeServersRestartInv,
     StatusInv, CommandInv,
     PropertiesInv, DeleteInv, RotateInv
<1>3. ASSUME NEW i \in Servers, NEW limit \in Limits, FakeServers!Read(i, limit) PROVE FakeServersIInv'
  BY <1>3, FakeServersReadInv
<1> QED BY <1>1, <1>2, <1>3 DEF FakeServers!Next

LEMMA FakeServersInvTypes == ASSUME FakeServersIInv PROVE FakeServers!TypeOK
BY DEF FakeServersIInv, FakeServers!TypeOK, Rows, FakeServersLogs, Chars, ClientOK, Clients

LEMMA InvLogFollows == ASSUME FakeServersIInv PROVE FakeServers!LogFollows
BY DEF FakeServersIInv, FakeServers!LogFollows, ClientOK, Follows, FakeServers!FileGivenTwice

LEMMA InvRunningIsWhole == ASSUME FakeServersIInv PROVE FakeServers!RunningIsWhole
<1> SUFFICES ASSUME NEW i \in Servers, servers_servers[i] # None
             PROVE  LET r == servers_servers[i]
                    IN /\ r.running <=> r.pid # None
                       /\ r.running => /\ r.installed /\ r.eula /\ r.properties # "none" /\ r.log # None
                                       /\ r.pid < servers_nextPid
                                       /\ \A j \in Servers \ {i} : servers_servers[j] # None => servers_servers[j].pid # r.pid
  BY DEF FakeServers!RunningIsWhole
<1>1. Row(i, servers_servers[i], servers_nextPid, servers_nextFile)
  BY RowFacts
<1> QED BY <1>1 DEF Row, FakeServersIInv

-----------------------------------------------------------------------------
(***************************************************************************)
(* The worlds of a mock server, for any names, packs and backups: the      *)
(* invariant is the properties themselves over a store of named worlds.    *)
(***************************************************************************)
FakeWorldsDataOK == None \notin Bases /\ FakeWorlds!NoSuffix \notin Suffixes /\ MaxBackups \in Nat

FakeWorldsIInv == FakeWorlds!TypeOK /\ IsFiniteSet(worlds_backups) /\ FakeWorlds!OneWorldPerName /\ FakeWorlds!LockedStays

Stores == [FakeWorlds!Names -> (SUBSET ServerPacks) \cup {None}]

\* Cardinality as the part has it.
LEMMA FakeWorldsSameSize == \A S : FakeWorlds!Cardinality(S) = Cardinality(S)
BY DEF FakeWorlds!Cardinality, Cardinality

LEMMA NameParts ==
  ASSUME NEW n \in FakeWorlds!Names
  PROVE  n = <<n[1], n[2]>> /\ n[1] \in Bases /\ (n[2] = FakeWorlds!NoSuffix \/ n[2] \in Suffixes)
BY DEF FakeWorlds!Names

LEMMA NameType ==
  ASSUME NEW b \in Bases, NEW s, s = FakeWorlds!NoSuffix \/ s \in Suffixes
  PROVE  <<b, s>> \in FakeWorlds!Names /\ <<b, s>>[1] = b /\ <<b, s>>[2] = s
BY DEF FakeWorlds!Names

LEMMA WorldType == ASSUME NEW b \in Bases PROVE FakeWorlds!World(b) \in FakeWorlds!Names
BY DEF FakeWorlds!World, FakeWorlds!Names

LEMMA FakeWorldsInitInv == ASSUME FakeWorldsDataOK PROVE FakeWorlds!Init => FakeWorldsIInv
<1> SUFFICES ASSUME FakeWorlds!Init PROVE FakeWorldsIInv
  OBVIOUS
<1>1. \A n \in FakeWorlds!Names : worlds_worlds[n] \in {0, 1}
  BY DEF FakeWorlds!Init
<1>2. worlds_worlds \in [FakeWorlds!Names -> {0, 1}] /\ worlds_packs \in [FakeWorlds!Names -> (SUBSET ServerPacks) \cup {None}]
  BY DEF FakeWorlds!Init
<1>3. worlds_backups = {} /\ worlds_locked = {} /\ worlds_running \in BOOLEAN /\ worlds_base \in Bases \cup {None}
  BY DEF FakeWorlds!Init
<1>4. IsFiniteSet(worlds_backups) /\ Cardinality(worlds_backups) <= MaxBackups
  <2>1. IsFiniteSet({}) /\ Cardinality({}) = 0
    BY FS_EmptySet
  <2> QED BY <1>3, <2>1 DEF FakeWorldsDataOK
<1> QED BY <1>1, <1>2, <1>3, <1>4, FakeWorldsSameSize DEF FakeWorldsIInv, FakeWorlds!TypeOK, FakeWorlds!OneWorldPerName,
           FakeWorlds!LockedStays

\* Only the worlds, the packs, the base or the lock change: each name has one
\* world at most, and the locked ones are there.
LEMMA WorldsStep ==
  ASSUME FakeWorldsIInv, worlds_worlds' \in [FakeWorlds!Names -> {0, 1}], worlds_packs' \in Stores,
         worlds_base' \in Bases \cup {None}, worlds_running' \in BOOLEAN,
         UNCHANGED worlds_backups, worlds_locked' \subseteq FakeWorlds!Names, \A n \in worlds_locked' : worlds_worlds'[n] = 1
  PROVE  FakeWorldsIInv'
<1>1. FakeWorlds!TypeOK'
  BY DEF FakeWorldsIInv, FakeWorlds!TypeOK, Stores
<1>2. FakeWorlds!OneWorldPerName' /\ FakeWorlds!LockedStays'
  BY DEF FakeWorlds!OneWorldPerName, FakeWorlds!LockedStays, FakeWorlds!Exists
<1> QED BY <1>1, <1>2 DEF FakeWorldsIInv

LEMMA FakeWorldsFacts ==
  ASSUME FakeWorldsIInv
  PROVE  /\ worlds_worlds \in [FakeWorlds!Names -> {0, 1}] /\ worlds_packs \in Stores /\ worlds_locked \subseteq FakeWorlds!Names
         /\ worlds_base \in Bases \cup {None} /\ worlds_running \in BOOLEAN
         /\ \A n \in worlds_locked : worlds_worlds[n] = 1
<1>1. worlds_worlds \in [FakeWorlds!Names -> 0..3] /\ worlds_locked \subseteq FakeWorlds!Names
  BY DEF FakeWorldsIInv, FakeWorlds!TypeOK
<1>2. \A n \in FakeWorlds!Names : worlds_worlds[n] \in {0, 1}
  BY <1>1 DEF FakeWorldsIInv, FakeWorlds!OneWorldPerName
<1>3. \A n \in worlds_locked : worlds_worlds[n] = 1
  BY <1>1, <1>2 DEF FakeWorldsIInv, FakeWorlds!LockedStays, FakeWorlds!Exists
<1> QED BY <1>1, <1>2, <1>3 DEF FakeWorldsIInv, FakeWorlds!TypeOK, Stores

\* The worlds that move get names of their own.
LEMMA NewNames ==
  ASSUME FakeWorldsDataOK, FakeWorldsIInv, NEW old \in FakeWorlds!Names, NEW n \in FakeWorlds!Names, FakeWorlds!IsBase(old) => n[2] = FakeWorlds!NoSuffix
  PROVE  /\ FakeWorlds!Moved(old, n) \subseteq FakeWorlds!Names
         /\ \A m \in FakeWorlds!Moved(old, n) : FakeWorlds!NewName(old, n, m) \in FakeWorlds!Names
         /\ \A l, m \in FakeWorlds!Moved(old, n) : FakeWorlds!NewName(old, n, l) = FakeWorlds!NewName(old, n, m) => l = m
<1>1. FakeWorlds!Moved(old, n) \subseteq FakeWorlds!Names
  BY DEF FakeWorlds!Moved, FakeWorlds!Family
<1>2. CASE ~FakeWorlds!IsBase(old)
  BY <1>2 DEF FakeWorlds!Moved, FakeWorlds!NewName
<1>3. CASE FakeWorlds!IsBase(old)
  <2>1. old[2] = FakeWorlds!NoSuffix /\ old = <<worlds_base, FakeWorlds!NoSuffix>> /\ n = <<n[1], FakeWorlds!NoSuffix>> /\ n[1] \in Bases /\ worlds_base \in Bases
    <3>1. old = <<worlds_base, FakeWorlds!NoSuffix>> /\ n[2] = FakeWorlds!NoSuffix
      BY <1>3 DEF FakeWorlds!IsBase, FakeWorlds!World
    <3>2. old[1] = worlds_base /\ old[2] = FakeWorlds!NoSuffix /\ old[1] \in Bases
      BY <3>1, NameParts
    <3> QED BY <3>1, <3>2, NameParts
  <2>2. ASSUME NEW m \in FakeWorlds!Moved(old, n), m # old
        PROVE  m = <<worlds_base, m[2]>> /\ m[2] \in Suffixes
    <3>1. m \in FakeWorlds!Names /\ m[1] = worlds_base
      BY <1>3, <2>1, <2>2 DEF FakeWorlds!Moved, FakeWorlds!Family
    <3>2. m = <<m[1], m[2]>> /\ (m[2] = FakeWorlds!NoSuffix \/ m[2] \in Suffixes)
      BY <3>1, NameParts
    <3> QED BY <2>1, <2>2, <3>1, <3>2
  <2>3. ASSUME NEW m \in FakeWorlds!Moved(old, n) PROVE FakeWorlds!NewName(old, n, m) \in FakeWorlds!Names
    <3>1. CASE m = old
      BY <3>1 DEF FakeWorlds!NewName
    <3>2. CASE m # old
      BY <2>1, <2>2, <3>2, NameType DEF FakeWorlds!NewName
    <3> QED BY <3>1, <3>2
  <2>4. ASSUME NEW l \in FakeWorlds!Moved(old, n), NEW m \in FakeWorlds!Moved(old, n), FakeWorlds!NewName(old, n, l) = FakeWorlds!NewName(old, n, m)
        PROVE  l = m
    <3>1. \A k \in FakeWorlds!Moved(old, n) : /\ FakeWorlds!NewName(old, n, k)[2] = IF k = old THEN FakeWorlds!NoSuffix ELSE k[2]
                                              /\ k # old => k[2] \in Suffixes /\ k = <<worlds_base, k[2]>>
      <4>1. FakeWorlds!NewName(old, n, old)[2] = FakeWorlds!NoSuffix
        BY <2>1 DEF FakeWorlds!NewName
      <4>2. \A k \in FakeWorlds!Moved(old, n) : k # old => FakeWorlds!NewName(old, n, k)[2] = k[2]
        BY DEF FakeWorlds!NewName
      <4> QED BY <2>2, <4>1, <4>2
    <3>5. (IF l = old THEN FakeWorlds!NoSuffix ELSE l[2]) = (IF m = old THEN FakeWorlds!NoSuffix ELSE m[2])
      <4>1. FakeWorlds!NewName(old, n, l)[2] = IF l = old THEN FakeWorlds!NoSuffix ELSE l[2]
        BY <2>4, <3>1
      <4>2. FakeWorlds!NewName(old, n, m)[2] = IF m = old THEN FakeWorlds!NoSuffix ELSE m[2]
        BY <2>4, <3>1
      <4>3. FakeWorlds!NewName(old, n, l)[2] = FakeWorlds!NewName(old, n, m)[2]
        BY <2>4
      <4> QED BY <4>1, <4>2, <4>3
    <3>2. CASE l = old
      BY <2>4, <3>1, <3>2, <3>5 DEF FakeWorldsDataOK
    <3>3. CASE m = old
      BY <2>4, <3>1, <3>3, <3>5 DEF FakeWorldsDataOK
    <3>4. CASE l # old /\ m # old
      BY <2>4, <3>1, <3>4, <3>5
    <3> QED BY <3>2, <3>3, <3>4
  <2> QED BY <1>1, <2>3, <2>4
<1> QED BY <1>1, <1>2, <1>3

LEMMA RenameInv ==
  ASSUME FakeWorldsDataOK, FakeWorldsIInv, NEW old \in FakeWorlds!Names, NEW n \in FakeWorlds!Names, FakeWorlds!Rename(old, n) PROVE FakeWorldsIInv'
<1>1. worlds_worlds \in [FakeWorlds!Names -> {0, 1}] /\ worlds_packs \in Stores /\ worlds_locked \subseteq FakeWorlds!Names
  BY FakeWorldsFacts
<1>2. /\ FakeWorlds!IsBase(old) => n[2] = FakeWorlds!NoSuffix
      /\ (IF FakeWorlds!IsBase(old) THEN FakeWorlds!Family(old) ELSE {old}) \cap worlds_locked = {}
      /\ FakeWorlds!SiblingsFree(old, n) /\ ~FakeWorlds!Exists(n)
      /\ UNCHANGED <<worlds_running, worlds_locked, worlds_backups>>
      /\ worlds_base' = IF FakeWorlds!IsBase(old) THEN n[1] ELSE worlds_base
      /\ worlds_worlds' = [x \in FakeWorlds!Names |-> FakeWorlds!Staying(old, n, x) + FakeWorlds!Arriving(old, n, x)]
      /\ worlds_packs' = IF worlds_packs[old] = None THEN worlds_packs
                  ELSE [worlds_packs EXCEPT ![n] = worlds_packs[old], ![old] = None]
  BY DEF FakeWorlds!Rename
<1>3. FakeWorlds!Moved(old, n) \cap worlds_locked = {}
  BY <1>2 DEF FakeWorlds!Moved
<1>4. ASSUME NEW x \in FakeWorlds!Names PROVE FakeWorlds!Arriving(old, n, x) \in {0, 1} /\ FakeWorlds!Staying(old, n, x) \in {0, 1}
  <2>1. FakeWorlds!Staying(old, n, x) \in {0, 1}
    BY <1>1 DEF FakeWorlds!Staying
  <2>2. CASE \E m \in FakeWorlds!Moved(old, n) : FakeWorlds!NewName(old, n, m) = x
    <3>1. (CHOOSE m \in FakeWorlds!Moved(old, n) : FakeWorlds!NewName(old, n, m) = x) \in FakeWorlds!Moved(old, n)
      BY <2>2
    <3> QED BY <1>1, <1>2, <2>1, <2>2, <3>1, NewNames DEF FakeWorlds!Arriving
  <2>3. CASE ~ \E m \in FakeWorlds!Moved(old, n) : FakeWorlds!NewName(old, n, m) = x
    BY <2>1, <2>3 DEF FakeWorlds!Arriving
  <2> QED BY <2>2, <2>3
<1>5. ASSUME NEW x \in FakeWorlds!Names, FakeWorlds!Arriving(old, n, x) # 0 PROVE FakeWorlds!Staying(old, n, x) = 0
  <2>1. PICK m \in FakeWorlds!Moved(old, n) : FakeWorlds!NewName(old, n, m) = x
    BY <1>5 DEF FakeWorlds!Arriving
  <2>2. ~FakeWorlds!Exists(x)
    BY <1>2, <2>1 DEF FakeWorlds!SiblingsFree
  <2> QED BY <1>1, <2>2 DEF FakeWorlds!Staying, FakeWorlds!Exists
<1>6. worlds_worlds' \in [FakeWorlds!Names -> {0, 1}]
  <2>1. \A x \in FakeWorlds!Names : FakeWorlds!Staying(old, n, x) + FakeWorlds!Arriving(old, n, x) \in {0, 1}
    BY <1>4, <1>5
  <2> QED BY <1>2, <2>1
<1>7. ASSUME NEW x \in worlds_locked PROVE worlds_worlds'[x] = 1
  <2>1. FakeWorlds!Staying(old, n, x) = 1 /\ x \in FakeWorlds!Names
    BY <1>1, <1>3, <1>7, FakeWorldsFacts DEF FakeWorlds!Staying
  <2>2. FakeWorlds!Arriving(old, n, x) = 0
    BY <1>5, <2>1
  <2>3. worlds_worlds'[x] = FakeWorlds!Staying(old, n, x) + FakeWorlds!Arriving(old, n, x)
    BY <1>2, <2>1
  <2> QED BY <2>1, <2>2, <2>3
<1>8. worlds_packs' \in Stores
  BY <1>1, <1>2 DEF Stores
<1>9. worlds_base' \in Bases \cup {None} /\ worlds_running' \in BOOLEAN
  BY <1>2, FakeWorldsFacts DEF FakeWorlds!Names
<1> QED BY <1>1, <1>2, <1>6, <1>7, <1>8, <1>9, WorldsStep

LEMMA FakeWorldsNextInv == ASSUME FakeWorldsDataOK, FakeWorldsIInv, [FakeWorlds!Next]_(FakeWorlds!vars) PROVE FakeWorldsIInv'
<1>0. /\ worlds_worlds \in [FakeWorlds!Names -> {0, 1}] /\ worlds_packs \in Stores /\ worlds_locked \subseteq FakeWorlds!Names
      /\ worlds_base \in Bases \cup {None} /\ worlds_running \in BOOLEAN
      /\ \A n \in worlds_locked : worlds_worlds[n] = 1
  BY FakeWorldsFacts
<1>1. CASE UNCHANGED FakeWorlds!vars
  BY <1>0, <1>1, WorldsStep DEF FakeWorlds!vars
<1>2. CASE FakeWorlds!Install
  BY <1>0, <1>2, WorldsStep DEF FakeWorlds!Install
<1>3. CASE FakeWorlds!StartOrStop
  <2>1. worlds_running' \in BOOLEAN
    BY <1>0, <1>3 DEF FakeWorlds!StartOrStop
  <2> QED BY <1>0, <1>3, <2>1, WorldsStep DEF FakeWorlds!StartOrStop
<1>4. ASSUME NEW b \in Bases, FakeWorlds!SelectWorld(b) PROVE FakeWorldsIInv'
  BY <1>0, <1>4, WorldsStep DEF FakeWorlds!SelectWorld
<1>5. ASSUME NEW files \in SUBSET ServerPacks, FakeWorlds!ChangePacks(files) PROVE FakeWorldsIInv'
  <2>1. worlds_packs' \in Stores
    BY <1>0, <1>5 DEF FakeWorlds!ChangePacks, Stores
  <2> QED BY <1>0, <1>5, <2>1, WorldsStep DEF FakeWorlds!ChangePacks
<1>6. ASSUME NEW n \in FakeWorlds!Names, FakeWorlds!Lock(n) PROVE FakeWorldsIInv'
  <2>1. worlds_worlds[n] = 1
    BY <1>0, <1>6 DEF FakeWorlds!Lock, FakeWorlds!Exists
  <2> QED BY <1>0, <1>6, <2>1, WorldsStep DEF FakeWorlds!Lock
<1>7. ASSUME NEW n \in FakeWorlds!Names, FakeWorlds!Delete(n) PROVE FakeWorldsIInv'
  <2>1. PICK gone : /\ gone \cap worlds_locked = {}
                    /\ worlds_worlds' = FakeWorlds!Without(worlds_worlds, gone, 0) /\ worlds_packs' = FakeWorlds!Without(worlds_packs, gone, None)
    BY <1>7 DEF FakeWorlds!Delete
  <2>2. worlds_worlds' \in [FakeWorlds!Names -> {0, 1}] /\ \A m \in worlds_locked : worlds_worlds'[m] = 1
    BY <1>0, <2>1 DEF FakeWorlds!Without
  <2>3. worlds_packs' \in Stores
    BY <1>0, <2>1 DEF FakeWorlds!Without, Stores
  <2> QED BY <1>0, <1>7, <2>2, <2>3, WorldsStep DEF FakeWorlds!Delete
<1>8. ASSUME NEW b \in worlds_backups, NEW replace \in BOOLEAN, FakeWorlds!Restore(b, replace) PROVE FakeWorldsIInv'
  <2>1. b.packs \in [b.names -> SUBSET ServerPacks]
    BY FakeWorldsSameSize DEF FakeWorldsIInv, FakeWorlds!TypeOK
  <2>2. worlds_worlds' \in [FakeWorlds!Names -> {0, 1}] /\ \A m \in worlds_locked : worlds_worlds'[m] = 1
    BY <1>0, <1>8 DEF FakeWorlds!Restore, FakeWorlds!Without
  <2>3. worlds_packs' \in Stores
    BY <1>0, <1>8, <2>1 DEF FakeWorlds!Restore, Stores
  <2> QED BY <1>0, <1>8, <2>2, <2>3, WorldsStep DEF FakeWorlds!Restore
<1>9. ASSUME NEW b \in worlds_backups, FakeWorlds!DeleteBackup(b) PROVE FakeWorldsIInv'
  <2>1. IsFiniteSet(worlds_backups) /\ Cardinality(worlds_backups) <= MaxBackups
    BY FakeWorldsSameSize DEF FakeWorldsIInv, FakeWorlds!TypeOK
  <2>2. worlds_backups' = worlds_backups \ {b} /\ UNCHANGED <<worlds_base, worlds_running, worlds_worlds, worlds_locked, worlds_packs>>
    BY <1>9 DEF FakeWorlds!DeleteBackup
  <2>3. IsFiniteSet(worlds_backups') /\ Cardinality(worlds_backups') <= MaxBackups
    <3>1. PICK s \in SUBSET worlds_backups : s = worlds_backups \ {b}
      OBVIOUS
    <3>2. IsFiniteSet(s) /\ Cardinality(s) <= Cardinality(worlds_backups)
      BY <2>1, <3>1, FS_Subset
    <3>3. Cardinality(s) \in Nat /\ Cardinality(worlds_backups) \in Nat
      BY <2>1, <3>2, FS_CardinalityType
    <3>4. Cardinality(s) <= MaxBackups
      BY <2>1, <3>2, <3>3 DEF FakeWorldsDataOK
    <3>5. worlds_backups' = s
      BY <2>2, <3>1
    <3> QED BY <3>2, <3>4, <3>5
  <2>4. FakeWorlds!TypeOK'
    BY <2>2, <2>3, FakeWorldsSameSize DEF FakeWorldsIInv, FakeWorlds!TypeOK
  <2>5. FakeWorlds!OneWorldPerName' /\ FakeWorlds!LockedStays'
    BY <2>2 DEF FakeWorldsIInv, FakeWorlds!OneWorldPerName, FakeWorlds!LockedStays, FakeWorlds!Exists
  <2> QED BY <2>3, <2>4, <2>5 DEF FakeWorldsIInv
<1>10. ASSUME NEW chosen \in FakeWorlds!Names \cup {None}, FakeWorlds!Backup(chosen) PROVE FakeWorldsIInv'
  <2>1. PICK names : /\ names \subseteq FakeWorlds!Names /\ names # {}
                     /\ worlds_backups' = worlds_backups \cup
                          {[names |-> names,
                            packs |-> [m \in names |-> IF worlds_packs[m] = None THEN {} ELSE worlds_packs[m]]]}
    <3>1. PICK n : n = IF chosen = None THEN FakeWorlds!World(worlds_base) ELSE chosen
      OBVIOUS
    <3>2. worlds_base \in Bases /\ n \in FakeWorlds!Names
      BY <1>0, <1>10, <3>1, WorldType DEF FakeWorlds!Backup
    <3>3. PICK names : names = IF chosen = None THEN {m \in FakeWorlds!Family(n) : FakeWorlds!Exists(m)} ELSE {n}
      OBVIOUS
    <3>4. FakeWorlds!Exists(n) /\ names \subseteq FakeWorlds!Names /\ n \in names
      BY <1>10, <3>1, <3>2, <3>3 DEF FakeWorlds!Backup, FakeWorlds!Family
    <3>5. worlds_backups' = worlds_backups \cup
             {[names |-> names,
               packs |-> [m \in names |-> IF worlds_packs[m] = None THEN {} ELSE worlds_packs[m]]]}
      BY <1>10, <3>1, <3>3 DEF FakeWorlds!Backup
    <3> QED BY <3>4, <3>5
  <2>2. PICK b : b = [names |-> names,
                      packs |-> [m \in names |-> IF worlds_packs[m] = None THEN {} ELSE worlds_packs[m]]]
    OBVIOUS
  <2>3. b.names = names /\ b.packs \in [names -> SUBSET ServerPacks]
    BY <1>0, <2>1, <2>2 DEF Stores
  <2>4. worlds_backups' = worlds_backups \cup {b} /\ UNCHANGED <<worlds_base, worlds_running, worlds_worlds, worlds_locked, worlds_packs>>
        /\ Cardinality(worlds_backups) < MaxBackups
    BY <1>10, <2>1, <2>2, FakeWorldsSameSize DEF FakeWorlds!Backup
  <2>5. IsFiniteSet(worlds_backups') /\ Cardinality(worlds_backups') <= MaxBackups
    <3>1. IsFiniteSet(worlds_backups)
      BY DEF FakeWorldsIInv
    <3>2. /\ IsFiniteSet(worlds_backups \cup {b})
          /\ Cardinality(worlds_backups \cup {b}) \in {Cardinality(worlds_backups), Cardinality(worlds_backups) + 1}
      BY <3>1, FS_AddElement
    <3>3. Cardinality(worlds_backups) \in Nat
      BY <3>1, FS_CardinalityType
    <3>4. PICK s : s = worlds_backups \cup {b}
      OBVIOUS
    <3>5. IsFiniteSet(s) /\ Cardinality(s) <= MaxBackups
      BY <2>4, <3>2, <3>3, <3>4 DEF FakeWorldsDataOK
    <3>6. worlds_backups' = s
      BY <2>4, <3>4
    <3> QED BY <3>5, <3>6
  <2>6. FakeWorlds!TypeOK'
    BY <2>1, <2>3, <2>4, <2>5, FakeWorldsSameSize DEF FakeWorldsIInv, FakeWorlds!TypeOK
  <2>7. FakeWorlds!OneWorldPerName' /\ FakeWorlds!LockedStays'
    BY <2>4 DEF FakeWorldsIInv, FakeWorlds!OneWorldPerName, FakeWorlds!LockedStays, FakeWorlds!Exists
  <2> QED BY <2>5, <2>6, <2>7 DEF FakeWorldsIInv
<1> QED BY <1>1, <1>2, <1>3, <1>4, <1>5, <1>6, <1>7, <1>8, <1>9, <1>10, RenameInv DEF FakeWorlds!Next

-----------------------------------------------------------------------------
(***************************************************************************)
(* The content records of the mock core, for any projects and versions: a  *)
(* record without a version is a file that was copied in by hand, and of   *)
(* one project there is one other record (Sorted).                         *)
(***************************************************************************)
\* Cardinality as the part has it.
LEMMA FakeModsSameSize == \A S : FakeMods!Cardinality(S) = Cardinality(S)
BY DEF FakeMods!Cardinality, Cardinality

FakeModsDataOK == None \notin Versions /\ IsFiniteSet(Projects) /\ MaxEntries \in Nat

Entries == [provider : FakeMods!Providers \cup {"manual"}, slug : Projects,
            version : Versions \cup {None}, on : BOOLEAN]

\* ManualStaysManual, of any records.
Sorted(q) ==
  /\ q \in Seq(Entries)
  /\ \A k \in 1 .. Len(q) : q[k].provider = "manual" <=> q[k].version = None
  /\ \A j, k \in 1 .. Len(q) :
       q[j].provider # "manual" /\ q[k].provider # "manual" /\ q[j].slug = q[k].slug => j = k

FakeModsIInv == FakeMods!TypeOK /\ Sorted(mods_entries)

LEMMA FakeModsTypes ==
  ASSUME FakeModsIInv
  PROVE  /\ mods_kind \in {"mods", "datapacks"} /\ mods_loader \in BOOLEAN /\ mods_running \in BOOLEAN
         /\ mods_entries \in Seq(Entries) /\ Len(mods_entries) \in Nat /\ Len(mods_entries) <= MaxEntries
         /\ mods_loose \subseteq Projects /\ Sorted(mods_entries)
BY DEF FakeModsIInv, FakeMods!TypeOK, Entries, Sorted

\* The records change, or the files without one.
LEMMA EntriesStep ==
  ASSUME FakeModsIInv, NEW q, Sorted(q), Len(q) <= MaxEntries, mods_entries' = q,
         mods_loose' \subseteq Projects, UNCHANGED <<mods_kind, mods_loader, mods_running>>
  PROVE  FakeModsIInv'
<1>1. mods_kind' \in {"mods", "datapacks"} /\ mods_loader' \in BOOLEAN /\ mods_running' \in BOOLEAN
  BY FakeModsTypes
<1>2. mods_entries' \in Seq(Entries) /\ Len(mods_entries') <= MaxEntries
  BY DEF Sorted
<1>3. FakeMods!TypeOK'
  BY <1>1, <1>2 DEF FakeMods!TypeOK, Entries
<1> QED BY <1>3 DEF FakeModsIInv, Sorted

\* The first is one of them.
LEMMA FirstOf ==
  ASSUME NEW n \in Nat, NEW I \in SUBSET (1 .. n)
  PROVE  (I = {} => FakeMods!First(I) = 0) /\ (I # {} => FakeMods!First(I) \in I)
<1>1. CASE I = {}
  BY <1>1 DEF FakeMods!First
<1>2. CASE I # {}
  <2>1. \E m \in I : \A k \in I : m <= k
    <3>1. I \in SUBSET Nat
      OBVIOUS
    <3> QED BY <1>2, <3>1, LeastOf
  <2>2. FakeMods!Min(I) \in I
    BY <2>1 DEF FakeMods!Min
  <2> QED BY <1>2, <2>2 DEF FakeMods!First
<1> QED BY <1>1, <1>2

\* The target of a request.
LEMMA TargetFacts ==
  ASSUME mods_entries \in Seq(Entries), NEW by, NEW p, FakeMods!Target(by, p) # 0
  PROVE  /\ FakeMods!Target(by, p) \in 1 .. Len(mods_entries)
         /\ by = "project" => mods_entries[FakeMods!Target(by, p)].provider \in FakeMods!Providers
<1>1. Len(mods_entries) \in Nat
  OBVIOUS
<1>2. PICK I \in SUBSET (1 .. Len(mods_entries)) :
        I = {i \in 1 .. Len(mods_entries) : FakeMods!Matches(mods_entries[i], by, p)}
  OBVIOUS
<1>3. PICK k : k = FakeMods!First(I)
  OBVIOUS
<1>4. FakeMods!Target(by, p) = k
  <2>1. DOMAIN mods_entries = 1 .. Len(mods_entries)
    OBVIOUS
  <2> QED BY <1>2, <1>3, <2>1 DEF FakeMods!Target
<1>5. (I = {} => k = 0) /\ (I # {} => k \in I)
  BY <1>1, <1>3, FirstOf
<1>6. k \in 1 .. Len(mods_entries) /\ FakeMods!Matches(mods_entries[k], by, p)
  BY <1>2, <1>4, <1>5
<1> QED BY <1>4, <1>6 DEF FakeMods!Matches

\* A record is replaced by one of the same file.
LEMMA ReplacedSorted ==
  ASSUME NEW q, Sorted(q), NEW k \in 1 .. Len(q), NEW e \in Entries,
         e.slug = q[k].slug, e.provider = q[k].provider,
         e.provider = "manual" <=> e.version = None
  PROVE  Sorted([q EXCEPT ![k] = e]) /\ Len([q EXCEPT ![k] = e]) = Len(q)
<1>1. PICK r : r = [q EXCEPT ![k] = e]
  OBVIOUS
<1>2. q \in Seq(Entries)
  BY DEF Sorted
<1>3. r \in Seq(Entries) /\ Len(r) = Len(q) /\ \A i \in 1 .. Len(q) : r[i] = IF i = k THEN e ELSE q[i]
  BY <1>1, <1>2, ExceptSeq
<1>4. \A i \in 1 .. Len(q) : r[i].provider = q[i].provider /\ r[i].slug = q[i].slug
  BY <1>3
<1> QED BY <1>1, <1>3, <1>4 DEF Sorted

\* A record of a new project is added.
LEMMA AddedSorted ==
  ASSUME NEW q, Sorted(q), NEW e \in Entries, e.provider # "manual", e.version # None,
         \A i \in 1 .. Len(q) : ~(q[i].slug = e.slug /\ q[i].provider # "manual")
  PROVE  Sorted(Append(q, e)) /\ Len(Append(q, e)) = Len(q) + 1
<1>1. PICK r : r = Append(q, e)
  OBVIOUS
<1>2. q \in Seq(Entries) /\ Len(q) \in Nat
  BY DEF Sorted
<1>3. /\ r \in Seq(Entries) /\ Len(r) = Len(q) + 1 /\ r[Len(q) + 1] = e
      /\ \A i \in 1 .. Len(q) : r[i] = q[i]
  BY <1>1, <1>2
<1>4. \A i \in 1 .. Len(r) : i \in 1 .. Len(q) \/ i = Len(q) + 1
  BY <1>2, <1>3
<1>5. \A i \in 1 .. Len(r) : r[i].provider = "manual" <=> r[i].version = None
  BY <1>3, <1>4 DEF Sorted
<1>6. ASSUME NEW j \in 1 .. Len(r), NEW k \in 1 .. Len(r), r[j].provider # "manual",
             r[k].provider # "manual", r[j].slug = r[k].slug
      PROVE  j = k
  BY <1>3, <1>4, <1>6 DEF Sorted
<1> QED BY <1>1, <1>3, <1>5, <1>6 DEF Sorted

\* Records of the user's own files are added.
LEMMA AdoptedSorted ==
  ASSUME NEW q, Sorted(q), NEW r \in Seq(Entries),
         \A i \in 1 .. Len(r) : r[i].provider = "manual" /\ r[i].version = None
  PROVE  Sorted(q \o r) /\ Len(q \o r) = Len(q) + Len(r)
<1>1. PICK t : t = q \o r
  OBVIOUS
<1>2. q \in Seq(Entries) /\ Len(q) \in Nat /\ Len(r) \in Nat
  BY DEF Sorted
<1>3. /\ t \in Seq(Entries) /\ Len(t) = Len(q) + Len(r)
      /\ \A i \in 1 .. Len(q) : t[i] = q[i]
      /\ \A i \in 1 .. Len(r) : t[Len(q) + i] = r[i]
  BY <1>1, <1>2
<1>4. ASSUME NEW i \in 1 .. Len(t), i \notin 1 .. Len(q)
      PROVE  t[i].provider = "manual" /\ t[i].version = None
  <2>1. i - Len(q) \in 1 .. Len(r) /\ Len(q) + (i - Len(q)) = i
    BY <1>2, <1>3, <1>4
  <2> QED BY <1>3, <2>1
<1>5. \A i \in 1 .. Len(t) : t[i].provider = "manual" <=> t[i].version = None
  BY <1>3, <1>4 DEF Sorted
<1>6. ASSUME NEW j \in 1 .. Len(t), NEW k \in 1 .. Len(t), t[j].provider # "manual",
             t[k].provider # "manual", t[j].slug = t[k].slug
      PROVE  j = k
  <2>1. j \in 1 .. Len(q) /\ k \in 1 .. Len(q)
    BY <1>4, <1>6
  <2> QED BY <1>3, <1>6, <2>1 DEF Sorted
<1> QED BY <1>1, <1>3, <1>5, <1>6 DEF Sorted

\* A record is removed.
LEMMA RemovedSorted ==
  ASSUME NEW q, Sorted(q), NEW k \in 1 .. Len(q)
  PROVE  LET t == SubSeq(q, 1, k - 1) \o SubSeq(q, k + 1, Len(q))
         IN Sorted(t) /\ Len(t) = Len(q) - 1
<1>1. q \in Seq(Entries) /\ Len(q) \in Nat /\ k \in Nat /\ 1 <= k /\ k <= Len(q)
  BY DEF Sorted
<1>2. PICK a : a = SubSeq(q, 1, k - 1)
  OBVIOUS
<1>3. PICK b : b = SubSeq(q, k + 1, Len(q))
  OBVIOUS
<1>4. a \in Seq(Entries) /\ Len(a) = k - 1 /\ \A i \in 1 .. k - 1 : a[i] = q[i]
  <2>1. \A i \in 1 .. k - 1 : q[i] \in Entries
    BY <1>1
  <2>2. /\ a \in Seq(Entries) /\ Len(a) = IF 1 <= k - 1 THEN (k - 1) - 1 + 1 ELSE 0
        /\ \A i \in 1 .. (k - 1) - 1 + 1 : a[i] = q[1 + i - 1]
    BY <1>1, <1>2, <2>1, SubSeqProperties
  <2> QED BY <1>1, <2>2
<1>5. b \in Seq(Entries) /\ Len(b) = Len(q) - k /\ \A i \in 1 .. Len(q) - k : b[i] = q[k + i]
  <2>1. \A i \in k + 1 .. Len(q) : q[i] \in Entries
    BY <1>1
  <2>2. /\ b \in Seq(Entries) /\ Len(b) = IF k + 1 <= Len(q) THEN Len(q) - (k + 1) + 1 ELSE 0
        /\ \A i \in 1 .. Len(q) - (k + 1) + 1 : b[i] = q[(k + 1) + i - 1]
    BY <1>1, <1>3, <2>1, SubSeqProperties
  <2> QED BY <1>1, <2>2
<1>6. PICK t : t = a \o b
  OBVIOUS
<1>7. SubSeq(q, 1, k - 1) \o SubSeq(q, k + 1, Len(q)) = t
  BY <1>2, <1>3, <1>6
<1>8. /\ t \in Seq(Entries) /\ Len(t) = Len(q) - 1
      /\ \A i \in 1 .. k - 1 : t[i] = q[i]
      /\ \A i \in 1 .. Len(q) - k : t[(k - 1) + i] = q[k + i]
  <2>1. PICK m \in Nat : m = k - 1
    BY <1>1
  <2>2. PICK n \in Nat : n = Len(q) - k
    BY <1>1
  <2>3. Len(a) = m /\ Len(b) = n
    BY <1>4, <1>5, <2>1, <2>2
  <2>4. /\ t \in Seq(Entries) /\ Len(t) = m + n
        /\ \A i \in 1 .. m : t[i] = a[i]
        /\ \A i \in 1 .. n : t[m + i] = b[i]
    <3>1. a \in Seq(Entries) /\ b \in Seq(Entries)
      BY <1>4, <1>5
    <3>2. /\ a \o b \in Seq(Entries) /\ Len(a \o b) = Len(a) + Len(b)
          /\ \A i \in 1 .. Len(a) + Len(b) : (a \o b)[i] = IF i <= Len(a) THEN a[i] ELSE b[i - Len(a)]
      BY <3>1, ConcatProperties
    <3>3. \A i \in 1 .. m : t[i] = a[i]
      BY <1>6, <2>3, <3>2
    <3>4. \A i \in 1 .. n : t[m + i] = b[i]
      BY <1>6, <2>3, <3>2
    <3> QED BY <1>6, <2>3, <3>2, <3>3, <3>4
  <2>5. m + n = Len(q) - 1
    BY <1>1, <2>1, <2>2
  <2> QED BY <1>4, <1>5, <2>1, <2>2, <2>4, <2>5
<1>9. \A i \in 1 .. Len(t) : /\ i < k => i \in 1 .. Len(q) /\ t[i] = q[i]
                             /\ i >= k => i + 1 \in 1 .. Len(q) /\ t[i] = q[i + 1]
  <2> SUFFICES ASSUME NEW i \in 1 .. Len(t)
               PROVE  /\ i < k => i \in 1 .. Len(q) /\ t[i] = q[i]
                      /\ i >= k => i + 1 \in 1 .. Len(q) /\ t[i] = q[i + 1]
    OBVIOUS
  <2>1. CASE i < k
    <3>1. i \in 1 .. k - 1
      BY <1>1, <1>8, <2>1
    <3> QED BY <1>1, <1>8, <2>1, <3>1
  <2>2. CASE i >= k
    <3>1. i - (k - 1) \in 1 .. Len(q) - k /\ (k - 1) + (i - (k - 1)) = i /\ k + (i - (k - 1)) = i + 1
      BY <1>1, <1>8, <2>2
    <3>2. t[i] = q[i + 1]
      BY <1>8, <3>1
    <3> QED BY <1>1, <1>8, <2>2, <3>2
  <2> QED BY <1>1, <1>8, <2>1, <2>2
<1>10. \A i \in 1 .. Len(t) : t[i].provider = "manual" <=> t[i].version = None
  BY <1>1, <1>8, <1>9 DEF Sorted
<1>11. ASSUME NEW i \in 1 .. Len(t), NEW j \in 1 .. Len(t), t[i].provider # "manual",
              t[j].provider # "manual", t[i].slug = t[j].slug
       PROVE  i = j
  <2>0. \A l \in 1 .. Len(t) : \E x \in 1 .. Len(q) : t[l] = q[x] /\ x = IF l < k THEN l ELSE l + 1
    <3> SUFFICES ASSUME NEW l \in 1 .. Len(t)
                 PROVE  \E x \in 1 .. Len(q) : t[l] = q[x] /\ x = IF l < k THEN l ELSE l + 1
      OBVIOUS
    <3>1. CASE l < k
      BY <1>9, <3>1
    <3>2. CASE l >= k
      <4>1. ~(l < k)
        BY <1>1, <1>8, <3>2
      <4> QED BY <1>9, <3>2, <4>1
    <3>3. l < k \/ l >= k
      BY <1>1, <1>8
    <3> QED BY <3>1, <3>2, <3>3
  <2>1. PICK x \in 1 .. Len(q) : t[i] = q[x] /\ x = IF i < k THEN i ELSE i + 1
    BY <2>0
  <2>2. PICK y \in 1 .. Len(q) : t[j] = q[y] /\ y = IF j < k THEN j ELSE j + 1
    BY <2>0
  <2>3. x = y
    BY <1>11, <2>1, <2>2 DEF Sorted
  <2> QED BY <1>1, <1>8, <2>1, <2>2, <2>3
<1> QED BY <1>7, <1>8, <1>10, <1>11 DEF Sorted

\* The files without a record, as records.
LEMMA AdoptedFacts ==
  ASSUME FakeModsDataOK, mods_loose \subseteq Projects
  PROVE  LET r == FakeMods!Adopted
         IN /\ r \in Seq(Entries) /\ Len(r) \in Nat /\ Len(r) <= Cardinality(mods_loose)
            /\ Cardinality(mods_loose) \in Nat
            /\ \A i \in 1 .. Len(r) : r[i].provider = "manual" /\ r[i].version = None
<1>1. IsFiniteSet(mods_loose) /\ Cardinality(mods_loose) \in Nat
  <2>1. IsFiniteSet(mods_loose)
    BY FS_Subset DEF FakeModsDataOK
  <2> QED BY <2>1, FS_CardinalityType
<1>2. PICK S : S = {FakeMods!Record("manual", p, None) : p \in mods_loose}
  OBVIOUS
<1>3. \A e \in S : e \in Entries /\ e.provider = "manual" /\ e.version = None
  <2> SUFFICES ASSUME NEW e \in S PROVE e \in Entries /\ e.provider = "manual" /\ e.version = None
    OBVIOUS
  <2>1. PICK p \in mods_loose : e = [provider |-> "manual", slug |-> p, version |-> None, on |-> TRUE]
    BY <1>2 DEF FakeMods!Record
  <2>2. p \in Projects
    OBVIOUS
  <2> QED BY <2>1, <2>2 DEF Entries
<1>4. PICK m \in Nat : m = Cardinality(mods_loose)
  BY <1>1
<1>5. PICK f \in [1 .. m -> mods_loose] : \A p \in mods_loose : \E k \in 1 .. m : f[k] = p
  BY <1>1, <1>4, OrderOf
<1>6. PICK g : g = [k \in 1 .. m |-> FakeMods!Record("manual", f[k], None)]
  OBVIOUS
<1>7. g \in [1 .. m -> S] /\ \A p \in mods_loose : \E k \in DOMAIN g : g[k].slug = p
  <2>1. \A k \in 1 .. m : g[k] \in S /\ g[k].slug = f[k]
    BY <1>2, <1>5, <1>6 DEF FakeMods!Record
  <2>2. DOMAIN g = 1 .. m
    BY <1>6
  <2> QED BY <1>5, <1>6, <2>1, <2>2
<1>8. PICK r : r = FakeMods!Adopted
  OBVIOUS
<1>9. r \in [1 .. m -> S]
  BY <1>2, <1>4, <1>7, <1>8, FakeModsSameSize DEF FakeMods!Adopted
<1>10. r \in Seq(Entries) /\ Len(r) = m /\ \A i \in 1 .. Len(r) : r[i] \in S
  BY <1>3, <1>9
<1> QED BY <1>1, <1>3, <1>4, <1>8, <1>10

LEMMA FakeModsInitInv == ASSUME FakeModsDataOK, FakeMods!Init PROVE FakeModsIInv
<1>1. <<>> \in Seq(Entries) /\ Len(<<>>) = 0
  OBVIOUS
<1>2. Sorted(<<>>)
  BY DEF Sorted
<1>3. mods_entries = <<>> /\ mods_kind \in {"mods", "datapacks"} /\ mods_loose \subseteq Projects
  BY DEF FakeMods!Init
<1>4. mods_loader \in BOOLEAN
  BY DEF FakeMods!Init
<1>5. mods_running \in BOOLEAN
  BY DEF FakeMods!Init
<1>6. Len(mods_entries) <= MaxEntries
  BY <1>1, <1>3 DEF FakeModsDataOK
<1>7. FakeMods!TypeOK
  BY <1>1, <1>3, <1>4, <1>5, <1>6 DEF FakeMods!TypeOK, Entries
<1> QED BY <1>2, <1>3, <1>7 DEF FakeModsIInv

LEMMA FakeModsNextInv == ASSUME FakeModsDataOK, FakeModsIInv, [FakeMods!Next]_(FakeMods!vars) PROVE FakeModsIInv'
<1>0. /\ mods_kind \in {"mods", "datapacks"} /\ mods_loader \in BOOLEAN /\ mods_running \in BOOLEAN
      /\ mods_entries \in Seq(Entries) /\ Len(mods_entries) \in Nat /\ Len(mods_entries) <= MaxEntries
      /\ mods_loose \subseteq Projects /\ Sorted(mods_entries)
  BY FakeModsTypes
<1>1. CASE UNCHANGED FakeMods!vars
  BY <1>0, <1>1, EntriesStep DEF FakeMods!vars
<1>2. CASE FakeMods!StartOrStop
  <2>1. UNCHANGED <<mods_kind, mods_loader, mods_entries, mods_loose>> /\ mods_running' = ~mods_running
    BY <1>2 DEF FakeMods!StartOrStop
  <2>2. mods_running' \in BOOLEAN
    BY <2>1
  <2>3. FakeMods!TypeOK'
    BY <1>0, <2>1, <2>2 DEF FakeMods!TypeOK, Entries
  <2> QED BY <1>0, <2>1, <2>3 DEF FakeModsIInv, Sorted
<1>3. CASE FakeMods!Adopt
  <2>1. PICK r : r = FakeMods!Adopted
    OBVIOUS
  <2>2. /\ mods_entries' = mods_entries \o r /\ mods_loose' = {} /\ UNCHANGED <<mods_kind, mods_loader, mods_running>>
        /\ Len(mods_entries) + Cardinality(mods_loose) <= MaxEntries
    BY <1>3, <2>1, FakeModsSameSize DEF FakeMods!Adopt, FakeMods!Same
  <2>3. /\ r \in Seq(Entries) /\ Len(r) \in Nat /\ Len(r) <= Cardinality(mods_loose) /\ Cardinality(mods_loose) \in Nat
        /\ \A i \in 1 .. Len(r) : r[i].provider = "manual" /\ r[i].version = None
    BY <1>0, <2>1, AdoptedFacts
  <2>4. Sorted(mods_entries \o r) /\ Len(mods_entries \o r) = Len(mods_entries) + Len(r)
    BY <1>0, <2>3, AdoptedSorted
  <2>5. Len(mods_entries \o r) <= MaxEntries
    BY <1>0, <2>2, <2>3, <2>4 DEF FakeModsDataOK
  <2>6. mods_loose' \subseteq Projects
    BY <2>2
  <2> QED BY <2>2, <2>4, <2>5, <2>6, EntriesStep
<1>4. ASSUME NEW p \in Projects, NEW v \in Versions, FakeMods!SetVersion(p, v) PROVE FakeModsIInv'
  <2>1. PICK k : k = FakeMods!Target("project", p)
    OBVIOUS
  <2>2. k # 0 /\ mods_entries' = [mods_entries EXCEPT ![k].version = v] /\ UNCHANGED <<mods_kind, mods_loader, mods_running, mods_loose>>
    BY <1>4, <2>1 DEF FakeMods!SetVersion, FakeMods!Selects, FakeMods!Same
  <2>3. k \in 1 .. Len(mods_entries) /\ mods_entries[k].provider \in FakeMods!Providers
    BY <1>0, <2>1, <2>2, TargetFacts
  <2>4. PICK e : e = [mods_entries[k] EXCEPT !.version = v]
    OBVIOUS
  <2>5. mods_entries[k] \in Entries
    BY <1>0, <2>3
  <2>6. e \in Entries /\ e.slug = mods_entries[k].slug /\ e.provider = mods_entries[k].provider /\ e.version = v
    BY <2>4, <2>5 DEF Entries
  <2>7. e.provider # "manual" /\ e.version # None
    BY <2>3, <2>6 DEF FakeModsDataOK, FakeMods!Providers
  <2>8. mods_entries' = [mods_entries EXCEPT ![k] = e]
    BY <2>2, <2>4
  <2>9. Sorted([mods_entries EXCEPT ![k] = e]) /\ Len([mods_entries EXCEPT ![k] = e]) = Len(mods_entries)
    BY <1>0, <2>3, <2>6, <2>7, ReplacedSorted
  <2> QED BY <1>0, <2>2, <2>8, <2>9, EntriesStep
<1>5. ASSUME NEW p \in Projects, NEW v \in Versions, NEW provider \in FakeMods!Providers, NEW key,
             FakeMods!Install(p, v, provider, key) PROVE FakeModsIInv'
  <2>1. PICK k : k = FakeMods!First({j \in DOMAIN mods_entries : mods_entries[j].slug = p /\ mods_entries[j].provider \in FakeMods!Providers})
    OBVIOUS
  <2>2. /\ k # 0 => mods_entries' = [mods_entries EXCEPT ![k].version = v]
        /\ k = 0 => Len(mods_entries) < MaxEntries /\ mods_entries' = Append(mods_entries, FakeMods!Record(provider, p, v))
        /\ UNCHANGED <<mods_kind, mods_loader, mods_running, mods_loose>>
    BY <1>5, <2>1 DEF FakeMods!Install, FakeMods!Same
  <2>3. /\ k # 0 => k \in 1 .. Len(mods_entries) /\ mods_entries[k].slug = p /\ mods_entries[k].provider \in FakeMods!Providers
        /\ k = 0 => \A i \in 1 .. Len(mods_entries) : ~(mods_entries[i].slug = p /\ mods_entries[i].provider \in FakeMods!Providers)
    <3>1. PICK I \in SUBSET (1 .. Len(mods_entries)) :
            I = {i \in 1 .. Len(mods_entries) : mods_entries[i].slug = p /\ mods_entries[i].provider \in FakeMods!Providers}
      OBVIOUS
    <3>2. k = FakeMods!First(I)
      <4>1. DOMAIN mods_entries = 1 .. Len(mods_entries)
        BY <1>0
      <4> QED BY <2>1, <3>1, <4>1
    <3>3. (I = {} => k = 0) /\ (I # {} => k \in I)
      BY <1>0, <3>2, FirstOf
    <3>4. \A i \in I : i # 0
      BY <1>0
    <3> QED BY <3>1, <3>3, <3>4
  <2>4. CASE k # 0
    <3>1. k \in 1 .. Len(mods_entries) /\ mods_entries[k].provider \in FakeMods!Providers
      BY <2>3, <2>4
    <3>2. PICK e : e = [mods_entries[k] EXCEPT !.version = v]
      OBVIOUS
    <3>3. mods_entries[k] \in Entries
      BY <1>0, <3>1
    <3>4. e \in Entries /\ e.slug = mods_entries[k].slug /\ e.provider = mods_entries[k].provider /\ e.version = v
      BY <3>2, <3>3 DEF Entries
    <3>5. e.provider # "manual" /\ e.version # None
      BY <3>1, <3>4 DEF FakeModsDataOK, FakeMods!Providers
    <3>6. mods_entries' = [mods_entries EXCEPT ![k] = e]
      BY <2>2, <2>4, <3>2
    <3>7. Sorted([mods_entries EXCEPT ![k] = e]) /\ Len([mods_entries EXCEPT ![k] = e]) = Len(mods_entries)
      BY <1>0, <3>1, <3>4, <3>5, ReplacedSorted
    <3> QED BY <1>0, <2>2, <3>6, <3>7, EntriesStep
  <2>5. CASE k = 0
    <3>1. PICK e : e = FakeMods!Record(provider, p, v)
      OBVIOUS
    <3>2. e \in Entries /\ e.slug = p /\ e.provider = provider /\ e.version = v
      BY <3>1 DEF FakeMods!Record, Entries
    <3>3. e.provider # "manual" /\ e.version # None
      BY <3>2 DEF FakeModsDataOK, FakeMods!Providers
    <3>4. \A i \in 1 .. Len(mods_entries) : ~(mods_entries[i].slug = e.slug /\ mods_entries[i].provider # "manual")
      <4>1. \A i \in 1 .. Len(mods_entries) : mods_entries[i].provider \in FakeMods!Providers \cup {"manual"}
        <5>1. \A i \in 1 .. Len(mods_entries) : mods_entries[i] \in Entries
          BY <1>0
        <5> QED BY <5>1 DEF Entries
      <4> QED BY <2>3, <2>5, <3>2, <4>1
    <3>5. Sorted(Append(mods_entries, e)) /\ Len(Append(mods_entries, e)) = Len(mods_entries) + 1
      BY <1>0, <3>2, <3>3, <3>4, AddedSorted
    <3>6. mods_entries' = Append(mods_entries, e) /\ Len(mods_entries) < MaxEntries
      BY <2>2, <2>5, <3>1
    <3>7. Len(Append(mods_entries, e)) <= MaxEntries
      BY <1>0, <3>5, <3>6 DEF FakeModsDataOK
    <3> QED BY <1>0, <2>2, <3>5, <3>6, <3>7, EntriesStep
  <2> QED BY <2>4, <2>5
<1>6. ASSUME NEW p \in Projects, NEW by, FakeMods!ContentRemove(by, p) PROVE FakeModsIInv'
  <2>1. PICK k : k = FakeMods!Target(by, p)
    OBVIOUS
  <2>0. PICK t : t = SubSeq(mods_entries, 1, k - 1) \o SubSeq(mods_entries, k + 1, Len(mods_entries))
    OBVIOUS
  <2>2. k # 0 /\ mods_entries' = t /\ UNCHANGED <<mods_kind, mods_loader, mods_running, mods_loose>>
    BY <1>6, <2>0, <2>1 DEF FakeMods!ContentRemove, FakeMods!Selects, FakeMods!Same
  <2>3. k \in 1 .. Len(mods_entries)
    BY <1>0, <2>1, <2>2, TargetFacts
  <2>4. Sorted(t) /\ Len(t) = Len(mods_entries) - 1
    BY <1>0, <2>0, <2>3, RemovedSorted
  <2>5. Len(t) <= MaxEntries
    BY <1>0, <2>4 DEF FakeModsDataOK
  <2> QED BY <1>0, <2>2, <2>4, <2>5, EntriesStep
<1>7. ASSUME NEW p \in Projects, NEW by, NEW on \in BOOLEAN, FakeMods!Toggle(by, p, on) PROVE FakeModsIInv'
  <2>1. PICK k : k = FakeMods!Target(by, p)
    OBVIOUS
  <2>2. k # 0 /\ mods_entries' = [mods_entries EXCEPT ![k].on = on] /\ UNCHANGED <<mods_kind, mods_loader, mods_running, mods_loose>>
    BY <1>7, <2>1 DEF FakeMods!Toggle, FakeMods!Selects, FakeMods!Same
  <2>3. k \in 1 .. Len(mods_entries)
    BY <1>0, <2>1, <2>2, TargetFacts
  <2>4. PICK e : e = [mods_entries[k] EXCEPT !.on = on]
    OBVIOUS
  <2>5. mods_entries[k] \in Entries
    BY <1>0, <2>3
  <2>6. e \in Entries /\ e.slug = mods_entries[k].slug /\ e.provider = mods_entries[k].provider
        /\ e.version = mods_entries[k].version
    BY <2>4, <2>5 DEF Entries
  <2>7. e.provider = "manual" <=> e.version = None
    BY <1>0, <2>3, <2>6 DEF Sorted
  <2>8. mods_entries' = [mods_entries EXCEPT ![k] = e]
    BY <2>2, <2>4
  <2>9. Sorted([mods_entries EXCEPT ![k] = e]) /\ Len([mods_entries EXCEPT ![k] = e]) = Len(mods_entries)
    BY <1>0, <2>3, <2>6, <2>7, ReplacedSorted
  <2> QED BY <1>0, <2>2, <2>8, <2>9, EntriesStep
<1> QED BY <1>1, <1>2, <1>3, <1>4, <1>5, <1>6, <1>7 DEF FakeMods!Next

LEMMA InvManualStaysManual == ASSUME FakeModsIInv PROVE FakeMods!ManualStaysManual
<1>1. DOMAIN mods_entries = 1 .. Len(mods_entries)
  BY FakeModsTypes
<1> QED BY <1>1, FakeModsTypes DEF FakeMods!ManualStaysManual, Sorted

-----------------------------------------------------------------------------
(***************************************************************************)
(* The instances of the mock core: a pack, a backup or an archive is there *)
(* only with the world and the instance it belongs to.                     *)
(***************************************************************************)
FakeInstanceDataOK == MaxBackups \in Nat \ {0}

FakeInstanceIInv == FakeInstance!TypeOK /\ FakeInstance!PacksFollowWorlds

LEMMA FakeInstanceInitInv == ASSUME FakeInstanceDataOK PROVE FakeInstance!Init => FakeInstanceIInv
<1> SUFFICES ASSUME FakeInstance!Init PROVE FakeInstanceIInv
  OBVIOUS
<1>1. instance_worlds \in [Worlds -> {"none", "free", "locked"}] /\ instance_backups \in [Worlds -> 0..MaxBackups]
  BY DEF FakeInstance!Init, FakeInstanceDataOK
<1>2. FakeInstance!TypeOK
  BY <1>1 DEF FakeInstance!Init, FakeInstance!TypeOK
<1>3. FakeInstance!PacksFollowWorlds
  BY DEF FakeInstance!Init, FakeInstance!PacksFollowWorlds
<1> QED BY <1>2, <1>3 DEF FakeInstanceIInv

\* What a world has when it is first asked for its packs.
LEMMA PacksOfType == ASSUME FakeInstanceIInv, NEW w \in Worlds PROVE FakeInstance!PacksOf(w) \in SUBSET InstancePacks
BY DEF FakeInstanceIInv, FakeInstance!TypeOK, FakeInstance!PacksOf, FakeInstance!Default

LEMMA ArchivedType ==
  ASSUME FakeInstanceIInv, NEW f \in Worlds \cup Exports PROVE FakeInstance!Archived(f) \in SUBSET InstancePacks
BY DEF FakeInstanceIInv, FakeInstance!TypeOK, FakeInstance!Archived

\* One world changes, and has packs only if it exists.
LEMMA WorldStep ==
  ASSUME FakeInstanceIInv, NEW w \in Worlds, NEW x \in {"none", "free", "locked"},
         NEW s \in (SUBSET InstancePacks) \cup {None}, x = "none" => s = None,
         instance_worlds' = [instance_worlds EXCEPT ![w] = x], instance_packs' = [instance_packs EXCEPT ![w] = s],
         UNCHANGED <<instance_manifest, instance_content>>,
         instance_backups' \in [Worlds -> 0..MaxBackups],
         instance_archives' \in [Worlds \cup Exports -> (SUBSET InstancePacks) \cup {None}]
  PROVE  FakeInstanceIInv'
<1>1. FakeInstance!TypeOK'
  BY DEF FakeInstanceIInv, FakeInstance!TypeOK
<1>2. FakeInstance!PacksFollowWorlds'
  BY DEF FakeInstanceIInv, FakeInstance!TypeOK, FakeInstance!PacksFollowWorlds, FakeInstance!Exists
<1> QED BY <1>1, <1>2 DEF FakeInstanceIInv

\* A world that is there gets its packs.
LEMMA KeepStep ==
  ASSUME FakeInstanceIInv, NEW w \in Worlds, FakeInstance!Exists(w), NEW s \in SUBSET InstancePacks,
         instance_packs' = [instance_packs EXCEPT ![w] = s], UNCHANGED <<instance_manifest, instance_content, instance_worlds>>,
         instance_backups' \in [Worlds -> 0..MaxBackups],
         instance_archives' \in [Worlds \cup Exports -> (SUBSET InstancePacks) \cup {None}]
  PROVE  FakeInstanceIInv'
<1>1. instance_worlds' = [instance_worlds EXCEPT ![w] = instance_worlds[w]] /\ instance_worlds[w] \in {"none", "free", "locked"}
  BY DEF FakeInstanceIInv, FakeInstance!TypeOK
<1> QED BY <1>1, WorldStep DEF FakeInstance!Exists

LEMMA PutStep ==
  ASSUME FakeInstanceIInv, NEW w \in Worlds, NEW r \in BOOLEAN, NEW s \in SUBSET InstancePacks, FakeInstance!Put(w, r, s),
         UNCHANGED <<instance_manifest, instance_content, instance_backups, instance_archives>>
  PROVE  FakeInstanceIInv'
<1>1. instance_worlds' = [instance_worlds EXCEPT ![w] = "free"] /\ instance_packs' = [instance_packs EXCEPT ![w] = s]
  BY DEF FakeInstance!Put
<1>2. instance_backups' \in [Worlds -> 0..MaxBackups]
      /\ instance_archives' \in [Worlds \cup Exports -> (SUBSET InstancePacks) \cup {None}]
  BY DEF FakeInstanceIInv, FakeInstance!TypeOK
<1> QED BY <1>1, <1>2, WorldStep

LEMMA FakeInstanceNextInv == ASSUME FakeInstanceDataOK, FakeInstanceIInv, [FakeInstance!Next]_(FakeInstance!vars) PROVE FakeInstanceIInv'
<1>0. /\ instance_backups \in [Worlds -> 0..MaxBackups] /\ instance_worlds \in [Worlds -> {"none", "free", "locked"}]
      /\ instance_archives \in [Worlds \cup Exports -> (SUBSET InstancePacks) \cup {None}]
      /\ instance_packs \in [Worlds -> (SUBSET InstancePacks) \cup {None}] /\ MaxBackups \in Nat
  BY DEF FakeInstanceIInv, FakeInstance!TypeOK, FakeInstanceDataOK
<1>1. CASE UNCHANGED FakeInstance!vars \/ FakeInstance!Create \/ FakeInstance!Install \/ FakeInstance!UseContent
  <2>1. FakeInstance!TypeOK'
    <3>1. instance_manifest' \in {"none", "created", "installed"} /\ UNCHANGED <<instance_worlds, instance_packs, instance_backups, instance_archives>>
      BY <1>1 DEF FakeInstance!vars, FakeInstance!Create, FakeInstance!Install, FakeInstance!UseContent,
         FakeInstanceIInv, FakeInstance!TypeOK
    <3>2. instance_content' \in BOOLEAN
      BY <1>1 DEF FakeInstance!vars, FakeInstance!Create, FakeInstance!Install, FakeInstance!UseContent,
         FakeInstanceIInv, FakeInstance!TypeOK
    <3> QED BY <3>1, <3>2 DEF FakeInstanceIInv, FakeInstance!TypeOK
  <2>2. FakeInstance!PacksFollowWorlds'
    BY <1>1 DEF FakeInstance!vars, FakeInstance!Create, FakeInstance!Install, FakeInstance!UseContent,
       FakeInstanceIInv, FakeInstance!PacksFollowWorlds, FakeInstance!Exists
  <2> QED BY <2>1, <2>2 DEF FakeInstanceIInv
<1>2. CASE FakeInstance!DeleteInstance
  <2>1. FakeInstance!TypeOK'
    <3>1. /\ instance_manifest' \in {"none", "created", "installed"} /\ instance_content' \in BOOLEAN
          /\ instance_archives' \in [Worlds \cup Exports -> (SUBSET InstancePacks) \cup {None}]
      BY <1>2, <1>0 DEF FakeInstance!DeleteInstance
    <3>2. /\ instance_worlds' \in [Worlds -> {"none", "free", "locked"}]
          /\ instance_packs' \in [Worlds -> (SUBSET InstancePacks) \cup {None}]
          /\ instance_backups' \in [Worlds -> 0..MaxBackups]
      BY <1>2, <1>0 DEF FakeInstance!DeleteInstance
    <3> QED BY <3>1, <3>2 DEF FakeInstance!TypeOK
  <2>2. FakeInstance!PacksFollowWorlds'
    BY <1>2 DEF FakeInstance!DeleteInstance, FakeInstance!PacksFollowWorlds
  <2> QED BY <2>1, <2>2 DEF FakeInstanceIInv
<1>3. ASSUME NEW w \in Worlds, FakeInstance!ListPacks(w) PROVE FakeInstanceIInv'
  BY <1>0, <1>3, PacksOfType, KeepStep DEF FakeInstance!ListPacks
<1>4. ASSUME NEW w \in Worlds, NEW s \in SUBSET InstancePacks, FakeInstance!ChangePacks(w, s) PROVE FakeInstanceIInv'
  BY <1>0, <1>4, KeepStep DEF FakeInstance!ChangePacks, FakeInstance!Mutable, FakeInstance!Exists
<1>5. ASSUME NEW w \in Worlds, FakeInstance!DeleteWorld(w) PROVE FakeInstanceIInv'
  BY <1>0, <1>5, WorldStep DEF FakeInstance!DeleteWorld
<1>6. ASSUME NEW w \in Worlds, FakeInstance!Backup(w) PROVE FakeInstanceIInv'
  <2>1. FakeInstance!PacksOf(w) \in SUBSET InstancePacks /\ FakeInstance!Exists(w)
    BY <1>6, PacksOfType DEF FakeInstance!Backup, FakeInstance!Mutable, FakeInstance!Exists
  <2>2. instance_archives' \in [Worlds \cup Exports -> (SUBSET InstancePacks) \cup {None}]
    BY <1>0, <1>6, <2>1 DEF FakeInstance!Backup
  <2>3. instance_backups' \in [Worlds -> 0..MaxBackups]
    BY <1>0, <1>6 DEF FakeInstance!Backup
  <2> QED BY <1>6, <2>1, <2>2, <2>3, KeepStep DEF FakeInstance!Backup
<1>7. ASSUME NEW w \in Worlds, FakeInstance!DeleteBackup(w) PROVE FakeInstanceIInv'
  <2>1. FakeInstance!TypeOK'
    BY <1>0, <1>7 DEF FakeInstance!DeleteBackup, FakeInstanceIInv, FakeInstance!TypeOK
  <2>2. FakeInstance!PacksFollowWorlds'
    BY <1>7 DEF FakeInstance!DeleteBackup, FakeInstanceIInv, FakeInstance!PacksFollowWorlds,
       FakeInstance!Exists
  <2> QED BY <2>1, <2>2 DEF FakeInstanceIInv
<1>8. ASSUME NEW w \in Worlds, NEW f \in Exports, FakeInstance!Export(w, f) PROVE FakeInstanceIInv'
  <2>1. FakeInstance!PacksOf(w) \in SUBSET InstancePacks /\ FakeInstance!Exists(w)
    BY <1>8, PacksOfType DEF FakeInstance!Export, FakeInstance!Mutable, FakeInstance!Exists
  <2>2. instance_archives' \in [Worlds \cup Exports -> (SUBSET InstancePacks) \cup {None}]
    BY <1>0, <1>8, <2>1 DEF FakeInstance!Export
  <2> QED BY <1>0, <1>8, <2>1, <2>2, KeepStep DEF FakeInstance!Export
<1>9. ASSUME NEW w \in Worlds, NEW new \in Worlds, FakeInstance!Rename(w, new) PROVE FakeInstanceIInv'
  <2>1. FakeInstance!PacksOf(w) \in SUBSET InstancePacks
    BY PacksOfType
  <2>2. FakeInstance!TypeOK'
    BY <1>0, <1>9, <2>1 DEF FakeInstance!Rename, FakeInstanceIInv, FakeInstance!TypeOK
  <2>3. FakeInstance!PacksFollowWorlds'
    BY <1>9, <2>1 DEF FakeInstance!Rename, FakeInstanceIInv, FakeInstance!TypeOK,
       FakeInstance!PacksFollowWorlds, FakeInstance!Exists
  <2> QED BY <2>2, <2>3 DEF FakeInstanceIInv
<1>10. ASSUME NEW w \in Worlds, NEW new \in Worlds, FakeInstance!Duplicate(w, new) PROVE FakeInstanceIInv'
  <2>1. FakeInstance!PacksOf(w) \in SUBSET InstancePacks /\ instance_worlds[w] = "free"
    BY <1>10, PacksOfType DEF FakeInstance!Duplicate, FakeInstance!Mutable
  <2>2. PICK s : s = FakeInstance!PacksOf(w)
    OBVIOUS
  <2>3. FakeInstance!TypeOK'
    BY <1>0, <1>10, <2>1, <2>2 DEF FakeInstance!Duplicate, FakeInstanceIInv, FakeInstance!TypeOK
  <2>4. FakeInstance!PacksFollowWorlds'
    BY <1>0, <1>10, <2>1, <2>2 DEF FakeInstance!Duplicate, FakeInstanceIInv, FakeInstance!TypeOK,
       FakeInstance!PacksFollowWorlds, FakeInstance!Exists
  <2> QED BY <2>3, <2>4 DEF FakeInstanceIInv
<1>11. ASSUME NEW w \in Worlds, NEW f \in Exports, NEW r \in BOOLEAN, FakeInstance!Import(f, w, r) PROVE FakeInstanceIInv'
  <2>1. FakeInstance!Archived(f) \in SUBSET InstancePacks
    BY ArchivedType
  <2> QED BY <1>11, <2>1, PutStep DEF FakeInstance!Import
<1>12. ASSUME NEW w \in Worlds, NEW b \in Worlds, NEW r \in BOOLEAN, FakeInstance!Restore(b, w, r) PROVE FakeInstanceIInv'
  <2>1. FakeInstance!Archived(b) \in SUBSET InstancePacks
    BY ArchivedType
  <2> QED BY <1>12, <2>1, PutStep DEF FakeInstance!Restore
<1> QED BY <1>1, <1>2, <1>3, <1>4, <1>5, <1>6, <1>7, <1>8, <1>9, <1>10, <1>11, <1>12 DEF FakeInstance!Next

-----------------------------------------------------------------------------
(***************************************************************************)
(* The sum.                                                                *)
(***************************************************************************)
LEMMA PartsFacts ==
  /\ ChildDataOK /\ LoginDataOK /\ OwnerDataOK /\ TestDataOK /\ CatalogDataOK /\ ClientUsedOK
  /\ ConsoleDataOK /\ SavesDataOK /\ ContentDataOK /\ DatapacksDataOK
  /\ FakeServersDataOK /\ FakeWorldsDataOK /\ FakeModsDataOK /\ FakeInstanceDataOK
<1>1. LoginDataOK /\ OwnerDataOK /\ TestDataOK /\ CatalogDataOK /\ ClientUsedOK
  BY LoginAssumption, OwnerAssumption, TestAssumption, CatalogAssumption, ClientAssumption
     DEF LoginDataOK, OwnerDataOK, TestDataOK, CatalogDataOK, ClientUsedOK
<1>2. ConsoleDataOK
  BY ConsoleAssumption DEF ConsoleDataOK, Places
<1>3. SavesDataOK /\ ContentDataOK /\ DatapacksDataOK
  BY SavesAssumption, ContentAssumption, DatapacksAssumption
     DEF SavesDataOK, ContentDataOK, DatapacksDataOK
<1>4. FakeServersDataOK
  BY FakeServersAssumption DEF FakeServersDataOK, FakeServersLogs, Chars
<1>5. FakeWorldsDataOK /\ FakeModsDataOK /\ FakeInstanceDataOK
  BY FakeWorldsAssumption, FakeModsAssumption DEF FakeWorldsDataOK, FakeModsDataOK, FakeInstanceDataOK
<1>6. ChildDataOK
  BY TransportAssumption DEF ChildDataOK
<1> QED BY <1>1, <1>2, <1>3, <1>4, <1>5, <1>6

SumInv ==
  /\ part \in Parts
  /\ part = "transport" => ChildIInv
  /\ part = "login" => LoginIInv
  /\ part = "owner" => OwnerIInv
  /\ part = "test" => TestIInv
  /\ part = "gc" => GcIInv
  /\ part = "catalog" => CatalogIInv
  /\ part = "client" => ClientIInv
  /\ part = "console" => ConsoleIInv
  /\ part = "saves" => SavesIInv
  /\ part = "content" => ContentIInv
  /\ part = "datapacks" => DatapacksIInv
  /\ part = "servers" => FakeServersIInv
  /\ part = "worlds" => FakeWorldsIInv
  /\ part = "mods" => FakeModsIInv
  /\ part = "instance" => FakeInstanceIInv

\* The part that was chosen moves, or nothing does.
LEMMA Steps ==
  ASSUME [Next]_vars
  PROVE  /\ part' = part
         /\ part = "transport" => [Child!Next]_(Child!vars)
         /\ part # "transport" => UNCHANGED transportVars
         /\ part = "login" => [Login!Next]_(Login!vars)
         /\ part = "owner" => [Owner!Next]_(Owner!vars)
         /\ part = "test" => [Test!Next]_(Test!vars)
         /\ part = "gc" => [Gc!Next]_(Gc!vars)
         /\ part = "catalog" => [Catalog!Next]_(Catalog!vars)
         /\ part = "client" => [Client!Next]_(Client!vars)
         /\ part = "console" => [Console!Next]_(Console!vars)
         /\ part = "saves" => [Saves!Next]_(Saves!vars)
         /\ part = "content" => [Content!Next]_(Content!vars)
         /\ part = "datapacks" => [Datapacks!Next]_(Datapacks!vars)
         /\ part = "servers" => [FakeServers!Next]_(FakeServers!vars)
         /\ part = "worlds" => [FakeWorlds!Next]_(FakeWorlds!vars)
         /\ part = "mods" => [FakeMods!Next]_(FakeMods!vars)
         /\ part = "instance" => [FakeInstance!Next]_(FakeInstance!vars)
<1>1. CASE UNCHANGED vars
  BY <1>1 DEF vars, transportVars, loginVars, ownerVars, testVars, gcVars, catalogVars, clientVars,
     consoleVars, savesVars, contentVars, datapacksVars, serversVars, worldsVars, modsVars, instanceVars,
     Child!vars, Child!remote, Child!task, Child!own,
     Login!vars, Owner!vars, Test!vars, Gc!vars, Catalog!vars, Client!vars, Console!vars, Saves!vars,
     Content!vars, Datapacks!vars, FakeServers!vars, FakeWorlds!vars, FakeMods!vars, FakeInstance!vars
<1>2. CASE Next
  BY <1>2 DEF Next
<1> QED BY <1>1, <1>2

LEMMA SumInit == Init => SumInv
<1> SUFFICES ASSUME Init PROVE SumInv
  OBVIOUS
<1>1. /\ part \in Parts /\ Child!Init /\ Login!Init /\ Owner!Init /\ Test!Init /\ Gc!Init
      /\ Catalog!Init /\ Client!Init /\ Console!Init /\ Saves!Init /\ Content!Init
      /\ Datapacks!Init /\ FakeServers!Init /\ FakeWorlds!Init /\ FakeMods!Init /\ FakeInstance!Init
  BY DEF Init
<1>2. LoginIInv /\ OwnerIInv /\ TestIInv
  BY <1>1, PartsFacts, LoginInitInv, OwnerInitInv, TestInitInv
<1>3. GcIInv /\ CatalogIInv /\ ClientIInv
  BY <1>1, PartsFacts, GcInitInv, CatalogInitInv, ClientInitInv
<1>4. ConsoleIInv /\ SavesIInv /\ ContentIInv /\ DatapacksIInv
  BY <1>1, PartsFacts, ConsoleInitInv, SavesInitInv, ContentInitInv, DatapacksInitInv
<1>5. FakeServersIInv /\ FakeWorldsIInv /\ FakeModsIInv /\ FakeInstanceIInv
  BY <1>1, PartsFacts, FakeServersInitInv, FakeWorldsInitInv, FakeModsInitInv, FakeInstanceInitInv
<1>6. ChildIInv
  BY <1>1, PartsFacts, ChildInitInv
<1> QED BY <1>1, <1>2, <1>3, <1>4, <1>5, <1>6 DEF SumInv

LEMMA SumNext == ASSUME SumInv, [Next]_vars PROVE SumInv'
<1>1. part' = part /\ part \in Parts
  BY Steps DEF SumInv
<1>2. part = "login" => LoginIInv'
  BY Steps, PartsFacts, LoginNextInv DEF SumInv
<1>3. part = "owner" => OwnerIInv'
  BY Steps, PartsFacts, OwnerNextInv DEF SumInv
<1>4. part = "test" => TestIInv'
  BY Steps, PartsFacts, TestNextInv DEF SumInv
<1>5. part = "gc" => GcIInv'
  BY Steps, GcNextInv DEF SumInv
<1>6. part = "catalog" => CatalogIInv'
  BY Steps, PartsFacts, CatalogNextInv DEF SumInv
<1>7. part = "client" => ClientIInv'
  BY Steps, PartsFacts, ClientNextInv DEF SumInv
<1>8. part = "console" => ConsoleIInv'
  BY Steps, PartsFacts, ConsoleNextInv DEF SumInv
<1>9. part = "saves" => SavesIInv'
  BY Steps, PartsFacts, SavesNextInv DEF SumInv
<1>10. part = "content" => ContentIInv'
  BY Steps, PartsFacts, ContentNextInv DEF SumInv
<1>11. part = "datapacks" => DatapacksIInv'
  BY Steps, PartsFacts, DatapacksNextInv DEF SumInv
<1>12. part = "servers" => FakeServersIInv'
  BY Steps, PartsFacts, FakeServersNextInv DEF SumInv
<1>13. part = "worlds" => FakeWorldsIInv'
  BY Steps, PartsFacts, FakeWorldsNextInv DEF SumInv
<1>14. part = "mods" => FakeModsIInv'
  BY Steps, PartsFacts, FakeModsNextInv DEF SumInv
<1>15. part = "instance" => FakeInstanceIInv'
  BY Steps, PartsFacts, FakeInstanceNextInv DEF SumInv
<1>16. part = "transport" => ChildIInv'
  BY Steps, PartsFacts, ChildNextInv DEF SumInv
<1> QED BY <1>1, <1>2, <1>3, <1>4, <1>5, <1>6, <1>7, <1>8, <1>9, <1>10, <1>11, <1>12, <1>13, <1>14, <1>15, <1>16
        DEF SumInv

\* Every part keeps its types, for every value of the constants.
THEOREM TypesHold == Spec => []TypeOK
<1>1. SumInv => TypeOK
  <2> SUFFICES ASSUME SumInv PROVE TypeOK
    OBVIOUS
  <2>1. /\ part = "transport" => Child!TypeOK
        /\ part = "login" => Login!TypeOK
        /\ part = "console" => Console!TypeOK
        /\ part = "owner" => Owner!TypeOK
        /\ part = "test" => Test!TypeOK
    BY ConsoleInvTypes DEF SumInv, ChildIInv, LoginIInv, OwnerIInv, TestIInv
  <2>2. /\ part = "gc" => Gc!TypeOK
        /\ part = "client" => Client!TypeOK
        /\ part = "saves" => Saves!TypeOK
        /\ part = "content" => Content!TypeOK
        /\ part = "catalog" => Catalog!TypeOK
        /\ part = "datapacks" => Datapacks!TypeOK
    BY SavesInvTypes DEF SumInv, GcIInv, ClientIInv, ContentIInv, CatalogIInv, DatapacksIInv
  <2>3. /\ part = "servers" => FakeServers!TypeOK
        /\ part = "worlds" => FakeWorlds!TypeOK
        /\ part = "mods" => FakeMods!TypeOK
        /\ part = "instance" => FakeInstance!TypeOK
    BY FakeServersInvTypes DEF SumInv, FakeWorldsIInv, FakeModsIInv, FakeInstanceIInv
  <2> QED BY <2>1, <2>2, <2>3 DEF TypeOK
<1> QED BY <1>1, SumInit, SumNext, PTL DEF Spec

\* The end of a transport, for any output of the child and any capacity of the
\* channel: no line follows it, a failure met after a corrupt line is called
\* that, and an ssh transport at its end is reaped and its input closed.
THEOREM EndStaysFinal == Spec => Child!EndIsFinal
<1>1. SumInv /\ [Next]_vars => [EndStays]_(Child!vars)
  <2> SUFFICES ASSUME SumInv, [Next]_vars PROVE [EndStays]_(Child!vars)
    OBVIOUS
  <2>1. CASE part = "transport"
    BY <2>1, Steps, PartsFacts, NextEndStays DEF SumInv
  <2>2. CASE part # "transport"
    BY <2>2, Steps DEF transportVars, Child!vars, Child!remote, Child!task, Child!own
  <2> QED BY <2>1, <2>2
<1> QED BY <1>1, SumInit, SumNext, PTL DEF Spec, Child!EndIsFinal, EndStays

\* However many logins, launches and removals share the flag, the reference
\* and the keychain, a cancelled login opens its dialog no more, each account
\* has its own token, a used-up one is replaced when its launch has kept the
\* new one, and an account that is listed has one.
THEOREM TokensAreKeptHolds == Spec => []TokensAreKept
<1>1. part = "login" /\ LoginIInv =>
        /\ Login!CancelledStaysClosed /\ Login!SpentIsReplaced
        /\ Login!TokensAreOwn /\ Login!ListedHaveTokens
  BY InvTokens
<1>2. SumInv => TokensAreKept
  BY <1>1 DEF SumInv, TokensAreKept
<1> QED BY <1>2, SumInit, SumNext, PTL DEF Spec

\* For any number of opens, tests, cleanups and searches in flight, what is
\* established, shown, deleted or offered for install belongs to the current
\* edit, test, scope or search.
THEOREM LateAnswersDroppedHolds == Spec => []LateAnswersDropped
<1>1. part = "owner" /\ OwnerIInv => Owner!SessionFollowsEdit
  BY PartsFacts, InvSessionFollowsEdit
<1>2. part = "gc" /\ GcIInv => Gc!DeletesWhatWasPreviewed
  BY InvDeletesWhatWasPreviewed
<1>3. SumInv => LateAnswersDropped
  BY <1>1, <1>2 DEF SumInv, LateAnswersDropped, TestIInv, CatalogIInv
<1> QED BY <1>3, SumInit, SumNext, PTL DEF Spec

\* Whatever sessions are opened, closed and lost, and whatever pages and
\* imports ask, one request at a time writes in the directory of an instance,
\* and what the gate for the CurseForge key lets through the bridge does too.
THEOREM WritersAloneHolds == Spec => []WritersAlone
<1>1. SumInv => WritersAlone
  BY PartsFacts, InvWritersAlone, GateHolds DEF SumInv, WritersAlone
<1> QED BY <1>1, SumInit, SumNext, PTL DEF Spec

\* For any log, world, pack and number of visits, the console shows a
\* contiguous piece of the log to its last line, and the pages of an instance
\* show at rest what the core has, unless they were not told of a change.
THEOREM PagesAreTrueHolds == Spec => []PagesAreTrue
<1>1. part = "console" /\ ConsoleIInv => Console!TextIsContiguous /\ Console!LastLinesRead
  BY PartsFacts, InvTextIsContiguous, InvLastLinesRead
<1>2. part = "saves" /\ SavesIInv => Saves!ListsCatchUp
  BY PartsFacts, InvListsCatchUp
<1>3. part = "content" /\ ContentIInv => Content!PanelCatchesUp
  BY PartsFacts, InvPanelCatchesUp
<1>4. part = "datapacks" /\ DatapacksIInv => Datapacks!ShownAreThere /\ Datapacks!NoSessionLeft
  BY PartsFacts, InvShownAreThere, InvNoSessionLeft
<1>5. SumInv => PagesAreTrue
  BY <1>1, <1>2, <1>3, <1>4 DEF SumInv, PagesAreTrue
<1> QED BY <1>5, SumInit, SumNext, PTL DEF Spec

\* Over every sequence of requests, for any servers, worlds, projects and
\* logs: the mock core keeps a client's console text true, its running servers
\* whole, one world per name, what a running server holds, and the records of
\* content sorted; packs exist where their world does.
THEOREM MockIsSoundHolds == Spec => []MockIsSound
<1>1. part = "servers" /\ FakeServersIInv => FakeServers!LogFollows /\ FakeServers!RunningIsWhole
  BY PartsFacts, InvLogFollows, InvRunningIsWhole
<1>2. part = "worlds" /\ FakeWorldsIInv => FakeWorlds!OneWorldPerName /\ FakeWorlds!LockedStays
  BY DEF FakeWorldsIInv
<1>3. part = "mods" /\ FakeModsIInv => FakeMods!ManualStaysManual
  BY InvManualStaysManual
<1>4. part = "instance" /\ FakeInstanceIInv => FakeInstance!PacksFollowWorlds
  BY DEF FakeInstanceIInv
<1>5. SumInv => MockIsSound
  BY <1>1, <1>2, <1>3, <1>4 DEF SumInv, MockIsSound
<1> QED BY <1>5, SumInit, SumNext, PTL DEF Spec
=============================================================================
