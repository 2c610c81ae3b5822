----------------------------- MODULE MockServers -----------------------------
(***************************************************************************)
(* The methods of the mock core (serverMock.ts) that make and run servers  *)
(* and read their console logs, with a client that follows a log by the    *)
(* file and cursor of its last answer.  Worlds and content: MockWorlds.    *)
(* A refused request changes nothing and is not an action.                 *)
(***************************************************************************)
EXTENDS Naturals, Sequences, FiniteSetsExt

CONSTANTS
  Ids,        \* server ids of one directory
  Limits,     \* values of max_bytes
  MaxStarts,  \* bound on the starts
  MaxFiles,   \* bound on the log files
  MaxBytes,   \* bound on the bytes of a log
  None

VARIABLES
  servers,   \* ServerMockState.servers: by id, or None
  nextPid,   \* next_pid, in starts
  nextFile,  \* next_file_id, less the first one
  client     \* the reader: what it has of which file, and its cursor

vars == <<servers, nextPid, nextFile, client>>

\* Text: lines of one-byte characters stand as "a", and a character of two
\* bytes as "c" and the "d" that continues it.
Texts == {<<>>, <<"a">>, <<"c", "d">>}
Whole(s) == s # <<>> => Head(s) # "d" /\ s[Len(s)] # "c"
Piece(s, from, to) == SubSeq(s, from + 1, to)

Stopped(r) == [r EXCEPT !.running = FALSE, !.pid = None]
Empty == [installed |-> FALSE, eula |-> FALSE, properties |-> "none",
          running |-> FALSE, pid |-> None, stale |-> FALSE, log |-> None]

\* The default scenario: one server runs and has log 9001 where the next file
\* is 9000; the first status of another one is stale.
Demo(i) ==
  CASE i = "running" -> [Empty EXCEPT !.installed = TRUE, !.eula = TRUE, !.properties = "plain",
                           !.running = TRUE, !.pid = 0, !.log = [file |-> 1, bytes |-> <<"a">>]]
    [] i = "stale"   -> [Empty EXCEPT !.installed = TRUE, !.eula = TRUE, !.properties = "plain",
                           !.stale = TRUE]
    [] OTHER         -> Empty

TypeOK ==
  /\ servers \in [Ids -> {None} \cup
       [installed : BOOLEAN, eula : BOOLEAN,
        properties : {"none", "plain", "password"}, running : BOOLEAN,
        pid : 0..MaxStarts \cup {None}, stale : BOOLEAN,
        log : {None} \cup [file : 0..MaxFiles, bytes : Seq({"a", "c", "d"})]]]
  /\ nextPid \in 1..MaxStarts + 1 /\ nextFile \in 0..MaxFiles + 1
  /\ client = None \/ client \in [id : Ids, file : 0..MaxFiles, from : 0..MaxBytes,
                                   cursor : 0..MaxBytes, text : Seq({"a", "c", "d"})]

Init ==
  /\ \/ servers = [i \in Ids |-> None]
     \/ servers = [i \in Ids |-> Demo(i)]
  /\ nextPid = 1 /\ nextFile = 0 /\ client = None

-----------------------------------------------------------------------------
(* Servers                                                                 *)

Change(i, r) == servers' = [servers EXCEPT ![i] = r]
Quiet == UNCHANGED <<nextPid, nextFile, client>>

Create(i) ==
  /\ servers[i] = None
  /\ \E eula \in BOOLEAN : Change(i, [Empty EXCEPT !.eula = eula])
  /\ Quiet

\* Refused while it runs, and for the server no Java fits.
Install(i) ==
  /\ servers[i] # None /\ ~servers[i].running /\ i # "java-incompatible"
  /\ Change(i, [servers[i] EXCEPT !.installed = TRUE, !.eula = TRUE,
                  !.properties = IF @ = "none" THEN "plain" ELSE @])
  /\ Quiet

\* appendLog: nothing is written where no log is.
Append2(r, text) == IF r.log = None THEN r ELSE [r EXCEPT !.log.bytes = @ \o text]
Fits(r, n) == r.log # None => Len(r.log.bytes) + n <= MaxBytes

\* startResult: a pair of new processes, and a log.
CanStart(r) == r.installed /\ ~r.running /\ nextPid <= MaxStarts
Started(r) ==
  LET s == [r EXCEPT !.running = TRUE, !.pid = nextPid]
  IN IF r.log = None THEN [s EXCEPT !.log = [file |-> nextFile, bytes |-> <<"a">>]]
     ELSE Append2(s, <<"a">>)

Start(i) ==
  /\ servers[i] # None /\ CanStart(servers[i]) /\ Fits(servers[i], 1)
  /\ servers[i].log = None => nextFile <= MaxFiles
  /\ Change(i, Started(servers[i]))
  /\ nextPid' = nextPid + 1
  /\ nextFile' = IF servers[i].log = None THEN nextFile + 1 ELSE nextFile
  /\ UNCHANGED client

Stop(i) ==
  /\ servers[i] # None /\ servers[i].running /\ Fits(servers[i], 1)
  /\ Change(i, Append2(Stopped(servers[i]), <<"a">>))
  /\ Quiet

\* Stopped first and then started, which asks that it is installed: a failure
\* there would leave it stopped.
Restart(i) ==
  /\ servers[i] # None /\ servers[i].running /\ Fits(servers[i], 2)
  /\ LET r == Stopped(Append2(servers[i], <<"a">>))
     IN IF ~r.installed THEN Change(i, r) /\ UNCHANGED <<nextPid, nextFile>>
        ELSE /\ CanStart(r) /\ Change(i, Started(r))
             /\ nextPid' = nextPid + 1
             /\ nextFile' = IF r.log = None THEN nextFile + 1 ELSE nextFile
  /\ UNCHANGED client

\* A stale answer is given once.
Status(i) ==
  /\ servers[i] # None /\ servers[i].stale
  /\ Change(i, [servers[i] EXCEPT !.stale = FALSE]) /\ Quiet

\* Console input is echoed; rcon and query are disabled and refused.
Command(i) ==
  /\ servers[i] # None /\ servers[i].running
  /\ \E t \in Texts \ {<<>>} : Fits(servers[i], Len(t)) /\ Change(i, Append2(servers[i], t))
  /\ Quiet

\* The password is not kept, only that there is one.
PropertiesSet(i) ==
  /\ servers[i] # None /\ servers[i].properties # "none" /\ ~servers[i].running
  /\ Change(i, [servers[i] EXCEPT !.properties = "password"]) /\ Quiet

Delete(i) ==
  /\ servers[i] # None /\ ~servers[i].running
  /\ Change(i, None) /\ Quiet

\* rotateServerMockLog and replaceServerMockLog, for tests.
Rotate(i) ==
  /\ servers[i] # None /\ nextFile <= MaxFiles
  /\ \E t \in Texts : Change(i, [servers[i] EXCEPT !.log = [file |-> nextFile, bytes |-> t]])
  /\ nextFile' = nextFile + 1
  /\ UNCHANGED <<nextPid, client>>

-----------------------------------------------------------------------------
(* server.logs                                                             *)

\* validUtf8End: the last end within the limit that splits no character.
EndOfSlip(s, from, limit) == Min({Len(s), from + limit})
EndOf(s, from, limit) ==
  Max({e \in from..Min({Len(s), from + limit}) : Whole(Piece(s, from, e))})

\* tailStart: the first start within the limit that splits no character.
TailOf(s, limit) ==
  Min({b \in (IF limit > Len(s) THEN 0 ELSE Len(s) - limit)..Len(s) : Whole(Piece(s, b, Len(s)))})

IsBoundary(s, c) == c <= Len(s) /\ Whole(Piece(s, 0, c)) /\ Whole(Piece(s, c, Len(s)))

\* readLog: from the cursor if it is one of this file, or the tail.
Answer(log, cursor, file, limit) ==
  LET known == cursor # None /\ file = log.file /\ IsBoundary(log.bytes, cursor)
      from == IF known THEN cursor ELSE TailOf(log.bytes, limit)
      to == EndOf(log.bytes, from, limit)
  IN [text |-> Piece(log.bytes, from, to), file |-> log.file, from |-> from, to |-> to,
      goesOn |-> known]

\* The client takes up a server, or asks for what follows its cursor.
Read(i, limit) ==
  /\ servers[i] # None /\ servers[i].log # None
  /\ LET mine == client # None /\ client.id = i
         a == IF mine THEN Answer(servers[i].log, client.cursor, client.file, limit)
              ELSE Answer(servers[i].log, None, None, limit)
     IN client' = [id |-> i, file |-> a.file, cursor |-> a.to,
                   from |-> IF mine /\ a.goesOn THEN client.from ELSE a.from,
                   text |-> IF mine /\ a.goesOn THEN client.text \o a.text ELSE a.text]
  /\ UNCHANGED <<servers, nextPid, nextFile>>

Next ==
  \E i \in Ids :
    \/ Create(i) \/ Install(i) \/ Start(i) \/ Stop(i) \/ Restart(i) \/ Status(i)
    \/ Command(i) \/ PropertiesSet(i) \/ Delete(i) \/ Rotate(i)
    \/ \E limit \in Limits : Read(i, limit)

Spec == Init /\ [][Next]_vars

-----------------------------------------------------------------------------
(* Properties                                                              *)

\* The client follows the running server of the default scenario, whose file
\* id is given a second time.
FileGivenTwice == client # None /\ client.id = "running" /\ client.file = 1

\* What a client that follows cursors has is one piece of one log, in whole
\* characters, whatever was written, rotated, deleted or made anew between its
\* requests, as long as file ids are not given twice.
LogFollows ==
  client # None =>
    /\ Whole(client.text)
    /\ servers[client.id] # None /\ servers[client.id].log # None
         /\ servers[client.id].log.file = client.file /\ ~FileGivenTwice
       => client.text = Piece(servers[client.id].log.bytes, client.from, client.cursor)

\* A server that runs is installed under the EULA, has its properties and a
\* log, and processes no other server was ever given: a restart cannot fail
\* half-way, after the stop.
RunningIsWhole ==
  \A i \in Ids : servers[i] # None =>
    LET r == servers[i]
    IN /\ r.running <=> r.pid # None
       /\ r.running => /\ r.installed /\ r.eula /\ r.properties # "none" /\ r.log # None
                       /\ r.pid < nextPid
                       /\ \A j \in Ids \ {i} : servers[j] # None => servers[j].pid # r.pid
=============================================================================
