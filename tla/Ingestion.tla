------------------------------ MODULE Ingestion ------------------------------
(***************************************************************************)
(* Meter-reading files, from the incoming directory of the SFTP server to  *)
(* meter_readings: SftpCronService.runOnce (the nightly cron, and run-now),*)
(* test-ingest, IngestionService.ingestFile and FileMovementService.       *)
(*                                                                         *)
(* A job lists the directory once, then takes the files one at a time:     *)
(* download to a path every job shares, parse it, hash it, look for a log  *)
(* with that hash, write the log with its readings, rename the remote file *)
(* by its name, note the folder in the log.  Each is an await, so jobs     *)
(* interleave between any two; a fault may end any of them, and a crash    *)
(* all of them.                                                            *)
(*                                                                         *)
(* A content stands for a file's bytes, and for their SHA-256.  A row of   *)
(* it is a reading's key: a meter with a day.                              *)
(***************************************************************************)
EXTENDS Naturals, Sequences, FiniteSets

CONSTANTS
  Names,        \* file names
  Contents,     \* what files hold
  Holds,        \* Holds[f]: what f may hold
  KindOf,       \* KindOf[c]: what parsing, validation and the columns make of it
  RowsOf,       \* RowsOf[c]: its rows
  Keys,         \* meter and day
  Known,        \* the keys whose meter is a registered sub-meter
  Jobs,         \* concurrent runOnce calls
  Nightly,      \* the one of the cron; the others are of run-now
  Operators,    \* concurrent test-ingest calls
  MaxFaults,    \* bound: faults and crashes
  MaxRetriggers \* bound: test-ingest calls

Kinds == {"good", "malformed", "unreadable", "unstorable"}

ASSUME IngestionAssumption ==
  /\ Holds \in [Names -> SUBSET Contents]
  /\ KindOf \in [Contents -> Kinds]
  /\ RowsOf \in [Contents -> Seq(Keys)]
  /\ Known \subseteq Keys
  /\ Jobs \cap Operators = {} /\ Nightly \in Jobs
  /\ MaxFaults \in Nat /\ MaxRetriggers \in Nat

CONSTANT None
ASSUME NoneAssumption == None \notin Contents

Callers == Jobs \cup Operators

VARIABLES
  incoming,   \* incoming[f]: the content of f in the incoming directory
  sent,       \* the names used so far
  archive,    \* the files renamed into processed/, failed/ and duplicate/
  local,      \* local[f]: storage/sftp/temp/<f>
  logs,       \* sftp_ingestion_logs, by id
  readings,   \* meter_readings
  call,       \* call[p]: the call in progress
  faults, retriggers

vars == <<incoming, sent, archive, local, logs, readings, call, faults, retriggers>>

Buckets == {"processed", "failed", "duplicate"}
LogStatus == {"PROCESSED", "FAILED", "DUPLICATE"}

Log == [file: Names, status: LogStatus, checksum: Contents \cup {None},
        received: Nat, duplicates: Nat, moved: BOOLEAN]
Reading == [key: Keys, log: Nat \ {0}, row: Nat \ {0}]
Archived == [bucket: Buckets, file: Names, content: Contents]

\* A job between two files has file = None; "todo" is what is left of its listing.
Steps == {"next", "parse", "hash", "lookup", "write", "move", "note"}
Idle  == [at |-> "idle"]
Call  == [at: Steps, todo: SUBSET Names, file: Names \cup {None},
          rows: Contents \cup {None}, sum: Contents \cup {None},
          existing: {"none"} \cup LogStatus, log: Nat, bucket: Buckets]

TypeOK ==
  /\ incoming \in [Names -> Contents \cup {None}]
  /\ local \in [Names -> Contents \cup {None}]
  /\ sent \subseteq Names
  /\ archive \subseteq Archived
  /\ logs \in Seq(Log)
  /\ readings \subseteq Reading /\ \A r \in readings : r.log \in DOMAIN logs
  /\ call \in [Callers -> {Idle} \cup Call]
  /\ \A p \in Callers : call[p] # Idle => call[p].log \in 0..Len(logs)
  /\ faults \in 0..MaxFaults /\ retriggers \in 0..MaxRetriggers

Init ==
  /\ incoming = [f \in Names |-> None]
  /\ local = [f \in Names |-> None]
  /\ sent = {} /\ archive = {} /\ logs = <<>> /\ readings = {}
  /\ call = [p \in Callers |-> Idle]
  /\ faults = 0 /\ retriggers = 0

Logged(c) == {i \in DOMAIN logs : logs[i].checksum = c}
HasReading(k) == \E r \in readings : r.key = k

At(p, step) == call[p] # Idle /\ call[p].at = step
Goto(p, step) == call' = [call EXCEPT ![p].at = step]

\* What follows a file: the next of the listing, or the answer of test-ingest.
Fresh(todo) ==
  [at |-> "next", todo |-> todo, file |-> None, rows |-> None, sum |-> None,
   existing |-> "none", log |-> 0, bucket |-> "processed"]
Done(p) ==
  call' = [call EXCEPT ![p] = IF p \in Jobs THEN Fresh(call[p].todo) ELSE Idle]

-----------------------------------------------------------------------------
\* A DTU puts a file on the server.  Its name carries the DTU and the day, and
\* is taken to be used once.
Upload(f, c) ==
  /\ f \notin sent
  /\ sent' = sent \cup {f}
  /\ incoming' = [incoming EXCEPT ![f] = c]
  /\ UNCHANGED <<archive, local, logs, readings, call, faults, retriggers>>

\* Mutant: a file downloaded before is not listed again.
StartJobOnlyNew(p) ==
  /\ p \in Jobs /\ call[p] = Idle
  /\ call' = [call EXCEPT ![p] =
                Fresh({f \in Names : incoming[f] # None /\ local[f] = None})]
  /\ UNCHANGED <<incoming, sent, archive, local, logs, readings, faults, retriggers>>

\* runOnce: the listing.
StartJob(p) ==
  /\ p \in Jobs /\ call[p] = Idle
  /\ call' = [call EXCEPT ![p] = Fresh({f \in Names : incoming[f] # None})]
  /\ UNCHANGED <<incoming, sent, archive, local, logs, readings, faults, retriggers>>

EndJob(p) ==
  /\ p \in Jobs /\ At(p, "next") /\ call[p].todo = {}
  /\ call' = [call EXCEPT ![p] = Idle]
  /\ UNCHANGED <<incoming, sent, archive, local, logs, readings, faults, retriggers>>

\* downloadFile overwrites the shared copy; a file that is gone is not found.
Download(p, f, todo) ==
  \/ /\ incoming[f] # None
     /\ local' = [local EXCEPT ![f] = incoming[f]]
     /\ call' = [call EXCEPT ![p] = [Fresh(todo) EXCEPT !.at = "parse", !.file = f]]
  \/ /\ incoming[f] = None
     /\ call' = [call EXCEPT ![p] = IF p \in Jobs THEN Fresh(todo) ELSE Idle]
     /\ UNCHANGED local

TakeFile(p) ==
  /\ p \in Jobs /\ At(p, "next")
  /\ \E f \in call[p].todo : Download(p, f, call[p].todo \ {f})
  /\ UNCHANGED <<incoming, sent, archive, logs, readings, faults, retriggers>>

\* testIngest: one file, isRetrigger, and no move afterwards.
TestIngest(p, f) ==
  /\ p \in Operators /\ call[p] = Idle
  /\ retriggers < MaxRetriggers
  /\ retriggers' = retriggers + 1
  /\ incoming[f] # None /\ Download(p, f, {})
  /\ UNCHANGED <<incoming, sent, archive, logs, readings, faults>>

\* parseFile throws on what it cannot read.
Parse(p) ==
  /\ At(p, "parse")
  /\ LET c == local[call[p].file]
     IN IF KindOf[c] = "unreadable"
        THEN Done(p)
        ELSE call' = [call EXCEPT ![p].rows = c, ![p].at = "hash"]
  /\ UNCHANGED <<incoming, sent, archive, local, logs, readings, faults, retriggers>>

\* hashFile reads the shared copy a second time.
Hash(p) ==
  /\ At(p, "hash")
  /\ call' = [call EXCEPT ![p].sum = local[call[p].file], ![p].at = "lookup"]
  /\ UNCHANGED <<incoming, sent, archive, local, logs, readings, faults, retriggers>>

\* findOne by checksum: PROCESSED and not a retrigger is skipped, in place.
Lookup(p) ==
  /\ At(p, "lookup")
  /\ LET found == Logged(call[p].sum)
     IN \/ /\ found = {}
           /\ Goto(p, "write")
        \/ \E i \in found :
             \/ /\ logs[i].status = "PROCESSED" /\ p \in Jobs
                /\ Done(p)
             \/ /\ logs[i].status # "PROCESSED" \/ p \in Operators
                /\ call' = [call EXCEPT ![p].existing = logs[i].status, ![p].at = "write"]
  /\ UNCHANGED <<incoming, sent, archive, local, logs, readings, faults, retriggers>>

\* After the log is saved a job moves the file; test-ingest answers.
Written(p, bucket) ==
  call' = [call EXCEPT ![p] =
             IF p \in Jobs
             THEN [@ EXCEPT !.at = "move", !.log = Len(logs'), !.bucket = bucket]
             ELSE Idle]

NewLog(p, status, checksum, received, duplicates) ==
  logs' = Append(logs, [file |-> call[p].file, status |-> status, checksum |-> checksum,
                        received |-> received, duplicates |-> duplicates,
                        moved |-> FALSE])

WriteDuplicate(p) ==
  /\ At(p, "write") /\ call[p].existing # "none"
  /\ NewLog(p, "DUPLICATE", None, 0, 0)
  /\ Written(p, "duplicate")
  /\ UNCHANGED <<incoming, sent, archive, local, readings, faults, retriggers>>

\* The unique index on the checksum refuses a log whose content another call has
\* logged since the lookup: the save throws.
Refused(p) ==
  /\ At(p, "write") /\ call[p].existing = "none"
  /\ Logged(call[p].sum) # {}
  /\ Done(p)
  /\ UNCHANGED <<incoming, sent, archive, local, logs, readings, faults, retriggers>>

\* Mutant: no unique index on the checksum.
FreeAnyChecksum(p) == At(p, "write") /\ call[p].existing = "none"

Free(p) == At(p, "write") /\ call[p].existing = "none" /\ Logged(call[p].sum) = {}

\* validateFile fails: no readings.
WriteFailed(p) ==
  /\ Free(p) /\ KindOf[call[p].rows] = "malformed"
  /\ NewLog(p, "FAILED", call[p].sum, Len(RowsOf[call[p].rows]), 0)
  /\ Written(p, "failed")
  /\ UNCHANGED <<incoming, sent, archive, local, readings, faults, retriggers>>

\* The rows of a file that the readings take: those of no registered meter, and
\* the first of each key that has no reading, as the unique index on sub-meter
\* and day has it, whether the pre-query or the row-by-row fallback finds out.
Accepted(rows) ==
  {i \in DOMAIN rows :
     rows[i] \in Known =>
       /\ ~ HasReading(rows[i])
       /\ \A j \in 1..(i - 1) : rows[j] # rows[i]}

\* Mutant: the rows that the fallback skips are not counted.
WriteReadingsUncounted(p) ==
  /\ Free(p) /\ KindOf[call[p].rows] = "good"
  /\ LET rows == RowsOf[call[p].rows]
     IN /\ NewLog(p, "PROCESSED", call[p].sum, Len(rows),
                  Cardinality({i \in DOMAIN rows : \E j \in 1..(i - 1) : rows[j] = rows[i]}))
        /\ readings' = readings \cup
             {[key |-> rows[i], log |-> Len(logs) + 1, row |-> i] : i \in Accepted(rows)}
  /\ Written(p, "processed")
  /\ UNCHANGED <<incoming, sent, archive, local, faults, retriggers>>

\* Mutant: the log is saved outside the transaction of the readings, which fails.
WriteReadingsApart(p) ==
  /\ Free(p) /\ KindOf[call[p].rows] = "good"
  /\ LET rows == RowsOf[call[p].rows]
         taken == Accepted(rows)
     IN /\ NewLog(p, "PROCESSED", call[p].sum, Len(rows), Len(rows) - Cardinality(taken))
        /\ \/ readings' = readings
           \/ readings' = readings \cup
                {[key |-> rows[i], log |-> Len(logs) + 1, row |-> i] : i \in taken}
  /\ Written(p, "processed")
  /\ UNCHANGED <<incoming, sent, archive, local, faults, retriggers>>

\* The transaction: the log, the readings and the count of the rows not taken.
WriteReadings(p) ==
  /\ Free(p) /\ KindOf[call[p].rows] = "good"
  /\ LET rows == RowsOf[call[p].rows]
         taken == Accepted(rows)
     IN /\ NewLog(p, "PROCESSED", call[p].sum, Len(rows), Len(rows) - Cardinality(taken))
        /\ readings' = readings \cup
             {[key |-> rows[i], log |-> Len(logs) + 1, row |-> i] : i \in taken}
  /\ Written(p, "processed")
  /\ UNCHANGED <<incoming, sent, archive, local, faults, retriggers>>

\* A cell its column cannot hold (a value that is not numeric, a day that is not
\* a date) makes the insert throw: the transaction rolls back, without a log.
Unstorable(p) ==
  /\ Free(p) /\ KindOf[call[p].rows] = "unstorable"
  /\ Done(p)
  /\ UNCHANGED <<incoming, sent, archive, local, logs, readings, faults, retriggers>>

\* move: rename by name, which fails when the file is gone; movedToFolder is
\* noted afterwards.
Rename(p) ==
  /\ At(p, "move")
  /\ LET f == call[p].file
     IN \/ /\ incoming[f] # None
           /\ incoming' = [incoming EXCEPT ![f] = None]
           /\ archive' = archive \cup
                {[bucket |-> call[p].bucket, file |-> f, content |-> incoming[f]]}
           /\ Goto(p, "note")
        \/ /\ incoming[f] = None
           /\ Done(p)
           /\ UNCHANGED <<incoming, archive>>
  /\ UNCHANGED <<sent, local, logs, readings, faults, retriggers>>

Note(p) ==
  /\ At(p, "note")
  /\ logs' = [logs EXCEPT ![call[p].log].moved = TRUE]
  /\ Done(p)
  /\ UNCHANGED <<incoming, sent, archive, local, readings, faults, retriggers>>

\* An await of p fails: the server cannot be reached, the database refuses, a
\* deadlock.  runOnce goes on with the next file.
Fault(p) ==
  /\ faults < MaxFaults
  /\ call[p] # Idle /\ call[p].file # None
  /\ faults' = faults + 1
  /\ Done(p)
  /\ UNCHANGED <<incoming, sent, archive, local, logs, readings, retriggers>>

\* The process dies; the directory, its copies and the tables remain.
Crash ==
  /\ faults < MaxFaults
  /\ faults' = faults + 1
  /\ call' = [p \in Callers |-> Idle]
  /\ UNCHANGED <<incoming, sent, archive, local, logs, readings, retriggers>>

Step(p) ==
  \/ TakeFile(p) \/ Parse(p) \/ Hash(p) \/ Lookup(p)
  \/ WriteDuplicate(p) \/ Refused(p) \/ WriteFailed(p) \/ WriteReadings(p)
  \/ Unstorable(p) \/ Rename(p) \/ Note(p) \/ EndJob(p)

Next ==
  \/ \E f \in Names : \E c \in Holds[f] : Upload(f, c)
  \/ \E p \in Jobs : StartJob(p)
  \/ \E p \in Operators, f \in Names : TestIngest(p, f)
  \/ \E p \in Callers : Step(p) \/ Fault(p)
  \/ Crash

\* The cron starts the nightly job again and again, and a call goes on; nobody
\* has to run test-ingest or run-now.
Spec ==
  /\ Init /\ [][Next]_vars
  /\ WF_vars(StartJob(Nightly))
  /\ \A p \in Callers : WF_vars(Step(p))

-----------------------------------------------------------------------------
(* Properties *)

\* "Explicit single-file retrigger: bypasses the already-processed skip, always
\* runs the file through in full": test-ingest does not end as a duplicate.
RetriggerRunsInFull ==
  [][\A p \in Operators :
       call[p] # Idle /\ call'[p] = Idle /\ logs' # logs =>
         logs'[Len(logs')].status # "DUPLICATE"]_vars

\* Every row a PROCESSED log counts as received is one of its readings or one of
\* its duplicates, whatever ran in between and whatever failed.
RowsAccounted ==
  \A i \in DOMAIN logs :
    logs[i].status = "PROCESSED" =>
      logs[i].received =
        Cardinality({r \in readings : r.log = i}) + logs[i].duplicates

\* A file that has left the incoming directory, for whatever folder and by
\* whichever job, has a log for its content, and when it could be stored each of
\* its meters has a reading for its day: no job will look at it again.
NothingLost ==
  \A a \in archive :
    /\ Logged(a.content) # {}
    /\ KindOf[a.content] = "good" =>
         \A j \in DOMAIN RowsOf[a.content] : HasReading(RowsOf[a.content][j])

\* A content is logged once, as PROCESSED or FAILED, and a registered meter has
\* one reading a day, however the jobs and test-ingest interleave.
Once ==
  /\ \A i, j \in DOMAIN logs :
       logs[i].checksum = logs[j].checksum /\ logs[i].checksum # None => i = j
  /\ \A r, s \in readings : r.key = s.key /\ r.key \in Known => r = s

\* A log says its file was moved only when the file, with the content the log is
\* of, is in duplicate/ for a DUPLICATE log and in another folder for any other,
\* whoever else tried to move it.
MovedIsThere ==
  \A i \in DOMAIN logs :
    logs[i].moved =>
      \E a \in archive :
        /\ a.file = logs[i].file
        /\ logs[i].status = "DUPLICATE" <=> a.bucket = "duplicate"
        /\ logs[i].checksum # None => a.content = logs[i].checksum

\* What holds between the steps of the calls: names are used once, so the shared
\* copy of a file is what was listed and what is archived; ...
OneContent ==
  /\ \A f \in Names :
       /\ f \notin sent => incoming[f] = None /\ local[f] = None
       /\ local[f] # None => incoming[f] \in {None, local[f]}
  /\ \A a \in archive : incoming[a.file] = None /\ local[a.file] = a.content

\* ... a call parsed and hashed that copy; when it writes, what it found is logged,
\* and when it moves, what it wrote, in the log and for the folder it names; ...
Consistent(q) ==
  /\ q.file \in Names /\ local[q.file] # None
  /\ IF q.at = "parse" THEN q.existing = "none" ELSE q.rows = local[q.file]
  /\ q.at \in {"lookup", "write", "move", "note"} => q.sum = local[q.file]
  /\ q.at \in {"hash", "lookup"} => q.existing = "none"
  /\ q.at = "write" /\ q.existing # "none" => Logged(q.sum) # {}
  /\ q.at \in {"move", "note"} =>
       /\ Logged(q.sum) # {} /\ q.log # 0
       /\ logs[q.log].file = q.file
       /\ logs[q.log].status = "DUPLICATE" <=> q.bucket = "duplicate"
       /\ logs[q.log].checksum \in {None, q.sum}
  /\ q.at = "note" =>
       [bucket |-> q.bucket, file |-> q.file, content |-> q.sum] \in archive

CallConsistent ==
  \A p \in Callers : call[p] # Idle /\ call[p].at # "next" => Consistent(call[p])

\* ... and a log with a checksum says what became of that content.
LoggedIsStored ==
  \A i \in DOMAIN logs :
    LET c == logs[i].checksum
    IN c # None =>
         /\ logs[i].status # "DUPLICATE"
         /\ KindOf[c] = "good" => \A j \in DOMAIN RowsOf[c] : HasReading(RowsOf[c][j])

IInv ==
  TypeOK /\ OneContent /\ CallConsistent /\ LoggedIsStored
  /\ RowsAccounted /\ NothingLost /\ Once /\ MovedIsThere

\* A reading, once stored, is not changed by a later file ("skip without
\* overwriting the existing value").
FirstReadingWins == [][readings \subseteq readings']_readings

\* A file that can be read and is malformed or can be stored does not stay
\* unlogged, though jobs fail and die.
EventuallyLogged ==
  \A f \in Names :
    []<>(incoming[f] # None /\ KindOf[incoming[f]] \in {"good", "malformed"}
           => Logged(incoming[f]) # {})
=============================================================================
