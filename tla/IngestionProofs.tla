--------------------------- MODULE IngestionProofs ---------------------------
(***************************************************************************)
(* Proofs about Ingestion, for any number of names, contents, jobs and     *)
(* test-ingest calls, and any number of faults and crashes.  The inductive *)
(* invariant is IInv: a call holds the one content its name ever has       *)
(* (OneContent), what it found or wrote is in the log (CallConsistent), and*)
(* a log with a checksum vouches for its readings (LoggedIsStored).  Most  *)
(* actions change the calls only; the rest only add to the logs, the       *)
(* readings and the archive, which Grown says.                             *)
(***************************************************************************)
EXTENDS Ingestion, FiniteSetTheorems, WellFoundedInduction, TLAPS

-----------------------------------------------------------------------------
(* Calls.                                                                  *)

LEMMA FreshIsCall ==
  ASSUME NEW todo \in SUBSET Names
  PROVE  /\ Fresh(todo) \in Call /\ Fresh(todo).at = "next" /\ Fresh(todo).log = 0
         /\ Fresh(todo) # Idle
BY DEF Fresh, Call, Steps, Buckets, LogStatus, Idle

LEMMA CallIs ==
  ASSUME TypeOK, NEW p \in Callers, call[p] # Idle
  PROVE  call[p] \in Call /\ call[p].at \in Steps /\ call[p].log \in 0..Len(logs)
BY DEF TypeOK, Call

LEMMA NotIdle == \A q \in Call : q # Idle
BY DEF Call, Idle, Steps

\* A step of one call that leaves it as x.
Goes(p, x) == call' = [call EXCEPT ![p] = x]

LEMMA GoesCalls ==
  ASSUME TypeOK, NEW p \in Callers, NEW x \in {Idle} \cup Call, Goes(p, x)
  PROVE  /\ call' \in [Callers -> {Idle} \cup Call] /\ call'[p] = x
         /\ \A q \in Callers : q # p => call'[q] = call[q]
BY DEF TypeOK, Goes

\* A step that ends p's work on a file.
LEMMA DoneGoes ==
  ASSUME TypeOK, NEW p \in Callers, call[p] # Idle, Done(p)
  PROVE  \E x \in {Idle} \cup Call :
           Goes(p, x) /\ (x = Idle \/ (x.at = "next" /\ x.log = 0))
<1>1. call[p].todo \in SUBSET Names BY CallIs DEF Call
<1>2. CASE p \in Jobs
  <2>1. Goes(p, Fresh(call[p].todo)) BY <1>2 DEF Done, Goes
  <2>2. PICK x : x = Fresh(call[p].todo) OBVIOUS
  <2>3. x \in Call /\ x.at = "next" /\ x.log = 0 BY <2>2, <1>1, FreshIsCall
  <2>4. Goes(p, x) BY <2>1, <2>2 DEF Goes
  <2> QED BY <2>3, <2>4
<1>3. CASE p \notin Jobs
  <2>1. Goes(p, Idle) BY <1>3 DEF Done, Goes
  <2> QED BY <2>1
<1> QED BY <1>2, <1>3

\* The tables a call reads only grow: logs keep their file, status and checksum.
Grown ==
  /\ Len(logs') >= Len(logs)
  /\ \A i \in DOMAIN logs :
       /\ logs'[i].file = logs[i].file /\ logs'[i].status = logs[i].status
       /\ logs'[i].checksum = logs[i].checksum
  /\ archive \subseteq archive' /\ readings \subseteq readings'
  /\ \A f \in Names : local[f] # None => local'[f] = local[f]

LEMMA GrownLogged ==
  ASSUME TypeOK, TypeOK', Grown, NEW c, Logged(c) # {}
  PROVE  Logged(c)' # {}
<1>1. PICK i \in DOMAIN logs : logs[i].checksum = c BY DEF Logged
<1>2. i \in DOMAIN logs' BY <1>1 DEF TypeOK, Grown
<1>3. logs'[i].checksum = c BY <1>1 DEF Grown
<1> QED BY <1>2, <1>3 DEF Logged

LEMMA GrownReading ==
  ASSUME Grown, NEW k, HasReading(k)
  PROVE  HasReading(k)'
BY DEF Grown, HasReading

LEMMA GrownConsistent ==
  ASSUME TypeOK, TypeOK', Grown, NEW q \in Call, q.log \in 0..Len(logs), Consistent(q)
  PROVE  Consistent(q)'
<1>1. q.file \in Names /\ local'[q.file] = local[q.file] BY DEF Consistent, Grown
<1>2. ASSUME Logged(q.sum) # {} PROVE Logged(q.sum)' # {} BY <1>2, GrownLogged
<1>3. ASSUME q.log # 0
      PROVE  /\ logs'[q.log].file = logs[q.log].file
             /\ logs'[q.log].status = logs[q.log].status
             /\ logs'[q.log].checksum = logs[q.log].checksum
  <2>1. q.log \in DOMAIN logs BY <1>3 DEF TypeOK
  <2> QED BY <2>1 DEF Grown
<1>4. archive \subseteq archive' BY DEF Grown
<1> QED BY <1>1, <1>2, <1>3, <1>4 DEF Consistent

\* A step of p that makes the tables grow keeps the other calls consistent.
LEMMA OthersConsistent ==
  ASSUME TypeOK, TypeOK', CallConsistent, Grown, NEW p \in Callers,
         NEW x \in {Idle} \cup Call, Goes(p, x),
         x = Idle \/ x.at = "next" \/ Consistent(x)'
  PROVE  CallConsistent'
<1>1. ASSUME NEW q \in Callers, NEW y, y = call'[q], y # Idle, y.at # "next"
      PROVE  Consistent(y)'
  <2>1. CASE q = p BY <1>1, <2>1, GoesCalls
  <2>2. CASE q # p
    <3>1. y = call[q] BY <1>1, <2>2, GoesCalls
    <3>2. y \in Call /\ y.log \in 0..Len(logs) BY <1>1, <3>1, CallIs
    <3>3. Consistent(y) BY <1>1, <3>1 DEF CallConsistent
    <3> QED BY <3>2, <3>3, GrownConsistent
  <2> QED BY <2>1, <2>2
<1> QED BY <1>1 DEF CallConsistent, Consistent

-----------------------------------------------------------------------------
(* The inductive invariant.                                                *)

THEOREM InitIInv == Init => IInv
<1> SUFFICES ASSUME Init PROVE IInv OBVIOUS
<1>1. logs = <<>> /\ DOMAIN logs = {} BY DEF Init
<1>2. TypeOK
  <2>1. logs \in Seq(Log) BY <1>1
  <2>2. Len(logs) = 0 BY <1>1
  <2> QED BY <2>1, <2>2, IngestionAssumption DEF Init, TypeOK
<1>3. OneContent /\ CallConsistent BY DEF Init, OneContent, CallConsistent
<1> QED BY <1>1, <1>2, <1>3
    DEF IInv, Init, LoggedIsStored, RowsAccounted, NothingLost, Once, MovedIsThere

Counters == faults' \in 0..MaxFaults /\ retriggers' \in 0..MaxRetriggers

\* A step of one call that leaves the files and the tables alone.
LEMMA CallKeeps ==
  ASSUME IInv, Counters, NEW p \in Callers, NEW x \in {Idle} \cup Call, Goes(p, x),
         \/ x = Idle
         \/ x.at = "next" /\ x.log = 0
         \/ Consistent(x) /\ x.log \in 0..Len(logs),
         UNCHANGED <<incoming, sent, archive, local, logs, readings>>
  PROVE  IInv'
<1>1. TypeOK /\ CallConsistent BY DEF IInv
<1>2. TypeOK'
  <2>1. ASSUME NEW q \in Callers, call'[q] # Idle PROVE call'[q].log \in 0..Len(logs)
    <3>1. CASE q = p BY <3>1, <2>1, <1>1, GoesCalls DEF TypeOK
    <3>2. CASE q # p BY <3>2, <2>1, <1>1, GoesCalls DEF TypeOK
    <3> QED BY <3>1, <3>2
  <2>2. call' \in [Callers -> {Idle} \cup Call] BY <1>1, GoesCalls
  <2> QED BY <2>1, <2>2, <1>1 DEF TypeOK, Counters
<1>3. Grown BY <1>1 DEF Grown, TypeOK
<1>4. x = Idle \/ x.at = "next" \/ Consistent(x)' BY DEF Consistent, Logged
<1>5. CallConsistent' BY <1>1, <1>2, <1>3, <1>4, OthersConsistent
<1>6. (OneContent /\ LoggedIsStored /\ RowsAccounted /\ NothingLost /\ Once /\ MovedIsThere)'
  BY DEF IInv, OneContent, LoggedIsStored, RowsAccounted, NothingLost, Once,
     MovedIsThere, HasReading, Logged
<1> QED BY <1>2, <1>5, <1>6 DEF IInv

LEMMA DoneKeeps ==
  ASSUME IInv, Counters, NEW p \in Callers, call[p] # Idle, Done(p),
         UNCHANGED <<incoming, sent, archive, local, logs, readings>>
  PROVE  IInv'
<1>1. TypeOK BY DEF IInv
<1>2. PICK x \in {Idle} \cup Call : Goes(p, x) /\ (x = Idle \/ (x.at = "next" /\ x.log = 0))
  BY <1>1, DoneGoes
<1> QED BY <1>2, CallKeeps

\* What a call holds is consistent, between two of its steps on a file.
LEMMA HoldsConsistent ==
  ASSUME IInv, NEW p \in Callers, call[p] # Idle, call[p].at # "next"
  PROVE  call[p] \in Call /\ call[p].log \in 0..Len(logs) /\ Consistent(call[p])
BY CallIs DEF IInv, CallConsistent

-----------------------------------------------------------------------------
(* Steps that leave the files and the tables alone.                        *)

LEMMA StartJobKeeps ==
  ASSUME IInv, NEW p \in Jobs, StartJob(p)
  PROVE  IInv'
<1> DEFINE todo == {f \in Names : incoming[f] # None}
<1>1. PICK x : x = Fresh(todo) OBVIOUS
<1>2. x \in Call /\ x.at = "next" /\ x.log = 0
  <2>1. todo \in SUBSET Names OBVIOUS
  <2> HIDE DEF todo
  <2> QED BY <2>1, <1>1, FreshIsCall
<1>3. Goes(p, x) BY <1>1 DEF StartJob, Goes
<1>4. p \in Callers BY DEF Callers
<1>5. Counters BY DEF IInv, TypeOK, StartJob, Counters
<1> QED BY <1>2, <1>3, <1>4, <1>5, CallKeeps DEF StartJob

LEMMA EndJobKeeps ==
  ASSUME IInv, NEW p \in Callers, EndJob(p)
  PROVE  IInv'
<1>1. Goes(p, Idle) BY DEF EndJob, Goes
<1>2. Counters BY DEF IInv, TypeOK, EndJob, Counters
<1> QED BY <1>1, <1>2, CallKeeps DEF EndJob

LEMMA CrashKeeps ==
  ASSUME IInv, Crash
  PROVE  IInv'
<1>1. TypeOK' BY IngestionAssumption DEF IInv, TypeOK, Crash
<1>2. CallConsistent' BY DEF Crash, CallConsistent
<1>3. (OneContent /\ LoggedIsStored /\ RowsAccounted /\ NothingLost /\ Once /\ MovedIsThere)'
  BY DEF Crash, IInv, OneContent, LoggedIsStored, RowsAccounted, NothingLost, Once,
     MovedIsThere, HasReading, Logged
<1> QED BY <1>1, <1>2, <1>3 DEF IInv

LEMMA FaultKeeps ==
  ASSUME IInv, NEW p \in Callers, Fault(p)
  PROVE  IInv'
<1>1. Counters BY IngestionAssumption DEF IInv, TypeOK, Fault, Counters
<1> QED BY <1>1, DoneKeeps DEF Fault

LEMMA ParseKeeps ==
  ASSUME IInv, NEW p \in Callers, Parse(p)
  PROVE  IInv'
<1>1. Counters BY DEF IInv, TypeOK, Parse, Counters
<1>2. call[p] # Idle /\ call[p].at = "parse" BY DEF Parse, At
<1>3. call[p] \in Call /\ call[p].log \in 0..Len(logs) /\ Consistent(call[p])
  BY <1>2, HoldsConsistent
<1>4. CASE KindOf[local[call[p].file]] = "unreadable"
  <2>1. Done(p) BY <1>4 DEF Parse
  <2> QED BY <2>1, <1>1, <1>2, DoneKeeps DEF Parse
<1>5. CASE KindOf[local[call[p].file]] # "unreadable"
  <2>1. PICK x : x = [call[p] EXCEPT !.rows = local[call[p].file], !.at = "hash"] OBVIOUS
  <2>2. Goes(p, x) BY <1>5, <2>1 DEF Parse, Goes, IInv, TypeOK
  <2>3. local[call[p].file] \in Contents \cup {None}
    BY <1>3 DEF Consistent, IInv, TypeOK
  <2>4. x \in Call BY <2>1, <2>3, <1>3 DEF Call, Steps
  <2>5. /\ x.log = call[p].log /\ x.file = call[p].file /\ x.at = "hash"
        /\ x.existing = call[p].existing /\ x.rows = local[x.file]
    BY <2>1, <1>3 DEF Call
  <2>6. Consistent(x) BY <2>5, <1>2, <1>3 DEF Consistent
  <2> QED BY <2>2, <2>4, <2>5, <2>6, <1>1, <1>3, CallKeeps DEF Parse
<1> QED BY <1>4, <1>5

LEMMA HashKeeps ==
  ASSUME IInv, NEW p \in Callers, Hash(p)
  PROVE  IInv'
<1>1. Counters BY DEF IInv, TypeOK, Hash, Counters
<1>2. call[p] # Idle /\ call[p].at = "hash" BY DEF Hash, At
<1>3. call[p] \in Call /\ call[p].log \in 0..Len(logs) /\ Consistent(call[p])
  BY <1>2, HoldsConsistent
<1>4. PICK x : x = [call[p] EXCEPT !.sum = local[call[p].file], !.at = "lookup"] OBVIOUS
<1>5. Goes(p, x) BY <1>4 DEF Hash, Goes, IInv, TypeOK
<1>6. local[call[p].file] \in Contents \cup {None}
  BY <1>3 DEF Consistent, IInv, TypeOK
<1>7. x \in Call BY <1>4, <1>6, <1>3 DEF Call, Steps
<1>8. /\ x.log = call[p].log /\ x.file = call[p].file /\ x.rows = call[p].rows
      /\ x.at = "lookup" /\ x.sum = local[x.file] /\ x.existing = call[p].existing
  BY <1>4, <1>3 DEF Call
<1>9. Consistent(x) BY <1>8, <1>2, <1>3 DEF Consistent
<1> QED BY <1>5, <1>7, <1>8, <1>9, <1>1, <1>3, CallKeeps DEF Hash

LEMMA LookupKeeps ==
  ASSUME IInv, NEW p \in Callers, Lookup(p)
  PROVE  IInv'
<1>1. Counters BY DEF IInv, TypeOK, Lookup, Counters
<1>2. call[p] # Idle /\ call[p].at = "lookup" BY DEF Lookup, At
<1>3. call[p] \in Call /\ call[p].log \in 0..Len(logs) /\ Consistent(call[p])
  BY <1>2, HoldsConsistent
<1>4. CASE Done(p) BY <1>4, <1>1, <1>2, DoneKeeps DEF Lookup
<1>5. ASSUME NEW s \in {"none"} \cup LogStatus, NEW x,
             x = [call[p] EXCEPT !.existing = s, !.at = "write"], Goes(p, x),
             s # "none" => Logged(call[p].sum) # {}
      PROVE  IInv'
  <2>1. x \in Call BY <1>3, <1>5 DEF Call, Steps
  <2>2. /\ x.log = call[p].log /\ x.file = call[p].file /\ x.rows = call[p].rows
        /\ x.at = "write" /\ x.sum = call[p].sum /\ x.existing = s
    BY <1>5, <1>3 DEF Call
  <2>3. Consistent(x) BY <2>2, <1>2, <1>3, <1>5 DEF Consistent
  <2> QED BY <2>1, <2>2, <2>3, <1>5, <1>1, <1>3, CallKeeps DEF Lookup
<1>6. CASE Goto(p, "write")
  <2>1. call[p].existing = "none" BY <1>2, <1>3 DEF Consistent
  <2>2. PICK x : x = [call[p] EXCEPT !.existing = "none", !.at = "write"] OBVIOUS
  <2>3. Goes(p, x) BY <2>1, <2>2, <1>3, <1>6 DEF Goto, Goes, Call, IInv, TypeOK
  <2> QED BY <2>2, <2>3, <1>5
<1>7. CASE \E i \in Logged(call[p].sum) :
             call' = [call EXCEPT ![p].existing = logs[i].status, ![p].at = "write"]
  <2>1. PICK i \in Logged(call[p].sum) :
          call' = [call EXCEPT ![p].existing = logs[i].status, ![p].at = "write"]
    BY <1>7
  <2>2. PICK x : x = [call[p] EXCEPT !.existing = logs[i].status, !.at = "write"] OBVIOUS
  <2>3. Goes(p, x) BY <2>1, <2>2 DEF Goes, IInv, TypeOK
  <2>4. logs[i].status \in LogStatus
    <3>1. i \in DOMAIN logs /\ logs \in Seq(Log) BY <2>1 DEF Logged, IInv, TypeOK
    <3>2. logs[i] \in Log BY <3>1
    <3> QED BY <3>2 DEF Log
  <2> QED BY <2>2, <2>3, <2>4, <1>5
<1> QED BY <1>4, <1>6, <1>7 DEF Lookup

LEMMA RefusedKeeps ==
  ASSUME IInv, NEW p \in Callers, Refused(p) \/ Unstorable(p)
  PROVE  IInv'
<1>1. Counters BY DEF IInv, TypeOK, Refused, Unstorable, Counters
<1>2. call[p] # Idle /\ Done(p) BY DEF Refused, Unstorable, Free, At
<1> QED BY <1>1, <1>2, DoneKeeps DEF Refused, Unstorable

-----------------------------------------------------------------------------
(* Files: a new one, a copy of one, and one moved.                         *)

LEMMA UploadKeeps ==
  ASSUME IInv, NEW f \in Names, NEW c \in Holds[f], Upload(f, c)
  PROVE  IInv'
<1>1. c \in Contents BY IngestionAssumption
<1>2. TypeOK' BY <1>1 DEF IInv, TypeOK, Upload
<1>3. OneContent'
  <2>1. \A a \in archive : a.file # f
    <3>1. \A a \in archive : a \in Archived BY DEF IInv, TypeOK
    <3>2. \A a \in archive : a.content \in Contents BY <3>1 DEF Archived
    <3> QED BY <3>2, NoneAssumption DEF Upload, IInv, OneContent
  <2>2. \A g \in Names : incoming'[g] = IF g = f THEN c ELSE incoming[g]
    BY DEF Upload, IInv, TypeOK
  <2>3. local[f] = None BY DEF Upload, IInv, OneContent
  <2>4. \A a \in archive : a.file \in Names BY DEF IInv, TypeOK, Archived
  <2> QED BY <2>1, <2>2, <2>3, <2>4 DEF Upload, IInv, OneContent
<1>4. (CallConsistent /\ LoggedIsStored /\ RowsAccounted /\ NothingLost /\ Once /\ MovedIsThere)'
  BY DEF Upload, IInv, CallConsistent, Consistent, LoggedIsStored, RowsAccounted,
     NothingLost, Once, MovedIsThere, HasReading, Logged
<1> QED BY <1>2, <1>3, <1>4 DEF IInv

LEMMA DownloadKeeps ==
  ASSUME IInv, Counters, NEW p \in Callers, NEW f \in Names, NEW todo \in SUBSET Names,
         Download(p, f, todo), UNCHANGED <<incoming, sent, archive, logs, readings>>
  PROVE  IInv'
<1>1. TypeOK /\ CallConsistent /\ OneContent BY DEF IInv
<1>2. CASE incoming[f] = None
  <2>1. UNCHANGED local BY <1>2 DEF Download
  <2>2. PICK x : x = IF p \in Jobs THEN Fresh(todo) ELSE Idle OBVIOUS
  <2>3. Goes(p, x) BY <1>2, <2>2 DEF Download, Goes
  <2>4. x \in {Idle} \cup Call /\ (x = Idle \/ (x.at = "next" /\ x.log = 0))
    BY <2>2, FreshIsCall
  <2> QED BY <2>1, <2>3, <2>4, CallKeeps
<1>3. CASE incoming[f] # None
  <2>1. local' = [local EXCEPT ![f] = incoming[f]] BY <1>3 DEF Download
  <2>2. PICK x : x = [Fresh(todo) EXCEPT !.at = "parse", !.file = f] OBVIOUS
  <2>3. Goes(p, x) BY <1>3, <2>2 DEF Download, Goes
  <2>4. x \in Call /\ x.at = "parse" /\ x.file = f /\ x.existing = "none" /\ x.log = 0
    BY <2>2 DEF Fresh, Call, Steps, Buckets, LogStatus
  <2>5. \A g \in Names : local'[g] = IF g = f THEN incoming[f] ELSE local[g]
    BY <2>1, <1>1 DEF TypeOK
  <2>6. Grown
    <3>1. local[f] # None => local[f] = incoming[f] BY <1>1, <1>3 DEF OneContent
    <3> QED BY <2>5, <3>1, <1>1 DEF Grown, TypeOK
  <2>7. TypeOK'
    <3>1. ASSUME NEW q \in Callers, call'[q] # Idle PROVE call'[q].log \in 0..Len(logs)
      <4>1. CASE q = p BY <4>1, <3>1, <2>3, <2>4, <1>1, GoesCalls DEF TypeOK
      <4>2. CASE q # p BY <4>2, <3>1, <2>3, <2>4, <1>1, GoesCalls DEF TypeOK
      <4> QED BY <4>1, <4>2
    <3>2. call' \in [Callers -> {Idle} \cup Call] BY <2>3, <2>4, <1>1, GoesCalls
    <3> QED BY <3>1, <3>2, <2>1, <1>1 DEF TypeOK, Counters
  <2>8. Consistent(x)' BY <2>4, <2>5, <1>3 DEF Consistent
  <2>9. CallConsistent' BY <2>3, <2>4, <2>6, <2>7, <2>8, <1>1, OthersConsistent
  <2>10. OneContent'
    <3>1. f \in sent BY <1>1, <1>3 DEF OneContent
    <3>2. \A a \in archive : a.file \in Names /\ a.file # f
      BY <1>1, <1>3 DEF OneContent, TypeOK, Archived
    <3> QED BY <3>1, <3>2, <2>5, <1>1 DEF OneContent
  <2>11. (LoggedIsStored /\ RowsAccounted /\ NothingLost /\ Once /\ MovedIsThere)'
    BY DEF IInv, LoggedIsStored, RowsAccounted, NothingLost, Once, MovedIsThere,
       HasReading, Logged
  <2> QED BY <2>7, <2>9, <2>10, <2>11 DEF IInv
<1> QED BY <1>2, <1>3

LEMMA TakeFileKeeps ==
  ASSUME IInv, NEW p \in Callers, TakeFile(p)
  PROVE  IInv'
<1>1. Counters BY DEF IInv, TypeOK, TakeFile, Counters
<1>2. call[p] \in Call BY CallIs DEF TakeFile, At, IInv
<1>3. call[p].todo \in SUBSET Names BY <1>2 DEF Call
<1>4. PICK f \in call[p].todo : Download(p, f, call[p].todo \ {f}) BY DEF TakeFile
<1>5. \A todo : todo = call[p].todo \ {f} => todo \in SUBSET Names /\ Download(p, f, todo)
  BY <1>3, <1>4
<1> QED BY <1>1, <1>3, <1>4, <1>5, DownloadKeeps DEF TakeFile

LEMMA TestIngestKeeps ==
  ASSUME IInv, NEW p \in Operators, NEW f \in Names, TestIngest(p, f)
  PROVE  IInv'
<1>1. Counters BY IngestionAssumption DEF IInv, TypeOK, TestIngest, Counters
<1>2. p \in Callers BY DEF Callers
<1> QED BY <1>1, <1>2, DownloadKeeps DEF TestIngest

-----------------------------------------------------------------------------
(* The log and its readings.                                               *)

\* What a log to be appended must say for the invariant to hold of it.
Vouches(e) ==
  /\ e \in Log /\ ~ e.moved
  /\ e.checksum # None =>
       /\ e.status # "DUPLICATE" /\ Logged(e.checksum) = {}
       /\ KindOf[e.checksum] = "good" =>
            \A j \in DOMAIN RowsOf[e.checksum] : HasReading(RowsOf[e.checksum][j])'
  /\ e.status = "PROCESSED" =>
       e.received = Cardinality({r \in readings' : r.log = Len(logs) + 1}) + e.duplicates

LEMMA AppendKeeps ==
  ASSUME IInv, NEW p \in Callers, NEW e, Vouches(e), logs' = Append(logs, e),
         NEW x \in {Idle} \cup Call, Goes(p, x),
         \/ x = Idle
         \/ /\ x.at = "move" /\ x.log = Len(logs') /\ x.file = e.file
            /\ x.file \in Names /\ local[x.file] # None
            /\ x.rows = local[x.file] /\ x.sum = local[x.file]
            /\ e.checksum \in {None, x.sum}
            /\ e.checksum = None => Logged(x.sum) # {}
            /\ e.status = "DUPLICATE" <=> x.bucket = "duplicate",
         NEW S \in SUBSET Reading, readings' = readings \cup S,
         \A r \in S : r.log = Len(logs) + 1,
         \A r, s \in S : r.key = s.key /\ r.key \in Known => r = s,
         \A r \in S : r.key \in Known => ~ HasReading(r.key),
         UNCHANGED <<incoming, sent, archive, local, faults, retriggers>>
  PROVE  IInv'
<1>1. TypeOK /\ CallConsistent /\ logs \in Seq(Log) /\ e \in Log
  BY DEF IInv, TypeOK, Vouches
<1>2. /\ Len(logs) \in Nat /\ Len(logs') = Len(logs) + 1 /\ logs' \in Seq(Log)
      /\ logs'[Len(logs')] = e /\ DOMAIN logs = 1..Len(logs)
      /\ DOMAIN logs' = 1..Len(logs')
      /\ \A i \in DOMAIN logs : logs'[i] = logs[i]
  BY <1>1
<1>3. Grown BY <1>1, <1>2 DEF Grown, TypeOK
<1>4. TypeOK'
  <2>1. ASSUME NEW q \in Callers, call'[q] # Idle PROVE call'[q].log \in 0..Len(logs')
    <3>1. CASE q = p BY <3>1, <2>1, <1>1, <1>2, GoesCalls
    <3>2. CASE q # p BY <3>2, <2>1, <1>1, <1>2, GoesCalls DEF TypeOK
    <3> QED BY <3>1, <3>2
  <2>2. call' \in [Callers -> {Idle} \cup Call] BY <1>1, GoesCalls
  <2>3. \A r \in readings' : r.log \in DOMAIN logs' BY <1>1, <1>2 DEF TypeOK
  <2> QED BY <2>1, <2>2, <2>3, <1>1, <1>2 DEF TypeOK
<1>5. CallConsistent'
  <2>1. ASSUME x # Idle PROVE Consistent(x)'
    <3>1. Logged(x.sum)' # {}
      <4>1. CASE e.checksum = None BY <2>1, <4>1, <1>1, <1>3, <1>4, GrownLogged
      <4>2. CASE e.checksum # None
        <5>1. Len(logs') \in DOMAIN logs' /\ logs'[Len(logs')].checksum = x.sum
          BY <2>1, <4>2, <1>2
        <5> QED BY <5>1 DEF Logged
      <4> QED BY <4>1, <4>2
    <3>2. x.log # 0 /\ logs'[x.log] = e BY <2>1, <1>2
    <3>3. x.at = "move" BY <2>1
    <3>4. x.file \in Names /\ local'[x.file] # None BY <2>1
    <3>5. x.rows = local'[x.file] /\ x.sum = local'[x.file] BY <2>1
    <3>6. logs'[x.log].file = x.file /\ logs'[x.log].checksum \in {None, x.sum}
      BY <2>1, <3>2
    <3>7. logs'[x.log].status = "DUPLICATE" <=> x.bucket = "duplicate" BY <2>1, <3>2
    <3> QED BY <3>1, <3>2, <3>3, <3>4, <3>5, <3>6, <3>7 DEF Consistent
  <2> QED BY <2>1, <1>1, <1>3, <1>4, OthersConsistent
<1>6. OneContent' BY DEF IInv, OneContent
<1>7. LoggedIsStored'
  <2>1. ASSUME NEW i \in DOMAIN logs', NEW c, c = logs'[i].checksum, c # None
        PROVE  /\ logs'[i].status # "DUPLICATE"
               /\ KindOf[c] = "good" => \A j \in DOMAIN RowsOf[c] : HasReading(RowsOf[c][j])'
    <3>1. CASE i = Len(logs') BY <2>1, <3>1, <1>2 DEF Vouches
    <3>2. CASE i # Len(logs')
      <4>1. i \in DOMAIN logs /\ logs'[i] = logs[i] BY <2>1, <3>2, <1>2
      <4>2. /\ logs[i].status # "DUPLICATE"
            /\ KindOf[c] = "good" => \A j \in DOMAIN RowsOf[c] : HasReading(RowsOf[c][j])
        BY <2>1, <4>1 DEF IInv, LoggedIsStored
      <4>3. \A k : HasReading(k) => HasReading(k)' BY DEF HasReading
      <4> QED BY <4>1, <4>2, <4>3
    <3> QED BY <3>1, <3>2
  <2> QED BY <2>1 DEF LoggedIsStored, HasReading
<1>8. RowsAccounted'
  <2> SUFFICES ASSUME NEW i \in DOMAIN logs', logs'[i].status = "PROCESSED"
               PROVE  logs'[i].received =
                        Cardinality({r \in readings' : r.log = i}) + logs'[i].duplicates
    BY DEF RowsAccounted
  <2>1. CASE i = Len(logs') BY <2>1, <1>2 DEF Vouches
  <2>2. CASE i # Len(logs')
    <3>1. i \in DOMAIN logs /\ logs'[i] = logs[i] /\ i # Len(logs) + 1 BY <2>2, <1>2
    <3>2. {r \in readings' : r.log = i} = {r \in readings : r.log = i} BY <3>1
    <3> QED BY <3>1, <3>2 DEF IInv, RowsAccounted
  <2> QED BY <2>1, <2>2
<1>9. NothingLost'
  <2>1. \A c : Logged(c) # {} => Logged(c)' # {} BY <1>1, <1>3, <1>4, GrownLogged
  <2>2. \A k : HasReading(k) => HasReading(k)' BY DEF HasReading
  <2> QED BY <2>1, <2>2 DEF IInv, NothingLost
<1>10. Once'
  <2>1. ASSUME NEW i \in DOMAIN logs', NEW j \in DOMAIN logs',
               logs'[i].checksum = logs'[j].checksum, logs'[i].checksum # None
        PROVE  i = j
    <3>1. \A k \in DOMAIN logs : e.checksum # None => logs[k].checksum # e.checksum
      BY DEF Vouches, Logged
    <3>2. \A k, l \in DOMAIN logs :
            logs[k].checksum = logs[l].checksum /\ logs[k].checksum # None => k = l
      BY DEF IInv, Once
    <3> QED BY <2>1, <3>1, <3>2, <1>2
  <2>2. \A r, s \in readings' : r.key = s.key /\ r.key \in Known => r = s
    BY DEF IInv, Once, HasReading
  <2> QED BY <2>1, <2>2 DEF Once
<1>11. MovedIsThere'
  <2> SUFFICES ASSUME NEW i \in DOMAIN logs', logs'[i].moved
               PROVE  i \in DOMAIN logs /\ logs'[i] = logs[i]
    BY DEF IInv, MovedIsThere
  <2>1. i # Len(logs') BY <1>2 DEF Vouches
  <2> QED BY <2>1, <1>2
<1> QED BY <1>4, <1>5, <1>6, <1>7, <1>8, <1>9, <1>10, <1>11 DEF IInv

\* How a call goes on once its log e is appended.
LEMMA WrittenGoes ==
  ASSUME IInv, NEW p \in Callers, At(p, "write"), NEW e \in Log, logs' = Append(logs, e),
         NEW bucket \in Buckets, Written(p, bucket)
  PROVE  \E x \in {Idle} \cup Call :
           /\ Goes(p, x)
           /\ \/ x = Idle
              \/ /\ x.at = "move" /\ x.log = Len(logs') /\ x.file = call[p].file
                 /\ x.rows = call[p].rows /\ x.sum = call[p].sum /\ x.bucket = bucket
<1>1. TypeOK /\ logs \in Seq(Log) BY DEF IInv, TypeOK
<1>2. call[p] \in Call BY <1>1, CallIs DEF At
<1>3. Len(logs') \in Nat BY <1>1
<1>4. CASE p \in Jobs
  <2>1. PICK x : x = [call[p] EXCEPT !.at = "move", !.log = Len(logs'), !.bucket = bucket]
    OBVIOUS
  <2>2. Goes(p, x) BY <1>1, <1>4, <2>1 DEF Written, Goes, TypeOK
  <2>3. x \in Call BY <2>1, <1>2, <1>3 DEF Call, Steps
  <2>4. /\ x.at = "move" /\ x.log = Len(logs') /\ x.file = call[p].file
        /\ x.rows = call[p].rows /\ x.sum = call[p].sum /\ x.bucket = bucket
    BY <2>1, <1>2 DEF Call
  <2> QED BY <2>2, <2>3, <2>4
<1>5. CASE p \notin Jobs
  <2>1. Goes(p, Idle) BY <1>5 DEF Written, Goes
  <2> QED BY <2>1
<1> QED BY <1>4, <1>5

LEMMA WriteDuplicateKeeps ==
  ASSUME IInv, NEW p \in Callers, WriteDuplicate(p)
  PROVE  IInv'
<1>1. At(p, "write") /\ call[p].existing # "none" BY DEF WriteDuplicate
<1>2. call[p] \in Call /\ Consistent(call[p]) BY <1>1, HoldsConsistent DEF At
<1>3. PICK e : e = [file |-> call[p].file, status |-> "DUPLICATE", checksum |-> None,
                    received |-> 0, duplicates |-> 0, moved |-> FALSE]
  OBVIOUS
<1>4. logs' = Append(logs, e) BY <1>3 DEF WriteDuplicate, NewLog
<1>5. call[p].file \in Names BY <1>2 DEF Consistent
<1>6. e \in Log /\ Vouches(e) BY <1>3, <1>5 DEF Vouches, Log, LogStatus
<1>7. PICK x \in {Idle} \cup Call :
        /\ Goes(p, x)
        /\ \/ x = Idle
           \/ /\ x.at = "move" /\ x.log = Len(logs') /\ x.file = call[p].file
              /\ x.rows = call[p].rows /\ x.sum = call[p].sum /\ x.bucket = "duplicate"
  BY <1>1, <1>4, <1>6, WrittenGoes DEF WriteDuplicate, Buckets
<1>8. /\ local[call[p].file] # None /\ call[p].rows = local[call[p].file]
      /\ call[p].sum = local[call[p].file] /\ Logged(call[p].sum) # {}
  BY <1>1, <1>2 DEF At, Consistent
<1>9. e.file = call[p].file /\ e.checksum = None /\ e.status = "DUPLICATE" BY <1>3
<1>10. PICK S \in SUBSET Reading : S = {} OBVIOUS
<1>11. readings' = readings \cup S BY <1>10 DEF WriteDuplicate
<1>12. \/ x = Idle
       \/ /\ x.at = "move" /\ x.log = Len(logs') /\ x.file = e.file
          /\ x.file \in Names /\ local[x.file] # None
          /\ x.rows = local[x.file] /\ x.sum = local[x.file]
          /\ e.checksum \in {None, x.sum}
          /\ e.checksum = None => Logged(x.sum) # {}
          /\ e.status = "DUPLICATE" <=> x.bucket = "duplicate"
  BY <1>5, <1>7, <1>8, <1>9
<1>13. UNCHANGED <<incoming, sent, archive, local, faults, retriggers>> BY DEF WriteDuplicate
<1> QED BY <1>4, <1>6, <1>7, <1>10, <1>11, <1>12, <1>13, AppendKeeps

\* What a call that is free to write holds.
LEMMA FreeHolds ==
  ASSUME IInv, NEW p \in Callers, Free(p)
  PROVE  /\ call[p] \in Call /\ call[p].file \in Names
         /\ local[call[p].file] \in Contents
         /\ call[p].rows = local[call[p].file] /\ call[p].sum = local[call[p].file]
         /\ Logged(call[p].sum) = {}
<1>1. call[p] \in Call /\ Consistent(call[p]) BY HoldsConsistent DEF Free, At
<1>2. local[call[p].file] \in Contents \cup {None} BY <1>1 DEF Consistent, IInv, TypeOK
<1> QED BY <1>1, <1>2 DEF Free, At, Consistent

LEMMA WriteFailedKeeps ==
  ASSUME IInv, NEW p \in Callers, WriteFailed(p)
  PROVE  IInv'
<1>1. Free(p) /\ At(p, "write") BY DEF WriteFailed, Free
<1> DEFINE c == call[p].rows
<1>2. /\ call[p] \in Call /\ call[p].file \in Names /\ c \in Contents
      /\ local[call[p].file] = c /\ call[p].sum = c /\ Logged(c) = {}
  BY <1>1, FreeHolds
<1>3. KindOf[c] = "malformed" BY DEF WriteFailed
<1>4. PICK e : e = [file |-> call[p].file, status |-> "FAILED", checksum |-> c,
                    received |-> Len(RowsOf[c]), duplicates |-> 0, moved |-> FALSE]
  OBVIOUS
<1>5. logs' = Append(logs, e) BY <1>2, <1>4 DEF WriteFailed, NewLog
<1>6. Len(RowsOf[c]) \in Nat BY <1>2, IngestionAssumption
<1>7. e \in Log BY <1>2, <1>4, <1>6 DEF Log, LogStatus
<1>8. /\ e.file = call[p].file /\ e.checksum = c /\ e.status = "FAILED" /\ ~ e.moved
      /\ e.checksum # None
  BY <1>2, <1>4, NoneAssumption
<1>9. Vouches(e) BY <1>2, <1>3, <1>7, <1>8 DEF Vouches
<1>10. PICK x \in {Idle} \cup Call :
        /\ Goes(p, x)
        /\ \/ x = Idle
           \/ /\ x.at = "move" /\ x.log = Len(logs') /\ x.file = call[p].file
              /\ x.rows = call[p].rows /\ x.sum = call[p].sum /\ x.bucket = "failed"
  BY <1>1, <1>5, <1>7, WrittenGoes DEF WriteFailed, Buckets
<1>11. c # None BY <1>2, NoneAssumption
<1>12. PICK S \in SUBSET Reading : S = {} OBVIOUS
<1>13. readings' = readings \cup S BY <1>12 DEF WriteFailed
<1>14. \/ x = Idle
       \/ /\ x.at = "move" /\ x.log = Len(logs') /\ x.file = e.file
          /\ x.file \in Names /\ local[x.file] # None
          /\ x.rows = local[x.file] /\ x.sum = local[x.file]
          /\ e.checksum \in {None, x.sum}
          /\ e.checksum = None => Logged(x.sum) # {}
          /\ e.status = "DUPLICATE" <=> x.bucket = "duplicate"
  BY <1>2, <1>8, <1>10, <1>11
<1>15. UNCHANGED <<incoming, sent, archive, local, faults, retriggers>> BY DEF WriteFailed
<1> HIDE DEF c
<1> QED BY <1>5, <1>9, <1>10, <1>12, <1>13, <1>14, <1>15, AppendKeeps

LEMMA Smallest ==
  ASSUME NEW T \in SUBSET Nat, T # {}
  PROVE  \E m \in T : \A k \in T : m <= k
<1>1. PICK R : R = OpToRel(<, Nat) OBVIOUS
<1>2. \A a, b \in Nat : a < b => <<a, b>> \in R BY <1>1 DEF OpToRel
<1>3. IsWellFoundedOn(R, Nat) BY <1>1, NatLessThanWellFounded
<1>4. PICK m \in T : \A k \in T : ~ (<<k, m>> \in R) BY <1>3, WFMin
<1>5. \A k \in T : ~ (k < m) BY <1>2, <1>4
<1> QED BY <1>5

LEMMA SomeOf ==
  ASSUME NEW n \in Nat, NEW T \in SUBSET (1..n)
  PROVE  /\ IsFiniteSet(T) /\ Cardinality(T) \in Nat /\ n - Cardinality(T) \in Nat
<1>1. IsFiniteSet(1..n) /\ Cardinality(1..n) = n BY FS_Interval
<1>2. IsFiniteSet(T) /\ Cardinality(T) <= n BY <1>1, FS_Subset
<1>3. Cardinality(T) \in Nat BY <1>2, FS_CardinalityType
<1> QED BY <1>2, <1>3

LEMMA WriteReadingsKeeps ==
  ASSUME IInv, NEW p \in Callers, WriteReadings(p)
  PROVE  IInv'
<1>1. Free(p) /\ At(p, "write") BY DEF WriteReadings, Free
<1> DEFINE c == call[p].rows
<1>2. /\ call[p] \in Call /\ call[p].file \in Names /\ c \in Contents
      /\ local[call[p].file] = c /\ call[p].sum = c /\ Logged(c) = {}
  BY <1>1, FreeHolds
<1>3. PICK rows \in Seq(Keys) : rows = RowsOf[c] BY <1>2, IngestionAssumption
<1>4. Len(rows) \in Nat /\ DOMAIN rows = 1..Len(rows) BY <1>3
<1>5. PICK T \in SUBSET (1..Len(rows)) : T = Accepted(rows) BY <1>4 DEF Accepted
<1>6. /\ \A i \in T : rows[i] \in Known =>
           ~ HasReading(rows[i]) /\ \A j \in 1..(i - 1) : rows[j] # rows[i]
      /\ \A i \in DOMAIN rows : i \notin T =>
           /\ rows[i] \in Known
           /\ HasReading(rows[i]) \/ \E j \in 1..(i - 1) : rows[j] = rows[i]
  BY <1>5 DEF Accepted
<1>7. PICK l : l = Len(logs) + 1 OBVIOUS
<1>8. l \in Nat \ {0} /\ l \notin DOMAIN logs BY <1>7 DEF IInv, TypeOK
<1>9. PICK S : S = {[key |-> rows[i], log |-> l, row |-> i] : i \in T} OBVIOUS
<1>10. readings' = readings \cup S BY <1>3, <1>5, <1>7, <1>9 DEF WriteReadings
<1>11. S \in SUBSET Reading
  <2>1. \A i \in T : rows[i] \in Keys /\ i \in Nat \ {0} BY <1>4
  <2> QED BY <2>1, <1>8, <1>9 DEF Reading
<1>12. Cardinality(S) = Cardinality(T) /\ Len(rows) - Cardinality(T) \in Nat
       /\ Cardinality(T) \in Nat
  <2>1. IsFiniteSet(T) /\ Cardinality(T) \in Nat /\ Len(rows) - Cardinality(T) \in Nat
    BY <1>4, SomeOf
  <2>2. Cardinality(S) = Cardinality(T)
    <3> DEFINE b == [i \in T |-> [key |-> rows[i], log |-> l, row |-> i]]
    <3>1. b \in [T -> S] BY <1>9
    <3>2. \A i, j \in T : b[i] = b[j] => i = j
      <4>1. \A i \in T : b[i].row = i OBVIOUS
      <4> QED BY <4>1
    <3>3. \A r \in S : \E i \in T : b[i] = r BY <1>9
    <3>4. b \in Bijection(T, S)
      BY <3>1, <3>2, <3>3 DEF Bijection, Injection, Surjection, IsInjective
    <3> QED BY <2>1, <3>4, FS_Bijection DEF ExistsBijection
  <2> QED BY <2>1, <2>2
<1>13. PICK e : e = [file |-> call[p].file, status |-> "PROCESSED", checksum |-> c,
                     received |-> Len(rows), duplicates |-> Len(rows) - Cardinality(T),
                     moved |-> FALSE]
  OBVIOUS
<1>14. logs' = Append(logs, e)
  BY <1>2, <1>3, <1>5, <1>13 DEF WriteReadings, NewLog
<1>15. e \in Log BY <1>2, <1>4, <1>12, <1>13 DEF Log, LogStatus
<1>16. /\ e.file = call[p].file /\ e.checksum = c /\ e.status = "PROCESSED" /\ ~ e.moved
       /\ c # None /\ e.received = Cardinality(T) + e.duplicates
  BY <1>2, <1>4, <1>12, <1>13, NoneAssumption
<1>17. {r \in readings' : r.log = l} = S
  <2>1. \A r \in readings : r.log # l BY <1>8 DEF IInv, TypeOK
  <2>2. \A r \in S : r.log = l BY <1>9
  <2> QED BY <2>1, <2>2, <1>10
<1>18. \A i \in DOMAIN rows : HasReading(rows[i])'
  <2>1. ASSUME NEW i \in T PROVE \E r \in S : r.key = rows[i]
    <3>1. PICK r : r = [key |-> rows[i], log |-> l, row |-> i] OBVIOUS
    <3>2. r \in S /\ r.key = rows[i] BY <3>1, <1>9
    <3> QED BY <3>2
  <2>2. \A i \in T : HasReading(rows[i])' BY <2>1, <1>10 DEF HasReading
  <2>3. \A k : HasReading(k) => HasReading(k)' BY <1>10 DEF HasReading
  <2> SUFFICES ASSUME NEW i \in DOMAIN rows, i \notin T,
                      \E j \in 1..(i - 1) : rows[j] = rows[i]
               PROVE  HasReading(rows[i])'
    BY <2>2, <2>3, <1>6
  <2> DEFINE Same == {j \in 1..Len(rows) : rows[j] = rows[i]}
  <2>4. PICK j \in Same : \A k \in Same : j <= k
    <3>1. Same \in SUBSET Nat /\ i \in Same BY <1>4
    <3> HIDE DEF Same
    <3> QED BY <3>1, Smallest
  <2>5. rows[j] = rows[i] /\ j \in DOMAIN rows BY <2>4, <1>4
  <2>6. \A k \in 1..(j - 1) : rows[k] # rows[j] BY <2>4, <2>5, <1>4
  <2>7. j \in T \/ HasReading(rows[j]) BY <2>5, <2>6, <1>6
  <2> QED BY <2>2, <2>3, <2>5, <2>7
<1>19. Vouches(e)
  BY <1>2, <1>3, <1>7, <1>12, <1>15, <1>16, <1>17, <1>18 DEF Vouches
<1>20. PICK x \in {Idle} \cup Call :
        /\ Goes(p, x)
        /\ \/ x = Idle
           \/ /\ x.at = "move" /\ x.log = Len(logs') /\ x.file = call[p].file
              /\ x.rows = call[p].rows /\ x.sum = call[p].sum /\ x.bucket = "processed"
  BY <1>1, <1>14, <1>15, WrittenGoes DEF WriteReadings, Buckets
<1>21. \/ x = Idle
       \/ /\ x.at = "move" /\ x.log = Len(logs') /\ x.file = e.file
          /\ x.file \in Names /\ local[x.file] # None
          /\ x.rows = local[x.file] /\ x.sum = local[x.file]
          /\ e.checksum \in {None, x.sum}
          /\ e.checksum = None => Logged(x.sum) # {}
          /\ e.status = "DUPLICATE" <=> x.bucket = "duplicate"
  BY <1>2, <1>16, <1>20
<1>22. \A r \in S : r.log = Len(logs) + 1 BY <1>7, <1>9
<1>23. \A r \in S : r.key \in Known => ~ HasReading(r.key)
  <2>1. ASSUME NEW r \in S PROVE \E i \in T : r.key = rows[i]
    <3>1. PICK i \in T : r = [key |-> rows[i], log |-> l, row |-> i] BY <1>9
    <3> QED BY <3>1
  <2> QED BY <2>1, <1>6
<1>24. ASSUME NEW r \in S, NEW s \in S, r.key = s.key, r.key \in Known
       PROVE  r = s
  <2>1. PICK i \in T : r = [key |-> rows[i], log |-> l, row |-> i] BY <1>9
  <2>2. PICK j \in T : s = [key |-> rows[j], log |-> l, row |-> j] BY <1>9
  <2>3. i \in Nat /\ j \in Nat /\ rows[i] = rows[j] /\ rows[i] \in Known
    BY <1>24, <2>1, <2>2
  <2>4. ~ (i < j) /\ ~ (j < i) BY <2>3, <1>6
  <2> QED BY <2>1, <2>2, <2>3, <2>4
<1>25. UNCHANGED <<incoming, sent, archive, local, faults, retriggers>> BY DEF WriteReadings
<1> HIDE DEF c
<1> QED BY <1>10, <1>11, <1>14, <1>19, <1>20, <1>21, <1>22, <1>23, <1>24, <1>25, AppendKeeps

-----------------------------------------------------------------------------
(* The file moved, and the folder noted.                                   *)

LEMMA RenameKeeps ==
  ASSUME IInv, NEW p \in Callers, Rename(p)
  PROVE  IInv'
<1>1. TypeOK /\ CallConsistent /\ OneContent BY DEF IInv
<1>2. Counters BY <1>1 DEF TypeOK, Rename, Counters
<1>3. At(p, "move") /\ call[p] # Idle /\ call[p].at = "move" BY DEF Rename, At
<1>4. call[p] \in Call /\ call[p].log \in 0..Len(logs) /\ Consistent(call[p])
  BY <1>3, HoldsConsistent
<1> DEFINE f == call[p].file
<1>5. CASE incoming[f] = None
  <2>1. Done(p) /\ UNCHANGED <<incoming, sent, archive, local, logs, readings>>
    BY <1>5 DEF Rename
  <2> QED BY <2>1, <1>2, <1>3, DoneKeeps
<1>6. CASE incoming[f] # None
  <2>1. PICK a : a = [bucket |-> call[p].bucket, file |-> f, content |-> incoming[f]] OBVIOUS
  <2>2. /\ incoming' = [incoming EXCEPT ![f] = None] /\ archive' = archive \cup {a}
        /\ Goto(p, "note") /\ UNCHANGED <<sent, local, logs, readings, faults, retriggers>>
    BY <1>6, <2>1 DEF Rename
  <2>3. /\ f \in Names /\ local[f] # None /\ call[p].sum = local[f]
        /\ Logged(call[p].sum) # {}
    BY <1>3, <1>4 DEF Consistent
  <2>4. incoming[f] = local[f] /\ incoming[f] \in Contents
    BY <2>3, <1>1, <1>6 DEF OneContent, TypeOK
  <2>5. a \in Archived BY <2>1, <2>3, <2>4, <1>4 DEF Archived, Call
  <2>6. PICK x : x = [call[p] EXCEPT !.at = "note"] OBVIOUS
  <2>7. Goes(p, x) BY <2>2, <2>6 DEF Goto, Goes, TypeOK
  <2>8. x \in Call BY <2>6, <1>4 DEF Call, Steps
  <2>9. /\ x.at = "note" /\ x.file = f /\ x.rows = call[p].rows /\ x.sum = call[p].sum
        /\ x.log = call[p].log /\ x.bucket = call[p].bucket
    BY <2>6, <1>4 DEF Call
  <2>10. Grown BY <2>2, <1>1 DEF Grown, TypeOK
  <2>11. TypeOK'
    <3>1. ASSUME NEW q \in Callers, call'[q] # Idle PROVE call'[q].log \in 0..Len(logs)
      <4>1. CASE q = p BY <4>1, <3>1, <2>7, <2>8, <2>9, <1>1, <1>4, GoesCalls
      <4>2. CASE q # p BY <4>2, <3>1, <2>7, <2>8, <1>1, GoesCalls DEF TypeOK
      <4> QED BY <4>1, <4>2
    <3>2. call' \in [Callers -> {Idle} \cup Call] BY <2>7, <2>8, <1>1, GoesCalls
    <3>3. incoming' \in [Names -> Contents \cup {None}] BY <2>2, <2>3, <1>1 DEF TypeOK
    <3>4. archive' \subseteq Archived BY <2>2, <2>5, <1>1 DEF TypeOK
    <3> HIDE DEF f
    <3> QED BY <3>1, <3>2, <3>3, <3>4, <2>2, <1>1 DEF TypeOK
  <2>12. Consistent(x)'
    <3>1. a = [bucket |-> x.bucket, file |-> x.file, content |-> x.sum] /\ a \in archive'
      BY <2>1, <2>2, <2>3, <2>4, <2>9
    <3>2. Logged(x.sum)' # {} BY <2>2, <2>3, <2>9 DEF Logged
    <3> QED BY <3>1, <3>2, <2>2, <2>9, <1>3, <1>4 DEF Consistent
  <2>13. CallConsistent'
    BY <2>7, <2>8, <2>10, <2>11, <2>12, <1>1, OthersConsistent
  <2>14. OneContent'
    <3>1. \A g \in Names : incoming'[g] = IF g = f THEN None ELSE incoming[g]
      BY <2>2, <2>3, <1>1 DEF TypeOK
    <3>2. \A b \in archive' : b.file \in Names BY <2>11 DEF TypeOK, Archived
    <3>3. a.file = f /\ a.content = local[f] BY <2>1, <2>4
    <3> HIDE DEF f
    <3> QED BY <3>1, <3>2, <3>3, <2>2, <1>1 DEF OneContent
  <2>15. NothingLost'
    <3>1. Logged(a.content) # {} /\ a.content = local[f] BY <2>1, <2>3, <2>4
    <3>2. PICK i \in DOMAIN logs : logs[i].checksum = a.content BY <3>1 DEF Logged
    <3>3. KindOf[a.content] = "good" =>
            \A j \in DOMAIN RowsOf[a.content] : HasReading(RowsOf[a.content][j])
      BY <3>1, <3>2, <2>3 DEF IInv, LoggedIsStored
    <3> QED BY <3>1, <3>3, <2>2 DEF IInv, NothingLost, Logged, HasReading
  <2>16. (LoggedIsStored /\ RowsAccounted /\ Once)'
    BY <2>2 DEF IInv, LoggedIsStored, RowsAccounted, Once, HasReading
  <2>17. MovedIsThere' BY <2>2 DEF IInv, MovedIsThere
  <2> QED BY <2>11, <2>13, <2>14, <2>15, <2>16, <2>17 DEF IInv
<1> QED BY <1>5, <1>6

LEMMA NoteKeeps ==
  ASSUME IInv, NEW p \in Callers, Note(p)
  PROVE  IInv'
<1>1. TypeOK /\ CallConsistent /\ logs \in Seq(Log) BY DEF IInv, TypeOK
<1>2. call[p] # Idle /\ call[p].at = "note" BY DEF Note, At
<1>3. call[p] \in Call /\ call[p].log \in 0..Len(logs) /\ Consistent(call[p])
  BY <1>2, HoldsConsistent
<1>4. PICK l : l = call[p].log OBVIOUS
<1>5. l \in DOMAIN logs BY <1>1, <1>2, <1>3, <1>4 DEF Consistent
<1>6. logs' = [logs EXCEPT ![l].moved = TRUE] /\ Done(p)
      /\ UNCHANGED <<incoming, sent, archive, local, readings, faults, retriggers>>
  BY <1>4 DEF Note
<1>7. logs[l] \in Log BY <1>1, <1>5
<1>8. PICK e : e = [logs[l] EXCEPT !.moved = TRUE] OBVIOUS
<1>9. /\ e \in Log /\ e.file = logs[l].file /\ e.status = logs[l].status
      /\ e.checksum = logs[l].checksum /\ e.received = logs[l].received
      /\ e.duplicates = logs[l].duplicates
  BY <1>7, <1>8 DEF Log
<1>10. logs' = [logs EXCEPT ![l] = e] BY <1>6, <1>8
<1>11. /\ logs' \in Seq(Log) /\ Len(logs') = Len(logs) /\ DOMAIN logs' = DOMAIN logs
       /\ \A i \in DOMAIN logs : logs'[i] = IF i = l THEN e ELSE logs[i]
  BY <1>1, <1>5, <1>9, <1>10
<1>12. \A i \in DOMAIN logs :
         /\ logs'[i].file = logs[i].file /\ logs'[i].status = logs[i].status
         /\ logs'[i].checksum = logs[i].checksum /\ logs'[i].received = logs[i].received
         /\ logs'[i].duplicates = logs[i].duplicates
         /\ i # l => logs'[i].moved = logs[i].moved
  BY <1>9, <1>11
<1>13. Grown BY <1>1, <1>6, <1>11, <1>12 DEF Grown, TypeOK
<1>14. PICK x \in {Idle} \cup Call : Goes(p, x) /\ (x = Idle \/ (x.at = "next" /\ x.log = 0))
  BY <1>1, <1>2, <1>6, DoneGoes
<1>15. TypeOK'
  <2>1. ASSUME NEW q \in Callers, call'[q] # Idle PROVE call'[q].log \in 0..Len(logs)
    <3>1. CASE q = p BY <3>1, <2>1, <1>14, <1>1, GoesCalls DEF TypeOK
    <3>2. CASE q # p BY <3>2, <2>1, <1>14, <1>1, GoesCalls DEF TypeOK
    <3> QED BY <3>1, <3>2
  <2>2. call' \in [Callers -> {Idle} \cup Call] BY <1>14, <1>1, GoesCalls
  <2> QED BY <2>1, <2>2, <1>1, <1>6, <1>11 DEF TypeOK
<1>16. CallConsistent' BY <1>1, <1>13, <1>14, <1>15, OthersConsistent
<1>17. OneContent' BY <1>6 DEF IInv, OneContent
<1>18. LoggedIsStored'
  <2>1. ASSUME NEW i \in DOMAIN logs', NEW c, c = logs'[i].checksum, c # None
        PROVE  /\ logs'[i].status # "DUPLICATE"
               /\ KindOf[c] = "good" => \A j \in DOMAIN RowsOf[c] : HasReading(RowsOf[c][j])'
    <3>1. i \in DOMAIN logs /\ logs[i].checksum = c /\ logs'[i].status = logs[i].status
      BY <2>1, <1>11, <1>12
    <3>2. \A k : HasReading(k) => HasReading(k)' BY <1>6 DEF HasReading
    <3> QED BY <2>1, <3>1, <3>2 DEF IInv, LoggedIsStored
  <2> QED BY <2>1 DEF LoggedIsStored, HasReading
<1>22. Once' BY <1>6, <1>11, <1>12 DEF IInv, Once
<1>19. RowsAccounted' BY <1>6, <1>11, <1>12 DEF IInv, RowsAccounted
<1>20. NothingLost'
  <2>1. \A c : Logged(c) # {} => Logged(c)' # {} BY <1>1, <1>13, <1>15, GrownLogged
  <2> QED BY <2>1, <1>6 DEF IInv, NothingLost, HasReading
<1>21. MovedIsThere'
  <2>1. \E a \in archive :
          /\ a.file = logs[l].file
          /\ logs[l].status = "DUPLICATE" <=> a.bucket = "duplicate"
          /\ logs[l].checksum # None => a.content = logs[l].checksum
    <3>1. PICK a \in archive :
            a = [bucket |-> call[p].bucket, file |-> call[p].file, content |-> call[p].sum]
      BY <1>2, <1>3 DEF Consistent
    <3>2. a.bucket = call[p].bucket /\ a.file = call[p].file /\ a.content = call[p].sum
      BY <3>1
    <3> QED BY <3>2, <1>2, <1>3, <1>4 DEF Consistent
  <2> QED BY <2>1, <1>6, <1>11, <1>12 DEF IInv, MovedIsThere
<1> QED BY <1>15, <1>16, <1>17, <1>18, <1>19, <1>20, <1>21, <1>22 DEF IInv

-----------------------------------------------------------------------------
(* Theorems.                                                               *)

LEMMA NextKeeps ==
  ASSUME IInv, [Next]_vars
  PROVE  IInv'
<1>1. CASE UNCHANGED vars
  <2>1. TypeOK' /\ OneContent' BY <1>1 DEF vars, IInv, TypeOK, OneContent
  <2>2. CallConsistent' BY <1>1 DEF vars, IInv, CallConsistent, Consistent, Logged
  <2>3. (LoggedIsStored /\ RowsAccounted /\ NothingLost /\ Once /\ MovedIsThere)'
    BY <1>1 DEF vars, IInv, LoggedIsStored, RowsAccounted, NothingLost, Once,
       MovedIsThere, HasReading, Logged
  <2> QED BY <2>1, <2>2, <2>3 DEF IInv
<1>2. ASSUME NEW f \in Names, NEW c \in Holds[f], Upload(f, c) PROVE IInv'
  BY <1>2, UploadKeeps
<1>3. ASSUME NEW p \in Jobs, StartJob(p) PROVE IInv' BY <1>3, StartJobKeeps
<1>4. ASSUME NEW p \in Operators, NEW f \in Names, TestIngest(p, f) PROVE IInv'
  BY <1>4, TestIngestKeeps
<1>5. ASSUME NEW p \in Callers, Step(p) PROVE IInv'
  BY <1>5, TakeFileKeeps, ParseKeeps, HashKeeps, LookupKeeps, WriteDuplicateKeeps,
     RefusedKeeps, WriteFailedKeeps, WriteReadingsKeeps, RenameKeeps, NoteKeeps, EndJobKeeps
     DEF Step
<1>6. ASSUME NEW p \in Callers, Fault(p) PROVE IInv' BY <1>6, FaultKeeps
<1>7. CASE Crash BY <1>7, CrashKeeps
<1> QED BY <1>1, <1>2, <1>3, <1>4, <1>5, <1>6, <1>7 DEF Next

\* The invariant that vouches for every reading, however jobs, test-ingest, faults
\* and crashes interleave.
THEOREM InductiveInvariant == Spec => []IInv
<1>1. Init => IInv BY InitIInv
<1>2. IInv /\ [Next]_vars => IInv' BY NextKeeps
<1> QED BY <1>1, <1>2, PTL DEF Spec

\* No file leaves the incoming directory with readings that were not stored.
THEOREM NothingLostHolds == Spec => []NothingLost
<1>1. IInv => NothingLost BY DEF IInv
<1> QED BY <1>1, InductiveInvariant, PTL

\* A content is logged once, a registered meter has one reading a day.
THEOREM OnceHolds == Spec => []Once
<1>1. IInv => Once BY DEF IInv
<1> QED BY <1>1, InductiveInvariant, PTL

\* The rows of a PROCESSED log are its readings and its duplicates.
THEOREM RowsAccountedHolds == Spec => []RowsAccounted
<1>1. IInv => RowsAccounted BY DEF IInv
<1> QED BY <1>1, InductiveInvariant, PTL

\* A log that notes a folder has its file there.
THEOREM MovedIsThereHolds == Spec => []MovedIsThere
<1>1. IInv => MovedIsThere BY DEF IInv
<1> QED BY <1>1, InductiveInvariant, PTL

\* No ingestion takes a stored reading away.
THEOREM FirstReadingWinsHolds == Spec => FirstReadingWins
<1>1. ASSUME [Next]_vars PROVE [readings \subseteq readings']_readings
  <2>1. ASSUME NEW p \in Callers, Step(p) PROVE readings \subseteq readings'
    <3>1. CASE WriteReadings(p) BY <3>1 DEF WriteReadings
    <3>2. CASE TakeFile(p) BY <3>2 DEF TakeFile
    <3>3. CASE Parse(p) \/ Hash(p) \/ Lookup(p) BY <3>3 DEF Parse, Hash, Lookup
    <3>4. CASE WriteDuplicate(p) \/ Refused(p) \/ WriteFailed(p)
      BY <3>4 DEF WriteDuplicate, Refused, WriteFailed
    <3>5. CASE Unstorable(p) \/ Rename(p) \/ Note(p) \/ EndJob(p)
      BY <3>5 DEF Unstorable, Rename, Note, EndJob
    <3> QED BY <2>1, <3>1, <3>2, <3>3, <3>4, <3>5 DEF Step
  <2>2. ASSUME NEW p \in Callers, Fault(p) PROVE readings \subseteq readings'
    BY <2>2 DEF Fault
  <2>3. CASE Crash \/ UNCHANGED vars BY <2>3 DEF Crash, vars
  <2>4. ASSUME NEW f \in Names, NEW c \in Holds[f], Upload(f, c) PROVE readings \subseteq readings'
    BY <2>4 DEF Upload
  <2>5. ASSUME NEW p \in Jobs, StartJob(p) PROVE readings \subseteq readings'
    BY <2>5 DEF StartJob
  <2>6. ASSUME NEW p \in Operators, NEW f \in Names, TestIngest(p, f)
        PROVE readings \subseteq readings'
    BY <2>6 DEF TestIngest
  <2> QED BY <1>1, <2>1, <2>2, <2>3, <2>4, <2>5, <2>6 DEF Next
<1> QED BY <1>1, PTL DEF Spec, FirstReadingWins
====
