---------------------------- MODULE BillRunsProofs ----------------------------
(***************************************************************************)
(* Proofs about BillRuns, for any number of runs, properties, submissions, *)
(* reviewers, units, workflow levels, months and cycle versions.  The      *)
(* inductive invariant is IInv.  That a key never has two live runs rests  *)
(* on GapsGuarded: what a submission found to be free stays free until it  *)
(* has inserted, because nobody inserts into a gap it has locked.          *)
(***************************************************************************)
EXTENDS BillRuns, TLAPS

-----------------------------------------------------------------------------
(* What the types say about requests in flight.                            *)

LEMMA RequestFields ==
  ASSUME NEW x \in {Idle} \cup Request, x.phase # "idle"
  PROVE  /\ x \in Request
         /\ x.phase \in {"read", "check", "insert"} /\ x.kind \in Kinds
         /\ x.by \in Users /\ x.from \in Runs \cup {NoRun}
         /\ x.todo \in SUBSET Properties /\ x.for \in Target
         /\ x.held \in SUBSET (Properties \X Versions)
         /\ x.submitted \in SUBSET Runs /\ x.alive \in BOOLEAN
BY DEF Idle, Request

LEMMA ReviewFields ==
  ASSUME NEW x \in {Idle} \cup Review, x.phase # "idle"
  PROVE  /\ x \in Review /\ x.run \in Runs
         /\ x.phase \in {"open", "committed", "billing"}
         /\ x.phase = "open" => /\ x.kind \in {"approve", "reject", "return"}
                                /\ x.by \in Users \cup {System}
                                /\ x.seen \in Levels
         /\ x.phase = "billing" => /\ x.todo \in SUBSET Units
                                   /\ x.failed \in SUBSET Units
BY DEF Idle, Review

LEMMA SomeTarget == AnyTarget \in Target
<1>1. PICK p \in Properties : TRUE
  BY BillRunAssumption
<1>2. [prop |-> p, version |-> 1, month |-> 1] \in Target
  BY BillRunAssumption DEF Target, Versions, Months
<1> QED BY <1>2 DEF AnyTarget

-----------------------------------------------------------------------------
(* Types.                                                                  *)

RunsType == /\ run \in [Runs -> RunRow] /\ wf \in [Runs -> Workflow]
ReqType  == req \in [Clients -> {Idle} \cup Request]
RevType  == rev \in [Reviewers -> {Idle} \cup Review]
BillType == bill \in [Runs -> [Units -> {"NONE", "ISSUED", "CANCELLED"}]]
TimeType ==
  /\ month \in Months /\ closed \in BOOLEAN /\ configured \in BOOLEAN
  /\ cycle \in [Properties -> Versions]
  /\ lived \in [Properties -> SUBSET (Versions \X Months)]

LEMMA TypeParts ==
  ASSUME TypeOK
  PROVE  TimeType /\ RunsType /\ BillType /\ ReqType /\ RevType
BY DEF TypeOK, TimeType, RunsType, BillType, ReqType, RevType

LEMMA TypePartsNext ==
  ASSUME TimeType', RunsType', BillType', ReqType', RevType'
  PROVE  TypeOK'
BY DEF TypeOK, TimeType, RunsType, BillType, ReqType, RevType

LEMMA TimeKept == ASSUME TimeType, UNCHANGED time PROVE TimeType'
BY DEF TimeType, time

\* A rollback.
LEMMA UndoType ==
  ASSUME RunsType, NEW c \in Clients, Undo(c)
  PROVE  RunsType'
<1>1. NoRow \in RunRow /\ NoWorkflow \in Workflow
  BY SomeTarget, BillRunAssumption DEF NoRow, NoWorkflow, RunRow, Workflow, Levels
<1> QED BY <1>1 DEF RunsType, Undo

LEMMA NextPropertyType ==
  ASSUME ReqType, NEW c \in Clients, req[c].phase # "idle", NEW p
  PROVE  NextProperty(c, p) \in Request
<1>1. req[c] \in Request
  BY RequestFields DEF ReqType
<1> QED BY <1>1 DEF NextProperty, Request

LEMMA RefusesType ==
  ASSUME ReqType, NEW c \in Clients, req[c].phase # "idle", NEW p, Refuses(c, p)
  PROVE  ReqType'
BY NextPropertyType DEF ReqType, Refuses

\* Every step of a submission keeps the types.
LEMMA SubmissionTypes ==
  ASSUME TypeOK, NEW c \in Clients, Submission(c)
  PROVE  TypeOK'
<1>0. TimeType /\ RunsType /\ BillType /\ ReqType /\ RevType
  BY TypeParts
<1> SUFFICES TimeType' /\ RunsType' /\ BillType' /\ ReqType' /\ RevType'
  BY TypePartsNext
<1>1. CASE \E k \in Kinds, u \in Users, todo \in SUBSET Properties \ {{}},
              from \in Runs \cup {NoRun} : SubmitOpens(c, k, u, todo, from)
  <2> PICK k \in Kinds, u \in Users, todo \in SUBSET Properties \ {{}},
           from \in Runs \cup {NoRun} : SubmitOpens(c, k, u, todo, from)
    BY <1>1
  <2> DEFINE new == [phase |-> "read", kind |-> k, by |-> u, from |-> from,
                     todo |-> todo, for |-> AnyTarget, held |-> {},
                     submitted |-> {}, alive |-> TRUE]
  <2>1. new \in Request
    BY SomeTarget DEF Request
  <2>2. req' = [req EXCEPT ![c] = new] /\ UNCHANGED <<time, run, wf, bill, rev>>
    BY DEF SubmitOpens
  <2> HIDE DEF new
  <2> QED BY <1>0, <2>1, <2>2, TimeKept DEF RunsType, BillType, ReqType, RevType
<1>2. CASE \E x \in Target : SubmitReads(c, x)
  <2> PICK x \in Target : SubmitReads(c, x)
    BY <1>2
  <2>1. [req[c] EXCEPT !.phase = "check", !.for = x] \in Request
    <3>1. req[c] \in Request
      BY <1>0, RequestFields DEF SubmitReads, ReqType
    <3> QED BY <3>1 DEF Request
  <2> QED BY <1>0, <2>1, TimeKept
          DEF SubmitReads, RunsType, BillType, ReqType, RevType
<1>3. CASE \E p \in Properties : NotReady(c, p)
  BY <1>0, <1>3, RefusesType, TimeKept DEF NotReady, RunsType, BillType, RevType
<1>4. CASE SubmitChecks(c)
  <2> DEFINE x == req[c].for
             held == IF req[c].alive THEN req[c].held \cup {Key(x)}
                     ELSE req[c].held
             new == [req[c] EXCEPT !.phase = "insert", !.held = held]
  <2>1. UNCHANGED <<time, run, wf, bill, rev>> /\ req[c].phase # "idle"
    BY <1>4 DEF SubmitChecks
  <2>2. CASE Duplicate(c, x)
    BY <1>0, <1>4, <2>1, <2>2, RefusesType, TimeKept
       DEF SubmitChecks, RunsType, BillType, RevType
  <2>3. CASE ~Duplicate(c, x)
    <3>1. Key(x) \in Properties \X Versions
      BY <1>0, <2>1, RequestFields DEF ReqType, Key, Target
    <3>2. new \in Request
      <4>1. held \in SUBSET (Properties \X Versions)
        BY <1>0, <2>1, <3>1, RequestFields DEF ReqType
      <4>2. req[c] \in Request
        BY <1>0, <2>1, RequestFields DEF ReqType
      <4> HIDE DEF held
      <4> QED BY <4>1, <4>2 DEF Request
    <3>3. req' = [req EXCEPT ![c] = new]
      BY <1>0, <1>4, <2>3 DEF SubmitChecks, ReqType
    <3> HIDE DEF new
    <3> QED BY <1>0, <2>1, <3>2, <3>3, TimeKept DEF RunsType, BillType, ReqType, RevType
  <2> QED BY <2>2, <2>3
<1>5. CASE \E r \in Runs, fails \in BOOLEAN : SubmitInserts(c, r, fails)
  <2> PICK r \in Runs, fails \in BOOLEAN : SubmitInserts(c, r, fails)
    BY <1>5
  <2> DEFINE n == NextProperty(c, req[c].for.prop)
             new == [n EXCEPT !.submitted = IF fails THEN @ ELSE @ \cup {r}]
             row == [status |-> "PENDING_APPROVAL", for |-> req[c].for,
                     from |-> req[c].from, by |-> req[c].by, tx |-> c]
  <2>1. req[c].phase # "idle" /\ UNCHANGED <<time, bill, rev>>
    BY DEF SubmitInserts
  <2>2. n \in Request
    BY <1>0, <2>1, NextPropertyType
  <2>3. new \in Request
    BY <2>2 DEF Request
  <2>4. row \in RunRow
    BY <1>0, <2>1, RequestFields DEF ReqType, RunRow, Active, Decided
  <2>5. run' = [run EXCEPT ![r] = row] /\ req' = [req EXCEPT ![c] = new]
    BY DEF SubmitInserts
  <2>6. wf' \in [Runs -> Workflow]
    BY <1>0 DEF SubmitInserts, RunsType, Workflow
  <2> HIDE DEF new, row
  <2> QED BY <1>0, <2>1, <2>3, <2>4, <2>5, <2>6, TimeKept
          DEF RunsType, BillType, ReqType, RevType
<1>6. CASE InsertFails(c)
  BY <1>0, <1>6, RefusesType, TimeKept DEF InsertFails, RunsType, BillType, RevType
<1>7. CASE RollsBack(c)
  <2>1. req[c].phase # "idle" /\ Undo(c) /\ UNCHANGED <<time, bill, rev>>
    BY <1>7 DEF RollsBack
  <2>2. [NextProperty(c, req[c].for.prop) EXCEPT !.alive = FALSE, !.held = {}]
          \in Request
    <3>1. NextProperty(c, req[c].for.prop) \in Request
      BY <1>0, <2>1, NextPropertyType
    <3> QED BY <3>1 DEF Request
  <2> QED BY <1>0, <1>7, <2>1, <2>2, UndoType, TimeKept
          DEF RollsBack, BillType, ReqType, RevType
<1>8. CASE SubmitDies(c)
  BY <1>0, <1>8, UndoType, TimeKept DEF SubmitDies, BillType, ReqType, RevType
<1>9. CASE SubmitReplies(c)
  <2>1. ReqType' /\ UNCHANGED <<time, bill, rev>>
    BY <1>0, <1>9 DEF SubmitReplies, ReqType
  <2>2. RunsType'
    <3>1. CASE req[c].submitted = {}
      BY <1>0, <1>9, <3>1, UndoType DEF SubmitReplies
    <3>2. CASE req[c].submitted # {}
      BY <1>0, <1>9, <3>2 DEF SubmitReplies, RunsType, RunRow
    <3> QED BY <3>1, <3>2
  <2> QED BY <1>0, <2>1, <2>2, TimeKept DEF BillType, RevType
<1> QED BY <1>1, <1>2, <1>3, <1>4, <1>5, <1>6, <1>7, <1>8, <1>9 DEF Submission

\* Every step of a review and of the generation keeps the types.
LEMMA ReviewingTypes ==
  ASSUME TypeOK, NEW p \in Reviewers, Reviewing(p)
  PROVE  TypeOK'
<1>0. TimeType /\ RunsType /\ BillType /\ ReqType /\ RevType
  BY TypeParts
<1> SUFFICES TimeType' /\ RunsType' /\ BillType' /\ ReqType' /\ RevType'
  BY TypePartsNext
<1>i. ASSUME rev' = [rev EXCEPT ![p] = Idle] PROVE RevType'
  BY <1>0, <1>i DEF RevType
<1>1. CASE \E r \in Runs, k \in {"approve", "reject", "return"},
              u \in Users \cup {System} : ReviewOpens(p, r, k, u)
  <2> PICK r \in Runs, k \in {"approve", "reject", "return"},
           u \in Users \cup {System} : ReviewOpens(p, r, k, u)
    BY <1>1
  <2> DEFINE new == [phase |-> "open", run |-> r, kind |-> k, by |-> u,
                     seen |-> wf[r].level]
  <2>1. new \in Review
    BY <1>0 DEF Review, RunsType, Workflow
  <2>2. rev' = [rev EXCEPT ![p] = new] /\ UNCHANGED <<time, run, wf, bill, req>>
    BY DEF ReviewOpens
  <2> HIDE DEF new
  <2> QED BY <1>0, <2>1, <2>2, TimeKept DEF RunsType, BillType, ReqType, RevType
<1>2. CASE ReviewCommits(p)
  <2> DEFINE x == rev[p]
             new == [phase |-> "committed", run |-> x.run]
  <2>1. x.run \in Runs /\ x.kind \in {"approve", "reject", "return"}
    BY <1>0, <1>2, ReviewFields DEF ReviewCommits, RevType
  <2>2. new \in Review
    BY <2>1 DEF Review
  <2>3. RevType'
    <3> HIDE DEF new
    <3> QED BY <1>0, <1>2, <2>2 DEF ReviewCommits, RevType, new
  <2>4. RunsType'
    <3>1. CASE MayDecide(x)
      <4>1. run' = [run EXCEPT ![x.run].status = Decision(x)]
            /\ wf' = RecordDecision(x)
        BY <1>2, <3>1 DEF ReviewCommits
      <4>2. Decision(x) \in Active \cup Decided
        BY <2>1 DEF Decision, Active, Decided
      <4>3. RecordDecision(x) \in [Runs -> Workflow]
        <5>1. ~IsFinal(x.run) => wf[x.run].level + 1 \in Levels
          <6>1. wf[x.run].level \in 0..FinalLevel
            BY <1>0, <2>1 DEF RunsType, Workflow, Levels
          <6> QED BY <6>1, BillRunAssumption DEF IsFinal, Levels
        <5> QED BY <1>0, <2>1, <5>1 DEF RecordDecision, RunsType, Workflow
      <4> QED BY <1>0, <2>1, <4>1, <4>2, <4>3 DEF RunsType, RunRow
    <3>2. CASE ~MayDecide(x)
      BY <1>0, <1>2, <3>2 DEF ReviewCommits, RunsType
    <3> QED BY <3>1, <3>2
  <2> QED BY <1>0, <1>2, <2>3, <2>4, TimeKept DEF ReviewCommits, BillType, ReqType
<1>3. CASE ReviewDies(p)
  BY <1>0, <1>3, <1>i, TimeKept DEF ReviewDies, RunsType, BillType, ReqType
<1>4. CASE GenerationStarts(p)
  <2>1. rev[p].run \in Runs
    BY <1>0, <1>4, ReviewFields DEF GenerationStarts, RevType
  <2>2. [phase |-> "billing", run |-> rev[p].run,
         todo |-> {u \in Units : bill[rev[p].run][u] = "NONE"},
         failed |-> {}] \in Review
    BY <2>1 DEF Review
  <2>3. RevType'
    BY <1>0, <1>4, <2>2, <1>i DEF GenerationStarts, StartsBilling, RevType
  <2> QED BY <1>0, <1>4, <2>3, TimeKept
          DEF GenerationStarts, RunsType, BillType, ReqType
<1>5. CASE GenerationEnds(p)
  BY <1>0, <1>5, <1>i, TimeKept DEF GenerationEnds, RunsType, BillType, ReqType
<1>6. CASE \E u \in Units : GenerateOneBill(p, u)
  <2> PICK u \in Units : GenerateOneBill(p, u)
    BY <1>6
  <2>1. rev[p] \in Review /\ rev[p].run \in Runs /\ rev[p].phase = "billing"
    BY <1>0, ReviewFields DEF GenerateOneBill, RevType
  <2>2. /\ [rev[p] EXCEPT !.todo = @ \ {u}] \in Review
        /\ [rev[p] EXCEPT !.todo = @ \ {u}, !.failed = @ \cup {u}] \in Review
    BY <2>1 DEF Review
  <2>3. BillType'
    <3>1. bill' = bill \/ bill' = [bill EXCEPT ![rev[p].run][u] = "ISSUED"]
      BY DEF GenerateOneBill, BillUnit
    <3> QED BY <1>0, <2>1, <3>1 DEF BillType
  <2>4. RevType'
    BY <1>0, <2>2 DEF GenerateOneBill, RevType
  <2> QED BY <1>0, <2>3, <2>4, TimeKept DEF GenerateOneBill, RunsType, ReqType
<1> QED BY <1>1, <1>2, <1>3, <1>4, <1>5, <1>6 DEF Reviewing

LEMMA TypeStep == ASSUME TypeOK, [Next]_vars PROVE TypeOK'
<1>0. TimeType /\ RunsType /\ BillType /\ ReqType /\ RevType
  BY TypeParts
<1>a. ASSUME UNCHANGED <<run, wf, bill, req, rev>>, TimeType' PROVE TypeOK'
  BY <1>0, <1>a, TypePartsNext DEF RunsType, BillType, ReqType, RevType
<1>1. CASE PeriodCloses \/ DefinitionPublished
  BY <1>0, <1>1, <1>a DEF PeriodCloses, DefinitionPublished, TimeType
<1>2. CASE MonthBegins
  <2>1. month + 1 \in Months
    BY <1>0, <1>2, BillRunAssumption DEF MonthBegins, TimeType, Months
  <2>2. lived' \in [Properties -> SUBSET (Versions \X Months)]
    <3>1. \A q \in Properties : lived[q] \cup {<<cycle[q], month + 1>>}
                                  \in SUBSET (Versions \X Months)
      BY <1>0, <2>1 DEF TimeType
    <3> QED BY <1>2, <3>1 DEF MonthBegins
  <2> QED BY <1>0, <1>2, <1>a, <2>1, <2>2 DEF MonthBegins, TimeType
<1>3. CASE \E p \in Properties : VersionActivated(p)
  <2> PICK p \in Properties : VersionActivated(p)
    BY <1>3
  <2>1. cycle[p] + 1 \in Versions
    BY <1>0, BillRunAssumption DEF VersionActivated, TimeType, Versions
  <2> QED BY <1>0, <1>a, <2>1 DEF VersionActivated, TimeType
<1>4. CASE \E c \in Clients : Submission(c)
  BY <1>4, SubmissionTypes
<1>5. CASE \E p \in Reviewers : Reviewing(p)
  BY <1>5, ReviewingTypes
<1>6. CASE \E r \in Runs, u \in Units : CancelBill(r, u)
  BY <1>0, <1>6, TypePartsNext, TimeKept
     DEF CancelBill, RunsType, BillType, ReqType, RevType
<1>7. CASE UNCHANGED vars
  BY <1>0, <1>7, <1>a, TimeKept DEF vars
<1> QED BY <1>1, <1>2, <1>3, <1>4, <1>5, <1>6, <1>7 DEF Next

-----------------------------------------------------------------------------
(* Rows: what submissions and decisions do to runs and their workflows.    *)

Rows == RowsWhole /\ OneRunPerKey /\ SameVerdict

LEMMA IdlePhase ==
  ASSUME TypeOK
  PROVE  /\ \A c \in Clients : req[c] = Idle <=> req[c].phase = "idle"
         /\ \A p \in Reviewers : rev[p] = Idle <=> rev[p].phase = "idle"
<1>1. Idle.phase = "idle"
  BY DEF Idle
<1>2. ASSUME NEW x \in Request \cup Review PROVE x.phase # "idle"
  BY <1>2 DEF Request, Review
<1> HIDE DEF Idle
<1> QED BY <1>1, <1>2, TypeParts DEF ReqType, RevType

LEMMA EmptyRow == NoRow.status = "NONE" /\ NoWorkflow.status = "NONE"
BY DEF NoRow, NoWorkflow

\* A rollback drops the rows of c, and only those.
LEMMA UndoRows ==
  ASSUME TypeOK, Rows, NEW c \in Clients, Undo(c)
  PROVE  /\ Rows'
         /\ \A r \in Runs : Committed(r) => run'[r] = run[r] /\ wf'[r] = wf[r]
         /\ \A r \in Runs : run'[r].status \in Active =>
                               run'[r] = run[r] /\ run[r].tx # c
<1>1. \A r \in Runs :
        \/ run'[r] = run[r] /\ wf'[r] = wf[r] /\ r \notin Mine(c)
        \/ run'[r] = NoRow /\ wf'[r] = NoWorkflow /\ r \in Mine(c)
  BY DEF Undo
<1>2. RowsWhole'
  BY <1>1, EmptyRow DEF Rows, RowsWhole, Decided
<1>3. OneRunPerKey'
  BY <1>1, EmptyRow DEF Rows, OneRunPerKey, Active
<1>4. SameVerdict'
  BY <1>1, EmptyRow DEF Rows, SameVerdict
<1>5. \A r \in Runs : Committed(r) => r \notin Mine(c)
  BY BillRunAssumption DEF Committed, Mine
<1>6. \A r \in Runs : run'[r].status \in Active =>
                          run'[r] = run[r] /\ run[r].tx # c
  BY <1>1, EmptyRow DEF Mine, Active
<1> QED BY <1>1, <1>2, <1>3, <1>4, <1>5, <1>6 DEF Rows

\* No other submission's gaps are disturbed if no row becomes live.
LEMMA OthersGuarded ==
  ASSUME GapsGuarded, NEW c \in Clients,
         \A d \in Clients \ {c} : req'[d] = req[d],
         \A r \in Runs : run'[r].status \in Active => run'[r] = run[r],
         req'[c] # Idle => Guarded(c)'
  PROVE  GapsGuarded'
<1> SUFFICES ASSUME NEW d \in Clients, d # c, req'[d] # Idle
             PROVE  Guarded(d)'
  BY DEF GapsGuarded
<1>1. Guarded(d)
  BY DEF GapsGuarded
<1> QED BY <1>1 DEF Guarded, Key

LEMMA InsertRows ==
  ASSUME TypeOK, Rows, GapsGuarded, NEW c \in Clients, NEW r \in Runs,
         NEW fails \in BOOLEAN, SubmitInserts(c, r, fails)
  PROVE  /\ Rows' /\ GapsGuarded'
         /\ \A s \in Runs : Committed(s) => run'[s] = run[s] /\ wf'[s] = wf[s]
<1> DEFINE x == req[c].for
<1>0. RunsType /\ ReqType
  BY TypeParts
<1>1. /\ run[r].status = "NONE" /\ wf[r] = NoWorkflow
      /\ req[c].phase = "insert" /\ req[c] # Idle
      /\ req'[c].phase = "read" /\ req'[c].held = req[c].held
      /\ \A d \in Clients \ {c} : req'[d] = req[d]
  <2>1. run[r].status = "NONE" /\ wf[r] = NoWorkflow /\ req[c].phase = "insert"
    BY EmptyRow DEF SubmitInserts, Rows, RowsWhole
  <2>2. req[c] \in Request /\ req[c] # Idle
    BY <1>0, <2>1, RequestFields DEF ReqType, Idle
  <2>3. req' = [req EXCEPT ![c] =
                 [NextProperty(c, x.prop) EXCEPT
                    !.submitted = IF fails THEN @ ELSE @ \cup {r}]]
    BY DEF SubmitInserts
  <2>4. /\ NextProperty(c, x.prop) \in Request
        /\ NextProperty(c, x.prop).phase = "read"
        /\ NextProperty(c, x.prop).held = req[c].held
    BY <2>2 DEF NextProperty, Request
  <2> QED BY <1>0, <2>1, <2>2, <2>3, <2>4 DEF ReqType, Request
<1>2. Guarded(c) /\ req[c].alive
  BY <1>1 DEF GapsGuarded, SubmitInserts
<1>3. /\ run'[r].status = "PENDING_APPROVAL" /\ run'[r].for = x /\ run'[r].tx = c
      /\ \A s \in Runs \ {r} : run'[s] = run[s] /\ wf'[s] = wf[s]
      /\ wf'[r] # wf[r] => wf'[r].status = "WAITING_FOR_APPROVAL"
  BY <1>0 DEF SubmitInserts, RunsType, Workflow
<1>4. \A s \in Runs : run[s].status \in Active => Key(run[s].for) # Key(x)
  BY <1>1, <1>2 DEF Guarded
<1>5. RowsWhole'
  BY <1>3 DEF Rows, RowsWhole, Decided
<1>6. OneRunPerKey'
  BY <1>3, <1>4 DEF Rows, OneRunPerKey, Key
<1>7. SameVerdict'
  BY <1>1, <1>3, EmptyRow DEF Rows, SameVerdict
<1>8. GapsGuarded'
  <2> SUFFICES ASSUME NEW d \in Clients, req'[d] # Idle PROVE Guarded(d)'
    BY DEF GapsGuarded
  <2>1. CASE d = c
    BY <1>1, <1>2, <1>3, <2>1 DEF Guarded, Key
  <2>2. CASE d # c
    <3>1. req'[d] = req[d] /\ Guarded(d) /\ req[d].phase # "idle"
      BY <1>1, <2>2, IdlePhase DEF GapsGuarded
    <3>2. Key(x) \notin req[d].held
      BY <2>2, <3>1, <1>1 DEF SubmitInserts, WaitsForGap
    <3> QED BY <1>3, <3>1, <3>2 DEF Guarded, Key
  <2> QED BY <2>1, <2>2
<1>9. \A s \in Runs : Committed(s) => run'[s] = run[s] /\ wf'[s] = wf[s]
  BY <1>1, <1>3 DEF Committed
<1> QED BY <1>5, <1>6, <1>7, <1>8, <1>9 DEF Rows

\* A check locks the gap of a key that no live run has.
LEMMA CheckGuards ==
  ASSUME TypeOK, GapsGuarded, NEW c \in Clients, SubmitChecks(c)
  PROVE  GapsGuarded'
<1> DEFINE x == req[c].for
<1>0. ReqType /\ RunsType /\ req[c] \in Request /\ req[c] # Idle
  BY TypeParts, RequestFields, IdlePhase DEF SubmitChecks, ReqType
<1>1. Guarded(c) /\ run' = run /\ req[c].phase = "check"
  BY <1>0 DEF GapsGuarded, SubmitChecks
<1>2. \A d \in Clients \ {c} : req'[d] = req[d]
  <2>1. CASE Duplicate(c, x)
    BY <1>0, <2>1 DEF SubmitChecks, Refuses, ReqType
  <2>2. CASE ~Duplicate(c, x)
    BY <1>0, <2>2 DEF SubmitChecks, ReqType
  <2> QED BY <2>1, <2>2
<1>3. CASE Duplicate(c, x)
  <2>1. \/ req'[c] = Idle
        \/ req'[c].phase = "read" /\ req'[c].held = req[c].held
    <3>1. /\ NextProperty(c, x.prop).phase = "read"
          /\ NextProperty(c, x.prop).held = req[c].held
      BY <1>0 DEF NextProperty, Request
    <3> QED BY <1>0, <1>3, <3>1 DEF SubmitChecks, Refuses, ReqType
  <2>2. req'[c] # Idle => Guarded(c)'
    BY <1>1, <2>1 DEF Guarded, Key
  <2> QED BY <1>1, <1>2, <2>2, OthersGuarded
<1>4. CASE ~Duplicate(c, x)
  <2>1. /\ req'[c].phase = "insert" /\ req'[c].for = x
        /\ req'[c].alive = req[c].alive
        /\ req'[c].held = IF req[c].alive THEN req[c].held \cup {Key(x)}
                          ELSE req[c].held
    BY <1>0, <1>4 DEF SubmitChecks, ReqType, Request
  <2>2. ASSUME NEW r \in Runs, run[r].status \in Active
        PROVE  Key(run[r].for) # Key(x)
    <3>1. run[r].tx \in Clients \cup {NoRun} /\ run[r].status # "NONE"
      BY <1>0, <2>2 DEF RunsType, RunRow, Active
    <3>2. \A d \in Clients \ {c} : run[r].tx = d => Key(run[r].for) # Key(x)
      BY <1>1, <3>1 DEF SubmitChecks, WaitsForRow, Mine
    <3>3. run[r].tx \in {NoRun, c} => Key(run[r].for) # Key(x)
      BY <1>4, <2>2 DEF Duplicate
    <3> QED BY <3>1, <3>2, <3>3
  <2>3. Guarded(c)'
    BY <1>1, <2>1, <2>2 DEF Guarded, Key
  <2> QED BY <1>1, <1>2, <2>3, OthersGuarded
<1> QED BY <1>3, <1>4

\* A commit: c's rows become everybody's, and c gives up its gaps.
LEMMA ReplyRows ==
  ASSUME TypeOK, Rows, GapsGuarded, NEW c \in Clients, SubmitReplies(c)
  PROVE  /\ Rows' /\ GapsGuarded'
         /\ \A r \in Runs : Committed(r) => run'[r] = run[r] /\ wf'[r] = wf[r]
<1>0. ReqType /\ RunsType
  BY TypeParts
<1>1. req'[c] = Idle /\ \A d \in Clients \ {c} : req'[d] = req[d]
  BY <1>0 DEF SubmitReplies, ReqType
<1>2. CASE req[c].submitted = {}
  BY <1>1, <1>2, UndoRows, OthersGuarded DEF SubmitReplies
<1>3. CASE req[c].submitted # {}
  <2>1. /\ wf' = wf
        /\ \A r \in Runs : IF r \in Mine(c)
             THEN run'[r] = [run[r] EXCEPT !.tx = NoRun] ELSE run'[r] = run[r]
    BY <1>3 DEF SubmitReplies
  <2>2. \A r \in Runs :
          /\ run'[r].status = run[r].status /\ run'[r].for = run[r].for
          /\ \/ run'[r] = run[r]
             \/ run[r].tx = c /\ run[r].status # "NONE" /\ run'[r].tx = NoRun
    BY <1>0, <2>1 DEF RunsType, RunRow, Mine
  <2>3. RowsWhole'
    BY <2>1, <2>2 DEF Rows, RowsWhole
  <2>4. OneRunPerKey'
    BY <2>2 DEF Rows, OneRunPerKey, Key
  <2>5. SameVerdict'
    BY <2>1, <2>2 DEF Rows, SameVerdict
  <2>6. GapsGuarded'
    <3> SUFFICES ASSUME NEW d \in Clients, d # c, req'[d] # Idle
                 PROVE  Guarded(d)'
      BY <1>1 DEF GapsGuarded
    <3>1. Guarded(d) /\ req'[d] = req[d]
      BY <1>1 DEF GapsGuarded
    <3> QED BY <2>2, <3>1 DEF Guarded, Key
  <2>7. \A r \in Runs : Committed(r) => run'[r] = run[r] /\ wf'[r] = wf[r]
    BY <2>1, <2>2, BillRunAssumption DEF Committed
  <2> QED BY <2>3, <2>4, <2>5, <2>6, <2>7 DEF Rows
<1> QED BY <1>2, <1>3

\* No step of a submission touches a committed run.
LEMMA SubmissionRows ==
  ASSUME TypeOK, Rows, GapsGuarded, NEW c \in Clients, Submission(c)
  PROVE  /\ Rows' /\ GapsGuarded'
         /\ \A r \in Runs : Committed(r) => run'[r] = run[r] /\ wf'[r] = wf[r]
<1>0. ReqType /\ RunsType
  BY TypeParts
<1>a. ASSUME run' = run, wf' = wf PROVE Rows'
  BY <1>a DEF Rows, RowsWhole, OneRunPerKey, SameVerdict, Key
<1>b. ASSUME NEW p, req[c] # Idle, Refuses(c, p), run' = run PROVE GapsGuarded'
  <2>1. req[c] \in Request /\ \A d \in Clients \ {c} : req'[d] = req[d]
    BY <1>0, <1>b DEF Refuses, ReqType
  <2>2. \/ req'[c] = Idle
        \/ req'[c].phase = "read" /\ req'[c].held = req[c].held
    BY <1>0, <1>b, <2>1 DEF Refuses, ReqType, NextProperty, Request
  <2>3. req'[c] # Idle => Guarded(c)'
    BY <1>b, <2>2 DEF GapsGuarded, Guarded, Key
  <2> QED BY <1>b, <2>1, <2>3, OthersGuarded
<1>1. CASE \E k \in Kinds, u \in Users, todo \in SUBSET Properties \ {{}},
              from \in Runs \cup {NoRun} : SubmitOpens(c, k, u, todo, from)
  <2>1. /\ run' = run /\ wf' = wf
        /\ \A d \in Clients \ {c} : req'[d] = req[d]
        /\ req'[c].phase = "read" /\ req'[c].held = {}
    BY <1>0, <1>1 DEF SubmitOpens, ReqType
  <2>2. Guarded(c)'
    BY <2>1 DEF Guarded
  <2> QED BY <1>a, <2>1, <2>2, OthersGuarded
<1>2. CASE \E x \in Target : SubmitReads(c, x)
  <2>0. req[c].phase # "idle"
    BY <1>2 DEF SubmitReads
  <2>1. /\ run' = run /\ wf' = wf /\ req[c] # Idle
        /\ \A d \in Clients \ {c} : req'[d] = req[d]
        /\ req'[c].phase = "check" /\ req'[c].held = req[c].held
    BY <1>0, <1>2, <2>0, RequestFields, IdlePhase DEF SubmitReads, ReqType, Request
  <2>2. Guarded(c)'
    BY <2>1 DEF GapsGuarded, Guarded, Key
  <2> QED BY <1>a, <2>1, <2>2, OthersGuarded
<1>3. CASE (\E p \in Properties : NotReady(c, p)) \/ InsertFails(c)
  BY <1>3, <1>a, <1>b, IdlePhase DEF NotReady, InsertFails
<1>4. CASE SubmitChecks(c)
  BY <1>4, <1>a, CheckGuards DEF SubmitChecks
<1>5. CASE \E r \in Runs, fails \in BOOLEAN : SubmitInserts(c, r, fails)
  BY <1>5, InsertRows
<1>6. CASE RollsBack(c)
  <2>0. req[c].phase # "idle" /\ Undo(c)
    BY <1>6 DEF RollsBack
  <2>1. /\ \A d \in Clients \ {c} : req'[d] = req[d]
        /\ req'[c].phase = "read" /\ req'[c].held = {}
    <3>1. req[c] \in Request
      BY <1>0, <2>0, RequestFields DEF ReqType
    <3>2. NextProperty(c, req[c].for.prop) \in Request
          /\ NextProperty(c, req[c].for.prop).phase = "read"
      BY <3>1 DEF NextProperty, Request
    <3> QED BY <1>0, <1>6, <3>2 DEF RollsBack, ReqType, Request
  <2>2. Guarded(c)'
    BY <2>1 DEF Guarded
  <2> QED BY <2>0, <2>1, <2>2, UndoRows, OthersGuarded
<1>7. CASE SubmitDies(c)
  <2>1. Undo(c) /\ req'[c] = Idle /\ \A d \in Clients \ {c} : req'[d] = req[d]
    BY <1>0, <1>7 DEF SubmitDies, ReqType
  <2> QED BY <2>1, UndoRows, OthersGuarded
<1>8. CASE SubmitReplies(c)
  BY <1>8, ReplyRows
<1> QED BY <1>1, <1>2, <1>3, <1>4, <1>5, <1>6, <1>7, <1>8 DEF Submission

\* A review changes one committed, undecided run and its workflow with it.
LEMMA CommitRows ==
  ASSUME TypeOK, Rows, GapsGuarded, ReviewsCommitted,
         NEW p \in Reviewers, ReviewCommits(p)
  PROVE  /\ Rows' /\ GapsGuarded'
         /\ \A r \in Runs : Committed(r) => Committed(r)'
         /\ \A r \in Runs : run[r].status \in Decided =>
                              run'[r] = run[r] /\ wf'[r] = wf[r]
<1> DEFINE x == rev[p]
           i == x.run
<1>0. RunsType /\ RevType
  BY TypeParts
<1>1. /\ i \in Runs /\ Committed(i) /\ req' = req
      /\ x.kind \in {"approve", "reject", "return"}
  BY <1>0, ReviewFields, IdlePhase DEF ReviewCommits, RevType, ReviewsCommitted
<1>2. CASE ~MayDecide(x)
  <2>1. run' = run /\ wf' = wf
    BY <1>2 DEF ReviewCommits
  <2> QED BY <1>1, <2>1
          DEF Rows, RowsWhole, OneRunPerKey, SameVerdict, GapsGuarded, Guarded,
              Key, Committed
<1>3. CASE MayDecide(x)
  <2>1. /\ run' = [run EXCEPT ![i].status = Decision(x)]
        /\ wf' = RecordDecision(x)
    BY <1>3 DEF ReviewCommits
  <2>2. /\ run[i].status = "PENDING_APPROVAL" /\ run[i].tx = NoRun
        /\ wf[i].status # "NONE" => wf[i].status = "WAITING_FOR_APPROVAL"
    BY <1>1, <1>3 DEF MayDecide, Committed
  <2>3. Decision(x) \in {"PENDING_APPROVAL"} \cup Decided
    BY <1>1 DEF Decision, Decided
  <2>4. /\ \A r \in Runs \ {i} : run'[r] = run[r] /\ wf'[r] = wf[r]
        /\ run'[i].status = Decision(x) /\ run'[i].for = run[i].for
        /\ run'[i].tx = NoRun
    BY <1>0, <1>1, <2>1, <2>2 DEF RecordDecision, RunsType, RunRow
  <2>5. RowsWhole'
    BY <2>3, <2>4 DEF Rows, RowsWhole, Decided
  <2>6. OneRunPerKey'
    <3>1. \A r \in Runs : run'[r].status \in Active =>
             run[r].status \in Active /\ run'[r].for = run[r].for
      BY <2>2, <2>4 DEF Active
    <3> QED BY <3>1 DEF Rows, OneRunPerKey, Key
  <2>7. SameVerdict'
    <3>1. /\ wf[i].status = "NONE" => wf'[i].status = "NONE"
          /\ wf[i].status # "NONE" =>
               CASE Decision(x) = "PENDING_APPROVAL" ->
                      wf'[i].status = "WAITING_FOR_APPROVAL"
                 [] Decision(x) = "APPROVED" ->
                      wf'[i].status = "COMPLETED" /\ wf'[i].level = FinalLevel
                 [] OTHER -> Decision(x) # "NONE" /\ wf'[i].status = "REJECTED"
      BY <1>0, <1>1, <2>1, <2>2
         DEF RecordDecision, Decision, IsFinal, RunsType, Workflow
    <3> QED BY <2>4, <3>1 DEF Rows, SameVerdict
  <2>8. GapsGuarded'
    <3> SUFFICES ASSUME NEW d \in Clients, req[d] # Idle PROVE Guarded(d)'
      BY <1>1 DEF GapsGuarded
    <3>1. Guarded(d)
      BY DEF GapsGuarded
    <3>2. run[i].status \in Active /\ run[i].tx # d
      BY <2>2, BillRunAssumption DEF Active
    <3>3. \A r \in Runs : run'[r].status \in Active =>
             /\ run[r].status \in Active
             /\ run'[r].for = run[r].for /\ run'[r].tx = run[r].tx
      BY <2>2, <2>4, <3>2
    <3> QED BY <1>1, <3>1, <3>3 DEF Guarded, Key
  <2>9. \A r \in Runs : Committed(r) => Committed(r)'
    BY <2>3, <2>4 DEF Committed, Decided
  <2>10. \A r \in Runs : run[r].status \in Decided =>
                           run'[r] = run[r] /\ wf'[r] = wf[r]
    BY <2>2, <2>4 DEF Decided
  <2> QED BY <2>5, <2>6, <2>7, <2>8, <2>9, <2>10 DEF Rows
<1> QED BY <1>2, <1>3
-----------------------------------------------------------------------------
(* Reviews in flight and the bills they make.                              *)

Billing == ReviewsCommitted /\ BilledIfApproved /\ NoUnitForgotten

\* Steps that leave reviews and bills alone, and decided runs as they are.
LEMMA BillingKept ==
  ASSUME Billing, RevType, bill' = bill, rev' = rev,
         \A r \in Runs : Committed(r) => Committed(r)',
         \A r \in Runs : run[r].status = "APPROVED" => run'[r] = run[r]
  PROVE  Billing'
<1>1. \A p \in Reviewers : rev[p].phase # "idle" => rev[p].run \in Runs
  BY ReviewFields DEF RevType
<1>2. \A p \in Reviewers : rev[p] # Idle => rev[p].phase # "idle"
  BY DEF RevType, Review, Idle
<1>3. ReviewsCommitted'
  BY <1>1, <1>2 DEF Billing, ReviewsCommitted
<1>4. BilledIfApproved'
  BY <1>1 DEF Billing, BilledIfApproved
<1>5. NoUnitForgotten'
  BY DEF Billing, NoUnitForgotten
<1> QED BY <1>3, <1>4, <1>5 DEF Billing

\* Steps of one review that change neither a run nor a bill.
LEMMA BillingMoves ==
  ASSUME Billing, NEW p \in Reviewers, UNCHANGED <<run, bill>>,
         RevType, NEW new, rev' = [rev EXCEPT ![p] = new],
         new # Idle => Committed(new.run),
         new.phase = "billing" =>
           /\ run[new.run].status = "APPROVED"
           /\ \A u \in Units : bill[new.run][u] # "NONE"
                                \/ u \in new.todo \cup new.failed
  PROVE  Billing'
<1>1. rev'[p] = new /\ \A q \in Reviewers \ {p} : rev'[q] = rev[q]
  BY DEF RevType
<1>2. ReviewsCommitted'
  BY <1>1 DEF Billing, ReviewsCommitted, Committed
<1>3. BilledIfApproved'
  BY <1>1 DEF Billing, BilledIfApproved
<1>4. NoUnitForgotten'
  BY <1>1 DEF Billing, NoUnitForgotten
<1> QED BY <1>2, <1>3, <1>4 DEF Billing

LEMMA ReviewingBilling ==
  ASSUME TypeOK, Rows, GapsGuarded, Billing, NEW p \in Reviewers, Reviewing(p)
  PROVE  Billing'
<1>0. RunsType /\ BillType /\ RevType
  BY TypeParts
<1>i. Idle.phase # "billing"
  BY DEF Idle
<1>1. CASE \E r \in Runs, k \in {"approve", "reject", "return"},
              u \in Users \cup {System} : ReviewOpens(p, r, k, u)
  <2> PICK r \in Runs, k \in {"approve", "reject", "return"},
           u \in Users \cup {System} : ReviewOpens(p, r, k, u)
    BY <1>1
  <2> DEFINE new == [phase |-> "open", run |-> r, kind |-> k, by |-> u,
                     seen |-> wf[r].level]
  <2>1. /\ rev' = [rev EXCEPT ![p] = new] /\ UNCHANGED <<run, bill>>
        /\ Committed(r)
    BY DEF ReviewOpens
  <2>2. new.run = r /\ new.phase # "billing"
    OBVIOUS
  <2> HIDE DEF new
  <2> QED BY <1>0, <2>1, <2>2, BillingMoves
<1>2. CASE ReviewCommits(p)
  <2> DEFINE x == rev[p]
             new == [phase |-> "committed", run |-> x.run]
  <2>1. /\ \A r \in Runs : Committed(r) => Committed(r)'
        /\ \A r \in Runs : run[r].status \in Decided =>
                             run'[r] = run[r] /\ wf'[r] = wf[r]
    BY <1>2, CommitRows DEF Billing
  <2>2. x.run \in Runs /\ Committed(x.run) /\ bill' = bill
    BY <1>0, <1>2, ReviewFields, IdlePhase
       DEF ReviewCommits, RevType, Billing, ReviewsCommitted
  <2>3. /\ \A q \in Reviewers \ {p} : rev'[q] = rev[q]
        /\ rev'[p] = Idle \/ rev'[p] = new
    BY <1>0, <1>2 DEF ReviewCommits, RevType
  <2>4. rev'[p].phase # "billing" /\ (rev'[p] # Idle => rev'[p].run = x.run)
    BY <1>i, <2>3
  <2>5. \A q \in Reviewers : rev[q] # Idle => rev[q].run \in Runs
    BY <1>0, ReviewFields, IdlePhase DEF RevType
  <2>6. ReviewsCommitted'
    BY <2>1, <2>2, <2>3, <2>4, <2>5 DEF Billing, ReviewsCommitted
  <2>7. BilledIfApproved'
    <3>1. \A q \in Reviewers : rev[q].phase = "billing" => rev[q].run \in Runs
      BY <1>i, <2>5
    <3> QED BY <2>1, <2>2, <2>3, <2>4, <3>1
            DEF Billing, BilledIfApproved, Decided
  <2>8. NoUnitForgotten'
    BY <2>2, <2>3, <2>4 DEF Billing, NoUnitForgotten
  <2> QED BY <2>6, <2>7, <2>8 DEF Billing
<1>3. CASE ReviewDies(p) \/ GenerationEnds(p)
  BY <1>0, <1>i, <1>3, BillingMoves DEF ReviewDies, GenerationEnds
<1>4. CASE GenerationStarts(p)
  <2> DEFINE r == rev[p].run
             new == [phase |-> "billing", run |-> r,
                     todo |-> {u \in Units : bill[r][u] = "NONE"},
                     failed |-> {}]
  <2>1. Committed(r) /\ UNCHANGED <<run, bill>>
    BY <1>4, IdlePhase DEF GenerationStarts, Billing, ReviewsCommitted
  <2>2. CASE run[r].status = "APPROVED"
    <3>1. rev' = [rev EXCEPT ![p] = new]
      BY <1>4, <2>2 DEF GenerationStarts, StartsBilling
    <3>2. /\ new.run = r
          /\ \A u \in Units : bill[r][u] # "NONE"
                               \/ u \in new.todo \cup new.failed
      OBVIOUS
    <3> HIDE DEF new
    <3> QED BY <1>0, <2>1, <2>2, <3>1, <3>2, BillingMoves
  <2>3. CASE run[r].status # "APPROVED"
    BY <1>0, <1>i, <1>4, <2>1, <2>3, BillingMoves DEF GenerationStarts
  <2> QED BY <2>2, <2>3
<1>5. CASE \E u \in Units : GenerateOneBill(p, u)
  <2> PICK u \in Units : GenerateOneBill(p, u)
    BY <1>5
  <2> DEFINE r == rev[p].run
  <2>1. rev[p] \in Review /\ rev[p] # Idle /\ r \in Runs /\ rev[p].phase = "billing"
    BY <1>0, <1>i, ReviewFields DEF GenerateOneBill, RevType
  <2>2. /\ \A q \in Reviewers \ {p} : rev'[q] = rev[q]
        /\ rev'[p].run = r /\ rev'[p].phase = "billing"
        /\ rev'[p].todo = rev[p].todo \ {u} /\ run' = run
        /\ \/ bill'[r][u] # "NONE" /\ rev'[p].failed = rev[p].failed
           \/ rev'[p].failed = rev[p].failed \cup {u}
    <3>1. /\ rev[p].todo \in SUBSET Units /\ rev[p].failed \in SUBSET Units
          /\ rev[p].phase = "billing"
      BY <1>0, <2>1, ReviewFields DEF RevType
    <3>2. CASE /\ BillUnit(r, u)
               /\ rev' = [rev EXCEPT ![p].todo = @ \ {u}]
      <4>1. bill'[r][u] # "NONE"
        BY <1>0, <2>1, <3>2 DEF BillUnit, BillType
      <4>2. rev'[p] = [rev[p] EXCEPT !.todo = rev[p].todo \ {u}]
        BY <1>0, <3>2 DEF RevType
      <4> QED BY <1>0, <2>1, <3>1, <3>2, <4>1, <4>2
              DEF GenerateOneBill, RevType, Review
    <3>3. CASE rev' = [rev EXCEPT ![p].todo = @ \ {u},
                                  ![p].failed = @ \cup {u}]
      <4>1. rev'[p] = [rev[p] EXCEPT !.todo = rev[p].todo \ {u},
                                     !.failed = rev[p].failed \cup {u}]
        BY <1>0, <3>3 DEF RevType
      <4> QED BY <1>0, <2>1, <3>1, <3>3, <4>1 DEF GenerateOneBill, RevType, Review
    <3> QED BY <3>2, <3>3 DEF GenerateOneBill
  <2>3. \A s \in Runs, v \in Units :
          \/ bill'[s][v] = bill[s][v]
          \/ s = r /\ v = u /\ bill'[s][v] # "NONE"
    BY <1>0, <2>1 DEF GenerateOneBill, BillUnit, BillType
  <2>5. ReviewsCommitted'
    BY <2>1, <2>2 DEF Billing, ReviewsCommitted, Committed
  <2>6. run[r].status = "APPROVED"
    BY <2>1 DEF Billing, BilledIfApproved
  <2>7. BilledIfApproved'
    BY <2>2, <2>3, <2>6 DEF Billing, BilledIfApproved
  <2>8. NoUnitForgotten'
    <3> SUFFICES ASSUME NEW q \in Reviewers, rev'[q] # Idle,
                        rev'[q].phase = "billing", NEW v \in Units
                 PROVE  bill'[rev'[q].run][v] # "NONE"
                        \/ v \in rev'[q].todo \cup rev'[q].failed
      BY DEF NoUnitForgotten
    <3>1. rev[q] # Idle /\ rev[q].phase = "billing" /\ rev'[q].run = rev[q].run
      BY <2>1, <2>2
    <3>2. rev[q].run \in Runs
      BY <1>0, <3>1, ReviewFields DEF RevType
    <3>3. bill[rev[q].run][v] # "NONE" \/ v \in rev[q].todo \cup rev[q].failed
      BY <3>1 DEF Billing, NoUnitForgotten
    <3> QED BY <2>2, <2>3, <3>1, <3>2, <3>3
  <2> QED BY <2>5, <2>7, <2>8 DEF Billing
<1> QED BY <1>1, <1>2, <1>3, <1>4, <1>5 DEF Reviewing
-----------------------------------------------------------------------------
(* The theorems.                                                           *)

LEMMA InitIInv == ASSUME Init PROVE IInv
<1>1. TypeOK
  <2>1. NoRow \in RunRow /\ NoWorkflow \in Workflow
    BY SomeTarget, BillRunAssumption DEF NoRow, NoWorkflow, RunRow, Workflow, Levels
  <2>2. 1 \in Months /\ 1 \in Versions
    BY BillRunAssumption DEF Months, Versions
  <2>3. TimeType
    <3>1. {<<1, 1>>} \in SUBSET (Versions \X Months)
      BY <2>2
    <3> HIDE DEF Versions, Months
    <3>2. lived \in [Properties -> SUBSET (Versions \X Months)]
      BY <3>1 DEF Init
    <3> QED BY <2>2, <3>2 DEF Init, TimeType
  <2>4. RunsType /\ BillType
    BY <2>1 DEF Init, RunsType, BillType
  <2>5. ReqType /\ RevType
    BY DEF Init, ReqType, RevType
  <2> QED BY <2>3, <2>4, <2>5
          DEF TypeOK, TimeType, RunsType, BillType, ReqType, RevType
<1>2. /\ \A r \in Runs : run[r] = NoRow /\ wf[r] = NoWorkflow
      /\ \A r \in Runs, u \in Units : bill[r][u] = "NONE"
      /\ \A c \in Clients : req[c] = Idle
      /\ \A p \in Reviewers : rev[p] = Idle /\ rev[p].phase = "idle"
  BY DEF Init, Idle
<1>3. RowsWhole /\ OneRunPerKey /\ SameVerdict
  BY <1>2, EmptyRow DEF RowsWhole, OneRunPerKey, SameVerdict, Active, Decided
<1>4. GapsGuarded /\ ReviewsCommitted /\ BilledIfApproved /\ NoUnitForgotten
  BY <1>2 DEF GapsGuarded, ReviewsCommitted, BilledIfApproved, NoUnitForgotten
<1> QED BY <1>1, <1>3, <1>4 DEF IInv

LEMMA StepIInv == ASSUME IInv, [Next]_vars PROVE IInv'
<1>1. TypeOK /\ Rows /\ GapsGuarded /\ Billing
  BY DEF IInv, Rows, Billing
<1>0. RunsType /\ BillType /\ RevType
  BY <1>1, TypeParts
<1> SUFFICES Rows' /\ GapsGuarded' /\ Billing'
  BY <1>1, TypeStep DEF IInv, Rows, Billing
<1>a. ASSUME UNCHANGED <<run, wf, req>> PROVE Rows' /\ GapsGuarded'
  BY <1>a, <1>1
     DEF Rows, RowsWhole, OneRunPerKey, SameVerdict, GapsGuarded, Guarded, Key
<1>b. ASSUME UNCHANGED <<run, bill, rev>> PROVE Billing'
  BY <1>0, <1>1, <1>b, BillingKept DEF Committed
<1>2. CASE \/ PeriodCloses \/ MonthBegins \/ DefinitionPublished
           \/ \E p \in Properties : VersionActivated(p)
  BY <1>2, <1>a, <1>b
     DEF PeriodCloses, MonthBegins, DefinitionPublished, VersionActivated
<1>3. CASE \E c \in Clients : Submission(c)
  <2> PICK c \in Clients : Submission(c)
    BY <1>3
  <2>1. /\ Rows' /\ GapsGuarded'
        /\ \A r \in Runs : Committed(r) => run'[r] = run[r] /\ wf'[r] = wf[r]
    BY <1>1, SubmissionRows
  <2>2. bill' = bill /\ rev' = rev
    BY DEF Submission, SubmitOpens, SubmitReads, NotReady, SubmitChecks,
           SubmitInserts, InsertFails, RollsBack, SubmitDies, SubmitReplies
  <2>3. \A r \in Runs : run[r].status = "APPROVED" => Committed(r)
    BY <1>1 DEF Rows, RowsWhole, Committed, Decided
  <2> QED BY <1>0, <1>1, <2>1, <2>2, <2>3, BillingKept DEF Committed
<1>4. CASE \E p \in Reviewers : Reviewing(p)
  <2> PICK p \in Reviewers : Reviewing(p)
    BY <1>4
  <2>1. Rows' /\ GapsGuarded'
    <3>1. CASE ReviewCommits(p)
      BY <1>1, <3>1, CommitRows DEF Billing
    <3>2. CASE UNCHANGED <<run, wf, req>>
      BY <3>2, <1>a
    <3> QED BY <3>1, <3>2 DEF Reviewing, ReviewOpens, ReviewDies,
               GenerationStarts, GenerationEnds, GenerateOneBill
  <2> QED BY <1>1, <2>1, ReviewingBilling
<1>5. CASE \E r \in Runs, u \in Units : CancelBill(r, u)
  <2> PICK r \in Runs, u \in Units : CancelBill(r, u)
    BY <1>5
  <2>1. UNCHANGED <<run, wf, req, rev>>
    BY DEF CancelBill
  <2>2. \A s \in Runs, v \in Units : bill'[s][v] # "NONE" <=> bill[s][v] # "NONE"
    BY <1>0 DEF CancelBill, BillType
  <2>3. \A p \in Reviewers : rev[p] # Idle => rev[p].run \in Runs
    BY <1>0, <1>1, ReviewFields, IdlePhase DEF RevType
  <2>4. BilledIfApproved' /\ ReviewsCommitted'
    BY <1>1, <2>1, <2>2
       DEF Billing, BilledIfApproved, ReviewsCommitted, Committed
  <2>5. NoUnitForgotten'
    <3> SUFFICES ASSUME NEW p \in Reviewers, rev[p] # Idle,
                        rev[p].phase = "billing", NEW v \in Units
                 PROVE  bill'[rev[p].run][v] # "NONE"
                        \/ v \in rev[p].todo \cup rev[p].failed
      BY <2>1 DEF NoUnitForgotten
    <3>1. bill[rev[p].run][v] # "NONE" \/ v \in rev[p].todo \cup rev[p].failed
      BY <1>1 DEF Billing, NoUnitForgotten
    <3> QED BY <2>2, <2>3, <3>1
  <2> QED BY <1>a, <2>1, <2>4, <2>5 DEF Billing
<1>6. CASE UNCHANGED vars
  BY <1>6, <1>a, <1>b DEF vars
<1> QED BY <1>2, <1>3, <1>4, <1>5, <1>6 DEF Next

\* The invariant of BillRunService and BillingManagementService, by induction.
THEOREM InductiveInvariant == Spec => []IInv
<1>1. Init => IInv
  BY InitIInv
<1>2. IInv /\ [Next]_vars => IInv'
  BY StepIInv
<1> QED BY <1>1, <1>2, PTL DEF Spec

\* Every row, request and review has its type.
THEOREM TypeCorrect == Spec => []TypeOK
<1>1. IInv => TypeOK
  BY DEF IInv
<1> QED BY <1>1, InductiveInvariant, PTL

\* The row-locked duplicate check of submitWithinTransaction is enough: however
\* submissions, batches and recoveries interleave, deadlock, roll back or die, no
\* property and cycle version has two live runs.
THEOREM OneActiveRunHolds == Spec => []OneActiveRun
<1>1. IInv => OneActiveRun
  BY DEF IInv, OneRunPerKey, OneActiveRun
<1> QED BY <1>1, InductiveInvariant, PTL

\* A bill run and its workflow instance are always decided together.
THEOREM SameVerdictHolds == Spec => []SameVerdict
<1>1. IInv => SameVerdict
  BY DEF IInv
<1> QED BY <1>1, InductiveInvariant, PTL

\* Only approved runs are ever billed.
THEOREM BilledIfApprovedHolds == Spec => []BilledIfApproved
<1>1. IInv => BilledIfApproved
  BY DEF IInv
<1> QED BY <1>1, InductiveInvariant, PTL

\* A generation that comes to its end has billed or reported every unit.
THEOREM EveryUnitTriedHolds == Spec => []EveryUnitTried
<1>1. IInv => EveryUnitTried
  <2> SUFFICES ASSUME IInv, NEW p \in Reviewers, rev[p].phase = "billing",
                      rev[p].todo = {}, NEW u \in Units
               PROVE  bill[rev[p].run][u] # "NONE" \/ u \in rev[p].failed
    BY DEF EveryUnitTried
  <2>1. rev[p] # Idle
    BY DEF Idle
  <2> QED BY <2>1 DEF IInv, NoUnitForgotten
<1> QED BY <1>1, InductiveInvariant, PTL

\* What approve, reject and returnForCorrection have decided stays decided, and a
\* bill goes from nothing to issued to cancelled, never back.
THEOREM HistoryIsKept == Spec => HistoryKept
<1>1. IInv /\ [Next]_vars => [KeepsHistory]_vars
  <2> SUFFICES ASSUME IInv, Next PROVE KeepsHistory
    OBVIOUS
  <2>0. TypeOK /\ Rows /\ GapsGuarded /\ Billing
    BY DEF IInv, Rows, Billing
  <2>t. BillType /\ RevType
    BY <2>0, TypeParts
  <2> DEFINE Runs1 == \A r \in Runs : Committed(r) /\ run[r].status \in Decided =>
                         run'[r] = run[r] /\ wf'[r] = wf[r]
             Bills1 == \A r \in Runs, u \in Units : bill'[r][u] # bill[r][u] =>
                         <<bill[r][u], bill'[r][u]>> \in
                           {<<"NONE", "ISSUED">>, <<"ISSUED", "CANCELLED">>}
  <2>1. CASE \/ PeriodCloses \/ MonthBegins \/ DefinitionPublished
             \/ \E p \in Properties : VersionActivated(p)
    BY <2>1 DEF PeriodCloses, MonthBegins, DefinitionPublished, VersionActivated,
                KeepsHistory
  <2>2. CASE \E c \in Clients : Submission(c)
    <3> PICK c \in Clients : Submission(c)
      BY <2>2
    <3>1. bill' = bill
      BY DEF Submission, SubmitOpens, SubmitReads, NotReady, SubmitChecks,
             SubmitInserts, InsertFails, RollsBack, SubmitDies, SubmitReplies
    <3> QED BY <2>0, <3>1, SubmissionRows DEF KeepsHistory
  <2>3. CASE \E p \in Reviewers : Reviewing(p)
    <3> PICK p \in Reviewers : Reviewing(p)
      BY <2>3
    <3>1. CASE ReviewCommits(p)
      <4>1. bill' = bill
        BY <3>1 DEF ReviewCommits
      <4> QED BY <2>0, <3>1, <4>1, CommitRows DEF KeepsHistory, Billing
    <3>2. CASE \E u \in Units : GenerateOneBill(p, u)
      <4> PICK u \in Units : GenerateOneBill(p, u)
        BY <3>2
      <4>1. UNCHANGED <<run, wf>> /\ rev[p].run \in Runs
        BY <2>t, ReviewFields DEF GenerateOneBill, RevType
      <4>2. Bills1
        BY <2>t, <4>1 DEF GenerateOneBill, BillUnit, BillType
      <4> QED BY <4>1, <4>2 DEF KeepsHistory
    <3>3. CASE UNCHANGED <<run, wf, bill>>
      BY <3>3 DEF KeepsHistory
    <3> QED BY <3>1, <3>2, <3>3 DEF Reviewing, ReviewOpens, ReviewDies,
               GenerationStarts, GenerationEnds
  <2>4. CASE \E r \in Runs, u \in Units : CancelBill(r, u)
    <3> PICK r \in Runs, u \in Units : CancelBill(r, u)
      BY <2>4
    <3>1. UNCHANGED <<run, wf>>
      BY DEF CancelBill
    <3>2. Bills1
      BY <2>t DEF CancelBill, BillType
    <3> QED BY <3>1, <3>2 DEF KeepsHistory
  <2> QED BY <2>1, <2>2, <2>3, <2>4 DEF Next
<1> QED BY <1>1, InductiveInvariant, PTL DEF Spec, HistoryKept
=============================================================================
