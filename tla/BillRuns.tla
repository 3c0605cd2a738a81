------------------------------- MODULE BillRuns -------------------------------
(***************************************************************************)
(* Bill runs and the bills they produce: BillRunService (submit,           *)
(* submitBatch, resubmit, approve, reject, returnForCorrection) and        *)
(* BillingManagementService (generateBillsForBillRun, cancelBill).         *)
(*                                                                         *)
(* A submission holds one InnoDB transaction open: rows it has inserted    *)
(* carry its name in the field tx until it commits.  Its duplicate check   *)
(* is a SELECT ... FOR UPDATE: on a row it finds it waits for the row's    *)
(* lock; finding none, it holds a gap lock (held) to the end of the        *)
(* transaction.  Gap locks do not exclude each other, they exclude the     *)
(* inserts of others, so two submissions that both found nothing deadlock  *)
(* and InnoDB rolls one of them back: RollsBack, SubmitDies.               *)
(*                                                                         *)
(* A review is a snapshot followed by one stretch of row locks, and the    *)
(* bills are made after it has committed, one transaction per unit.        *)
(* Who may decide at a level is the subject of WorkflowEngine; here a      *)
(* level is decided by anyone but the submitter.                           *)
(***************************************************************************)
EXTENDS Integers, FiniteSets, Relation

CONSTANTS
  Runs,          \* ids for bill_runs rows
  Properties, Users,
  System,        \* the missing actorId of an automatic approval
  Clients,       \* concurrent submissions
  Reviewers,     \* concurrent reviews, with the bill generation that follows
  Kinds,         \* the submissions taken into account
  Units,         \* the units of every property
  Billable,      \* those for which a bill can always be computed
  FinalLevel,    \* the last level of the BILL_RUN workflow definition
  MaxVersion,    \* bound: billing cycle versions of a property
  MaxMonth,      \* bound: months
  NoRun          \* the null of resubmittedFromId

ASSUME BillRunAssumption ==
  /\ FinalLevel \in Nat /\ MaxVersion \in Nat \ {0} /\ MaxMonth \in Nat \ {0}
  /\ Properties # {} /\ Billable \subseteq Units /\ System \notin Users
  /\ NoRun \notin Runs \cup Clients
  /\ Kinds \subseteq {"submit", "batch", "recover", "resubmit"}

Versions == 1..MaxVersion
Months   == 1..MaxMonth
Levels   == 0..FinalLevel
Active   == {"PENDING_APPROVAL", "APPROVED"}       \* ACTIVE_BILL_RUN_STATUSES
Decided  == {"APPROVED", "REJECTED", "RETURNED_FOR_CORRECTION"}

VARIABLES
  month, closed, \* the current month, and whether its reading period is over
  cycle,         \* cycle[p]: the property's current billing cycle version
  lived,         \* lived[p]: the <<version, month>> pairs p has gone through
  configured,    \* is there an ACTIVE definition for BILL_RUN?
  run,           \* run[r]: the bill_runs row
  wf,            \* wf[r]: its workflow instance
  bill,          \* bill[r][u]: the status of the bill of unit u
  req,           \* req[c]: a submission in flight
  rev            \* rev[p]: a review in flight, then the generation it starts

time == <<month, closed, cycle, lived, configured>>
vars == <<time, run, wf, bill, req, rev>>

Idle   == [phase |-> "idle"]
Target == [prop: Properties, version: Versions, month: Months]
AnyTarget == CHOOSE x \in Target : TRUE
NoRow  == [status |-> "NONE", for |-> AnyTarget, from |-> NoRun,
           by |-> System, tx |-> NoRun]
NoWorkflow == [status |-> "NONE", level |-> 0]

RunRow == [status: Active \cup Decided \cup {"NONE"}, for: Target,
           from: Runs \cup {NoRun}, by: Users \cup {System},
           tx: Clients \cup {NoRun}]
Workflow == [status: {"NONE", "WAITING_FOR_APPROVAL", "COMPLETED", "REJECTED"},
             level: Levels]

\* phase: what comes next for the property in hand.  alive: the transaction has
\* not been rolled back under the feet of submitBatch.
Request ==
  [phase: {"read", "check", "insert"}, kind: Kinds, by: Users,
   from: Runs \cup {NoRun}, todo: SUBSET Properties, for: Target,
   held: SUBSET (Properties \X Versions), submitted: SUBSET Runs,
   alive: BOOLEAN]
Review ==
  [phase: {"open"}, run: Runs, kind: {"approve", "reject", "return"},
   by: Users \cup {System}, seen: Levels]
  \cup [phase: {"committed"}, run: Runs]
  \cup [phase: {"billing"}, run: Runs, todo: SUBSET Units, failed: SUBSET Units]

TypeOK ==
  /\ month \in Months /\ closed \in BOOLEAN /\ configured \in BOOLEAN
  /\ cycle \in [Properties -> Versions]
  /\ lived \in [Properties -> SUBSET (Versions \X Months)]
  /\ run \in [Runs -> RunRow]
  /\ wf \in [Runs -> Workflow]
  /\ bill \in [Runs -> [Units -> {"NONE", "ISSUED", "CANCELLED"}]]
  /\ req \in [Clients -> {Idle} \cup Request]
  /\ rev \in [Reviewers -> {Idle} \cup Review]

Init ==
  /\ month = 1 /\ closed = FALSE /\ configured \in BOOLEAN
  /\ cycle = [p \in Properties |-> 1]
  /\ lived = [p \in Properties |-> {<<1, 1>>}]
  /\ run = [r \in Runs |-> NoRow]
  /\ wf = [r \in Runs |-> NoWorkflow]
  /\ bill = [r \in Runs |-> [u \in Units |-> "NONE"]]
  /\ req = [c \in Clients |-> Idle]
  /\ rev = [p \in Reviewers |-> Idle]

-----------------------------------------------------------------------------
(* Time and configuration.                                                 *)

\* getReadingPeriodForProperty anchors the current version to today: closed once
\* the period's last day is over.
PeriodCloses ==
  /\ ~closed /\ closed' = TRUE
  /\ UNCHANGED <<month, cycle, lived, configured, run, wf, bill, req, rev>>

MonthBegins ==
  /\ closed /\ month < MaxMonth
  /\ month' = month + 1 /\ closed' = FALSE
  /\ lived' = [p \in Properties |-> lived[p] \cup {<<cycle[p], month + 1>>}]
  /\ UNCHANGED <<cycle, configured, run, wf, bill, req, rev>>

\* activateVersion of the billing cycle service: a new current version.
VersionActivated(p) ==
  /\ cycle[p] < MaxVersion
  /\ cycle' = [cycle EXCEPT ![p] = @ + 1]
  /\ lived' = [lived EXCEPT ![p] = @ \cup {<<cycle[p] + 1, month>>}]
  /\ UNCHANGED <<month, closed, configured, run, wf, bill, req, rev>>

DefinitionPublished ==
  /\ ~configured /\ configured' = TRUE
  /\ UNCHANGED <<month, closed, cycle, lived, run, wf, bill, req, rev>>

-----------------------------------------------------------------------------
(* Submissions.                                                            *)

Committed(r) == run[r].status # "NONE" /\ run[r].tx = NoRun
Key(x)       == <<x.prop, x.version>>
Mine(c)      == {r \in Runs : run[r].status # "NONE" /\ run[r].tx = c}

\* submit, submitBatch, resubmit: resubmit looks at the original, unlocked, before
\* its transaction; it keeps nothing of it but the property and the id.
SubmitOpens(c, kind, u, todo, from) ==
  /\ req[c].phase = "idle"
  /\ kind # "batch" => Cardinality(todo) = 1
  /\ IF kind = "resubmit"
     THEN /\ from \in Runs /\ Committed(from)
          /\ run[from].status \in {"RETURNED_FOR_CORRECTION", "REJECTED"}
          /\ todo = {run[from].for.prop}
     ELSE from = NoRun
  /\ req' = [req EXCEPT ![c] =
       [phase |-> "read", kind |-> kind, by |-> u, from |-> from,
        todo |-> todo, for |-> AnyTarget, held |-> {}, submitted |-> {},
        alive |-> TRUE]]
  /\ UNCHANGED <<time, run, wf, bill, rev>>

\* The period submitWithinTransaction resolves, read outside the transaction.
\* Recovery takes the version that covers the date of a past reading; its
\* eligibility refuses a version that ever had a run, whatever became of it.
Resolved(kind, x) ==
  IF kind = "recover"
  THEN /\ <<x.version, x.month>> \in lived[x.prop]
       /\ \A r \in Runs : Committed(r) => Key(run[r].for) # Key(x)
  ELSE x.version = cycle[x.prop] /\ x.month = month /\ closed

SubmitReads(c, x) ==
  /\ req[c].phase = "read" /\ x.prop \in req[c].todo
  /\ Resolved(req[c].kind, x)
  /\ req' = [req EXCEPT ![c].phase = "check", ![c].for = x]
  /\ UNCHANGED <<time, run, wf, bill, rev>>

\* submitBatch goes on to the next property.
NextProperty(c, p) ==
  [req[c] EXCEPT !.phase = "read", !.todo = @ \ {p}]

\* A property that fails its validation: skipped by a batch, the end of others.
Refuses(c, p) ==
  req' = [req EXCEPT ![c] =
            IF @.kind = "batch" THEN NextProperty(c, p) ELSE Idle]

NotReady(c, p) ==
  /\ req[c].phase = "read" /\ p \in req[c].todo
  /\ Refuses(c, p)
  /\ UNCHANGED <<time, run, wf, bill, rev>>

\* What the row-locked duplicate check finds: committed rows and one's own.
Duplicate(c, x) ==
  \E r \in Runs : /\ run[r].status \in Active /\ run[r].tx \in {NoRun, c}
                  /\ Key(run[r].for) = Key(x)

\* c's check meets a row d has inserted; c's insert a gap d has locked.
WaitsForRow(c, d) ==
  /\ c # d /\ req[c].phase = "check"
  /\ \E r \in Mine(d) : Key(run[r].for) = Key(req[c].for)
WaitsForGap(c, d) ==
  /\ c # d /\ req[c].phase = "insert" /\ req[d].phase # "idle"
  /\ Key(req[c].for) \in req[d].held

Deadlocked(c) ==
  LET Waits == [x, y \in Clients |-> WaitsForRow(x, y) \/ WaitsForGap(x, y)]
  IN TransitiveClosure(Waits, Clients)[c, c]

\* Mutant: a plain SELECT, which locks nothing.
ChecksUnlocked(c) ==
  LET x == req[c].for IN
  /\ req[c].phase = "check"
  /\ IF Duplicate(c, x) THEN Refuses(c, x.prop)
     ELSE req' = [req EXCEPT ![c].phase = "insert"]
  /\ UNCHANGED <<time, run, wf, bill, rev>>

SubmitChecks(c) ==
  LET x == req[c].for IN
  /\ req[c].phase = "check"
  /\ \A d \in Clients : ~WaitsForRow(c, d)
  /\ IF Duplicate(c, x) THEN Refuses(c, x.prop)
     ELSE req' = [req EXCEPT
            ![c].phase = "insert",
            ![c].held = IF req[c].alive THEN @ \cup {Key(x)} ELSE @]
  /\ UNCHANGED <<time, run, wf, bill, rev>>

\* The insert, and startInstance when BILL_RUN has a definition.  If a statement
\* after the insert fails without rolling back the transaction (a lock wait
\* timeout), submitBatch reports the property as skipped and keeps the row.
SubmitInserts(c, r, fails) ==
  LET x == req[c].for IN
  /\ req[c].phase = "insert" /\ req[c].alive
  /\ \A d \in Clients : ~WaitsForGap(c, d)
  /\ run[r] = NoRow
  /\ fails => req[c].kind = "batch"
  /\ run' = [run EXCEPT ![r] = [status |-> "PENDING_APPROVAL", for |-> x,
                                from |-> req[c].from, by |-> req[c].by,
                                tx |-> c]]
  /\ wf' = IF configured /\ ~fails
           THEN [wf EXCEPT ![r].status = "WAITING_FOR_APPROVAL"] ELSE wf
  /\ req' = [req EXCEPT ![c] =
       [NextProperty(c, x.prop) EXCEPT
          !.submitted = IF fails THEN @ ELSE @ \cup {r}]]
  /\ UNCHANGED <<time, bill, rev>>

\* After a rollback the rest of a batch runs in autocommit mode; its inserts
\* refer to a batch row that is gone and fail on the foreign key.
InsertFails(c) ==
  /\ req[c].phase = "insert" /\ ~req[c].alive
  /\ Refuses(c, req[c].for.prop)
  /\ UNCHANGED <<time, run, wf, bill, rev>>

Undo(c) ==
  /\ run' = [r \in Runs |-> IF r \in Mine(c) THEN NoRow ELSE run[r]]
  /\ wf' = [r \in Runs |-> IF r \in Mine(c) THEN NoWorkflow ELSE wf[r]]

\* The victim of a deadlock, in a batch: the error is caught like any other.
RollsBack(c) ==
  /\ req[c].phase # "idle" /\ req[c].kind = "batch"
  /\ Deadlocked(c)
  /\ Undo(c)
  /\ req' = [req EXCEPT ![c] = [NextProperty(c, @.for.prop) EXCEPT
                                 !.alive = FALSE, !.held = {}]]
  /\ UNCHANGED <<time, bill, rev>>

\* The process or the connection dies; or a submission that is not a batch ends
\* with an error, a deadlock included.
SubmitDies(c) ==
  /\ req[c].phase # "idle"
  /\ Undo(c)
  /\ req' = [req EXCEPT ![c] = Idle]
  /\ UNCHANGED <<time, bill, rev>>

\* The reply: an error if no property was submitted, else COMMIT.
SubmitReplies(c) ==
  /\ req[c].phase = "read" /\ req[c].todo = {}
  /\ IF req[c].submitted = {} THEN Undo(c)
     ELSE /\ run' = [r \in Runs |-> IF r \in Mine(c)
                       THEN [run[r] EXCEPT !.tx = NoRun] ELSE run[r]]
          /\ UNCHANGED wf
  /\ req' = [req EXCEPT ![c] = Idle]
  /\ UNCHANGED <<time, bill, rev>>

-----------------------------------------------------------------------------
(* Reviews.                                                                *)

ReviewOpens(p, r, kind, u) ==
  /\ rev[p].phase = "idle" /\ Committed(r)
  /\ u = System => kind = "approve"
  /\ rev' = [rev EXCEPT ![p] = [phase |-> "open", run |-> r, kind |-> kind,
                                by |-> u, seen |-> wf[r].level]]
  /\ UNCHANGED <<time, run, wf, bill, req>>

\* Mutant: the status of the row is not looked at.
StatusUnchecked(x) ==
  /\ wf[x.run].status # "NONE" =>
       wf[x.run].status = "WAITING_FOR_APPROVAL" /\ wf[x.run].level = x.seen
  /\ run[x.run].by # x.by

\* assertCanAct under the instance's lock (the step was read in the snapshot),
\* then the status and self-review checks under the run's.
MayDecide(x) ==
  /\ wf[x.run].status # "NONE" =>
       wf[x.run].status = "WAITING_FOR_APPROVAL" /\ wf[x.run].level = x.seen
  /\ run[x.run].status = "PENDING_APPROVAL"
  /\ run[x.run].by # x.by

IsFinal(r) == wf[r].status = "NONE" \/ wf[r].level = FinalLevel

\* Mutant: returnForCorrection leaves the workflow instance waiting.
ClosesRejectedOnly(x) ==
  IF wf[x.run].status = "NONE" \/ x.kind = "return" THEN wf
  ELSE IF x.kind = "reject" THEN [wf EXCEPT ![x.run].status = "REJECTED"]
  ELSE IF IsFinal(x.run) THEN [wf EXCEPT ![x.run].status = "COMPLETED"]
  ELSE [wf EXCEPT ![x.run].level = @ + 1]

\* recordApproval and recordRejection; no-ops without an instance.
RecordDecision(x) ==
  IF wf[x.run].status = "NONE" THEN wf
  ELSE IF x.kind # "approve" THEN [wf EXCEPT ![x.run].status = "REJECTED"]
  ELSE IF IsFinal(x.run) THEN [wf EXCEPT ![x.run].status = "COMPLETED"]
  ELSE [wf EXCEPT ![x.run].level = @ + 1]

Decision(x) ==
  CASE x.kind = "approve" -> IF IsFinal(x.run) THEN "APPROVED"
                             ELSE "PENDING_APPROVAL"
    [] x.kind = "reject"  -> "REJECTED"
    [] x.kind = "return"  -> "RETURNED_FOR_CORRECTION"

ReviewCommits(p) ==
  LET x == rev[p] IN
  /\ x.phase = "open"
  /\ IF MayDecide(x)
     THEN /\ run' = [run EXCEPT ![x.run].status = Decision(x)]
          /\ wf' = RecordDecision(x)
          /\ rev' = [rev EXCEPT ![p] =
               IF x.kind = "approve"
               THEN [phase |-> "committed", run |-> x.run]
               ELSE Idle]
     ELSE /\ rev' = [rev EXCEPT ![p] = Idle]
          /\ UNCHANGED <<run, wf>>
  /\ UNCHANGED <<time, bill, req>>

\* The process dies, before or after the commit: nothing resumes a generation.
ReviewDies(p) ==
  /\ rev[p].phase # "idle"
  /\ rev' = [rev EXCEPT ![p] = Idle]
  /\ UNCHANGED <<time, run, wf, bill, req>>

-----------------------------------------------------------------------------
(* Bills.                                                                  *)

StartsBilling(p, r) ==
  rev' = [rev EXCEPT ![p] = [phase |-> "billing", run |-> r,
                             todo |-> {u \in Units : bill[r][u] = "NONE"},
                             failed |-> {}]]

\* Mutant: approve() bills whatever level it was called at.
BillsAnyApproval(p) ==
  /\ rev[p].phase = "committed"
  /\ StartsBilling(p, rev[p].run)
  /\ UNCHANGED <<time, run, wf, bill, req>>

\* approve() re-reads the run it has committed; generateBillsForBillRun lists the
\* units that have no bill yet.
GenerationStarts(p) ==
  /\ rev[p].phase = "committed"
  /\ IF run[rev[p].run].status = "APPROVED" THEN StartsBilling(p, rev[p].run)
     ELSE rev' = [rev EXCEPT ![p] = Idle]
  /\ UNCHANGED <<time, run, wf, bill, req>>

BillUnit(r, u) ==
  bill' = IF bill[r][u] = "NONE" THEN [bill EXCEPT ![r][u] = "ISSUED"] ELSE bill

\* No tariff, customer or readings; or a deadlock with another generation that
\* has locked the same gap before its insert.
MayFail(p, u) ==
  \/ u \notin Billable
  \/ \E q \in Reviewers \ {p} :
       /\ rev[q].phase = "billing" /\ rev[q].run = rev[p].run
       /\ u \in rev[q].todo

\* Mutant: the first unit that fails ends the generation.
StopsAtFailure(p, u) ==
  /\ rev[p].phase = "billing" /\ u \in rev[p].todo
  /\ \/ /\ BillUnit(rev[p].run, u)
        /\ rev' = [rev EXCEPT ![p].todo = @ \ {u}]
     \/ /\ MayFail(p, u)
        /\ rev' = [rev EXCEPT ![p].todo = {}, ![p].failed = @ \cup {u}]
        /\ UNCHANGED bill
  /\ UNCHANGED <<time, run, wf, req>>

\* generateOneBill, its own transaction: an existing bill is returned as it is; a
\* unit that fails is recorded, and the loop goes on.
GenerateOneBill(p, u) ==
  /\ rev[p].phase = "billing" /\ u \in rev[p].todo
  /\ \/ /\ BillUnit(rev[p].run, u)
        /\ rev' = [rev EXCEPT ![p].todo = @ \ {u}]
     \/ /\ MayFail(p, u)
        /\ rev' = [rev EXCEPT ![p].todo = @ \ {u}, ![p].failed = @ \cup {u}]
        /\ UNCHANGED bill
  /\ UNCHANGED <<time, run, wf, req>>

GenerationEnds(p) ==
  /\ rev[p].phase = "billing" /\ rev[p].todo = {}
  /\ rev' = [rev EXCEPT ![p] = Idle]
  /\ UNCHANGED <<time, run, wf, bill, req>>

CancelBill(r, u) ==
  /\ bill[r][u] = "ISSUED"
  /\ bill' = [bill EXCEPT ![r][u] = "CANCELLED"]
  /\ UNCHANGED <<time, run, wf, req, rev>>

-----------------------------------------------------------------------------
Submission(c) ==
  \/ \E k \in Kinds, u \in Users, todo \in SUBSET Properties \ {{}},
        from \in Runs \cup {NoRun} : SubmitOpens(c, k, u, todo, from)
  \/ \E x \in Target : SubmitReads(c, x)
  \/ \E p \in Properties : NotReady(c, p)
  \/ SubmitChecks(c)
  \/ \E r \in Runs, fails \in BOOLEAN : SubmitInserts(c, r, fails)
  \/ InsertFails(c) \/ RollsBack(c) \/ SubmitDies(c) \/ SubmitReplies(c)

Reviewing(p) ==
  \/ \E r \in Runs, k \in {"approve", "reject", "return"},
        u \in Users \cup {System} : ReviewOpens(p, r, k, u)
  \/ ReviewCommits(p) \/ ReviewDies(p)
  \/ GenerationStarts(p) \/ GenerationEnds(p)
  \/ \E u \in Units : GenerateOneBill(p, u)

Next ==
  \/ PeriodCloses \/ MonthBegins \/ DefinitionPublished
  \/ \E p \in Properties : VersionActivated(p)
  \/ \E c \in Clients : Submission(c)
  \/ \E p \in Reviewers : Reviewing(p)
  \/ \E r \in Runs, u \in Units : CancelBill(r, u)

Spec == Init /\ [][Next]_vars

-----------------------------------------------------------------------------
(* What must hold, whatever races.                                         *)

\* A property and cycle version never has two live bill runs: two submissions
\* that both find none cannot both insert.
OneActiveRun ==
  \A r, s \in Runs :
    /\ Committed(r) /\ Committed(s) /\ r # s
    /\ run[r].status \in Active /\ run[s].status \in Active
    => Key(run[r].for) # Key(run[s].for)

\* The run and its workflow instance tell the same story: a run waiting on a
\* dead instance could never be decided, nor one decided behind its back.
SameVerdict ==
  \A r \in Runs : wf[r].status # "NONE" =>
    CASE run[r].status = "PENDING_APPROVAL" ->
           wf[r].status = "WAITING_FOR_APPROVAL"
      [] run[r].status = "APPROVED" ->
           wf[r].status = "COMPLETED" /\ wf[r].level = FinalLevel
      [] OTHER -> run[r].status # "NONE" /\ wf[r].status = "REJECTED"

\* Only an approved run has bills, and only it is being billed: the approval of
\* an intermediate level, or a late reviewer, starts nothing.
BilledIfApproved ==
  /\ \A r \in Runs, u \in Units :
       bill[r][u] # "NONE" => run[r].status = "APPROVED"
  /\ \A p \in Reviewers :
       rev[p].phase = "billing" => run[rev[p].run].status = "APPROVED"

\* A generation that comes to its end leaves no unit aside: whatever failed, and
\* whoever else was billing the same run, each unit has its bill or is reported.
EveryUnitTried ==
  \A p \in Reviewers :
    rev[p].phase = "billing" /\ rev[p].todo = {} =>
      \A u \in Units :
        bill[rev[p].run][u] # "NONE" \/ u \in rev[p].failed

\* A decided run is history: it is never changed, reopened or decided again, and
\* a bill is never issued twice nor taken back but by a cancellation.
KeepsHistory ==
  /\ \A r \in Runs : Committed(r) /\ run[r].status \in Decided =>
       run'[r] = run[r] /\ wf'[r] = wf[r]
  /\ \A r \in Runs, u \in Units : bill'[r][u] # bill[r][u] =>
       <<bill[r][u], bill'[r][u]>> \in
         {<<"NONE", "ISSUED">>, <<"ISSUED", "CANCELLED">>}
HistoryKept == [][KeepsHistory]_vars

\* What submitBatch is about to answer is true: the runs it lists are about to be
\* committed.
BatchTellsTruth ==
  \A c \in Clients :
    req[c].phase = "read" /\ req[c].todo = {} => req[c].submitted \subseteq Mine(c)

\* A closed period is refused as a duplicate only if it has a live run itself.
\* A version stays current for months: each of them is a period of its own.
RefusedForItsPeriod ==
  \A c \in Clients : req[c].phase = "check" =>
    LET x == req[c].for IN
    Duplicate(c, x) =>
      \E r \in Runs : run[r].status \in Active /\ run[r].for = x

-----------------------------------------------------------------------------
(* Why it holds: the inductive invariant.                                  *)

\* A rolled back row leaves nothing behind; only committed rows are decided.
RowsWhole ==
  \A r \in Runs :
    /\ run[r].status = "NONE" => run[r] = NoRow /\ wf[r] = NoWorkflow
    /\ run[r].status \in Decided => run[r].tx = NoRun

ReviewsCommitted ==
  \A p \in Reviewers : rev[p] # Idle => Committed(rev[p].run)

\* A key whose gap c has locked is free but for what c inserted itself, and it is
\* free of that too while c is about to insert.
Guarded(c) ==
  /\ \A r \in Runs :
       run[r].status \in Active /\ Key(run[r].for) \in req[c].held
       => run[r].tx = c
  /\ req[c].phase = "insert" /\ req[c].alive =>
       /\ Key(req[c].for) \in req[c].held
       /\ \A r \in Runs : run[r].status \in Active =>
                             Key(run[r].for) # Key(req[c].for)
GapsGuarded == \A c \in Clients : req[c] # Idle => Guarded(c)

\* Rows that are not committed yet included.
OneRunPerKey ==
  \A r, s \in Runs :
    run[r].status \in Active /\ run[s].status \in Active /\ r # s
    => Key(run[r].for) # Key(run[s].for)

NoUnitForgotten ==
  \A p \in Reviewers : rev[p] # Idle /\ rev[p].phase = "billing" =>
    \A u \in Units :
      bill[rev[p].run][u] # "NONE" \/ u \in rev[p].todo \cup rev[p].failed

\* The invariant the proofs go by: it implies every invariant above.
IInv ==
  /\ TypeOK /\ RowsWhole /\ ReviewsCommitted /\ GapsGuarded /\ OneRunPerKey
  /\ SameVerdict /\ BilledIfApproved /\ NoUnitForgotten
=============================================================================
