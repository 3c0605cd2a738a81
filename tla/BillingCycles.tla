----------------------------- MODULE BillingCycles -----------------------------
(***************************************************************************)
(* The billing cycle of one property: BillingCycleService with its nightly *)
(* scheduler.  A cycle is a chain of versions, of which the master row     *)
(* points at the current one; a new version is submitted for a future day, *)
(* reviewed, and takes over from its parent on that day.                   *)
(*                                                                         *)
(* approve and reject run in one transaction that holds the row's lock,    *)
(* and are single steps.  create, newVersion, resubmit and deprecate read  *)
(* the row first, without a lock, and write later; what they save is the   *)
(* row they read.  The nightly job works through a list it has read, row   *)
(* by row and table by table, with no transaction, and can die anywhere.   *)
(*                                                                         *)
(* The instance of the workflow engine is reduced to its status: the       *)
(* approvals of intermediate levels change nothing here.                   *)
(***************************************************************************)
EXTENDS ReadingPeriods, FiniteSets

CONSTANTS
  Users, System,  \* System: the missing actorId of an automatic approval
  Makers,         \* concurrent create, newVersion, resubmit, deprecate calls
  Rules,          \* pairs <<readingStartDay, readingEndDay>>
  Overlap,        \* may requests and the nightly job interleave?
  MaxVersion,     \* bound: versions of the property
  MaxDay,         \* bound: days that pass
  None

ASSUME BillingCycleAssumption ==
  /\ FirstDay[1] = 1 /\ MaxDay \in 1..(FirstDay[Months] - 1)
  /\ MaxVersion \in Nat /\ Rules \subseteq ReadingRule /\ Overlap \in BOOLEAN
  /\ System \notin Users /\ None \notin Users \cup {System}

Versions  == 1..MaxVersion
Days      == 1..MaxDay
NoDay     == 0                           \* a date column that is NULL
NoVersion == 0
Status    == {"ACTIVE", "INACTIVE", "PENDING", "REJECTED", "DEPRECATED"}

VARIABLES
  today,
  configured,  \* is there an ACTIVE definition for BILLING_CYCLE?
  current,     \* currentVersionId of the master
  ver,         \* ver[v]: the billing_cycle_versions row
  wf,          \* wf[v]: the status of its newest workflow instance
  req,         \* req[m]: a request between its read and its writes
  job,         \* the nightly job
  live,        \* history: the versions activated so far
  ratified     \* history: those finally approved since they were last submitted

rows == <<current, ver, wf>>
hist == <<live, ratified>>
vars == <<today, configured, rows, req, job, hist>>

Idle  == [phase |-> "idle"]
NoRow == [status |-> "NONE", parent |-> NoVersion, rule |-> <<0, 0>>,
          from |-> NoDay, until |-> NoDay, by |-> None, approver |-> None]

\* A version: effectiveFrom is from, deprecatedOn is until (perhaps a future day).
Row == [status: Status, parent: Versions \cup {NoVersion}, rule: Rules,
        from: Days \cup {NoDay}, until: Days \cup {NoDay},
        by: Users \cup {None}, approver: Users \cup {None}]

\* What a request is about to save: status and day go into the row of id.
Request ==
  [phase: {"write"}, kind: {"create", "newVersion", "resubmit", "deprecate"},
   id: Versions \cup {NoVersion}, status: Status, day: Days \cup {NoDay},
   children: SUBSET Versions]
  \cup [phase: {"unpoint"}, id: Versions]

\* A row of the job's lists: the columns of the version that a save can undo.
Listed == [id: Versions, parent: Versions \cup {NoVersion},
           until: Days \cup {NoDay}]
Job ==
  [phase: {"activate", "deprecate"}, todo: SUBSET Listed]
  \cup [phase: {"point", "supersede", "unpoint"}, row: Listed,
        todo: SUBSET Listed]

TypeOK ==
  /\ today \in Days /\ configured \in BOOLEAN
  /\ current \in Versions \cup {NoVersion}
  /\ ver \in [Versions -> Row \cup {NoRow}]
  /\ wf \in [Versions -> {"NONE", "WAITING", "COMPLETED", "REJECTED"}]
  /\ req \in [Makers -> {Idle} \cup Request]
  /\ job \in {Idle} \cup Job
  /\ live \subseteq Versions /\ ratified \subseteq Versions

Init ==
  /\ today = 1 /\ configured \in BOOLEAN /\ current = NoVersion
  /\ ver = [v \in Versions |-> NoRow] /\ wf = [v \in Versions |-> "NONE"]
  /\ req = [m \in Makers |-> Idle] /\ job = Idle
  /\ live = {} /\ ratified = {}

Stored == {v \in Versions : ver[v] # NoRow}

-----------------------------------------------------------------------------
(* Time and configuration.                                                 *)

NextDay ==
  /\ today < MaxDay
  /\ today' = today + 1
  /\ UNCHANGED <<configured, rows, req, job, hist>>

DefinitionPublished ==
  /\ ~configured
  /\ configured' = TRUE
  /\ UNCHANGED <<today, rows, req, job, hist>>

-----------------------------------------------------------------------------
(* The makers: an unlocked read with its checks, then the writes.          *)

Awake == Overlap \/ job = Idle

Reads(m, kind, v, status, day) ==
  /\ Awake /\ req[m] = Idle
  /\ req' = [req EXCEPT ![m] =
       [phase |-> "write", kind |-> kind, id |-> v, status |-> status, day |-> day,
        children |-> {c \in Stored : ver[c].parent = v}]]
  /\ UNCHANGED <<today, configured, rows, job, hist>>

\* create: any status the caller asks for.
CreateReads(m, status) ==
  /\ current = NoVersion
  /\ Reads(m, "create", NoVersion, status, NoDay)

PendingChildren(v) ==
  {c \in Stored : ver[c].parent = v /\ ver[c].status = "PENDING"}

NewVersionReads(m, v, day) ==
  /\ v \in Stored /\ ver[v].status \in {"ACTIVE", "INACTIVE"}
  /\ PendingChildren(v) = {} /\ day > today
  /\ Reads(m, "newVersion", v, "PENDING", day)

ResubmitReads(m, v) ==
  /\ v \in Stored /\ ver[v].status = "REJECTED"
  /\ Reads(m, "resubmit", v, "PENDING", ver[v].until)

\* deprecate: at once, or on a later day by the nightly job.
DeprecateReads(m, v, day) ==
  /\ v \in Stored /\ ver[v].status \notin {"DEPRECATED", "PENDING"}
  /\ ver[v].until <= today /\ day >= today
  /\ Reads(m, "deprecate", v, IF day = today THEN "DEPRECATED" ELSE ver[v].status,
           day)

Writes(m, kind) ==
  /\ req[m].phase = "write" /\ req[m].kind = kind
  /\ UNCHANGED <<today, configured, job, live>>

Finishes(m) == req' = [req EXCEPT ![m] = Idle]

\* startInstance: nothing is started without an ACTIVE definition.
Started(v) == IF configured THEN [wf EXCEPT ![v] = "WAITING"] ELSE wf

FreshIn(v) == v \notin Stored /\ \A w \in 1..(v - 1) : w \in Stored

\* property_id is unique among the masters: only one first version gets in.
CreateWrites(m, v, rule) ==
  /\ Writes(m, "create") /\ FreshIn(v)
  /\ req[m].children = {} => Stored = {}
  /\ ver' = [ver EXCEPT ![v] = [NoRow EXCEPT !.status = req[m].status, !.rule = rule]]
  /\ current' = v
  /\ wf' = IF req[m].status = "PENDING" THEN Started(v) ELSE wf
  /\ Finishes(m) /\ UNCHANGED ratified

NewVersionWrites(m, v, rule, u) ==
  /\ Writes(m, "newVersion") /\ FreshIn(v)
  /\ ver' = [ver EXCEPT ![v] =
       [NoRow EXCEPT !.status = "PENDING", !.rule = rule, !.by = u,
                     !.parent = req[m].id, !.from = req[m].day]]
  /\ wf' = Started(v)
  /\ Finishes(m) /\ UNCHANGED <<current, ratified>>

\* Mutant: the decision of the last review stays in the row.
KeepsApprover(v, u, day) ==
  [ver EXCEPT ![v] = [@ EXCEPT !.status = "PENDING", !.until = day, !.by = u]]

Resubmitted(v, u, day) ==
  [ver EXCEPT ![v] = [@ EXCEPT !.status = "PENDING", !.until = day, !.by = u,
                               !.approver = None]]

ResubmitWrites(m, u) ==
  /\ Writes(m, "resubmit")
  /\ ver' = Resubmitted(req[m].id, u, req[m].day)
  /\ wf' = Started(req[m].id)
  /\ ratified' = ratified \ {req[m].id}
  /\ Finishes(m) /\ UNCHANGED current

\* Saving an entity that was read with its childVersions detaches the children
\* inserted since.
DeprecateWrites(m) ==
  /\ Writes(m, "deprecate")
  /\ LET v == req[m].id
         detached == {c \in Stored : ver[c].parent = v} \ req[m].children
     IN ver' = [w \in Versions |->
          IF w = v THEN [ver[v] EXCEPT !.status = req[m].status, !.until = req[m].day]
          ELSE IF w \in detached THEN [ver[w] EXCEPT !.parent = NoVersion]
          ELSE ver[w]]
  /\ req' = [req EXCEPT ![m] = IF req[m].status = "DEPRECATED"
                               THEN [phase |-> "unpoint", id |-> req[m].id] ELSE Idle]
  /\ UNCHANGED <<current, wf, ratified>>

\* applyDeprecation: the second write is to the master, in no transaction.
Unpointed(v) == IF current = v THEN NoVersion ELSE current

DeprecateUnpoints(m) ==
  /\ req[m].phase = "unpoint"
  /\ current' = Unpointed(req[m].id)
  /\ Finishes(m) /\ UNCHANGED <<today, configured, ver, wf, job, hist>>

\* The process dies, or a check fails that the model leaves out.
RequestDies(m) ==
  /\ req[m] # Idle
  /\ Finishes(m) /\ UNCHANGED <<today, configured, rows, job, hist>>

-----------------------------------------------------------------------------
(* The reviewers.                                                          *)

\* assertCanAct, then the checks under the row's lock.
MayReview(v, actor) ==
  /\ Awake /\ v \in Stored
  /\ ver[v].status = "PENDING" /\ wf[v] \in {"NONE", "WAITING"}
  /\ actor # ver[v].by
  /\ actor = System => wf[v] = "WAITING"

Decides(v, verdict) ==
  /\ wf' = [wf EXCEPT ![v] = IF wf[v] = "WAITING" THEN verdict ELSE wf[v]]
  /\ UNCHANGED <<today, configured, req, job>>

\* The row of the parent after its child took over today.
Superseded(rowsBefore, p) ==
  IF p \in Versions /\ rowsBefore[p].status \notin {"NONE", "DEPRECATED"}
  THEN [rowsBefore EXCEPT ![p] = [@ EXCEPT !.status = "DEPRECATED",
                                           !.until = today]]
  ELSE rowsBefore

\* "Do not fake a human approver": the system leaves no name.
Signed(v, actor) == IF actor = System THEN ver[v].approver ELSE actor

\* The approval of the last level: it activates a version whose day has come.
Approve(v, actor) ==
  /\ MayReview(v, actor) /\ Decides(v, "COMPLETED")
  /\ ratified' = ratified \cup {v}
  /\ IF ver[v].from \in 1..today
     THEN /\ ver' = Superseded(
               [ver EXCEPT ![v] = [@ EXCEPT !.status = "ACTIVE",
                                            !.approver = Signed(v, actor)]],
               ver[v].parent)
          /\ current' = v /\ live' = live \cup {v}
     ELSE /\ ver' = [ver EXCEPT ![v] = [@ EXCEPT !.approver = Signed(v, actor)]]
          /\ UNCHANGED <<current, live>>

Reject(v, actor) ==
  /\ MayReview(v, actor) /\ actor # System /\ Decides(v, "REJECTED")
  /\ ver' = [ver EXCEPT ![v] = [@ EXCEPT !.status = "REJECTED",
                                         !.approver = actor]]
  /\ ratified' = ratified \ {v}
  /\ UNCHANGED <<current, live>>

-----------------------------------------------------------------------------
(* The nightly job: autoActivateDueVersions, then autoDeprecateDueCycles.  *)

\* Mutant: every pending version whose day has come is taken, approved or not.
DueUnapproved ==
  {v \in Stored : ver[v].status = "PENDING" /\ ver[v].from \in 1..today}

\* Mutant: the version whose day is today has to wait, also on the last night.
DueBefore ==
  {v \in Stored : /\ ver[v].status = "PENDING" /\ ver[v].approver # None
                  /\ ver[v].from \in 1..(today - 1)}

DueToActivate ==
  {v \in Stored : /\ ver[v].status = "PENDING" /\ ver[v].approver # None
                  /\ ver[v].from \in 1..today}

DueToDeprecate ==
  {v \in Stored : ver[v].status # "DEPRECATED" /\ ver[v].until \in 1..today}

List(vs) == {[id |-> v, parent |-> ver[v].parent, until |-> ver[v].until] : v \in vs}

JobKeeps == UNCHANGED <<today, configured, wf, req, ratified>>

JobStarts ==
  /\ job = Idle /\ (Overlap \/ \A m \in Makers : req[m] = Idle)
  /\ job' = [phase |-> "activate", todo |-> List(DueToActivate)]
  /\ JobKeeps /\ UNCHANGED <<current, ver, live>>

\* A row of the list is saved whole, whatever became of it since the list was
\* read.
JobActivates(v) ==
  /\ job.phase = "activate"
  /\ \E row \in job.todo :
       /\ row.id = v
       /\ ver' = [ver EXCEPT ![v] = [@ EXCEPT !.status = "ACTIVE",
                                              !.until = row.until,
                                              !.parent = row.parent]]
       /\ job' = [phase |-> "point", row |-> row, todo |-> job.todo \ {row}]
  /\ live' = live \cup {v}
  /\ JobKeeps /\ UNCHANGED current

JobPoints ==
  /\ job.phase = "point"
  /\ current' = job.row.id
  /\ job' = [job EXCEPT !.phase = "supersede"]
  /\ JobKeeps /\ UNCHANGED <<ver, live>>

\* The parent is read afresh; applyDeprecation would also take the master off it.
JobSupersedes ==
  /\ job.phase = "supersede"
  /\ ver' = Superseded(ver, job.row.parent)
  /\ current' = IF ver' # ver THEN Unpointed(job.row.parent) ELSE current
  /\ job' = [phase |-> "activate", todo |-> job.todo]
  /\ JobKeeps /\ UNCHANGED live

JobTurns ==
  /\ job.phase = "activate" /\ job.todo = {}
  /\ job' = [phase |-> "deprecate", todo |-> List(DueToDeprecate)]
  /\ JobKeeps /\ UNCHANGED <<current, ver, live>>

JobDeprecates(v) ==
  /\ job.phase = "deprecate"
  /\ \E row \in job.todo :
       /\ row.id = v
       /\ ver' = [ver EXCEPT ![v] = [@ EXCEPT !.status = "DEPRECATED",
                                              !.until = row.until]]
       /\ job' = [phase |-> "unpoint", row |-> row, todo |-> job.todo \ {row}]
  /\ JobKeeps /\ UNCHANGED <<current, live>>

JobUnpoints ==
  /\ job.phase = "unpoint"
  /\ current' = Unpointed(job.row.id)
  /\ job' = [phase |-> "deprecate", todo |-> job.todo]
  /\ JobKeeps /\ UNCHANGED <<ver, live>>

JobEnds ==
  /\ job.phase = "deprecate" /\ job.todo = {}
  /\ job' = Idle
  /\ JobKeeps /\ UNCHANGED <<current, ver, live>>

\* A save throws or the process dies: the rest waits for the next night.
JobDies ==
  /\ job # Idle
  /\ job' = Idle
  /\ JobKeeps /\ UNCHANGED <<current, ver, live>>

-----------------------------------------------------------------------------

MakerReads(m) ==
  \/ \E status \in Status : CreateReads(m, status)
  \/ \E v \in Versions : ResubmitReads(m, v)
  \/ \E v \in Versions, day \in Days :
       NewVersionReads(m, v, day) \/ DeprecateReads(m, v, day)

MakerWrites(m) ==
  \/ \E v \in Versions, rule \in Rules :
       \/ CreateWrites(m, v, rule)
       \/ \E u \in Users : NewVersionWrites(m, v, rule, u)
  \/ \E u \in Users : ResubmitWrites(m, u)
  \/ DeprecateWrites(m) \/ DeprecateUnpoints(m) \/ RequestDies(m)

ReviewNext(v) ==
  \E actor \in Users \cup {System} : Approve(v, actor) \/ Reject(v, actor)

JobRow(v) == JobActivates(v) \/ JobDeprecates(v)
JobStep   == JobPoints \/ JobSupersedes \/ JobUnpoints \/ JobEnds

Next ==
  \/ NextDay \/ DefinitionPublished
  \/ \E m \in Makers : MakerReads(m) \/ MakerWrites(m)
  \/ \E v \in Versions : ReviewNext(v) \/ JobRow(v)
  \/ JobStarts \/ JobStep \/ JobTurns \/ JobDies

Spec == Init /\ [][Next]_vars

\* The job is started every night and goes on unless it dies; it may die time and
\* again, but not for ever at the same row or before the same list is read.  A
\* request goes on or dies.
Fairness ==
  /\ \A m \in Makers : WF_vars(MakerWrites(m))
  /\ SF_vars(JobStarts) /\ WF_vars(JobStep) /\ SF_vars(JobTurns)
  /\ \A v \in Versions : SF_vars(JobActivates(v)) /\ SF_vars(JobDeprecates(v))

FairSpec == Spec /\ Fairness

-----------------------------------------------------------------------------
(* resolveVersionForReadingDate: the version in whose period a day falls.  *)

WentLive(v) ==
  ver[v].status \in {"ACTIVE", "DEPRECATED"} /\ ver[v].from # NoDay

LiveChildren(v) == {c \in Stored : ver[c].parent = v /\ WentLive(c)}

\* The first day out of v's window: its deprecation or its child's start,
\* whichever is earlier, or else tomorrow.
Bound(v) ==
  LET ends == {ver[c].from : c \in LiveChildren(v)} \cup ({ver[v].until} \ {NoDay})
  IN IF ends = {} THEN today + 1
     ELSE CHOOSE e \in ends : \A f \in ends : e <= f

\* Some period of v that starts in its window holds day d of the window.
Covers(v, d) ==
  /\ d < Bound(v)
  /\ \E m \in MonthOf(ver[v].from)..MonthOf(Bound(v)) :
       /\ PeriodStart(ver[v].rule, m) \in ver[v].from..(Bound(v) - 1)
       /\ d \in PeriodStart(ver[v].rule, m)..PeriodEnd(ver[v].rule, m)

Contradictory(v) ==
  WentLive(v) /\ Cardinality({ver[c].from : c \in LiveChildren(v)}) > 1

\* {v}: version v.  The empty set: 'none'.  Any other set: 'ambiguous'.
Resolve(d) ==
  IF \E v \in Stored : Contradictory(v) THEN Versions \cup {NoVersion}
  ELSE {v \in Stored : WentLive(v) /\ Covers(v, d)}

-----------------------------------------------------------------------------
(* What makes it correct.                                                  *)

\* Whoever submitted a version, or resubmitted it, has not signed its approval,
\* however makers, reviewers and the nightly job interleave.
FourEyes ==
  \A v \in Versions : ver[v].by # None => ver[v].approver # ver[v].by

\* When the nightly job has the rows for itself, a dated version takes over only
\* if its present submission was approved: never one rejected or resubmitted since.
GoesLiveRatified  == live' \ live \subseteq ratified'
OnlyRatifiedGoLive == [][GoesLiveRatified]_vars

\* A version signed by a reviewer takes over once its day has come, or is
\* withdrawn, although the nightly job dies time and again.
Due(v) ==
  ver[v].status = "PENDING" /\ ver[v].approver # None /\ ver[v].from \in 1..today
DueActivates == \A v \in Versions : Due(v) ~> ~Due(v)

\* A deprecation scheduled for a day is carried out once the day has come,
\* whatever the version has become in the meantime.
DueToEnd(v)   == ver[v].status # "DEPRECATED" /\ ver[v].until \in 1..today
DueDeprecates == \A v \in Versions : DueToEnd(v) ~> ~DueToEnd(v)

\* What is due at a date happens on some night after it, although a night's job
\* may die in the middle of its list or work from a list that is out of date.
DueHappens == DueActivates /\ DueDeprecates

\* The periods of a version whose days every month has are whole: none is empty,
\* and one begins no earlier than the one before it ends.
PeriodsInOrder ==
  \A v \in Stored, m \in 1..(Months - 2) :
    LET rule == ver[v].rule IN
    /\ PeriodStart(rule, m) < PeriodEnd(rule, m)
    /\ PeriodEnd(rule, m) <= PeriodStart(rule, m + 1)

\* A period of the current version that is over has been found closed on some
\* day: bills are only run for a period that is closed.
EveryPeriodCloses ==
  \A m \in 1..MonthOf(today) :
    LET rule == ver[current].rule
        end  == PeriodEnd(rule, m)
    IN current # NoVersion /\ end <= today =>
         \E d \in end..today :
           Closed(rule, d) /\ CurrentPeriod(rule, d).start = PeriodStart(rule, m)

\* A reading is never charged to the periods of a version that never took over.
OnlyLiveVersionsResolve ==
  \A d \in 1..today, v \in Versions : Resolve(d) = {v} => v \in live

-----------------------------------------------------------------------------
(* Why it holds: the inductive invariant.                                  *)

\* What is in flight is about rows that are stored.
RefersToStored ==
  /\ \A m \in Makers :
       /\ req[m].phase = "write" /\ req[m].kind \in {"resubmit", "deprecate"}
          => req[m].id \in Stored
       /\ req[m].phase = "write" /\ req[m].kind = "deprecate"
          => req[m].status # "PENDING"
  /\ job # Idle => \A row \in job.todo : row.id \in Stored

\* The signature the nightly job goes by is that of an approval: a resubmission
\* wipes that of a rejection.
SignedIsRatified ==
  \A v \in Versions :
    ver[v].status = "PENDING" /\ ver[v].approver # None => v \in ratified

\* The job's list does not go stale while nobody else writes.
ListIsFresh ==
  job # Idle =>
    /\ \A m \in Makers : req[m] = Idle
    /\ job.phase \in {"activate", "point", "supersede"} =>
         \A row \in job.todo : row.id \in ratified

\* The invariant the proofs go by.
IInv ==
  /\ TypeOK /\ RefersToStored /\ FourEyes /\ SignedIsRatified
  /\ ~Overlap => ListIsFresh
===============================================================================
