--------------------------- MODULE WorkflowEngine ---------------------------
(***************************************************************************)
(* The approval workflow engine and the Tariff domain that drives it:      *)
(* WorkflowOrchestrationService (instances and steps), the hourly          *)
(* WorkflowSlaSchedulerService, the update / submit / approve / reject /   *)
(* deactivate / reactivate / deprecate handlers of TariffService and the   *)
(* nightly TariffSchedulerService.                                         *)
(*                                                                         *)
(* The database is InnoDB at REPEATABLE READ, seen through TypeORM:        *)
(*  - a plain SELECT of a transaction reads the snapshot taken by its      *)
(*    first one; SELECT ... FOR UPDATE and UPDATE read the current row;    *)
(*  - save(entity) writes only the columns in which the entity differs     *)
(*    from the row save() reloads (from the snapshot): see SavedColumn;    *)
(*  - a row lock lasts to the end of its transaction.  Row locks are not   *)
(*    variables here: who holds one is read off the phases.                *)
(* A transaction whose locks are all taken in its last stretch is one      *)
(* atomic step from there on; it waits while a row it needs is locked.     *)
(* A crash, a lost connection and the victim of an InnoDB deadlock all     *)
(* roll back, at any point: the ...Aborts actions.                         *)
(***************************************************************************)
EXTENDS Integers, FiniteSets

CONSTANTS
  Tariffs,      \* ids of the tariff versions
  Users,        \* people who call the API
  System,       \* the missing actorId of an automatic approval
  Roles, SuperAdmin, RolesOf,        \* RolesOf[u]: the active roles of u
  Editors,      \* concurrent requests of the maker side (edits, submit, ...)
  Reviewers,    \* concurrent approve / reject requests
  Sweepers,     \* overlapping runs of the hourly sweep
  EditKinds,    \* the maker operations taken into account
  MaxDef,       \* bound: published versions of the TARIFF definition
  MaxLevels,    \* bound: levels of a definition
  MaxInst,      \* bound: workflow instances ever started
  LevelCount, LevelRole, LevelBreach \* the contents of definition 1..MaxDef

Defs      == 1..MaxDef
Instances == 1..MaxInst
Levels    == 0..(MaxLevels - 1)

\* REQUEST_FOR_CORRECTION is left out: no code ever writes it.
TariffStatus == {"DRAFT", "PENDING", "ACTIVE", "REJECTED", "INACTIVE",
                 "DEPRECATED", "EXPIRED"}
InstanceStatus == {"NONE", "WAITING_FOR_APPROVAL", "COMPLETED", "REJECTED",
                   "CANCELLED"}
\* ABSENT: no row; OPEN: a row whose action is null.
StepState == {"ABSENT", "OPEN", "APPROVED", "REJECTED", "ESCALATED"}
OnBreach  == {"NOTIFY", "ESCALATE", "AUTO_APPROVE"}
Closed    == {"APPROVED", "REJECTED", "ESCALATED"}
\* "deprecate" is also what the nightly autoDeprecateSupersededVersions does.
AllEdits  == {"update", "submit", "deactivate", "reactivate", "deprecate",
              "expire"}

ASSUME BoundAssumption ==
  /\ MaxDef \in Nat /\ MaxLevels \in Nat \ {0} /\ MaxInst \in Nat \ {0}
ASSUME ActorAssumption ==
  /\ Tariffs # {} /\ System \notin Users
  /\ Reviewers \cap Sweepers = {}
  /\ RolesOf \in [Users -> SUBSET Roles]
  /\ EditKinds \subseteq AllEdits
\* What assertLevels of the definition service accepts: one level or more, no
\* level held by SUPER_ADMIN, and no ESCALATE on the last level.
ASSUME DefinitionAssumption ==
  /\ LevelCount \in [Defs -> 1..MaxLevels]
  /\ LevelRole \in [Defs -> [Levels -> Roles \ {SuperAdmin}]]
  /\ LevelBreach \in [Defs -> [Levels -> OnBreach]]
  /\ \A d \in Defs : LevelBreach[d][LevelCount[d] - 1] # "ESCALATE"

VARIABLES
  tariff,    \* tariff[t]: status and submittedBy of the row
  published, \* the definition that is ACTIVE (0: none yet); ids only grow
  started,   \* instances started so far: their ids are 1..started
  wfi,       \* wfi[i]: the workflow_instances row
  step,      \* step[i][l]: the workflow_instance_steps row of level l
  edit,      \* edit[e]: a maker request in flight
  review,    \* review[p]: an approve/reject transaction in flight
  sweep      \* sweep[s]: a run of the sweep

vars == <<tariff, published, started, wfi, step, edit, review, sweep>>

Actors == Users \cup {System}
NoStep == [state |-> "ABSENT", by |-> System, overdue |-> FALSE,
           breached |-> FALSE]
NoInstance == [status |-> "NONE", obj |-> CHOOSE t \in Tariffs : TRUE,
               def |-> 0, level |-> -1, submittedBy |-> System]
Idle == [phase |-> "idle"]

InstanceRow == [status: InstanceStatus, obj: Tariffs, def: 0..MaxDef,
                level: Levels \cup {-1}, submittedBy: Actors]

StepRow == [state: StepState, by: Actors, overdue: BOOLEAN, breached: BOOLEAN]

JourneyType ==
  /\ started \in 0..MaxInst
  /\ wfi \in [Instances -> InstanceRow]
  /\ step \in [Instances -> [Levels -> StepRow]]

TariffRow == [status: TariffStatus, submittedBy: Actors]

EditType ==
  {Idle}
  \cup [phase: {"read"}, obj: Tariffs, kind: EditKinds, actor: Users,
        row: TariffRow]
  \cup [phase: {"open"}, obj: Tariffs, kind: EditKinds, actor: Users,
        row: TariffRow, snap: TariffRow, waiting: SUBSET Instances,
        def: 0..MaxDef]

ReviewType ==
  {Idle}
  \cup [phase: {"open", "locked"}, obj: Tariffs, kind: {"approve", "reject"},
        actor: Actors, inst: 0..MaxInst, seenOpen: SUBSET Levels,
        seenStatus: TariffStatus]

SweepType ==
  [phase: {"sweeping", "dispatch", "escalating"},
   todo: SUBSET (Instances \X Levels), inst: Instances, level: Levels]

TypeOK ==
  /\ JourneyType
  /\ tariff \in [Tariffs -> TariffRow]
  /\ published \in 0..MaxDef
  /\ edit \in [Editors -> EditType]
  /\ review \in [Reviewers \cup Sweepers -> ReviewType]
  /\ sweep \in [Sweepers -> SweepType]

Init ==
  /\ tariff = [t \in Tariffs |-> [status |-> "DRAFT", submittedBy |-> System]]
  /\ published \in {0, 1} \cap (0..MaxDef)
  /\ started = 0
  /\ wfi = [i \in Instances |-> NoInstance]
  /\ step = [i \in Instances |-> [l \in Levels |-> NoStep]]
  /\ edit = [e \in Editors |-> Idle]
  /\ review = [p \in Reviewers \cup Sweepers |-> Idle]
  /\ sweep = [s \in Sweepers |->
                [phase |-> "sweeping", todo |-> {}, inst |-> 1, level |-> 0]]

-----------------------------------------------------------------------------
(* What the handlers share.                                                *)

Waiting(i) == wfi[i].status = "WAITING_FOR_APPROVAL"

InstancesOf(t) == {i \in 1..started : wfi[i].obj = t}

\* findOne({ where: {workflowType, businessObjectId}, order: {id: DESC} })
\* returns i (0: no instance at all).
Newest(t, i) ==
  IF InstancesOf(t) = {} THEN i = 0
  ELSE i \in InstancesOf(t) /\ \A j \in InstancesOf(t) : j <= i

OpenLevels(i) == {l \in Levels : step[i][l].state = "OPEN"}

\* TypeORM save(): a column is written only if the entity's value differs from
\* the one reloaded in the transaction's snapshot; else the row keeps its own.
SavedColumn(new, snapshot, current) == IF new = snapshot THEN current ELSE new

InstanceLocked(i) ==
  \E p \in Reviewers \cup Sweepers :
     review[p].phase = "locked" /\ review[p].inst = i

\* Mutant: steps are updated without a row lock.
NoStepLock(i, l) == FALSE

StepLocked(i, l) ==
  \E s \in Sweepers :
     sweep[s].phase = "escalating" /\ sweep[s].inst = i /\ sweep[s].level = l

\* activateLevel: a fresh row, nobody has acted, the SLA clock starts.
OpenStep == [NoStep EXCEPT !.state = "OPEN"]

-----------------------------------------------------------------------------
(* Definitions and time.                                                   *)

\* publishNewVersion as the engine sees it: a new definition row is the ACTIVE
\* one.  Its levels never change afterwards.
PublishDefinition ==
  /\ published < MaxDef
  /\ published' = published + 1
  /\ UNCHANGED <<tariff, started, wfi, step, edit, review, sweep>>

\* slaDueAt <= now becomes true of an open step.
DeadlinePasses(i, l) ==
  /\ step[i][l].state = "OPEN" /\ ~step[i][l].overdue
  /\ step' = [step EXCEPT ![i][l].overdue = TRUE]
  /\ UNCHANGED <<tariff, published, started, wfi, edit, review, sweep>>

-----------------------------------------------------------------------------
(* The maker side of TariffService.                                        *)

\* The statuses each handler accepts, and the status it leaves in the entity.
Accepted(kind) ==
  CASE kind = "update"     -> {"DRAFT", "REJECTED", "INACTIVE"}
    [] kind = "submit"     -> {"DRAFT", "REJECTED"}
    [] kind = "deactivate" -> {"ACTIVE"}
    [] kind = "reactivate" -> {"INACTIVE"}
    [] kind = "deprecate"  -> {"ACTIVE"}
    [] kind = "expire"     -> {"ACTIVE"}

Target(kind, status) ==
  CASE kind = "update"     -> status
    [] kind = "submit"     -> "PENDING"
    [] kind = "deactivate" -> "INACTIVE"
    [] kind = "reactivate" -> "ACTIVE"
    [] kind = "deprecate"  -> "DEPRECATED"
    [] kind = "expire"     -> "EXPIRED"

\* The unlocked findOne and the status check, outside any transaction.
EditReads(e, t, kind, u) ==
  /\ edit[e].phase = "idle"
  /\ tariff[t].status \in Accepted(kind)
  /\ edit' = [edit EXCEPT ![e] = [phase |-> "read", obj |-> t, kind |-> kind,
                                  actor |-> u, row |-> tariff[t]]]
  /\ UNCHANGED <<tariff, published, started, wfi, step, review, sweep>>

\* The transaction opens: everything it later reads without a lock is as of now.
EditOpens(e) ==
  /\ edit[e].phase = "read"
  /\ edit' = [edit EXCEPT ![e] =
       [phase |-> "open", obj |-> @.obj, kind |-> @.kind, actor |-> @.actor,
        row |-> @.row, snap |-> tariff[@.obj],
        waiting |-> {i \in InstancesOf(@.obj) : Waiting(i)},
        def |-> published]]
  /\ UNCHANGED <<tariff, published, started, wfi, step, review, sweep>>

\* Only submit reloads no submittedBy relation: it writes its own actor.
EditedRow(x) ==
  LET submitter == IF x.kind = "submit" THEN x.actor
                   ELSE IF x.kind = "update" THEN x.row.submittedBy
                   ELSE x.snap.submittedBy
      now == tariff[x.obj]
  IN [status |-> SavedColumn(Target(x.kind, x.row.status), x.snap.status,
                             now.status),
      submittedBy |-> SavedColumn(submitter, x.snap.submittedBy,
                                  now.submittedBy)]

\* Mutant: earlier waiting instances are left alone.
StartOnly(t, u, def, waiting) ==
  /\ started < MaxInst
  /\ started' = started + 1
  /\ wfi' = [wfi EXCEPT ![started + 1] =
       [status |-> "WAITING_FOR_APPROVAL", obj |-> t, def |-> def,
        level |-> 0, submittedBy |-> u]]
  /\ step' = [step EXCEPT ![started + 1][0] = OpenStep]

\* startInstance: cancel the waiting instances the snapshot shows, whatever has
\* become of them, and open level 0 of a new one pinned to the ACTIVE definition.
StartInstance(t, u, def, waiting) ==
  /\ started < MaxInst
  /\ \A i \in waiting : ~InstanceLocked(i)
  /\ started' = started + 1
  /\ wfi' = [i \in Instances |->
       IF i = started + 1
       THEN [status |-> "WAITING_FOR_APPROVAL", obj |-> t, def |-> def,
             level |-> 0, submittedBy |-> u]
       ELSE IF i \in waiting THEN [wfi[i] EXCEPT !.status = "CANCELLED"]
       ELSE wfi[i]]
  /\ step' = [step EXCEPT ![started + 1][0] = OpenStep]

\* The save, startInstance when this is a submit, and the commit.
EditCommits(e) ==
  LET x == edit[e] IN
  /\ x.phase = "open"
  /\ tariff' = [tariff EXCEPT ![x.obj] = EditedRow(x)]
  /\ IF x.kind = "submit" /\ x.def # 0
     THEN StartInstance(x.obj, x.actor, x.def, x.waiting)
     ELSE UNCHANGED <<started, wfi, step>>
  /\ edit' = [edit EXCEPT ![e] = Idle]
  /\ UNCHANGED <<published, review, sweep>>

EditAborts(e) ==
  /\ edit[e].phase # "idle"
  /\ edit' = [edit EXCEPT ![e] = Idle]
  /\ UNCHANGED <<tariff, published, started, wfi, step, review, sweep>>

-----------------------------------------------------------------------------
(* approve and reject: one transaction, also run by the sweep.             *)

\* assertCanAct finds the newest instance without a lock: the snapshot.
Snapshot(t, i, kind, actor) ==
  [phase |-> "open", obj |-> t, kind |-> kind, actor |-> actor, inst |-> i,
   seenOpen |-> IF i = 0 THEN {} ELSE OpenLevels(i),
   seenStatus |-> tariff[t].status]

ReviewOpens(p, t, kind, u) ==
  /\ review[p].phase = "idle"
  /\ \E i \in 0..started :
       Newest(t, i) /\ review' = [review EXCEPT ![p] = Snapshot(t, i, kind, u)]
  /\ UNCHANGED <<tariff, published, started, wfi, step, edit, sweep>>

\* The checks of assertCanAct once it holds the instance row: still waiting, the
\* current level's row visible and open, and the actor's turn.
MayAct(x) ==
  LET w == wfi[x.inst] IN
  /\ w.status = "WAITING_FOR_APPROVAL"
  /\ w.level \in x.seenOpen
  /\ x.actor = System \/ /\ SuperAdmin \notin RolesOf[x.actor]
                         /\ LevelRole[w.def][w.level] \in RolesOf[x.actor]

\* The FOR UPDATE on the instance's primary key and the checks; a refusal rolls
\* back.  With no instance there is nothing to lock or check.
ReviewLocks(p) ==
  LET x == review[p] IN
  /\ x.phase = "open"
  /\ x.inst # 0 => ~InstanceLocked(x.inst)
  /\ review' = [review EXCEPT ![p] =
       IF x.inst = 0 \/ MayAct(x) THEN [x EXCEPT !.phase = "locked"] ELSE Idle]
  /\ UNCHANGED <<tariff, published, started, wfi, step, edit, sweep>>

IsFinalLevel(x) ==
  x.inst = 0 \/ wfi[x.inst].level >= LevelCount[wfi[x.inst].def] - 1

\* Mutant: no assertNotSelfReview.
PendingIsEnough(x) == tariff[x.obj].status = "PENDING"

\* The tariff row is PENDING, and the actor is not who submitted it.
DomainAccepts(x) ==
  /\ tariff[x.obj].status = "PENDING"
  /\ tariff[x.obj].submittedBy # x.actor \/ x.actor = System

CloseStep(i, l, state, actor) ==
  [step EXCEPT ![i][l] = [@ EXCEPT !.state = state, !.by = actor]]

\* The level is closed and activateLevel opens the next one.
AdvanceStep(i, l, state, actor) ==
  [CloseStep(i, l, state, actor) EXCEPT ![i][l + 1] = OpenStep]

RecordApproval(x) ==
  LET i == x.inst
      l == wfi[i].level
  IN IF IsFinalLevel(x)
     THEN /\ wfi' = [wfi EXCEPT ![i].status = "COMPLETED", ![i].level = -1]
          /\ step' = CloseStep(i, l, "APPROVED", x.actor)
     ELSE /\ wfi' = [wfi EXCEPT ![i].level = l + 1]
          /\ step' = AdvanceStep(i, l, "APPROVED", x.actor)

RecordRejection(x) ==
  LET i == x.inst IN
  /\ wfi' = [wfi EXCEPT ![i].status = "REJECTED", ![i].level = -1]
  /\ step' = CloseStep(i, wfi[i].level, "REJECTED", x.actor)

\* Mutant: the tariff moves only if there is an actorId to record with it.
ApproveIfActor(x) ==
  /\ tariff' = IF IsFinalLevel(x) /\ x.actor # System
               THEN [tariff EXCEPT ![x.obj].status = "ACTIVE"] ELSE tariff
  /\ IF x.inst = 0 THEN UNCHANGED <<wfi, step>> ELSE RecordApproval(x)

Approve(x) ==
  /\ tariff' = [tariff EXCEPT ![x.obj].status =
       SavedColumn(IF IsFinalLevel(x) THEN "ACTIVE" ELSE "PENDING",
                   x.seenStatus, @)]
  /\ IF x.inst = 0 THEN UNCHANGED <<wfi, step>> ELSE RecordApproval(x)

Reject(x) ==
  /\ tariff' = [tariff EXCEPT ![x.obj].status =
                  SavedColumn("REJECTED", x.seenStatus, @)]
  /\ IF x.inst = 0 THEN UNCHANGED <<wfi, step>> ELSE RecordRejection(x)

\* The rest of approve()/reject(): domain checks under the tariff's row lock, the
\* domain's own transition, the workflow record, commit.  The step row must be
\* free, since recordApproval and recordRejection write it.
ReviewCommits(p) ==
  LET x == review[p] IN
  /\ x.phase = "locked"
  /\ IF DomainAccepts(x)
     THEN /\ x.inst # 0 => ~StepLocked(x.inst, wfi[x.inst].level)
          /\ IF x.kind = "approve" THEN Approve(x) ELSE Reject(x)
     ELSE UNCHANGED <<tariff, wfi, step>>
  /\ review' = [review EXCEPT ![p] = Idle]
  /\ UNCHANGED <<published, started, edit, sweep>>

ReviewAborts(p) ==
  /\ review[p].phase # "idle"
  /\ review' = [review EXCEPT ![p] = Idle]
  /\ UNCHANGED <<tariff, published, started, wfi, step, edit, sweep>>

-----------------------------------------------------------------------------
(* The hourly sweep.                                                       *)

Due(i, l) ==
  /\ step[i][l].state = "OPEN"
  /\ step[i][l].overdue /\ ~step[i][l].breached
  /\ Waiting(i)

\* Mutant: the last level is not looked at.
DueBelowLast ==
  {x \in Instances \X Levels :
     Due(x[1], x[2]) /\ x[2] < LevelCount[wfi[x[1]].def] - 1}

DueSteps ==
  {x \in Instances \X Levels : Due(x[1], x[2])}

\* A run begins: the unlocked find() of processBreachedSteps.
SweepFinds(s) ==
  /\ sweep[s].phase = "sweeping" /\ sweep[s].todo = {}
  /\ review[s].phase = "idle"
  /\ DueSteps # {}
  /\ sweep' = [sweep EXCEPT ![s].todo = DueSteps]
  /\ UNCHANGED <<tariff, published, started, wfi, step, edit, review>>

\* Mutant: the flag of another run is not rechecked.
FlagsTwice(s, i, l) ==
  /\ sweep[s].phase = "sweeping" /\ <<i, l>> \in sweep[s].todo
  /\ review[s].phase = "idle"
  /\ step' = [step EXCEPT ![i][l].breached = TRUE]
  /\ sweep' = [sweep EXCEPT ![s] =
        [phase |-> "dispatch", todo |-> @.todo \ {<<i, l>>},
         inst |-> i, level |-> l]]
  /\ UNCHANGED <<tariff, published, started, wfi, edit, review>>

\* flagBreach: rechecked under the step's row lock, its own transaction.
SweepFlags(s, i, l) ==
  /\ sweep[s].phase = "sweeping" /\ <<i, l>> \in sweep[s].todo
  /\ review[s].phase = "idle"
  /\ ~StepLocked(i, l)
  /\ LET fresh == step[i][l].state = "OPEN" /\ ~step[i][l].breached IN
     /\ step' = IF fresh THEN [step EXCEPT ![i][l].breached = TRUE] ELSE step
     /\ sweep' = [sweep EXCEPT ![s] =
          [phase |-> IF fresh THEN "dispatch" ELSE "sweeping",
           todo |-> @.todo \ {<<i, l>>},
           inst |-> IF fresh THEN i ELSE 1,
           level |-> IF fresh THEN l ELSE 0]]
  /\ UNCHANGED <<tariff, published, started, wfi, edit, review>>

Dispatching(s, action) ==
  /\ sweep[s].phase = "dispatch"
  /\ LevelBreach[wfi[sweep[s].inst].def][sweep[s].level] = action

NextDue(s) == [sweep EXCEPT ![s] = [phase |-> "sweeping", todo |-> @.todo,
                                    inst |-> 1, level |-> 0]]

\* NOTIFY, and a dispatch that throws before it writes: nothing but the flag is
\* left behind, and no later run picks the step up again.
SweepNotifies(s) ==
  /\ sweep[s].phase = "dispatch"
  /\ sweep' = NextDue(s)
  /\ UNCHANGED <<tariff, published, started, wfi, step, edit, review>>

\* AUTO_APPROVE: the tariff's approve() with no actor.  The handler is given the
\* business object only: not the step, not its level.
SweepAutoApproves(s) ==
  /\ Dispatching(s, "AUTO_APPROVE")
  /\ LET t == wfi[sweep[s].inst].obj IN
     \E i \in 0..started :
       /\ Newest(t, i)
       /\ review' = [review EXCEPT ![s] = Snapshot(t, i, "approve", System)]
  /\ sweep' = NextDue(s)
  /\ UNCHANGED <<tariff, published, started, wfi, step, edit>>

\* Mutant: no recheck that nobody has acted.
EscalatesAnyway(s) ==
  /\ Dispatching(s, "ESCALATE")
  /\ ~StepLocked(sweep[s].inst, sweep[s].level)
  /\ sweep' = [sweep EXCEPT ![s].phase = "escalating"]
  /\ UNCHANGED <<tariff, published, started, wfi, step, edit, review>>

\* ESCALATE takes the step's row lock and rechecks that nobody has acted.
EscalationLocks(s) ==
  LET i == sweep[s].inst
      l == sweep[s].level IN
  /\ Dispatching(s, "ESCALATE")
  /\ ~StepLocked(i, l)
  /\ sweep' = IF step[i][l].state = "OPEN"
              THEN [sweep EXCEPT ![s].phase = "escalating"]
              ELSE NextDue(s)
  /\ UNCHANGED <<tariff, published, started, wfi, step, edit, review>>

\* recordEscalation: the instance's status is neither read nor written.  With no
\* next level it throws, which is SweepAborts.
EscalationCommits(s) ==
  LET i == sweep[s].inst
      l == sweep[s].level IN
  /\ sweep[s].phase = "escalating"
  /\ l + 1 < LevelCount[wfi[i].def]
  /\ ~InstanceLocked(i)
  /\ step' = AdvanceStep(i, l, "ESCALATED", System)
  /\ wfi' = [wfi EXCEPT ![i].level = l + 1]
  /\ sweep' = NextDue(s)
  /\ UNCHANGED <<tariff, published, started, edit, review>>

\* The run dies: the process restarts, or flagBreach throws out of the loop.
SweepAborts(s) ==
  /\ sweep[s].phase # "sweeping" \/ sweep[s].todo # {}
  /\ sweep' = [NextDue(s) EXCEPT ![s].todo = {}]
  /\ UNCHANGED <<tariff, published, started, wfi, step, edit, review>>

-----------------------------------------------------------------------------
ReviewTransaction(p) == ReviewLocks(p) \/ ReviewCommits(p) \/ ReviewAborts(p)

Dispatch(s) ==
  \/ SweepNotifies(s) \/ SweepAutoApproves(s)
  \/ EscalationLocks(s) \/ EscalationCommits(s) \/ SweepAborts(s)

Next ==
  \/ PublishDefinition
  \/ \E i \in Instances, l \in Levels : DeadlinePasses(i, l)
  \/ \E e \in Editors, t \in Tariffs, k \in EditKinds, u \in Users :
        EditReads(e, t, k, u)
  \/ \E e \in Editors : EditOpens(e) \/ EditCommits(e) \/ EditAborts(e)
  \/ \E p \in Reviewers, t \in Tariffs, k \in {"approve", "reject"},
        u \in Users : ReviewOpens(p, t, k, u)
  \/ \E p \in Reviewers \cup Sweepers : ReviewTransaction(p)
  \/ \E s \in Sweepers : SweepFinds(s) \/ Dispatch(s)
  \/ \E s \in Sweepers, i \in Instances, l \in Levels : SweepFlags(s, i, l)

Spec == Init /\ [][Next]_vars

-----------------------------------------------------------------------------
(* What must hold, whatever races.                                         *)

IsClosed(i, l) == step[i][l].state \in Closed
Passed(i, l)   == step[i][l].state \in {"APPROVED", "ESCALATED"}
LevelsOf(i)    == 0..(LevelCount[wfi[i].def] - 1)

\* A waiting instance has exactly one open step, the one of its current level:
\* every lower level was passed, no higher level was activated.  Two decisions
\* on one level, or a human decision racing an escalation, would break it.
OneOpenStep ==
  \A i \in Instances : Waiting(i) =>
    /\ wfi[i].level \in LevelsOf(i)
    /\ \A l \in Levels :
         /\ l < wfi[i].level => Passed(i, l)
         /\ l = wfi[i].level => step[i][l].state = "OPEN"
         /\ l > wfi[i].level => step[i][l].state = "ABSENT"

\* An instance is COMPLETED only after every level of its own definition was
\* passed and the last one was approved: escalation alone never completes it.
CompletedTrail ==
  \A i \in Instances : wfi[i].status = "COMPLETED" =>
    /\ \A l \in LevelsOf(i) : Passed(i, l)
    /\ step[i][LevelCount[wfi[i].def] - 1].state = "APPROVED"

\* A REJECTED instance was rejected at exactly one level, after the lower ones
\* were passed, and no level was activated beyond it.
RejectedTrail ==
  \A i \in Instances : wfi[i].status = "REJECTED" =>
    \E r \in LevelsOf(i) : \A l \in Levels :
      /\ l < r => Passed(i, l)
      /\ l = r => step[i][l].state = "REJECTED"
      /\ l > r => step[i][l].state = "ABSENT"

\* Whatever decisions, escalations and crashes race, the steps of an instance tell
\* the story its status claims: open at one level, passed at all, or rejected at one.
TrailFits == OneOpenStep /\ CompletedTrail /\ RejectedTrail

\* Nobody decides at a level on an instance he submitted himself, without the
\* role of that level, or while he holds SUPER_ADMIN.
FourEyes ==
  \A i \in Instances, l \in Levels :
    step[i][l].state \in {"APPROVED", "REJECTED"} /\ step[i][l].by # System =>
      /\ step[i][l].by # wfi[i].submittedBy
      /\ LevelRole[wfi[i].def][l] \in RolesOf[step[i][l].by]
      /\ SuperAdmin \notin RolesOf[step[i][l].by]

KeepsHistory ==
  \A i \in Instances :
    /\ \A l \in Levels : IsClosed(i, l) => step'[i][l] = step[i][l]
    /\ i <= started => /\ wfi'[i].obj = wfi[i].obj
                       /\ wfi'[i].def = wfi[i].def
                       /\ wfi'[i].submittedBy = wfi[i].submittedBy

\* The history of a journey is never rewritten: who closed a step, and how, stays
\* as it was recorded, and an instance keeps its object, definition and maker.
HistoryKept == [][KeepsHistory]_vars

\* Two runs of the sweep never work on the same breach ("two overlapping sweeps,
\* can never flag or dispatch twice").
OneDispatcher ==
  \A s, z \in Sweepers :
    /\ s # z /\ sweep[s].phase # "sweeping" /\ sweep[z].phase # "sweeping"
    => <<sweep[s].inst, sweep[s].level>> # <<sweep[z].inst, sweep[z].level>>

-----------------------------------------------------------------------------
(* The inductive invariant behind OneOpenStep, the trails and HistoryKept.  *)

\* Ids are handed out in order, an instance has a definition from the start, and
\* levels beyond its definition never get a row.
Registry ==
  \A i \in Instances :
    IF i <= started
    THEN /\ wfi[i].status # "NONE" /\ wfi[i].def \in Defs
         /\ \A l \in Levels \ LevelsOf(i) : step[i][l].state = "ABSENT"
    ELSE /\ wfi[i].status = "NONE"
         /\ \A l \in Levels : step[i][l].state = "ABSENT"

\* Whatever became of an instance, its levels were activated in order: the last
\* one activated is preceded by passed levels only.  A withdrawn instance that a
\* sweep still escalates, or a completed one relabelled CANCELLED, is no exception.
LevelsInOrder ==
  \A i \in Instances : i <= started =>
    \E r \in LevelsOf(i) : \A l \in Levels :
      /\ l < r => Passed(i, l)
      /\ l = r => step[i][l].state # "ABSENT"
      /\ l > r => step[i][l].state = "ABSENT"

\* What a transaction may rely on while it holds a row: a locked instance waits
\* and is locked once, a locked step is open and locked once.
Locks ==
  /\ \A p \in Reviewers \cup Sweepers :
       review[p].phase = "locked" /\ review[p].inst # 0 =>
         /\ Waiting(review[p].inst)
         /\ \A q \in Reviewers \cup Sweepers :
              review[q].phase = "locked" /\ review[q].inst = review[p].inst
              => q = p
  /\ \A s \in Sweepers : sweep[s].phase = "escalating" =>
       /\ step[sweep[s].inst][sweep[s].level].state = "OPEN"
       /\ \A z \in Sweepers :
            /\ sweep[z].phase = "escalating"
            /\ sweep[z].inst = sweep[s].inst /\ sweep[z].level = sweep[s].level
            => z = s

\* A breach is flagged before it is dispatched, and stays flagged.
Flags ==
  \A s \in Sweepers : sweep[s].phase # "sweeping" =>
    LET row == step[sweep[s].inst][sweep[s].level] IN
    row.breached /\ row.state # "ABSENT"

\* A submit in flight only knows instances that exist.
Snapshots ==
  \A e \in Editors : edit[e].phase = "open" => edit[e].waiting \subseteq 1..started

IInv ==
  /\ TypeOK /\ Registry /\ Locks /\ Snapshots /\ Flags /\ OneDispatcher
  /\ LevelsInOrder /\ OneOpenStep /\ CompletedTrail /\ RejectedTrail

-----------------------------------------------------------------------------
(* What holds while a tariff is edited by one request at a time.           *)

\* At most one instance of a tariff waits, and it is the newest: the one that
\* approve and reject find.
OneWaiting ==
  \A i \in Instances : Waiting(i) =>
    \A j \in Instances : wfi[j].status # "NONE" /\ wfi[j].obj = wfi[i].obj =>
      j <= i

\* The verdict of the newest journey is the verdict on the tariff.
VerdictReachesTariff ==
  \A t \in Tariffs, i \in Instances : Newest(t, i) =>
    LET verdict == wfi[i].status
        status  == tariff[t].status IN
    /\ verdict = "COMPLETED" =>
         status \in {"ACTIVE", "INACTIVE", "DEPRECATED", "EXPIRED"}
    /\ verdict = "REJECTED" => status = "REJECTED"
    /\ verdict # "CANCELLED"

\* The maker requests in flight, one per tariff.  Nothing in the code makes them
\* wait for each other: it is the hypothesis under which the rest holds.
OneEditPerTariff ==
  \A e, f \in Editors :
    /\ edit[e].phase # "idle" /\ edit[f].phase # "idle"
    /\ edit[e].obj = edit[f].obj
    => e = f

\* The inductive invariant behind these two, FourEyes and ImplementsJourney.  A
\* tariff that is being edited is not PENDING, so no review moves it: what the
\* edit has read is still there.
FreshEdit(x) ==
  /\ x.row = tariff[x.obj] /\ x.row.status \in Accepted(x.kind)
  /\ x.phase = "open" =>
       /\ x.snap = x.row
       /\ x.waiting = {i \in InstancesOf(x.obj) : Waiting(i)}
       /\ x.def <= published /\ (x.def = 0 => InstancesOf(x.obj) = {})

EditsFresh == \A e \in Editors : edit[e].phase # "idle" => FreshEdit(edit[e])

\* An instance is pinned to a definition that has been published.
Pinned == \A i \in 1..started : wfi[i].def <= published

\* A tariff that was approved once never comes back to review.
Decided == {"ACTIVE", "INACTIVE", "DEPRECATED", "EXPIRED"}

\* The role check of assertCanAct, on the level the instance has now.
HasRole(x) ==
  \/ x.actor = System
  \/ /\ SuperAdmin \notin RolesOf[x.actor]
     /\ LevelRole[wfi[x.inst].def][wfi[x.inst].level] \in RolesOf[x.actor]

\* What a review goes by: an instance of its tariff, at the level it may decide;
\* and the status it saw, to which its save is blind, is not the one it writes.
FreshReview(x) ==
  /\ x.seenStatus \in Decided => tariff[x.obj].status \in Decided
  /\ x.inst # 0 =>
       /\ x.inst <= started /\ wfi[x.inst].obj = x.obj
       /\ Waiting(x.inst) /\ x.seenStatus = "REJECTED" =>
            tariff[x.obj].status # "PENDING"
       /\ x.phase = "locked" => HasRole(x)

ReviewsFresh ==
  \A p \in Reviewers \cup Sweepers :
    review[p].phase # "idle" => FreshReview(review[p])

\* The maker assertNotSelfReview looks at is the maker of the instance.
SameSubmitter ==
  \A i \in Instances : Waiting(i) /\ tariff[wfi[i].obj].status = "PENDING" =>
    tariff[wfi[i].obj].submittedBy = wfi[i].submittedBy

Coupled ==
  /\ EditsFresh /\ Pinned /\ ReviewsFresh /\ SameSubmitter
  /\ OneWaiting /\ VerdictReachesTariff /\ FourEyes

\* The engine implements the journeys of ApprovalJourney.
PhaseOf(status) ==
  CASE status = "NONE" -> "none"
    [] status = "WAITING_FOR_APPROVAL" -> "waiting"
    [] status = "COMPLETED" -> "completed"
    [] status = "REJECTED" -> "rejected"
    [] status = "CANCELLED" -> "cancelled"

Size(i) == IF wfi[i].def = 0 THEN 0 ELSE LevelCount[wfi[i].def]
PassedLevels(i) == {l \in Levels : Passed(i, l)}

Journey == INSTANCE ApprovalJourney WITH
  Journeys <- Instances,
  phase  <- [i \in Instances |-> PhaseOf(wfi[i].status)],
  size   <- [i \in Instances |-> Size(i)],
  passed <- [i \in Instances |-> PassedLevels(i)]

\* Every step of the engine is a step of a journey or leaves all journeys alone.
ImplementsJourney == Journey!Spec

-----------------------------------------------------------------------------
(* What the documentation says and the code does not do: each is refuted by *)
(* a configuration of its own (README).                                     *)

\* "SLA breach, no human action taken on this level": the level that was
\* auto-approved is the one whose deadline was missed.
AutoApprovedAfterBreach ==
  \A i \in Instances, l \in Levels :
    step[i][l].state = "APPROVED" /\ step[i][l].by = System =>
      step[i][l].breached

\* "A workflow instance must never exist without its corresponding tariff
\* actually being PENDING": of the newest instance, while it waits.
WaitingOnlyIfPending ==
  \A t \in Tariffs, i \in Instances :
    Newest(t, i) /\ Waiting(i) => tariff[t].status = "PENDING"

-----------------------------------------------------------------------------
(* Fairness: a request in flight ends (commit, refusal or rollback), and a  *)
(* sweep that is started again and again is not killed every time between   *)
(* its find() and the flag of one particular step.                          *)
Fairness ==
  /\ \A p \in Reviewers \cup Sweepers : WF_vars(ReviewTransaction(p))
  /\ \A s \in Sweepers : WF_vars(SweepFinds(s)) /\ WF_vars(Dispatch(s))
  /\ \A s \in Sweepers, i \in Instances, l \in Levels :
        SF_vars(SweepFlags(s, i, l))

FairSpec == Spec /\ Fairness

\* An overdue step of a waiting instance is noticed: flagged by a sweep, or acted
\* upon, or its instance ends.
OverdueNoticed ==
  \A i \in Instances, l \in Levels :
    (step[i][l].state = "OPEN" /\ step[i][l].overdue /\ Waiting(i))
      ~> (step[i][l].breached \/ IsClosed(i, l) \/ ~Waiting(i))
=============================================================================
