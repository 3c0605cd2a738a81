# Verification of the CCB API

TLA+ specifications of the core of the CCB billing platform (a NestJS / TypeORM
back end over MySQL, with Redis and an SFTP server), their TLC instances, and TLAPS
proofs of what matters most in them. Paths below are relative to the repository.

- [The system](#the-system)
- [Modules](#modules)
- [How the database is modelled](#how-the-database-is-modelled)
- The models: [WorkflowEngine](#workflowengine), [BillRuns](#billruns),
  [BillingCycles](#billingcycles), [TariffVersions](#tariffversions),
  [Metering and Charges](#metering-and-charges), [Ingestion](#ingestion),
  [Registrations](#registrations), [Sessions](#sessions), [Accounts](#accounts),
  [Permissions](#permissions)
- [Runs and bounds](#runs-and-bounds)
- [Fairness](#fairness)
- [Proofs](#proofs)
- [Where the code and its comments disagree](#where-the-code-and-its-comments-disagree)
- [Other behaviour the models show](#other-behaviour-the-models-show)
- [Not modelled](#not-modelled)
- [Plan](#plan)

Run, in this directory: `tlc -workers 2 -config <run>.cfg <MC module>` and
`tlapm <module>Proofs.tla`.

## The system

The platform bills residents for utilities. A property belongs to a community and
has units; units have meters, whose daily readings arrive as files; tariffs price
the readings; a billing cycle says when a property is read and billed; a bill run
bills a property for one reading period. Tariffs, billing cycles and bill runs are
reviewed before they take effect, at one or several levels, by one workflow engine.
Residents enter by a registration request, staff by an account with roles, and what
a role may do is written in policies.

| component | source (`src/modules/` unless said) | state it keeps | operations that change it | modelled in |
|---|---|---|---|---|
| workflow orchestration | `workflow/workflow-orchestration.service.ts` | `workflow_instances`, `workflow_instance_steps` | startInstance, recordApproval, recordRejection, recordEscalation (assertCanAct guards them) | WorkflowEngine |
| SLA sweep | `workflow/workflow-sla-scheduler.service.ts` | `slaBreachedAt` of the steps | hourly: flagBreach, then notify, escalate or autoApprove | WorkflowEngine |
| workflow definitions | `workflow/workflow-definition.service.ts` | definitions with their levels | publishNewVersion | Permissions |
| tariffs | `tariff/` | tariff versions, rates, property and unit mappings | create, update, submit, approve, reject, deactivate, reactivate, deprecate, newVersion; nightly expiry and deprecation | WorkflowEngine (the verdicts), TariffVersions |
| billing cycles | `billing-cycle/` | one master per property, a tree of versions | create, newVersion, approve, reject, resubmit, deprecate; nightly activation and deprecation | BillingCycles, ReadingPeriods |
| bill runs | `bill-run/` | batches, runs | submit, submitBatch, resubmit, approve, reject, returnForCorrection | BillRuns |
| bills | `billing-management/` | bills, line items | generateBillsForBillRun, cancelBill | BillRuns, Metering, Charges |
| billing readiness | `billing-readiness/` | none | only reads; guards submissions | BillRuns, Metering |
| meters and readings | `meter/`, `sftp/meter-hierarchy-resolver.service.ts` | meters, mappings, approvals of readings | mapping a meter, approving and revoking readings; imports, inventory | Metering (in part) |
| SFTP ingestion | `sftp/` | logs, readings, files on the server | nightly run and run-now: list, download, parse, store, move; test-ingest | Ingestion |
| registration requests | `registration-request/`, `customer/` | requests, documents, demands, ledger, customers | drafts, review, return, deposit demand, payment, verification, approval (creates the customer), rejection, activation | Registrations |
| authentication | `src/auth/`, `src/redis/` | refresh tokens, devices, login history, markers in Redis | login, refresh (token rotation), every sign-out, the liveness check | Sessions |
| users, who holds a role | `user/`, `user-role/`, `role/` | accounts, `user_roles`, roles | create, edit, deactivate, remove, grant, revoke, role edit and removal | Accounts |
| IAM | `iam/`, start in `src/bootstrap/` | policies, attachments, inline policies | create, edit, attach, detach, remove; synchronisation at every start | Permissions |
| estate, catalogues, customer portal, inspections, OCR, dashboard, mail, audit | the remaining directories | rows of their own | plain edits, reads, output | |

**How they interact.** Tariffs, cycles and bill runs call the engine inside their
own transaction (`assertCanAct`, their checks and their row lock,
`recordApproval` or `recordRejection`). The hourly sweep goes the other way: it
calls the `approve` of the domain through a registry of handlers, outside any
transaction of its own. A bill run takes its reading period from the cycle's
current version and, once its last level has approved and that transaction has
committed, starts the generation of bills, which reads the meter readings the
ingestion has stored and the review has judged. The nightly jobs (tariff expiry,
cycle activation) write the rows reviewers and makers write, without locking them.
The approval of a registration creates a customer; the verification of its deposit
activates the account. A level of a workflow names a role, and IAM refuses to take
the approve code from a role that an active definition names.

**What is hard.**

1. Services read a row first, check it, and open the transaction afterwards;
   `save()` then writes what was read. Any writer in between is undone (tariffs,
   cycles, registrations, accounts, policies).
2. Under REPEATABLE READ a transaction that locks a row has not necessarily
   re-read the others: `assertCanAct` locks the instance and reads the step from
   a snapshot, and the check of two concurrent revocations can pass in both.
3. The sweep overlaps reviewers, other sweeps and itself, dies in the middle, and
   dispatches after it has committed.
4. `FOR UPDATE` on rows that do not exist takes gap locks, which exclude inserts
   only: duplicate checks hold by deadlock.
5. A batch catches errors in a loop inside one transaction, where some of them
   have rolled the transaction back.
6. Work goes on after a commit (generation of bills, dispatch of a breach, the
   move of a file) with what was true before it.
7. Nightly jobs, the start of the process, sign-in and refresh write several tables
   row by row without a transaction.
8. Reading periods come from day-of-month arithmetic across months of unequal
   length, anchored to today; charges from tiers whose position the loop forgets.
9. Readings come late, incomplete and in any order, and are judged once and used
   later.
10. A cached answer in Redis outlives what it was computed from.

`PROJECT.json` lists these at their lines under `hazards`, with the property
that covers each.

## Modules

| module | what it is |
|---|---|
| `ApprovalJourney` | abstract specification: what an approval journey is, whoever acts and whenever |
| `WorkflowEngine` | engine, sweep, and the tariff handlers that drive them; implements `ApprovalJourney` |
| `BillRuns` | submissions, reviews, generation and cancellation of bills |
| `ReadingPeriods` | the day arithmetic of reading periods over any calendar |
| `BillingCycles` | the versions of a property's cycle, their review and the nightly job; extends `ReadingPeriods` |
| `TariffVersions` | scope and dates of tariff versions, the office's calls, the nightly job, the resolution of a unit's tariff |
| `Charges` | the arithmetic of an amount |
| `Metering` | from the reading to the amount: composes `ReadingPeriods` and `Charges` with the readings, their review, readiness and the generation |
| `Ingestion` | meter-reading files, from the incoming directory to the readings |
| `Registrations` | a registration request, its deposit and the customer's account |
| `Sessions` | families of refresh tokens, devices, the cached liveness |
| `Accounts` | accounts and who holds which role |
| `Permissions` | what a role may do, who approves, and the synchronisation at the start |
| `MC...` | the instance of each for TLC |
| `...Proofs` | inductive invariant and theorems of WorkflowEngine, BillRuns, BillingCycles, TariffVersions, Metering (with Charges), Ingestion; of Sessions and Permissions in `AccessProofs`, of Accounts and Registrations in `AccountsProofs` |

`map` in `PROJECT.json` gives the lines of every definition.

## How the database is modelled

MySQL/InnoDB at its default isolation, seen through TypeORM:

- A plain `SELECT` of a transaction reads the snapshot of its first one; `SELECT
  ... FOR UPDATE` and `UPDATE` read the current row and lock it to the end of the
  transaction. Where the difference matters the snapshot is a field of the request.
- A call is therefore up to three steps, *load*, *begin* (the snapshot) and
  *commit*, and other calls act between them. What it loaded, what its snapshot
  shows and what is there when it commits are three different rows.
- `save(entity)` reloads the row inside the transaction and writes the columns in
  which the entity differs from that reload, so a column changed before the reload
  is written back to what the call loaded, and one changed after it is kept if the
  entity agrees with the reload (`Written` in `Registrations`, `Saved` in `Accounts`
  and `TariffVersions`, `SavedColumn` in `WorkflowEngine`; in `BillingCycles` the
  fields that each save carries).
- Locks are not variables: who holds a row is read off the phases of the
  requests (`InstanceLocked`, `StepLocked`, `WaitsForRow`, `Locked`). A transaction
  whose locks are all taken in its last stretch is one step from there on.
- A locking read that finds nothing holds a gap lock (`held` in `BillRuns`); an
  insert waits for the gaps of others, and a cycle of waits ends with the loss of
  one transaction (`Deadlocked`).
- Statements outside any transaction are steps of their own (`Sessions`,
  `Ingestion`, the jobs, the synchronisation of `Permissions`).
- A process can die, and a transaction can be rolled back, at every point
  (`EditAborts`, `SubmitDies`, `RequestDies`, `JobDies`, `Crash`, `Dies`, `Fails` ...).

## WorkflowEngine

State: `wfi[i]` and `step[i][l]` are the rows of an instance and of its levels;
`tariff[t]` is the status and submitter of a tariff version; `published` is the
ACTIVE definition. `edit`, `review` and `sweep` are requests in flight. A step is
OPEN while its `action` is null.

| action | code |
|---|---|
| EditReads, EditOpens, EditCommits | `tariff.service.ts` update, submit, deactivate, reactivate, deprecate; `tariff-scheduler.service.ts`. Read and checks; start of the transaction; the writes, with `startInstance` for a submit |
| ReviewOpens, ReviewLocks, ReviewCommits | approve, reject: the unlocked look-up of `assertCanAct`, its lock, then the checks and writes |
| SweepFinds, SweepFlags, SweepNotifies, SweepAutoApproves, EscalationLocks, EscalationCommits | `workflow-sla-scheduler.service.ts` |
| PublishDefinition, DeadlinePasses | a new definition; the clock |

An automatic approval is a review by `System`, whose actor id is undefined in the
code, and takes the same steps as one by a person.

Properties. `TrailFits`: the steps of an instance fit its status (`OneOpenStep`: a
waiting instance has exactly one open step, that of its current level;
`CompletedTrail`, `RejectedTrail`: a verdict is backed by the steps). `HistoryKept`: a closed step is never rewritten. `OneDispatcher`: two
sweeps never work on one breach. `OverdueNoticed`: an overdue step is noticed in
the end. `FourEyes`: nobody decides at a level without its role, nor on his own
submission. `OneWaiting`: the instance approve() finds is the only one waiting.
`VerdictReachesTariff`: the tariff's status is the newest verdict.
`ImplementsJourney`: the engine refines `ApprovalJourney`.

The last four hold of a tariff edited by **one maker request at a time**
(`Editors = {e1}`), with any number of reviews and sweeps beside it. With two, the
unlocked reads of `update` and `submit` break them: two submits both find no
waiting instance and both start one. `WaitingOnlyIfPending` below shows another such
case. `OneEditPerTariff` says this of the requests in flight, and under it the four are
proved for any number of makers; `IInv`, and what follows from it, needs no such
condition.

`WaitingOnlyIfPending` also fails another way, with one editor: `assertCanAct` takes its
snapshot with an unlocked look-up. An approval whose look-up finds no instance,
because the submit commits just after it, passes as if no workflow were configured
(`inst = 0`): the lock on the tariff row then shows it PENDING, and it goes ACTIVE
while its instance waits at level 0.

## BillRuns

State: `run[r]`, `wf[r]` (its instance, reduced to status and level), `bill[r][u]`,
the calendar (`month`, `closed`), the property's current cycle version `cycle[p]`
with the history `lived[p]`, submissions `req[c]` and reviews `rev[p]`. A row's
`tx` names the transaction that inserted it until that commits.

A submission opens a transaction (SubmitOpens), resolves the period of a property
(SubmitReads, NotReady), takes the duplicate check (SubmitChecks), inserts
(SubmitInserts, InsertFails), and goes on with the next property of a batch or
commits (SubmitReplies); it can be rolled back (RollsBack) or die (SubmitDies). A
review is ReviewOpens then ReviewCommits; after the commit the process goes on to
generate the bills (GenerationStarts, GenerateOneBill, GenerationEnds), one
transaction per unit, or dies (ReviewDies).

`RollsBack` inside a batch leaves the loop running: InnoDB has dropped the
transaction, TypeORM does not know, and later statements commit one by one. That
is the field `alive`. After it, the insert of another run fails on the foreign key
to the batch, which is gone too (InsertFails).

Properties. `OneActiveRun`: a property and cycle version never has two live runs.
`SameVerdict`: run and instance are decided together. `BilledIfApproved`: only an
approved run has bills or is being billed. `EveryUnitTried`: a generation that ends
has billed or reported every unit, also when two of them overlap. `HistoryKept`: a
decided run and an issued bill do not change.

## BillingCycles

State, for one property: the rows `ver[v]`, the master's pointer `current`, the
status `wf[v]` of the newest instance, requests of makers `req[m]` between their
read and their writes, and the nightly job `job`: its list (`todo`) and the row in
hand. `live` and `ratified` are history variables: the versions that took over, and
those finally approved since they were last submitted. Months are given by
`FirstDay`, so that any calendar will do.

| action | code in `billing-cycle.service.ts` |
|---|---|
| CreateReads/Writes, NewVersionReads/Writes, ResubmitReads/Writes | create, newVersion, resubmit: checks on an unlocked read, then one transaction |
| DeprecateReads, DeprecateWrites, DeprecateUnpoints | deprecate and applyDeprecation: two saves, no transaction |
| Approve, Reject | one transaction that holds the row's lock; the approval of a version whose day has come also activates it |
| JobStarts, JobActivates, JobPoints, JobSupersedes, JobTurns, JobDeprecates, JobUnpoints, JobEnds, JobDies | `billing-cycle-scheduler.service.ts` run: autoActivateDueVersions then autoDeprecateDueCycles, save by save |

`Resolve(d)` is resolveVersionForReadingDate: the set of versions one of whose
periods holds day d. One member is the answer, none is 'none', several 'ambiguous'.

Properties. `FourEyes`: the last submitter of a version has not signed it. It is
not the guard of `approve`: it must survive reject, resubmit by the reviewer,
stale saves and the job. `OnlyRatifiedGoLive`: a version that takes over was
approved since its last submission. `DueHappens`: what is due is carried out, by
activation (`DueActivates`) or deprecation (`DueDeprecates`), although the job dies
again and again. `PeriodsInOrder`: the
periods of a version are non-empty and follow one another.

`Overlap` says whether makers and reviewers may act while the nightly job runs.
The job's list goes stale as soon as they do: with `Overlap = TRUE` TLC finds a
version that is rejected after the list was read and activated all the same, and a
row resubmitted meanwhile likewise. So `OnlyRatifiedGoLive` has `~Overlap` as a
hypothesis, in its run and in its theorem. `FourEyes`, the types and
`PeriodsInOrder` need no such hypothesis.

Other consequences of the code that the model shows and no line contradicts: a
version the sweep approved has no signature, and the job, which looks for one,
never activates it; two versions can be pending under one parent (reject v2, create
v3, resubmit v2), and once both have gone live every resolution is 'ambiguous'; a
crash after the save of the version leaves it ACTIVE but not current for good; a
first version made by `create` has no `effectiveFrom` and resolves no reading;
`create` accepts the status PENDING without recording a submitter, so that its maker
may approve it.

## TariffVersions

State: `row[v]`, a version with status, residency type, applicability, scope (the
properties or units it is for), dates and parent; `call[q]`, the calls of the
office; the nightly `job`; and three history variables. Rates and fees are columns
that every save treats as it treats the dates.

| action | code in `tariff.service.ts` |
|---|---|
| Loads, ChecksConflict, Begins, Commits | update, submit, deactivate, reactivate, deprecate: read and status check; `checkConflict`; the re-read of the save; the writes |
| Creates, Clones | create, newVersion |
| Approve, Reject | the last verdict; `WorkflowEngine` has the levels |
| Midnight, JobReads, JobSaves, JobTurns, JobEnds, JobDies | `tariff-scheduler.service.ts`: superseded versions, then those past their end, save by save |

`ResolveForUnit` and `ResolveForUnitAsOf` say which version a unit has now, and had
on a day.

`checkConflict` reads the other versions without a lock and its call saves later.
`raced` is set when a check overlaps another check, or a save of the version that was
checked. Properties. `Exclusive`: unless `raced`, no two live versions have one scope
and overlapping dates. `TermsReviewed`: unless `raced`, an active version has the
terms that were approved, or was deactivated, edited and reactivated. The hypothesis
is the sharp one: nothing but such an overlap breaks them, and each such overlap can.
`NightlyCatchesUp`: what is past its end, or has an active successor that has begun,
is retired in the end.

## Metering and Charges

State: `today`; the cycle version in force and since when; the unit each meter is
mapped to; `reading[f]` for a meter and a day; edits of meters and reviews of
readings between their read and their save; `run[v]`, the approved bill run of a
version with its period, the readings its gate judged and whether it is a recovery;
`bill[u][v]` with opening and closing reading, consumption and amount, or why there is
none.

`Ingest` stores a reading with the unit its meter is mapped to at that time, approved
unless its value is missing; EditReads/EditSaves remap a meter; ReviewReads/ReviewSaves
approve or revoke; TakesOver is a new cycle version; Submit is a routine run (the gate
`evaluateProperty`), Recover a run of a past version (`evaluateHistoricalCycle`);
BillUnit is `generateOneBill`.

`Charges` counts money in hundredths and rates in ten-thousandths; where the code has
doubles that it rounds after each step, the model has exact integers.

Properties. `ChargedByBand`: a bill on tiers without gaps costs what its kWh cost one
by one, each at the rate of its own tier, although the loop knows only the widths.
`BlankPassedGate`: a missing value, which the calculation reads as 0, enters the bill
of a routine run only if a reviewer has approved the reading at some time, or it came
after readiness was evaluated. `ChargedOnce`: two bills of a unit never charge the
same days, as long as the periods of their runs lie within the time of their
versions. `EligibleIsBillable`: what the recovery check finds eligible has its two
readings when the bills are generated, whatever happens in between.
`NegativeMeansMixed` (a theorem): a negative consumption comes of two meters or a
missing value only.

## Ingestion

State: `incoming`, the directory; `archive`, what was moved; `local`, the downloads,
which every job shares by name; `logs` and `readings`; `call[p]` of the nightly job,
of a run-now and of test-ingest. A call takes a file through download, parse, hash,
lookup, write, move and note, each an await; Fault ends one of them with an error and
Crash all calls.

Properties. `Once`: a content is logged once, and a registered meter has one reading a
day; only the unique indexes make it so. `RowsAccounted`: received = stored +
duplicates in every PROCESSED log, also by the row-by-row fallback. `NothingLost`: a
file that has left the incoming directory has a log and its readings.
`EventuallyLogged`: a file that can be read and is malformed or storable is logged,
though jobs fail and die. Proved besides: `MovedIsThere` (a log claims no move that
did not happen) and `FirstReadingWins` (a stored reading is never changed by a file).

## Registrations

State: `request[r]` (status, deposit status, demands, ledger entry, KYC document,
customer), `customers`, and `ongoing[p]`. Every call loads the whole request with its
children and saves it later; the calls on a document load the request too and save the
document by itself (CommitDocument). The actions are those of
`registration-request.service.ts` (UpdateDraft ... ReturnReceiptForCorrection), then
Begins, and one commit per kind of transaction; ActivateReads/ActivateCommits are the
customer's link in `customer.service.ts`.

Properties. `DepositBacked`: a requested deposit has a demand to pay, a paid one a
demand to verify, a verified one a verified demand and an active account.
`ApprovalIsWhole`: approval, customer and deposit decision come and stay together, and
a unit has one resident of a type. Both are checked with one call of the staff at a
time, beside the portal of the customer, and proved under `OneOfEach`: on a request at
most one call of the staff and one payment of the customer are in flight, and two
approvals in flight are for two slots. With two members of staff on one request the
load-and-save pattern loses updates of every kind.

## Sessions

State: the principal's standing, `token`, `device`, `history`, the Redis markers
`cached`, and requests `req[r]`, statement by statement. RefreshRotates is the
conditional UPDATE on which rotation rests; EndLists, EndRevokes and EndForgets are
`session-revocation.ts`; CheckReads/CheckMarks are `session-liveness.service.ts`.

Properties. `OneUsableToken`: a session has at most one token a refresh accepts.
`EndedStaysEnded`: with no token left and none about to be issued, it never has one
again. `MarkerFades`: the cached answer "live" of an ended session goes for good. Two
requests at a time; the theorems are for any number.

## Accounts

State: `users`, `held` (`user_roles`), `roles`, and `call[q]` with what it loaded and
its snapshot. The holders of SUPER_ADMIN are locked by whoever demotes, deactivates or
removes one, so that check and writes are one step.

Properties. `AdminsRemain`: the last active SUPER_ADMIN is lost only by a stale save.
`KeepsARole`: no account loses its last role, or is created without one.
`AddressKept`: releasing the address of a deleted account never takes it from a live
one. Each names its one exception, which the code does not prevent.

## Permissions

State: `db` (policies, attachments, inline policies, active definitions), the
`process` with the synchronisation at its start, `call[q]`, and the history variable
`suspect`: the roles, policies and types that two overlapping requests changed, that
the start changed without a check, or that were wrong in the database to begin with.

| action | code |
|---|---|
| CreatePolicy, Load/CommitAttach, Load/Check/CommitDetach, Load/Check/CommitEdit, Load/CommitRemove | `iam.service.ts` |
| CreateInline, Load/Check/CommitEditInline, Check/CommitRemoveInline | `role-inline-policy.service.ts` |
| LoadPublish, FindPrevious, CommitPublish | `workflow-definition.service.ts` |
| Start, MakeNamed, AttachNamed, PickPrimary, GrantResource, BeginStrip, StripResource, Synced, StartFails, Dies | `ensureAdminPolicyGrants` and its caller in `bootstrap.service.ts` |

Properties. `LevelsDecidable`: every role a level of an active definition names can
approve. `OneActive`: a type has one active definition. `AttachedSound`: nothing
attached is deleted, and nothing attached to SUPER_ADMIN lists a business approval.
All three but for `suspect` things. `StartCovers`: a start that ends without an error
leaves SUPER_ADMIN everything it may hold and its system policy nothing it may not,
whatever an earlier start had left half done.

## Runs and bounds

Every run passes. `PROJECT.json` lists, for each property, a mutated definition
with which the run fails.

| run | distinct states | what it asks |
|---|---|---|
| `engine_journeys` | 585,738 | all kinds of edits, two journeys of two levels, one reviewer, one sweep: agreement of tariff and workflow, refinement of `ApprovalJourney` |
| `engine_sla` | 51,021 | sweeps that die, two definitions so that all three on-breach actions occur: trails, history, one dispatcher, liveness |
| `bill_submissions` | 1,200,117 | two batches over two properties, two versions, two months: one live run |
| `bill_generation` | 638,134 | two reviewers, two levels, a recovered run and its resubmission, a unit that cannot be billed |
| `cycle_reviews` | 22,048 | one maker, two people, two versions, two days, the nightly job: reviews, activation, deprecation, periods |
| `tariffs` | 163,962 | two calls of the office beside verdicts and the nightly job, from four tables |
| `metering` | 1,699,287 | two months of readings, remapped, reviewed and billed while one cycle version replaces another |
| `ingestion` | 478,092 | three callers on one directory, one fault or crash |
| `registrations` | 1,269,328 | staff on two requests for one unit, the customer's portal beside it |
| `sessions` | 230,917 | two requests on one session, with expiry, barring, crash |
| `accounts` | 312,308 | three overlapping requests of administrators |
| `permissions` | 761,747 | three overlapping requests and two starts, from four databases |

**Why the bounds are enough.** Two of each racing actor give every pairwise
interleaving of their steps, and the invariants relate at most two calls to one
row. In detail:

- Engine: two levels distinguish first, intermediate and last; two journeys
  (`MaxInst`) are what rejection and resubmission need.
- Bill runs: two properties taken in opposite orders are the smallest deadlock.
- Cycles: two versions are parent and child; two days are today and a future day, and
  versions due today and scheduled ones both occur. With two makers (960,693
  states) and with three versions (363,000) the safety properties pass too.
- `tariffs`: each of two calls is made once, so that every pair of operations meets;
  four tables put versions before, in and after their dates; the job dies once.
- `metering`: months of four and three days, so that an end of month is missing in one
  of them; one unit with a spare meter; one edit and one review.
- `ingestion`: a name is put in the directory once (the names of the files carry their
  date), which the sharing of local copies by name relies on; one fault, one retrigger. Equal contents under two names, a row that repeats a stored one, an
  unreadable and an unstorable file are all there.
- `registrations`: a second member of staff breaks both properties (see its section);
  the portal gives every interleaving that leaves them true.
- `sessions`: one principal, one device, one session and three tokens let a refresh be
  replayed after its successor has been refreshed.
- `accounts`, `permissions`: three requests, once each: two that race and a third
  between them. Two starts, of which the first may stop half way, and four
  databases (new, one whose system policy lists too little, one whose lists an approval,
  one where nobody can approve yet).

`SYMMETRY` permutes model values that nothing orders, in runs without a temporal
property that is not an action property: `bill_submissions`, `bill_generation`,
`accounts`, `permissions`. Deadlock is checked in `cycle_reviews` and `tariffs`; in
the others an instance really stops, since ids, names, requests or months are used up.

**Configurations that are refuted.** Kept beside the runs to replay a trace of each
disagreement below: `engine_auto_approve`, `engine_stale_update`, `bill_batch`,
`bill_next_month`, `cycle_resolve`, `cycle_closing`, `sessions_others`,
`registrations_receipt`, `ingestion_retrigger`, `accounts_last_admin`,
`tariffs_successor`, `metering_refuted` and `permissions_refuted` (the last two hold
several properties, of which one at a time is left in). Each module names the refuted
formula and the sentence it comes from.

## Fairness

`WorkflowEngine.FairSpec`. A transaction of a review ends (`WF`): the code awaits
each statement, and InnoDB ends waits by a time-out or deadlock detection. The
sweep is started every hour by `@Cron` and goes on (`WF` of SweepFinds and
Dispatch). A sweep may be killed; strong fairness of `SweepFlags(s, i, l)` says that
it is not killed every single time just before it flags the same step. No person is
assumed to act.

`BillingCycles.FairSpec`. The job is started every midnight and goes on (`JobStarts`,
`JobStep`), and does not die for ever at the same row (`SF` of JobActivates(v),
JobDeprecates(v), JobTurns); `SF_vars(JobStarts)` because with quiet nights it waits
for makers. A request of a maker goes on or dies (`WF`). Days need not pass and
nobody need review: the leads-to properties start from a day that has come.

`TariffVersions.FairSpec`. The nightly job is started again after it has ended
(`WF` of Midnight, an `@Cron`) and goes on (`WF` of JobStep). Its deaths are bounded
by `MaxDeaths`. The office need not call, and a call may stop for ever.

`Ingestion.Spec`. The cron starts the nightly job again and again, and a call, once
begun, goes on (`WF`): every await of it has a time-out or an answer. Faults are
bounded by `MaxFaults`: a server that fails for ever is not asked to ingest. Nobody
need run test-ingest or run-now.

`Sessions.FairSpec`. A marker expires (`WF` of MarkerExpires): Redis drops a key when
its time to live is over. No request need go on.

## Proofs

Each of the ten components has an inductive invariant (`IInv`, `RegistrationsInv`,
`PermissionsInv`): checked by TLC first, then proved in three facts, `Init => IInv`,
`IInv /\ [Next]_vars => IInv'`, and each property from it. All invariants and action
properties of the runs are theorems. The constants are arbitrary up to the named assumptions of each module
(`BoundAssumption`, `SessionAssumption`, `TariffAssumption` ...): positive bounds,
sentinels outside the sets they stand beside, definitions the definition service
accepts, a calendar with increasing month starts.

**WorkflowEngineProofs** (`TrailFitsHolds`, `OneDispatcherHolds`, `HistoryIsKept`;
`FourEyesHolds`, `OneWaitingHolds`, `VerdictReaches`, `EngineImplementsJourney`).
`OneOpenStep` alone is not inductive: a reviewer that holds the instance's lock goes
on with a step he saw open in his snapshot, so the invariant says what the locks
guarantee (`Locks`: a locked instance waits, a locked step is open, each is locked
once), that the levels of every instance were activated in order (`LevelsInOrder`,
also of instances withdrawn under a sweep), that ids not handed out have no rows
(`Registry`), and that a breach is flagged before it is dispatched (`Flags`).

The last four theorems have the hypothesis `[]OneEditPerTariff`: no two requests of
makers are in flight on one tariff. Nothing in the code enforces it, and
`engine_stale_update` shows what happens otherwise. Under it `IInv /\ Coupled` is
inductive: `Coupled` ties the status of a tariff to its newest instance, and what a
request has read to what is there when it writes. The refinement is proved step by
step, for one tariff at a time: a submit withdraws what waits and begins a journey, an
approval passes a level, the last one completes it, and every other step stutters.

**BillRunsProofs** (`OneActiveRunHolds`, `SameVerdictHolds`, `BilledIfApprovedHolds`,
`EveryUnitTriedHolds`, `HistoryIsKept`). `OneActiveRun` speaks of committed rows; the
proof needs it of uncommitted ones (`OneRunPerKey`) and needs what a gap lock buys
(`GapsGuarded`: a key whose gap c holds is free but for c's own rows, and free of
those too when c is about to insert). `NoUnitForgotten` splits the units of a
generation into done, failed and still to do, with two generations of one run at work.

**BillingCyclesProofs** (`PeriodsTile`, `FourEyesHolds`, `OnlyRatifiedHolds`,
`PeriodsInOrderHolds`). `PeriodsTile` is arithmetic: for any calendar, a rule whose
days every month has gives non-empty periods in order. `SignedIsRatified` links the
signature the job goes by to an approval: a rejection signs too, and only the reset in
`resubmit` keeps such a signature from being taken for an approval. `RefersToStored`
says that what is in flight is about existing rows and that a deprecation never writes
PENDING back. `ListIsFresh` is the price of `OnlyRatifiedGoLive` and holds without
overlap only. `PeriodsInOrderHolds` has the hypothesis that the days of every rule
exist in every month: a start on the 31st runs over into the next month, and the
comment "no manual clamping is needed" (`billing-cycle.service.ts:143-145`) is not
true of it.

**TariffVersionsProofs** (`ExclusiveHolds`, `TermsReviewedHolds`). Between a call's
read and its save, other calls and the job write. While not `raced`, what a call
holds still agrees with the table where it matters: `ReadsHold` for the row it read,
`ChecksHold` for the conflict check it passed. `QuietSave` and `CheckedCommit` are the
two ways a save keeps both.

**MeteringProofs** (`BlankPassedGateHolds`, `ChargedOnceHolds`,
`EligibleIsBillableHolds`, `NegativeMeansMixedHolds`, `ChargedByBandHolds`). `VersionsInOrder` gives that
time windows of versions follow one another, and `BillsKeep` that a bill lies in the
period of its run. `GateHeld` remembers what the gate judged; `BlankApproval` and
`ReviewsFound` trace the approval of a missing value to a review. `RecoveryQualifies`
says that readings, once there, never go. The choice of the first and the last reading
rests on `LeastNumber`.

`ChargedByBandHolds` is about two recursions, the loop over the tiers and the price kWh
by kWh, and needs two inductions, which are made by hand from `LeastNumber`: of the
steps at which a claim fails none can be the first. `Recursion` shows that the recursive
functions exist; `PriceWithin` that inside a tier the price grows by its rate;
`TierCharges` that when the loop leaves a tier it has charged the price up to the end of
it and has left what lies above (`Reached`), which `LoopFindsPrice` carries to the last
tier. `AmountsKeep` carries that to the bills.

**IngestionProofs** (`NothingLostHolds`, `OnceHolds`, `RowsAccountedHolds`,
`FirstReadingWinsHolds`). `OneContent`: the shared copy of a file is what was listed
and what is archived, since a name is used once; `CallConsistent`: its counts are those of the rows it has inserted;
`LoggedIsStored`; `Grown`: tables only grow.

**AccountsProofs**, of Accounts (`AdminsRemainHolds`, `KeepsARoleHolds`,
`AddressKeptHolds`). `UniqueEmails` is the index; `RequestsConsistent` says what a
request in flight knows of the row it loaded. Only commits disturb the invariant.

Of Registrations (`DepositBackedHolds`, `ApprovalIsWholeHolds`), under `[]OneOfEach`,
which nothing in the code enforces either: a second member of staff, or three
overlapping payments, break `DepositBacked`. `RegistrationsInv` says that a row is
undecided or decided as a whole (`RowsWhole`), and of every call in flight how it fits
the row it will be written over (`CallsStand`): a call of the staff is `Fresh`, or a
payment has `Overtaken` it and its save keeps what the payment wrote; a payment either
`Pays` a demand that is still there, or fails against one raised meanwhile.

**AccessProofs**, of Sessions (`OneUsableTokenHolds`, `EndedStaysEndedHolds`).
`OneSuccessor`: a family has one token that is unrevoked or one request that is about
to insert it, never both. The lemma `Calm` covers the many steps that touch no token.

Of Permissions (`LevelsDecidableHolds`, `OneActiveHolds`, `AttachedSoundHolds`,
`StartCoversHolds`), from any database: what was wrong in it is `suspect`. In
`PermissionsInv`, `AllStand` says that what a request has checked still stands for what
nobody else has touched since, and `StartHalfway` what the synchronisation has achieved
so far; `StartCovers` then holds whether or not the self-check at the end of the start
looks, which is to say that the self-check is redundant.

**Model-checked only**: the liveness properties `OverdueNoticed`, `DueHappens`,
`NightlyCatchesUp`, `EventuallyLogged` and `MarkerFades`, since temporal reasoning under
fairness is beyond the prover. No module with a theorem declares a RECURSIVE operator. A
refuted formula has a trace, not a theorem.

## Where the code and its comments disagree

Each is refuted by the configuration named first.

1. `engine_auto_approve`: the automatic approval falls on whatever level is current
   when it arrives. If a person acts between the flag and the dispatch, the next level
   is approved with the note "SLA breach, no human action taken on this level"
   (`tariff.service.ts:672`).
2. `engine_stale_update`: an `update` that read the draft before a submit committed
   puts the tariff back to DRAFT while its workflow instance waits, "a workflow instance
   must never exist without its corresponding tariff actually being PENDING"
   (`tariff.service.ts:612`).
3. `bill_batch`: two batches deadlock, and the victim answers with a run that was
   rolled back.
4. `bill_next_month`: the duplicate check ignores the period, so that a version that
   stays current for months can be billed once.
5. `cycle_closing`: `closed` compares today with the end of the period that starts in
   today's own month. A window that ends next month (1 to 1, 11 to 10) is never
   closed, and its property is never billed by the routine path.
6. `cycle_resolve`: a rejected version can be deprecated, and then counts as one that
   was live.
7. `tariffs_successor`: a retired predecessor whose dates still cover the day makes
   the resolution of that day ambiguous, though its successor alone is active;
   "whichever TariffVersion's effective window actually covered" the date
   (`tariff.service.ts:1178`) does not say which then.
8. `metering_refuted`, `NeverTwice`: the new version of a cycle bills the days that its
   predecessor has billed in the same month. `SameRule`: the screen of daily readings
   counts a day from the reading before it, in whatever period; the bill counts from
   the first reading inside its own, so that the days between two periods are shown and
   never billed. `RevokedIsClean`: a revoked reading keeps the name and time of its
   approval. `OpensEarlier`: over a range of days the opening shown with a row can be
   later than the row.
9. `ingestion_retrigger`: "Explicit single-file retrigger: bypasses the
   already-processed skip, always runs the file through in full" (`sftp.controller.ts:76`);
   a content already logged ends as a duplicate.
10. `registrations_receipt`: `resolveActiveDemand` (`registration-request.service.ts:1223`)
    takes one raised demand for granted. A receipt returned while the customer pays
    leaves two.
11. `sessions_others`: "the caller's own current session survives"
    (`auth.service.ts:383`); when another session of the same device is ended, its device
    row ends with it, and the session that goes on is taken for dead.
12. `accounts_last_admin`: "the last active SUPER_ADMIN can never be deactivated"
    (`user.service.ts:707`); an edit that loaded the account while it was inactive writes
    that back, without the check.
13. `permissions_refuted`, `NoLevelOrphaned`: the refusal to take the approve code from
    the role of a level (`iam.service.ts:494-504`) reads a snapshot. Two detachments
    that each see the other's policy both pass. `OthersUntouched`: "No other role is ever
    touched" by the start (`iam.service.ts:638`), but a code stripped from a policy that
    SUPER_ADMIN shares is stripped from all who hold it. And "SUPER_ADMIN must keep every
    active, supported permission auto-granted at all times" (`iam.service.ts:474`) fails
    from an edit of its attached policies until the next start; "Exactly one row per
    `workflowType` may have `status = ACTIVE`" (`workflow-definition.entity.ts`) fails
    when two publications overlap (`OneActive` but for `suspect` types).

## Other behaviour the models show

No line contradicts these; they are worth knowing.

- *Tariffs.* An INACTIVE version can be edited and reactivated without approval. The
  setting TARIFF_REACTIVATION_CONFLICT_CHECK switches the check off. A version is in
  conflict on its last day, on which the nightly job already ends it. A version past its
  end can be reactivated until midnight. The successor of an active version without an
  end, of the same scope, cannot be submitted until that one ends. The resolution of a
  unit's present tariff does not look at `effectiveFrom`. An update that overlaps a
  submit edits a pending version.
- *Readings and bills.* Tiers with a gap are accepted and the kWh of the gap are charged
  at the next rate. Readiness asks for one reading of a unit, the generation for two. A
  rejected recovery cannot be corrected (`billing-readiness.service.ts:385`). A crash
  after the commit of the last approval leaves the run without bills
  (`bill-run.service.ts:795`).
- *Cycles.* A crash between the saves of a version and of its master leaves an active
  version that is not current (`billing-cycle.service.ts:984`). Two children of a version can
  be pending (`:698`). A deprecation can detach a child inserted meanwhile (`:910`).
- *Ingestion.* A file that test-ingest took, or whose job died before the move, stays in
  the incoming directory and is skipped for ever. A FAILED file that was not moved is
  later a duplicate of itself. A cell the table cannot store fails the file before its
  log is written, every night.
- *Accounts.* A stale save revives an account removed since. Two SUPER_ADMINs can bar
  each other from signing in. A role can be granted while it is being deleted.
- *Permissions.* An edit of a policy that overlaps its removal revives it. An attachment
  that overlaps the removal leaves a dead attachment, which can make every later start
  fail.
- *Registrations.* Two members of staff on one request lose each other's changes of
  every kind, since every save writes the whole tree. Three overlapping payments of one
  demand, with a verification by the staff between them, leave a VERIFIED deposit
  without a verified demand.
- *Meters*, read and not modelled: a meter is created without a code when the code it
  was given collides or the process dies (`meter.service.ts:472`, `:573`), and a row of
  an import that failed still claims its property, unit and serial number.

## Not modelled

- **Meters beyond readings**: imports, inventory and statuses of meters, master meters
  and their exports. The mapping of a sub-meter and the review of readings are.
- **Estate, catalogues, attributes, settings, inspections.** Plain edits of single rows.
- **IAM beside policies**: inline policies of a user (no level depends on one), the legacy
  tree of role permissions, the catalogue of resources.
- **Registration**: the field checks of a submission, the rules on documents, the
  replacement of units in a draft; of the customer's portal all but payment and
  activation.
- **Authentication**: the counters that lock an account out, single sign-on.
- **Ingestion**: alerts for missing files, the retry delays of a connection, the
  refusal of `_TEST` names.
- **Review of a cycle and of a bill run by levels** is reduced to what their own rows
  tell; the engine has the levels.
- **Rounding** of each intermediate amount to a double.
- **Mail, audit, OCR, dashboard, listings, exports.** Output, reads, or a call to a
  service that keeps nothing here. Reasons and notes carry no property.
- **The clock's zone.** The code computes `today` in UTC and schedules the jobs at
  local midnight, so an activation may be late by a day; `today` is one clock here.

The definitions stand for about 7,800 of 49,000 lines. Most of the rest is DTOs,
entities and controllers, listings with their filters, exports, mail templates, seed
data, migrations and scripts: nothing in them changes state in more than one step.

## Plan

Done: the engine with tariffs, bill runs with bills, cycles, tariff versions, readings
and amounts, ingestion, registrations, sessions, accounts, permissions; each with its
invariant proved, and the refinement of `ApprovalJourney`. Next, in this order:

1. `NoUnitForgotten` of the generation down to the amounts: `BillRuns` and `Metering` over
   one bill.
2. The counters of failed sign-ins: an INCR whose EXPIRE is lost.
3. `MeterInventory`: imports in batches, codes given after the insert.
4. Which documents a registration needs, and what a return keeps of them.

Runs are kept to one per question; as a component is added, runs of another that
answer neighbouring questions are merged.
