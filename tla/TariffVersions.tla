---------------------------- MODULE TariffVersions ----------------------------
(***************************************************************************)
(* What tariffs apply to, and when: TariffService over tariff_versions,    *)
(* the check for conflicts, the calls of the tariff office, the nightly    *)
(* TariffSchedulerService and the resolution of a unit's tariff.           *)
(*                                                                         *)
(* A call reads a version, checks it, and saves the entity later.  A save  *)
(* reads the row once more, and writes the columns and junction rows in    *)
(* which the entity differs from that second read.  The verdict on a       *)
(* pending version is one locked step here: WorkflowEngine has its levels. *)
(* Rates and fees are left out: they are columns that every save treats as *)
(* it treats the dates.                                                    *)
(***************************************************************************)
EXTENDS Integers, FiniteSets

CONSTANTS
  Versions,
  Types,                  \* residential, commercial
  Properties, Units,
  PropertyOf, TypeOf,     \* of a unit; of a property
  MaxDay,                 \* bound: the last day
  Requests,               \* bound: the calls, each made once
  Forms,                  \* the bodies of POST and PATCH /tariffs
  Seeds,                  \* the tables at the start
  MaxDeaths,              \* bound: nightly jobs that die
  None

TariffStatus == {"DRAFT", "PENDING", "ACTIVE", "INACTIVE", "REJECTED",
                 "REQUEST_FOR_CORRECTION", "DEPRECATED", "EXPIRED"}
Applicability == {"GLOBAL", "PROPERTY", "UNIT"}

\* No effectiveFrom is day 0, no effectiveTo the day after the last.
Never == MaxDay + 1
From == 0..MaxDay
To == 1..Never

Row == [status: TariffStatus, type: Types, app: Applicability,
        from: From, to: To, on: SUBSET (Properties \cup Units), parent: {None} \cup Versions]
\* A field that a form leaves out is None.  A form that gives the applicability
\* lists ids of its kind.
Form == [type: {None} \cup Types, app: {None} \cup Applicability, from: {None} \cup From,
         to: {None} \cup To, on: {None} \cup SUBSET (Properties \cup Units)]

LiveStatus == {"ACTIVE", "PENDING", "REQUEST_FOR_CORRECTION"}

Targets(app) ==
  CASE app = "PROPERTY" -> Properties [] app = "UNIT" -> Units [] OTHER -> {}
\* The properties, or the units, that count for the applicability.
Scope(r) == r.on \cap Targets(r.app)

SameScope(r, s) == r.type = s.type /\ r.app = s.app /\ Scope(r) = Scope(s)
Overlap(r, s) == r.to >= s.from /\ r.from <= s.to
IsLive(r) == r # None /\ r.status \in LiveStatus
Clash(r, s) == SameScope(r, s) /\ Overlap(r, s)
NoClash(table) ==
  \A v, w \in Versions :
    v # w /\ IsLive(table[v]) /\ IsLive(table[w]) => ~ Clash(table[v], table[w])

ASSUME TariffAssumption ==
  /\ MaxDay \in Nat \ {0} /\ MaxDeaths \in Nat
  /\ None \notin Versions /\ None \notin Row /\ \A S \in SUBSET (Properties \cup Units) : None # S
  /\ Properties \cap Units = {}
  /\ PropertyOf \in [Units -> Properties] /\ TypeOf \in [Properties -> Types]
  /\ Forms \subseteq Form /\ None \notin Forms
  /\ \A s \in Seeds :
       /\ s \in [Versions -> {None} \cup Row] /\ NoClash(s)
       /\ \A v \in Versions : s[v] # None => s[v].status # "REQUEST_FOR_CORRECTION"

VARIABLES
  row,      \* tariff_versions
  call,     \* call[q]: the call q of the office
  today, job, deaths,
  raced,    \* history: a check overlapped a call it should have seen
  drifted,  \* history: the versions whose terms changed since they were approved
  revived   \* history: the versions reactivated since they were approved

vars == <<row, call, today, job, deaths, raced, drifted, revived>>
history == <<raced, drifted, revived>>

New == [at |-> "new"]
Ended == [at |-> "ended"]
Ops == {"create", "update", "submit", "deactivate", "reactivate", "deprecate", "newVersion"}
Checking == {"submit", "reactivate"}
Steps == {"load", "check", "begin", "commit"}
Call == [op: Ops, at: Steps, v: {None} \cup Versions, form: {None} \cup Forms,
         read: {None} \cup Row, snap: {None} \cup Row]
Entry == [v: Versions, by: Versions, read: Row]
Job == [at: {"idle", "supersede", "expire"}, todo: SUBSET Entry,
        now: {None} \cup Entry, snap: {None} \cup Row]
Idle == [at |-> "idle", todo |-> {}, now |-> None, snap |-> None]

InFlight(q) == call[q] \notin {New, Ended}
At(q, step) == InFlight(q) /\ call[q].at = step
Inserting(q) == call[q].op \in {"create", "newVersion"}
\* The call q has read the version v, and is going to save it.
Has(q, v) == InFlight(q) /\ ~ Inserting(q) /\ call[q].at # "load" /\ call[q].v = v
Checks(q) == InFlight(q) /\ call[q].op \in Checking
JobHas(v) == (\E e \in job.todo : e.v = v) \/ (job.now # None /\ job.now.v = v)

TypeOK ==
  /\ row \in [Versions -> {None} \cup Row]
  /\ call \in [Requests -> {New, Ended} \cup Call]
  /\ today \in 0..MaxDay /\ deaths \in 0..MaxDeaths
  /\ job \in Job
  /\ raced \in BOOLEAN
  /\ drifted \subseteq Versions /\ revived \subseteq Versions

Init ==
  /\ row \in Seeds
  /\ call = [q \in Requests |-> New]
  /\ today = 0 /\ job = Idle /\ deaths = 0
  /\ raced = FALSE /\ drifted = {} /\ revived = {}

End(q) == call' = [call EXCEPT ![q] = Ended]
Goto(q, step) == call' = [call EXCEPT ![q].at = step]
OfTheOffice == UNCHANGED <<today, job, deaths>>

-----------------------------------------------------------------------------
(* Calls of the office *)

Ask(q, op, v, f) ==
  /\ call[q] = New
  /\ call' = [call EXCEPT ![q] =
       [op |-> op, at |-> "load", v |-> v, form |-> f, read |-> None, snap |-> None]]
  /\ OfTheOffice /\ UNCHANGED <<row, history>>

\* A check refuses, an await fails, the process dies: nothing is saved.
Refused(q) ==
  /\ InFlight(q) /\ End(q)
  /\ OfTheOffice /\ UNCHANGED <<row, history>>

\* Mutant: an active version can be edited.
EditableAlways == {"DRAFT", "REQUEST_FOR_CORRECTION", "REJECTED", "INACTIVE", "ACTIVE"}
EDITABLE_TARIFF_STATUSES == {"DRAFT", "REQUEST_FOR_CORRECTION", "REJECTED", "INACTIVE"}
SUBMITTABLE_TARIFF_STATUSES == {"DRAFT", "REQUEST_FOR_CORRECTION", "REJECTED"}

\* getValidationIssues, as far as it looks at what is modelled.
IsComplete(r) == r.from # 0 /\ (r.app # "GLOBAL" => Scope(r) # {})

Accepts(op, r) ==
  CASE op = "update"     -> r.status \in EDITABLE_TARIFF_STATUSES
    [] op = "submit"     -> r.status \in SUBMITTABLE_TARIFF_STATUSES /\ IsComplete(r)
    [] op = "reactivate" -> r.status = "INACTIVE"
    [] OTHER             -> r.status = "ACTIVE"

\* findOne, and the check of the status.
Loads(q) ==
  /\ At(q, "load") /\ call[q].op # "create"
  /\ row[call[q].v] # None /\ Accepts(call[q].op, row[call[q].v])
  /\ call' = [call EXCEPT ![q].at = IF call[q].op \in Checking THEN "check" ELSE "begin",
                          ![q].read = row[call[q].v]]
  /\ OfTheOffice /\ UNCHANGED <<row, history>>

\* Mutant: a pending version is no conflict.
NoExactConflictAmongActive(r, v) ==
  \A w \in Versions \ {v} :
    row[w] # None /\ row[w].status = "ACTIVE" => ~ Clash(row[w], r)

\* checkConflict finds no exact conflict: a broader scope is only warned of.
NoExactConflict(r, v) == \A w \in Versions \ {v} : IsLive(row[w]) => ~ Clash(row[w], r)

\* submit, reactivate: the check, against all other versions as they are now.  The
\* attribute TARIFF_REACTIVATION_CONFLICT_CHECK keeps its default: it is on.
ChecksConflict(q) ==
  /\ At(q, "check") /\ NoExactConflict(call[q].read, call[q].v)
  /\ Goto(q, "begin")
  /\ raced' = (raced \/ \E p \in Requests \ {q} :
                          Checks(p) /\ call[p].at \in {"begin", "commit"})
  /\ OfTheOffice /\ UNCHANGED <<row, drifted, revived>>

\* The row as the save, or its transaction, reads it.
Begins(q) ==
  /\ At(q, "begin") /\ ~ Inserting(q)
  /\ call' = [call EXCEPT ![q].at = "commit", ![q].snap = row[call[q].v]]
  /\ OfTheOffice /\ UNCHANGED <<row, history>>

Given(field, old) == IF field = None THEN old ELSE field

\* update: what the form gives, and the relations that fit the applicability.
Edited(r, f) ==
  LET app == Given(f.app, r.app)
  IN [r EXCEPT !.type = Given(f.type, r.type), !.app = app,
               !.from = Given(f.from, r.from), !.to = Given(f.to, r.to),
               !.on = Given(f.on, r.on) \cap Targets(app)]

Entity(c) ==
  CASE c.op = "update"     -> Edited(c.read, c.form)
    [] c.op = "submit"     -> [c.read EXCEPT !.status = "PENDING"]
    [] c.op = "reactivate" -> [c.read EXCEPT !.status = "ACTIVE"]
    [] c.op = "deactivate" -> [c.read EXCEPT !.status = "INACTIVE"]
    [] OTHER               -> [c.read EXCEPT !.status = "DEPRECATED"]

\* deactivate, deprecate and the job load no relations, and save none.
LoadsRelations(op) == op \in {"update", "submit", "reactivate"}

Saved(entity, snap, r, relations) ==
  [status |-> IF entity.status # snap.status THEN entity.status ELSE r.status,
   type   |-> IF entity.type # snap.type THEN entity.type ELSE r.type,
   app    |-> IF entity.app # snap.app THEN entity.app ELSE r.app,
   from   |-> IF entity.from # snap.from THEN entity.from ELSE r.from,
   to     |-> IF entity.to # snap.to THEN entity.to ELSE r.to,
   on     |-> IF relations THEN (r.on \ (snap.on \ entity.on)) \cup (entity.on \ snap.on)
              ELSE r.on,
   parent |-> r.parent]

Terms(r) == <<r.type, r.app, r.from, r.to, Scope(r)>>

\* A save of v leaves the row r, which has the terms it had or has drifted.
Save(v, r) ==
  /\ row' = [row EXCEPT ![v] = r]
  /\ drifted' = IF Terms(r) # Terms(row[v]) THEN drifted \cup {v} ELSE drifted

\* The save.
Commits(q) ==
  LET c == call[q]
      v == c.v
  IN /\ At(q, "commit")
     /\ Save(v, Saved(Entity(c), c.snap, row[v], LoadsRelations(c.op)))
     /\ End(q)
     /\ revived' = IF c.op = "reactivate" THEN revived \cup {v} ELSE revived
     /\ raced' = (raced \/ (\E p \in Requests \ {q} : Has(p, v) /\ (Checks(p) \/ Checks(q)))
                        \/ (Checks(q) /\ JobHas(v)))
     /\ OfTheOffice

Blank(f) == [status |-> "DRAFT", type |-> f.type, app |-> f.app, from |-> 0, to |-> Never,
             on |-> {}, parent |-> None]

Inserts(q, r) ==
  /\ \E v \in Versions : row[v] = None /\ row' = [row EXCEPT ![v] = r]
  /\ End(q) /\ OfTheOffice /\ UNCHANGED history

\* create: a master and its first version.
Creates(q) ==
  /\ At(q, "load") /\ call[q].op = "create"
  /\ Inserts(q, Edited(Blank(call[q].form), call[q].form))

\* newVersion: a draft with the terms of the version it was read from, but for its start.
Clones(q) ==
  /\ At(q, "begin") /\ call[q].op = "newVersion"
  /\ Inserts(q, [call[q].read EXCEPT !.status = "DRAFT", !.from = 0, !.parent = call[q].v])

-----------------------------------------------------------------------------
(* Verdicts, of a reviewer or of the sweep: the row is read under its lock. *)

Approve(v) ==
  /\ row[v] # None /\ row[v].status = "PENDING"
  /\ row' = [row EXCEPT ![v].status = "ACTIVE"]
  /\ drifted' = drifted \ {v} /\ revived' = revived \ {v}
  /\ OfTheOffice /\ UNCHANGED <<call, raced>>

Reject(v) ==
  /\ row[v] # None /\ row[v].status = "PENDING"
  /\ row' = [row EXCEPT ![v].status = "REJECTED"]
  /\ OfTheOffice /\ UNCHANGED <<call, history>>

-----------------------------------------------------------------------------
(* The nightly job *)

Active(v) == row[v] # None /\ row[v].status = "ACTIVE"

\* Mutant: only on the day the successor begins.
SupersededThatDay(day) ==
  {[v |-> row[c].parent, by |-> c, read |-> row[row[c].parent]] :
     c \in {c \in Versions : /\ Active(c) /\ row[c].parent # None /\ Active(row[c].parent)
                             /\ row[c].from # 0 /\ row[c].from = day}}

\* autoDeprecateSupersededVersions: the active versions with an active successor that
\* has begun.
Superseded(day) ==
  {[v |-> row[c].parent, by |-> c, read |-> row[row[c].parent]] :
     c \in {c \in Versions : /\ Active(c) /\ row[c].parent # None /\ Active(row[c].parent)
                             /\ row[c].from # 0 /\ row[c].from <= day}}

\* autoExpirePastEffectiveTo
Expiring == {v \in Versions : Active(v) /\ row[v].to <= today}

\* run: a day begins, and the list of superseded versions is read.
Midnight ==
  LET day == IF today = MaxDay THEN MaxDay ELSE today + 1
  IN /\ job.at = "idle"
     /\ today' = day
     /\ job' = [Idle EXCEPT !.at = "supersede", !.todo = Superseded(day)]
     /\ UNCHANGED <<row, call, deaths, history>>

\* The save reads the next one of the list.
JobReads ==
  /\ job.at # "idle" /\ job.now = None
  /\ \E e \in job.todo :
       job' = [job EXCEPT !.todo = @ \ {e}, !.now = e, !.snap = row[e.v]]
  /\ UNCHANGED <<row, call, today, deaths, history>>

JobSaves ==
  LET e == job.now
      status == IF job.at = "supersede" THEN "DEPRECATED" ELSE "EXPIRED"
  IN /\ e # None
     /\ Save(e.v, Saved([e.read EXCEPT !.status = status], job.snap, row[e.v], FALSE))
     /\ job' = [job EXCEPT !.now = None, !.snap = None]
     /\ raced' = (raced \/ \E p \in Requests : Has(p, e.v) /\ Checks(p))
     /\ UNCHANGED <<call, today, deaths, revived>>

\* The second list is read when the first one is done.
JobTurns ==
  /\ job.at = "supersede" /\ job.todo = {} /\ job.now = None
  /\ job' = [job EXCEPT !.at = "expire",
                        !.todo = {[v |-> v, by |-> v, read |-> row[v]] : v \in Expiring}]
  /\ UNCHANGED <<row, call, today, deaths, history>>

JobEnds ==
  /\ job.at = "expire" /\ job.todo = {} /\ job.now = None
  /\ job' = Idle
  /\ UNCHANGED <<row, call, today, deaths, history>>

\* A save throws, or the process dies: the rest of the night's work is not done.
JobDies ==
  /\ job.at # "idle" /\ deaths < MaxDeaths
  /\ job' = Idle /\ deaths' = deaths + 1
  /\ UNCHANGED <<row, call, today, history>>

-----------------------------------------------------------------------------
(* Which tariff a unit has *)

\* The versions of S with this applicability that cover the unit.
Covering(u, S, app) ==
  {v \in S : /\ row[v].app = app /\ row[v].type = TypeOf[PropertyOf[u]]
             /\ CASE app = "UNIT" -> u \in row[v].on
                  [] app = "PROPERTY" -> PropertyOf[u] \in row[v].on
                  [] OTHER -> TRUE}

\* The versions of S at the narrowest scope that has one for the unit.
Narrowest(u, S) ==
  IF Covering(u, S, "UNIT") # {} THEN Covering(u, S, "UNIT")
  ELSE IF Covering(u, S, "PROPERTY") # {} THEN Covering(u, S, "PROPERTY")
  ELSE Covering(u, S, "GLOBAL")

\* resolveForUnit, resolveForUnits: the database picks one of these.
ResolveForUnit(u) == Narrowest(u, {v \in Versions : Active(v)})

HISTORICAL_MATCH_STATUSES == {"ACTIVE", "DEPRECATED", "EXPIRED"}
\* resolveForUnitsAsOf: "ambiguous" when there are several.
ResolveForUnitAsOf(u, day) ==
  Narrowest(u, {v \in Versions : /\ row[v] # None /\ row[v].status \in HISTORICAL_MATCH_STATUSES
                                 /\ row[v].from <= day /\ row[v].to >= day})

-----------------------------------------------------------------------------
Asks(q) ==
  \/ \E f \in Forms : f.app # None /\ f.type # None /\ Ask(q, "create", None, f)
  \/ \E v \in Versions, f \in Forms : Ask(q, "update", v, f)
  \/ \E v \in Versions, op \in Ops \ {"create", "update"} : Ask(q, op, v, None)

Office(q) ==
  \/ Asks(q) \/ Refused(q) \/ Creates(q) \/ Loads(q) \/ ChecksConflict(q)
  \/ Begins(q) \/ Commits(q) \/ Clones(q)

JobStep == JobReads \/ JobSaves \/ JobTurns \/ JobEnds

Next ==
  \/ \E q \in Requests : Office(q)
  \/ \E v \in Versions : Approve(v) \/ Reject(v)
  \/ Midnight \/ JobStep \/ JobDies

Spec == Init /\ [][Next]_vars
\* The job is started every night, and its steps end.
FairSpec == Spec /\ WF_vars(Midnight) /\ WF_vars(JobStep)

-----------------------------------------------------------------------------
(* Properties *)

\* What a call has read: a version that is there, in a status it accepted.
CallConsistent(q) ==
  LET c == call[q]
  IN /\ c.op = "create" => c.at = "load" /\ c.form # None /\ c.form.app # None /\ c.form.type # None
     /\ c.op # "create" => c.v # None
     /\ c.op = "update" => c.form # None
     /\ c.at # "load" => c.read # None /\ Accepts(c.op, c.read) /\ row[c.v] # None
     /\ c.at = "check" => c.op \in Checking
     /\ c.at = "commit" => c.snap # None /\ ~ Inserting(q)

JobConsistent ==
  /\ job.at = "idle" => job.todo = {} /\ job.now = None
  /\ \A e \in job.todo : row[e.v] # None
  /\ job.now # None => job.snap # None /\ row[job.now.v] # None

\* No operation assigns it.
NoCorrection ==
  /\ \A v \in Versions : row[v] # None => row[v].status # "REQUEST_FOR_CORRECTION"
  /\ \A q \in Requests : InFlight(q) /\ call[q].read # None =>
       call[q].read.status # "REQUEST_FOR_CORRECTION"

SameTerms(r, s) ==
  r.type = s.type /\ r.app = s.app /\ r.from = s.from /\ r.to = s.to /\ r.on = s.on

Checked(q) == Checks(q) /\ call[q].at \in {"begin", "commit"}

\* What still holds, when a call or the job saves, of the row it read.
ReadsHold ==
  /\ \A q \in Requests, v \in Versions : Has(q, v) =>
       /\ Checks(q) => row[v] = call[q].read /\ (call[q].at = "commit" => call[q].snap = row[v])
       /\ call[q].op = "update" => ~ IsLive(row[v])
       /\ call[q].op \in {"deactivate", "deprecate"} /\ IsLive(row[v]) =>
            SameTerms(row[v], call[q].read)
  /\ \A e \in job.todo : IsLive(row[e.v]) => SameTerms(row[e.v], e.read)
  /\ job.now # None /\ IsLive(row[job.now.v]) => SameTerms(row[job.now.v], job.now.read)

\* One check at a time, and what it found still holds.
ChecksHold ==
  \A q \in Requests : Checked(q) =>
    /\ \A p \in Requests \ {q} : ~ Checked(p)
    /\ NoExactConflict(call[q].read, call[q].v)

\* Two versions that are live have the same scope and overlapping dates only if a
\* check overlapped another check, or a save of the version that was checked.
Exclusive == ~ raced => NoClash(row)

\* With that exception, an active version has the terms that were approved, unless
\* it was deactivated, edited and reactivated.
TermsReviewed ==
  ~ raced => \A v \in drifted : Active(v) => v \in revived

IInv ==
  /\ TypeOK /\ NoCorrection /\ JobConsistent
  /\ \A q \in Requests : InFlight(q) => CallConsistent(q)
  /\ Exclusive /\ TermsReviewed
  /\ ~ raced => ReadsHold /\ ChecksHold

\* Past its end, or with an active successor that has begun.
Overdue(v) ==
  /\ Active(v)
  /\ \/ row[v].to <= today
     \/ \E c \in Versions : Active(c) /\ row[c].parent = v /\ row[c].from \in 1..today

\* The job catches up with what is due, over nights it dies in, lists that are stale
\* when it comes to them, and reactivations of what it has ended.
NightlyCatchesUp == \A v \in Versions : []<>~ Overdue(v)

\* "whichever TariffVersion's effective window actually covered" the date: while a
\* successor is the only active version of a unit, and in effect, it rules that day.
SuccessorRules ==
  \A u \in Units, v \in Versions :
    /\ ~ raced /\ ResolveForUnit(u) = {v} /\ row[v].parent # None
    /\ today \in row[v].from..row[v].to
    => ResolveForUnitAsOf(u, today) = {v}
=============================================================================
