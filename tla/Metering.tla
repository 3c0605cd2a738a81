------------------------------- MODULE Metering -------------------------------
(***************************************************************************)
(* From the meter to the bill, in one property: daily readings come in,    *)
(* are reviewed, pass the readiness checks of a bill run and become a      *)
(* consumption and an amount.  IngestionService and                        *)
(* MeterHierarchyResolverService, MeterService (updateSubMeter,            *)
(* setReadingApproval, the daily readings), BillingReadinessService        *)
(* (evaluateProperty, evaluateHistoricalCycle), BillingManagementService   *)
(* (generateOneBill, calculateConsumption).                                *)
(*                                                                         *)
(* A reading is stored with the unit its meter is mapped to on arrival,    *)
(* however late, and keeps it.  A run stands for one that is approved; how *)
(* it is reviewed, and how two submissions exclude each other, is the      *)
(* subject of BillRuns.  Every unit is active and has a current customer.  *)
(***************************************************************************)
EXTENDS ReadingPeriods, Charges, FiniteSetsExt

CONSTANTS
  Meters, Units,
  NoUnit,        \* the null unit of a sub-meter
  Installed,     \* Installed[m]: the unit a meter starts with
  Files,         \* bound: the <<meter, day>> pairs a reading may come for
  Spoilt,        \* those whose value may be missing
  Dial,          \* Dial[f]: what the meter's counter shows on that day
  RuleOf,        \* RuleOf[v]: the reading rule of billing-cycle version v
  TariffOf,      \* TariffOf[u]: the tariff that resolves for unit u
  Editors,       \* bound: edits of sub-meters, one each
  Reviewers,     \* bound: reviews of a reading, one each
  System, Nobody \* the other values of approvedBy

Days     == FirstDay[1]..(FirstDay[Months + 1] - 1)
Versions == DOMAIN RuleOf

ASSUME MeteringAssumption ==
  /\ NoUnit \notin Units /\ Installed \in [Meters -> Units \cup {NoUnit}]
  /\ Files \subseteq Meters \X Days /\ Spoilt \subseteq Files
  /\ Dial \in [Files -> Nat]
  /\ \A f, g \in Files : f[1] = g[1] /\ f[2] < g[2] => Dial[f] <= Dial[g]
  /\ RuleOf \in Seq(ReadingRule) /\ RuleOf # << >>
  /\ \A v \in Versions, m \in 1..Months : PeriodStart(RuleOf[v], m) \in Days
  /\ TariffOf \in [Units -> Tariff]
  /\ \A u \in Units : TiersValid(TariffOf[u].tiers)
  /\ System \notin Reviewers /\ Nobody \notin Reviewers \cup {System}

VARIABLES
  today,
  current,   \* the version in force
  from,      \* from[v]: its effectiveFrom, once it has come into force
  unitOf,    \* unitOf[m]: sub_meters.unit_id
  reading,   \* reading[f]: the meter_readings row
  edit,      \* edit[c]: an update of a sub-meter, between its read and its save
  review,    \* review[c]: an approval or revocation, likewise
  run,       \* run[v]: the bill run of a version
  bill,      \* bill[u][v]: the bill of a unit, or why it has none
  waived     \* history: the readings a reviewer has approved

vars == <<today, current, from, unitOf, reading, edit, review, run, bill, waived>>

NoReading == [stored |-> FALSE]
Idle      == [phase |-> "idle"]
Done      == [phase |-> "done"]
NoRun     == [submitted |-> FALSE]
NoBill    == [outcome |-> "none"]
Unread    == [outcome |-> "unread"]

Period  == [start: Int, end: Int]
Stored  == [stored: {TRUE}, blank: BOOLEAN, unit: Units \cup {NoUnit},
            status: {"PENDING", "APPROVED"},
            by: Reviewers \cup {System, Nobody}]
Edit    == [phase: {"read"}, meter: Meters, unit: Units \cup {NoUnit}]
Review  == [phase: {"read"}, file: Files, approve: BOOLEAN, seen: Stored]
BillRun == [submitted: {TRUE}, recovered: BOOLEAN, period: Period,
            judged: SUBSET Files]
IsBill(b) == /\ b.outcome \in {"billed", "negative", "unreconciled"}
             /\ b.opening \in Files /\ b.closing \in Files /\ b.kwh \in Int

TypeOK ==
  /\ today \in Days /\ current \in Versions /\ from \in [Versions -> Days]
  /\ unitOf \in [Meters -> Units \cup {NoUnit}]
  /\ reading \in [Files -> {NoReading} \cup Stored]
  /\ edit \in [Editors -> {Idle, Done} \cup Edit]
  /\ review \in [Reviewers -> {Idle, Done} \cup Review]
  /\ run \in [Versions -> {NoRun} \cup BillRun]
  /\ DOMAIN bill = Units /\ \A u \in Units : DOMAIN bill[u] = Versions
  /\ \A u \in Units, v \in Versions :
       bill[u][v] \in {NoBill, Unread} \/ IsBill(bill[u][v])
  /\ waived \subseteq Files

Init ==
  /\ today = FirstDay[1] /\ current = 1
  /\ from = [v \in Versions |-> FirstDay[1]]
  /\ unitOf = Installed
  /\ reading = [f \in Files |-> NoReading]
  /\ edit = [c \in Editors |-> Idle] /\ review = [c \in Reviewers |-> Idle]
  /\ run = [v \in Versions |-> NoRun]
  /\ bill = [u \in Units |-> [v \in Versions |-> NoBill]]
  /\ waived = {}

-----------------------------------------------------------------------------
(* The calendar.                                                           *)

NextDay ==
  /\ today + 1 \in Days /\ today' = today + 1
  /\ UNCHANGED <<current, from, unitOf, reading, edit, review, run, bill, waived>>

\* A new version takes over on the day it asked for, a later one than that on
\* which it was made (newVersion; the rest is the subject of BillingCycles).
TakesOver ==
  /\ current + 1 \in Versions /\ today > from[current]
  /\ current' = current + 1 /\ from' = [from EXCEPT ![current + 1] = today]
  /\ UNCHANGED <<today, unitOf, reading, edit, review, run, bill, waived>>

-----------------------------------------------------------------------------
(* Readings.                                                               *)

\* Mutant: only a critical anomaly waits for a review.
ArrivedApproved(f, blank) ==
  [stored |-> TRUE, blank |-> blank, unit |-> unitOf[f[1]],
   status |-> "APPROVED", by |-> System]

\* A missing value is an anomaly and waits for a review; other rows are approved
\* at once.
Arrived(f, blank) ==
  [stored |-> TRUE, blank |-> blank, unit |-> unitOf[f[1]],
   status |-> IF blank THEN "PENDING" ELSE "APPROVED",
   by |-> IF blank THEN Nobody ELSE System]

Ingest(f, blank) ==
  /\ f[2] <= today /\ ~reading[f].stored
  /\ blank => f \in Spoilt
  /\ reading' = [reading EXCEPT ![f] = Arrived(f, blank)]
  /\ UNCHANGED <<today, current, from, unitOf, edit, review, run, bill, waived>>

\* updateSubMeter: the entity read carries the unit of that moment, and the save
\* writes back whatever differs from the row by then.
EditReads(c, m, remaps, u) ==
  /\ edit[c] = Idle
  /\ edit' = [edit EXCEPT ![c] = [phase |-> "read", meter |-> m,
                unit |-> IF remaps THEN u ELSE unitOf[m]]]
  /\ UNCHANGED <<today, current, from, unitOf, reading, review, run, bill, waived>>

\* The unique index on unit_id refuses a unit another meter has.
Taken(m, u) == u # NoUnit /\ \E n \in Meters \ {m} : unitOf[n] = u

EditSaves(c) ==
  LET x == edit[c] IN
  /\ x.phase = "read"
  /\ unitOf' = IF Taken(x.meter, x.unit) THEN unitOf
               ELSE [unitOf EXCEPT ![x.meter] = x.unit]
  /\ edit' = [edit EXCEPT ![c] = Done]
  /\ UNCHANGED <<today, current, from, reading, review, run, bill, waived>>

\* setReadingApproval: the rows are found, without a lock, and saved in one
\* transaction; the save compares with that snapshot and writes what differs.
ReviewReads(c, f, approve) ==
  /\ review[c] = Idle /\ reading[f].stored
  /\ review' = [review EXCEPT ![c] = [phase |-> "read", file |-> f,
                  approve |-> approve, seen |-> reading[f]]]
  /\ UNCHANGED <<today, current, from, unitOf, reading, edit, run, bill, waived>>

ReviewSaves(c) ==
  LET x      == review[c]
      status == IF x.approve THEN "APPROVED" ELSE "PENDING"
      by     == IF x.approve THEN c ELSE Nobody
  IN
  /\ x.phase = "read"
  /\ reading' = [reading EXCEPT
       ![x.file].status = IF status = x.seen.status THEN @ ELSE status,
       ![x.file].by     = IF by = x.seen.by THEN @ ELSE by]
  /\ review' = [review EXCEPT ![c] = Done]
  /\ waived' = IF x.approve THEN waived \cup {x.file} ELSE waived
  /\ UNCHANGED <<today, current, from, unitOf, edit, run, bill>>

-----------------------------------------------------------------------------
(* Readiness and submission.                                               *)

\* Mutant: whatever was read up to the end of the period.
ReadUpTo(p) == {f \in Files : reading[f].stored /\ f[2] <= p.end}

InPeriod(p)  == {f \in Files : reading[f].stored /\ f[2] \in p.start..p.end}
Used(u, p)   == {f \in InPeriod(p) : reading[f].unit = u}
Mapped(u)    == \E m \in Meters : unitOf[m] = u

\* getUnresolvedAnomalyCounts: an anomaly counts until its reading is approved.
Anomalous(p) ==
  \E f \in InPeriod(p) : reading[f].blank /\ reading[f].status = "PENDING"

Submitted(p, recovered) ==
  [submitted |-> TRUE, recovered |-> recovered, period |-> p,
   judged |-> InPeriod(p)]

\* The routine path: the period of today's month under the current version.  One
\* reading per unit is enough.
Submit ==
  LET rule == RuleOf[current]
      p    == CurrentPeriod(rule, today)
  IN
  /\ Closed(rule, today) /\ ~run[current].submitted
  /\ \A u \in Units : Mapped(u) /\ Used(u, p) # {}
  /\ ~Anomalous(p)
  /\ run' = [run EXCEPT ![current] = Submitted(p, FALSE)]
  /\ UNCHANGED <<today, current, from, unitOf, reading, edit, review, bill, waived>>

\* resolveVersionForReadingDate: the periods that begin while v is in force.
Handover(v) == IF v < current THEN from[v + 1] ELSE today

LivePeriods(v) ==
  {[start |-> PeriodStart(RuleOf[v], m), end |-> PeriodEnd(RuleOf[v], m)] :
     m \in {n \in 1..Months :
              PeriodStart(RuleOf[v], n) \in from[v]..(Handover(v) - 1)}}

\* Mutant: MIN_QUALIFYING_READINGS_PER_UNIT is 1.
AnyReading(u, p) == Used(u, p) # {}

\* MIN_QUALIFYING_READINGS_PER_UNIT is 2.
Qualifies(u, p) == \E f, g \in Used(u, p) : f # g

\* Missed reading recovery: no look at anomalies, and none at the period's end.
Recover(v, p) ==
  /\ v <= current /\ p \in LivePeriods(v) /\ ~run[v].submitted
  /\ \A u \in Units : Mapped(u) /\ Qualifies(u, p)
  /\ run' = [run EXCEPT ![v] = Submitted(p, TRUE)]
  /\ UNCHANGED <<today, current, from, unitOf, reading, edit, review, bill, waived>>

-----------------------------------------------------------------------------
(* Bills.                                                                  *)

\* Number(null) is 0.
Value(f) == IF reading[f].blank THEN 0 ELSE Dial[f]

\* calculateConsumption orders the readings by day; those of one day come in any
\* order.  It looks neither at the approval nor at the validity of a reading.
FirstAndLast(F) ==
  {x \in F \X F : /\ x[1] # x[2]
                  /\ \A f \in F : x[1][2] <= f[2] /\ f[2] <= x[2][2]}

Charged(u, opening, closing) ==
  LET kwh  == Value(closing) - Value(opening)
      calc == calculateCharges(TariffOf[u], kwh)
  IN  [outcome |-> IF kwh < 0 THEN "negative"
                   ELSE IF Reconciles(calc) THEN "billed" ELSE "unreconciled",
       opening |-> opening, closing |-> closing,
       kwh |-> kwh, subtotal |-> calc.subtotal, due |-> calc.due]

\* generateOneBill: the units of a run are billed one transaction at a time.
BillUnit(u, v) ==
  LET F == Used(u, run[v].period) IN
  /\ run[v].submitted /\ bill[u][v] = NoBill
  /\ \E b \in {Charged(u, x[1], x[2]) : x \in FirstAndLast(F)}
              \cup (IF FirstAndLast(F) = {} THEN {Unread} ELSE {}) :
       bill' = [bill EXCEPT ![u][v] = b]
  /\ UNCHANGED <<today, current, from, unitOf, reading, edit, review, run, waived>>

Next ==
  \/ NextDay
  \/ TakesOver
  \/ \E f \in Files, blank \in BOOLEAN : Ingest(f, blank)
  \/ \E c \in Editors, m \in Meters, remaps \in BOOLEAN,
       u \in Units \cup {NoUnit} : EditReads(c, m, remaps, u)
  \/ \E c \in Editors : EditSaves(c)
  \/ \E c \in Reviewers, f \in Files, approve \in BOOLEAN :
       ReviewReads(c, f, approve)
  \/ \E c \in Reviewers : ReviewSaves(c)
  \/ Submit
  \/ \E v \in Versions : \E p \in LivePeriods(v) : Recover(v, p)
  \/ \E u \in Units, v \in Versions : BillUnit(u, v)

Spec == Init /\ [][Next]_vars

-----------------------------------------------------------------------------
(* Properties.                                                             *)

Billed(u, v) == bill[u][v].outcome = "billed"

\* A bill on tiers without gaps costs what its kWh cost one by one, each at the
\* rate of its own tier, plus the fee: the loop of calculateCharges forgets the
\* position of a tier and still finds the price.
ChargedByBand ==
  \A u \in Units, v \in Versions :
    LET t == TariffOf[u] b == bill[u][v] IN
    Billed(u, v) /\ t.rateType = "TIERED" /\ Whole(t.tiers) =>
      b.subtotal = Round(PriceByKwh(t.tiers, b.kwh), 100) + t.fee

\* A missing value is read as 0 by calculateConsumption, which looks at no
\* approval.  It enters the bill of a routine run only if a reviewer has approved
\* the reading at some time, or if it arrived after readiness was evaluated.
BlankPassedGate ==
  \A u \in Units, v \in Versions :
    Billed(u, v) /\ ~run[v].recovered =>
      \A f \in {bill[u][v].opening, bill[u][v].closing} :
        reading[f].blank => f \in waived \/ f \notin run[v].judged

\* The period of a run lies within the time its version is in force.
Contained(v) ==
  /\ run[v].period.start >= from[v]
  /\ v < current => run[v].period.end <= from[v + 1]

\* Two bills of a unit never charge the same days, as long as the periods of
\* their runs lie within the time of their versions.  The duplicate check is by
\* version, and no other code compares the periods of two runs.
ChargedOnce ==
  \A u \in Units, v, w \in Versions :
    /\ v < w /\ Billed(u, v) /\ Billed(u, w)
    /\ Contained(v) /\ Contained(w)
    => bill[u][v].closing[2] <= bill[u][w].opening[2]

\* What the recovery check finds eligible can be billed: no unit of a recovered
\* run is left without a bill for want of readings, whatever happens to meters
\* and readings between the check and the generation.
EligibleIsBillable ==
  \A u \in Units, v \in Versions :
    run[v].submitted /\ run[v].recovered => bill[u][v] # Unread

\* A consumption comes out negative, and leaves the unit without a bill, only if
\* two meters or a missing value are mixed in it.
NegativeMeansMixed ==
  \A u \in Units, v \in Versions :
    LET b == bill[u][v] IN
    b.outcome = "negative" =>
      \/ b.opening[1] # b.closing[1]
      \/ reading[b.opening].blank \/ reading[b.closing].blank

-----------------------------------------------------------------------------
(* Not true of the code, and refuted by TLC: see the README.               *)

\* No two bills of a unit charge the same days.
NeverTwice ==
  \A u \in Units, v, w \in Versions :
    v < w /\ Billed(u, v) /\ Billed(u, w)
      => \/ bill[u][v].closing[2] <= bill[u][w].opening[2]
         \/ bill[u][w].closing[2] <= bill[u][v].opening[2]

\* getMeterReadingHistory: a day's consumption counts from the meter's reading
\* before it, whatever period that one lies in.
Before(f) == {g \in Files : reading[g].stored /\ g[1] = f[1] /\ g[2] < f[2]}

DayConsumption(f) ==
  IF Before(f) = {} THEN 0
  ELSE Value(f) - Value(CHOOSE g \in Before(f) : \A h \in Before(f) : h[2] <= g[2])

\* A bill charges what the screen of the daily readings shows for its period.
SameRule ==
  [][\A u \in Units, v \in Versions :
       ~Billed(u, v) /\ Billed(u, v)' =>
         bill'[u][v].kwh =
           MapThenSumSet(DayConsumption, Used(u, run[v].period))]_vars

\* A revoked reading carries no approval.
RevokedIsClean ==
  \A f \in Files :
    reading[f].stored /\ reading[f].status = "PENDING" => reading[f].by = Nobody

\* getDailyMeterReadings, over a range: the opening of every row of a meter is
\* the reading next to last by the end of the range.
OpeningShown(f, end) ==
  LET H == {g \in Files : reading[g].stored /\ g[1] = f[1] /\ g[2] <= end}
  IN  {g \in H : Cardinality({h \in H : h[2] > g[2]}) = 1}

\* The opening shown with a reading is an earlier one.
OpensEarlier ==
  \A f \in Files, end \in Days :
    reading[f].stored /\ f[2] <= end =>
      \A g \in OpeningShown(f, end) : g[2] < f[2]
===============================================================================
