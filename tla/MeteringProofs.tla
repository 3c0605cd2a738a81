---------------------------- MODULE MeteringProofs ----------------------------
(***************************************************************************)
(* Proofs about Metering, for every calendar, set of meters, units and     *)
(* readings, tariff and number of edits and reviews.  The invariant says   *)
(* that a missing value is approved by reviewers only, that what the gate  *)
(* judged stays stored, and that a bill keeps to the readings and the      *)
(* period of its run.  That the loop over the tiers finds the price of the *)
(* consumption is proved of its recursions, before the theorems.           *)
(***************************************************************************)
EXTENDS Metering, WellFoundedInduction, TLAPS

\* The versions that have come into force did so one after the other.
VersionsInOrder ==
  /\ \A v, w \in 1..current : v < w => from[v] <= from[w]
  /\ \A v \in Versions : run[v].submitted => v <= current

\* A missing value has the approval of a reviewer or none.
Approved(f) == reading[f].stored /\ reading[f].blank /\ reading[f].status = "APPROVED"
BlankApproval == \A f \in Files : Approved(f) => f \in waived

\* Reviews are of readings that are there.
ReviewsFound ==
  \A c \in Reviewers :
    review[c].phase = "read" => reading[review[c].file].stored

BlanksWait == BlankApproval /\ ReviewsFound

\* The gate of a routine run lets no missing value pass without approval.
GateHeld ==
  \A v \in Versions :
    run[v].submitted =>
      \A f \in run[v].judged :
        reading[f].stored /\ (reading[f].blank /\ ~run[v].recovered => f \in waived)

\* What a bill was computed from.
Keeps(u, v) ==
  LET b == bill[u][v] p == run[v].period IN
  /\ reading[b.opening].stored /\ reading[b.closing].stored
  /\ b.opening[2] \in p.start..p.end /\ b.closing[2] \in p.start..p.end
  /\ b.opening[2] <= b.closing[2]
  /\ b.kwh = Value(b.closing) - Value(b.opening)
  /\ b.outcome = "negative" => b.kwh < 0

BillsKeep ==
  \A u \in Units, v \in Versions :
    /\ bill[u][v] # NoBill => run[v].submitted
    /\ bill[u][v] \notin {NoBill, Unread} => Keeps(u, v)

\* A recovered run has the readings it needs, and keeps them.
RecoveryQualifies ==
  \A v \in Versions :
    run[v].submitted /\ run[v].recovered =>
      \A u \in Units : Qualifies(u, run[v].period)

IInv ==
  /\ TypeOK /\ VersionsInOrder /\ BlanksWait /\ GateHeld /\ BillsKeep
  /\ RecoveryQualifies /\ EligibleIsBillable

\* A bill has the amount its consumption cost when it was made, and is for no
\* negative one.
AmountsKeep ==
  \A u \in Units, v \in Versions :
    Billed(u, v) =>
      /\ bill[u][v].kwh \in Nat
      /\ bill[u][v].subtotal =
           ConsumptionCharge(TariffOf[u], bill[u][v].kwh) + TariffOf[u].fee

-----------------------------------------------------------------------------
(* The calendar.                                                           *)

\* A set of natural numbers that is not empty has a least element.
LEMMA LeastNumber ==
  ASSUME NEW T \in SUBSET Nat, T # {}
  PROVE  \E x \in T : \A y \in T : x <= y
<1>1. PICK R : R = OpToRel(<, Nat) OBVIOUS
<1>2. IsWellFoundedOn(R, Nat) BY <1>1, NatLessThanWellFounded
<1>3. PICK x \in T : \A y \in T : ~(<<y, x>> \in R) BY <1>2, WFMin
<1>4. \A y \in T : ~(y < x) BY <1>1, <1>3 DEF OpToRel
<1> QED BY <1>4

\* Every day of the calendar lies in a month.
LEMMA MonthExists ==
  ASSUME NEW d \in Days
  PROVE  MonthOf(d) \in 1..Months
<1> USE CalendarAssumption
<1> DEFINE T == {m \in 1..(Months + 1) : d < FirstDay[m]}
<1>1. T \in SUBSET Nat /\ Months + 1 \in T BY DEF Days
<1>2. PICK m \in T : \A n \in T : m <= n BY <1>1, LeastNumber
<1>3. m # 1 BY DEF Days
<1>4. m - 1 \in 1..Months /\ m - 1 \notin T BY <1>2, <1>3
<1>5. FirstDay[m - 1] <= d /\ d < FirstDay[(m - 1) + 1] BY <1>4, <1>2 DEF Days
<1> QED BY <1>4, <1>5 DEF MonthOf

LEMMA VersionsAreFirst ==
  /\ Versions \in SUBSET Nat
  /\ \A v \in Versions : 1..v \in SUBSET Versions
<1>1. PICK n \in Nat : Versions = 1..n
  <2>1. Len(RuleOf) \in Nat /\ DOMAIN RuleOf = 1..Len(RuleOf)
    BY MeteringAssumption
  <2> QED BY <2>1 DEF Versions
<1> QED BY <1>1

LEMMA RuleIsNumbers ==
  ASSUME NEW rule \in ReadingRule
  PROVE  rule[1] \in Int /\ rule[2] \in Int
BY DEF ReadingRule

\* The bounds of a period are numbers.
LEMMA PeriodIsNumbers ==
  ASSUME NEW v \in Versions, NEW m \in 1..Months
  PROVE  PeriodStart(RuleOf[v], m) \in Int /\ PeriodEnd(RuleOf[v], m) \in Int
<1>1. RuleOf[v] \in ReadingRule BY MeteringAssumption DEF Versions
<1>2. PICK rule \in ReadingRule : rule = RuleOf[v] BY <1>1
<1>3. PICK s : s = PeriodStart(rule, m) OBVIOUS
<1>4. s \in Days BY <1>2, <1>3, MeteringAssumption
<1>5. PICK n \in 1..Months : n = MonthOf(s) BY <1>4, MonthExists
<1>6. FirstDay[n] \in Int /\ FirstDay[n + 1] \in Int /\ s \in Int
  BY <1>4, CalendarAssumption DEF Days
<1>7. EndMonthOffset(rule) \in {0, 1} BY DEF EndMonthOffset
<1>8. FirstDay[n + EndMonthOffset(rule)] \in Int
  BY <1>6, <1>7, CalendarAssumption
<1>9. PeriodEnd(rule, m) = FirstDay[n + EndMonthOffset(rule)] + rule[2] - 1
  BY <1>3, <1>5 DEF PeriodEnd, DayOf
<1> QED BY <1>2, <1>3, <1>6, <1>8, <1>9, RuleIsNumbers

LEMMA CurrentPeriodTyped ==
  ASSUME NEW v \in Versions, NEW d \in Days
  PROVE  CurrentPeriod(RuleOf[v], d) \in Period
BY MonthExists, PeriodIsNumbers DEF CurrentPeriod, Period

LEMMA LivePeriodsTyped ==
  ASSUME NEW v \in Versions, NEW p \in LivePeriods(v)
  PROVE  p \in Period
BY PeriodIsNumbers DEF LivePeriods, Period

-----------------------------------------------------------------------------
(* Readings.                                                               *)

\* Readings that stay stored with their unit stay in the periods they are in.
LEMMA QualifiesStable ==
  ASSUME NEW u \in Units, NEW p,
         \A f \in Files : reading[f].stored =>
           reading'[f].stored /\ reading'[f].unit = reading[f].unit,
         Qualifies(u, p)
  PROVE  Qualifies(u, p)'
BY DEF Qualifies, Used, InPeriod

\* Two readings are enough for a first and a last one.
LEMMA FirstAndLastExist ==
  ASSUME NEW F \in SUBSET Files, NEW g \in F, NEW h \in F, g # h
  PROVE  FirstAndLast(F) # {}
<1>0. PICK last : last = FirstDay[Months + 1] OBVIOUS
<1>1. last \in Nat /\ \A f \in Files : f[2] \in Nat /\ f[2] < last
  BY <1>0, CalendarAssumption, MeteringAssumption DEF Days
<1> DEFINE Early == {f[2] : f \in F}
           Late  == {last - f[2] : f \in F}
<1>2. Early \in SUBSET Nat /\ Early # {} /\ Late \in SUBSET Nat /\ Late # {}
  BY <1>1
<1>3. PICK d \in Early : \A y \in Early : d <= y BY <1>2, LeastNumber
<1>4. PICK o \in F : d = o[2] BY <1>3
<1>5. \A f \in F : o[2] <= f[2] BY <1>3, <1>4
<1>6. PICK e \in Late : \A y \in Late : e <= y BY <1>2, LeastNumber
<1>7. PICK c \in F : e = last - c[2] BY <1>6
<1>8. \A f \in F : f[2] <= c[2]
  <2> TAKE f \in F
  <2>1. last - c[2] <= last - f[2] BY <1>6, <1>7
  <2> QED BY <2>1, <1>1
<1>9. CASE o # c
  <2>1. <<o, c>> \in FirstAndLast(F) BY <1>5, <1>8, <1>9 DEF FirstAndLast
  <2> QED BY <2>1
<1>10. CASE o = c
  <2>1. \A f \in F : f[2] = o[2] BY <1>5, <1>8, <1>10, <1>1
  <2>2. <<g, h>> \in FirstAndLast(F) BY <2>1, <1>1 DEF FirstAndLast
  <2> QED BY <2>2
<1> QED BY <1>9, <1>10

-----------------------------------------------------------------------------
(* What the steps leave alone.                                             *)

\* No reading loses what a bill or a check has seen of it.
ReadingsStay ==
  \A f \in Files :
    reading[f].stored => /\ reading'[f].stored
                         /\ reading'[f].unit = reading[f].unit
                         /\ reading'[f].blank = reading[f].blank

\* No run that was submitted changes.
RunsStay ==
  \A v \in Versions : run[v].submitted => run'[v] = run[v]

LEMMA BillsStable ==
  ASSUME IInv, ReadingsStay, RunsStay, UNCHANGED bill
  PROVE  BillsKeep'
<1> SUFFICES ASSUME NEW u \in Units, NEW v \in Versions
             PROVE  /\ bill'[u][v] # NoBill => run'[v].submitted
                    /\ bill'[u][v] \notin {NoBill, Unread} => Keeps(u, v)'
  BY DEF BillsKeep
<1>1. bill'[u][v] = bill[u][v] OBVIOUS
<1>2. bill[u][v] # NoBill => run[v].submitted /\ run'[v] = run[v]
  BY DEF IInv, BillsKeep, RunsStay
<1>3. ASSUME bill[u][v] \notin {NoBill, Unread} PROVE Keeps(u, v)'
  <2>1. Keeps(u, v) /\ IsBill(bill[u][v]) BY <1>3 DEF IInv, BillsKeep, TypeOK
  <2>2. run'[v] = run[v] BY <1>2, <1>3
  <2>3. PICK b : b = bill[u][v] OBVIOUS
  <2>4. b.opening \in Files /\ b.closing \in Files BY <2>1, <2>3 DEF IsBill
  <2>5. \A f \in {b.opening, b.closing} :
          reading[f].stored => reading'[f].stored /\ Value(f)' = Value(f)
    BY <2>4 DEF ReadingsStay, Value
  <2> QED BY <2>1, <2>2, <2>3, <2>5, <1>1 DEF Keeps
<1> QED BY <1>1, <1>2, <1>3

LEMMA GateStable ==
  ASSUME IInv, ReadingsStay, waived \subseteq waived', NEW v \in Versions,
         run[v].submitted, run'[v] = run[v], NEW f \in run[v].judged
  PROVE  reading'[f].stored
         /\ (reading'[f].blank /\ ~run'[v].recovered => f \in waived')
<1>1. run[v] \in BillRun BY DEF IInv, TypeOK, NoRun
<1>2. f \in Files BY <1>1 DEF BillRun
<1> QED BY <1>2 DEF IInv, GateHeld, ReadingsStay

LEMMA RecoveryStable ==
  ASSUME IInv, ReadingsStay, NEW v \in Versions, run[v].submitted,
         run[v].recovered, run'[v] = run[v], NEW u \in Units
  PROVE  Qualifies(u, run[v].period)'
<1>1. Qualifies(u, run[v].period) BY DEF IInv, RecoveryQualifies
<1>2. PICK p : p = run[v].period OBVIOUS
<1>3. Qualifies(u, p)' BY <1>1, <1>2, QualifiesStable DEF ReadingsStay
<1> QED BY <1>2, <1>3

\* A step that submits and bills nothing.
LEMMA RunsKept ==
  ASSUME IInv, ReadingsStay, waived \subseteq waived', UNCHANGED <<run, bill>>
  PROVE  GateHeld' /\ BillsKeep' /\ RecoveryQualifies' /\ EligibleIsBillable'
<1>1. RunsStay BY DEF RunsStay
<1>2. GateHeld' BY GateStable DEF GateHeld
<1>3. BillsKeep' BY <1>1, BillsStable
<1>4. RecoveryQualifies' BY RecoveryStable DEF RecoveryQualifies
<1>5. EligibleIsBillable' BY DEF IInv, EligibleIsBillable
<1> QED BY <1>2, <1>3, <1>4, <1>5

-----------------------------------------------------------------------------
(* The steps.                                                              *)

LEMMA RunTyped ==
  ASSUME TypeOK, NEW v \in Versions, run[v].submitted
  PROVE  run[v] \in BillRun /\ run[v].period \in Period
<1>1. run[v] \in {NoRun} \cup BillRun BY DEF TypeOK
<1>2. ~NoRun.submitted BY DEF NoRun
<1>3. run[v] \in BillRun BY <1>1, <1>2
<1> QED BY <1>3 DEF BillRun

LEMMA InitHolds ==
  ASSUME Init
  PROVE  IInv
<1> USE CalendarAssumption, MeteringAssumption
<1>1. FirstDay[1] \in Days /\ FirstDay[1] \in Nat
  BY DEF Days
<1>2. 1 \in Versions /\ Versions \in SUBSET Nat BY DEF Versions
<1>3. TypeOK BY <1>1, <1>2 DEF Init, TypeOK
<1>4. VersionsInOrder BY <1>1, <1>2 DEF Init, VersionsInOrder, NoRun
<1>5. BlanksWait
  <2>1. \A f \in Files : ~reading[f].stored BY DEF Init, NoReading
  <2>2. BlankApproval BY <2>1 DEF BlankApproval, Approved
  <2>3. \A c \in Reviewers : review[c].phase # "read" BY DEF Init, Idle
  <2>4. ReviewsFound BY <2>3 DEF ReviewsFound
  <2> QED BY <2>2, <2>4 DEF BlanksWait
<1>6. GateHeld /\ RecoveryQualifies /\ EligibleIsBillable
  BY DEF Init, GateHeld, RecoveryQualifies, EligibleIsBillable, NoRun
<1>7. BillsKeep BY DEF Init, BillsKeep
<1> QED BY <1>3, <1>4, <1>5, <1>6, <1>7 DEF IInv

LEMMA NextDayKeeps ==
  ASSUME IInv, NextDay
  PROVE  IInv'
<1>1. ReadingsStay /\ UNCHANGED <<run, bill, waived>> BY DEF NextDay, ReadingsStay
<1>2. TypeOK' BY DEF IInv, TypeOK, NextDay
<1>3. VersionsInOrder' /\ BlanksWait'
  BY DEF IInv, VersionsInOrder, BlanksWait, BlankApproval, Approved,
         ReviewsFound, NextDay
<1> QED BY <1>1, <1>2, <1>3, RunsKept DEF IInv

LEMMA TakesOverKeeps ==
  ASSUME IInv, TakesOver
  PROVE  IInv'
<1>1. ReadingsStay /\ UNCHANGED <<run, bill, waived>> BY DEF TakesOver, ReadingsStay
<1>2. TypeOK' BY DEF IInv, TypeOK, TakesOver
<1>3. BlanksWait'
  BY DEF IInv, BlanksWait, BlankApproval, Approved, ReviewsFound, TakesOver
<1>4. VersionsInOrder'
  <2>0. /\ current \in Versions /\ current + 1 \in Versions
        /\ current' = current + 1 /\ today > from[current]
        /\ today \in Int /\ from \in [Versions -> Int]
    BY CalendarAssumption DEF IInv, TypeOK, TakesOver, Days
  <2>1. /\ Versions \in SUBSET Nat /\ current \in Nat /\ current' = current + 1
        /\ today \in Int /\ from[current] \in Int /\ today > from[current]
    BY <2>0, VersionsAreFirst
  <2>2. 1..current' \in SUBSET Versions /\ \A v \in Versions : from[v] \in Int
    BY <2>0, VersionsAreFirst
  <2>3. /\ \A v \in 1..current : from'[v] = from[v]
        /\ from'[current + 1] = today
    BY <2>1, <2>2 DEF TakesOver, IInv, TypeOK
  <2>4. \A v \in 1..current : from[v] <= from[current]
    BY <2>1, <2>2 DEF IInv, VersionsInOrder
  <2>5. \A v, w \in 1..current' : v < w => from'[v] <= from'[w]
    <3> SUFFICES ASSUME NEW v \in 1..current', NEW w \in 1..current', v < w
                 PROVE  from'[v] <= from'[w]
      OBVIOUS
    <3>1. v \in 1..current BY <2>1
    <3>2. CASE w = current + 1 BY <2>1, <2>2, <2>3, <2>4, <3>1, <3>2
    <3>3. CASE w # current + 1
      BY <2>1, <2>3, <3>1, <3>3 DEF IInv, VersionsInOrder
    <3> QED BY <3>2, <3>3
  <2>6. \A v \in Versions : run'[v].submitted => v <= current'
    BY <1>1, <2>1 DEF IInv, VersionsInOrder
  <2> QED BY <2>5, <2>6 DEF VersionsInOrder
<1> QED BY <1>1, <1>2, <1>3, <1>4, RunsKept DEF IInv

LEMMA IngestKeeps ==
  ASSUME IInv, NEW f \in Files, NEW blank \in BOOLEAN, Ingest(f, blank)
  PROVE  IInv'
<1>1. Arrived(f, blank) \in Stored
  BY MeteringAssumption DEF Arrived, Stored, IInv, TypeOK
<1>2. reading' = [reading EXCEPT ![f] = Arrived(f, blank)] /\ ~reading[f].stored
  BY DEF Ingest
<1>3. ReadingsStay BY <1>2 DEF ReadingsStay, IInv, TypeOK
<1>4. TypeOK' BY <1>1, <1>2 DEF IInv, TypeOK, Ingest
<1>5. VersionsInOrder' BY DEF IInv, VersionsInOrder, Ingest
<1>6. BlanksWait'
  <2>1. ASSUME NEW g \in Files, Approved(g)' PROVE g \in waived
    <3>1. CASE g = f
      <4>1. reading'[f] = Arrived(f, blank) BY <1>2 DEF IInv, TypeOK
      <4>2. reading'[f].blank = blank /\ (blank => reading'[f].status = "PENDING")
        BY <4>1 DEF Arrived
      <4> QED BY <2>1, <3>1, <4>2 DEF Approved
    <3>2. CASE g # f
      <4>1. reading'[g] = reading[g] BY <1>2, <3>2 DEF IInv, TypeOK
      <4>2. Approved(g) BY <2>1, <4>1 DEF Approved
      <4> QED BY <4>2 DEF IInv, BlanksWait, BlankApproval
    <3> QED BY <3>1, <3>2
  <2>2. \A c \in Reviewers : review[c].phase = "read" =>
           review[c].file \in Files /\ reading[review[c].file].stored
    BY DEF IInv, TypeOK, BlanksWait, ReviewsFound, Idle, Done, Review
  <2>3. \A c \in Reviewers : review[c].phase = "read" =>
                              reading'[review[c].file].stored
    BY <2>2, <1>3 DEF ReadingsStay
  <2>4. review' = review /\ waived' = waived BY DEF Ingest
  <2>5. BlankApproval' BY <2>1, <2>4 DEF BlankApproval
  <2>6. ReviewsFound' BY <2>3, <2>4 DEF ReviewsFound
  <2> QED BY <2>5, <2>6 DEF BlanksWait
<1> QED BY <1>3, <1>4, <1>5, <1>6, RunsKept DEF IInv, Ingest

LEMMA EditReadsKeeps ==
  ASSUME IInv, NEW c \in Editors, NEW m \in Meters, NEW remaps \in BOOLEAN,
         NEW u \in Units \cup {NoUnit}, EditReads(c, m, remaps, u)
  PROVE  IInv'
<1>1. ReadingsStay /\ UNCHANGED <<run, bill, waived>> BY DEF EditReads, ReadingsStay
<1>2. TypeOK' BY DEF IInv, TypeOK, EditReads, Edit
<1>3. VersionsInOrder' /\ BlanksWait'
  BY DEF IInv, VersionsInOrder, BlanksWait, BlankApproval, Approved,
         ReviewsFound, EditReads
<1> QED BY <1>1, <1>2, <1>3, RunsKept DEF IInv

LEMMA EditSavesKeeps ==
  ASSUME IInv, NEW c \in Editors, EditSaves(c)
  PROVE  IInv'
<1>1. ReadingsStay /\ UNCHANGED <<run, bill, waived>> BY DEF EditSaves, ReadingsStay
<1>2. edit[c] \in Edit BY DEF IInv, TypeOK, EditSaves, Idle, Done
<1>3. unitOf' \in [Meters -> Units \cup {NoUnit}]
  BY <1>2 DEF IInv, TypeOK, EditSaves, Edit
<1>4. TypeOK' BY <1>3 DEF IInv, TypeOK, EditSaves
<1>5. VersionsInOrder' /\ BlanksWait'
  BY DEF IInv, VersionsInOrder, BlanksWait, BlankApproval, Approved,
         ReviewsFound, EditSaves
<1> QED BY <1>1, <1>4, <1>5, RunsKept DEF IInv

LEMMA ReviewReadsKeeps ==
  ASSUME IInv, NEW c \in Reviewers, NEW f \in Files, NEW approve \in BOOLEAN,
         ReviewReads(c, f, approve)
  PROVE  IInv'
<1>1. ReadingsStay /\ UNCHANGED <<run, bill, waived>>
  BY DEF ReviewReads, ReadingsStay
<1>2. reading[f] \in Stored BY DEF IInv, TypeOK, ReviewReads, NoReading
<1>3. TypeOK' BY <1>2 DEF IInv, TypeOK, ReviewReads, Review
<1>4. VersionsInOrder' BY DEF IInv, VersionsInOrder, ReviewReads
<1>5. BlanksWait'
  <2>1. BlankApproval'
    BY DEF IInv, BlanksWait, BlankApproval, Approved, ReviewReads
  <2>2. ReviewsFound'
    BY DEF IInv, TypeOK, BlanksWait, ReviewsFound, ReviewReads
  <2> QED BY <2>1, <2>2 DEF BlanksWait
<1> QED BY <1>1, <1>3, <1>4, <1>5, RunsKept DEF IInv

\* A save changes the approval of the reading only.
LEMMA ReviewSavesKeeps ==
  ASSUME IInv, NEW c \in Reviewers, ReviewSaves(c)
  PROVE  IInv'
<1>1. PICK f, approve, seen : review[c] \in Review /\ f = review[c].file
                              /\ approve = review[c].approve /\ seen = review[c].seen
  BY DEF IInv, TypeOK, ReviewSaves, Idle, Done
<1>2. f \in Files /\ approve \in BOOLEAN /\ seen \in Stored BY <1>1 DEF Review
<1>3. reading[f].stored /\ reading[f] \in Stored
  BY <1>1, <1>2 DEF IInv, TypeOK, BlanksWait, ReviewsFound, ReviewSaves, NoReading
<1>4. PICK status, by :
        /\ status = IF (IF approve THEN "APPROVED" ELSE "PENDING") = seen.status
                    THEN reading[f].status
                    ELSE IF approve THEN "APPROVED" ELSE "PENDING"
        /\ by = IF (IF approve THEN c ELSE Nobody) = seen.by
                THEN reading[f].by ELSE IF approve THEN c ELSE Nobody
  OBVIOUS
<1>5. status \in {"PENDING", "APPROVED"} /\ by \in Reviewers \cup {System, Nobody}
  BY <1>3, <1>4 DEF Stored
<1>6. reading' = [reading EXCEPT ![f] = [reading[f] EXCEPT !.status = status,
                                                            !.by = by]]
  BY <1>1, <1>2, <1>3, <1>4 DEF ReviewSaves, Stored, IInv, TypeOK
<1>7. PICK row \in Stored :
        /\ row = [reading[f] EXCEPT !.status = status, !.by = by]
        /\ row.unit = reading[f].unit /\ row.blank = reading[f].blank
        /\ row.stored /\ row.status = status
  <2>1. PICK old \in Stored : old = reading[f] BY <1>3
  <2>2. PICK row : row = [old EXCEPT !.status = status, !.by = by] OBVIOUS
  <2>3. /\ row \in Stored /\ row.unit = old.unit /\ row.blank = old.blank
        /\ row.stored /\ row.status = status
    BY <2>1, <2>2, <1>5 DEF Stored
  <2> QED BY <2>1, <2>2, <2>3
<1>8. reading' = [reading EXCEPT ![f] = row] BY <1>6, <1>7
<1>9. waived' = (IF approve THEN waived \cup {f} ELSE waived) BY <1>1 DEF ReviewSaves
<1>10. ReadingsStay BY <1>7, <1>8 DEF ReadingsStay, IInv, TypeOK
<1>11. TypeOK' BY <1>2, <1>7, <1>8, <1>9 DEF IInv, TypeOK, ReviewSaves
<1>12. VersionsInOrder' BY DEF IInv, VersionsInOrder, ReviewSaves
<1>13. BlanksWait'
  <2>1. ASSUME NEW g \in Files, Approved(g)' PROVE g \in waived'
    <3>1. CASE g # f
      <4>1. reading'[g] = reading[g] BY <1>8, <3>1 DEF IInv, TypeOK
      <4>2. Approved(g) BY <2>1, <4>1 DEF Approved
      <4> QED BY <4>2, <1>9 DEF IInv, BlanksWait, BlankApproval
    <3>2. CASE g = f /\ approve BY <3>2, <1>9
    <3>3. CASE g = f /\ ~approve
      <4>1. reading'[f] = row BY <1>2, <1>8 DEF IInv, TypeOK
      <4>2. status = "APPROVED" /\ reading[f].blank
        BY <2>1, <4>1, <1>7, <3>3 DEF Approved
      <4>3. reading[f].status = "APPROVED" BY <4>2, <1>4, <3>3
      <4>4. Approved(f) BY <4>2, <4>3, <1>3 DEF Approved
      <4> QED BY <4>4, <1>2, <1>9, <3>3 DEF IInv, BlanksWait, BlankApproval
    <3> QED BY <3>1, <3>2, <3>3, <1>2
  <2>2. \A d \in Reviewers : review'[d].phase = "read" =>
           reading'[review'[d].file].stored
    <3> SUFFICES ASSUME NEW d \in Reviewers, review'[d].phase = "read"
                 PROVE  reading'[review'[d].file].stored
      OBVIOUS
    <3>1. d # c BY DEF ReviewSaves, IInv, TypeOK, Done
    <3>2. review'[d] = review[d] BY <3>1 DEF ReviewSaves, IInv, TypeOK
    <3>3. review[d].file \in Files /\ reading[review[d].file].stored
      BY <3>2 DEF IInv, TypeOK, BlanksWait, ReviewsFound, Review, Idle, Done
    <3> QED BY <3>2, <3>3, <1>10 DEF ReadingsStay
  <2>3. BlankApproval' BY <2>1 DEF BlankApproval
  <2>4. ReviewsFound' BY <2>2 DEF ReviewsFound
  <2> QED BY <2>3, <2>4 DEF BlanksWait
<1>14. waived \subseteq waived' BY <1>9
<1> QED BY <1>10, <1>11, <1>12, <1>13, <1>14, RunsKept DEF IInv, ReviewSaves

\* What Submit and Recover have in common.
LEMMA SubmissionKeeps ==
  ASSUME IInv, NEW v \in Versions, v <= current, NEW p \in Period,
         NEW recovered \in BOOLEAN, ~run[v].submitted,
         run' = [run EXCEPT ![v] = Submitted(p, recovered)],
         UNCHANGED <<today, current, from, unitOf, reading, edit, review, bill, waived>>,
         recovered \/ ~Anomalous(p),
         recovered => \A u \in Units : Qualifies(u, p)
  PROVE  IInv'
<1>1. PICK row : row = Submitted(p, recovered) OBVIOUS
<1>2. /\ row.submitted /\ row.recovered = recovered /\ row.period = p
      /\ row.judged = InPeriod(p) /\ row \in BillRun
  BY <1>1 DEF Submitted, BillRun, InPeriod
<1>3. run' = [run EXCEPT ![v] = row] BY <1>1
<1>4. run'[v] = row /\ \A w \in Versions \ {v} : run'[w] = run[w]
  BY <1>3 DEF IInv, TypeOK
<1>5. ReadingsStay /\ RunsStay /\ waived \subseteq waived'
  BY <1>4 DEF ReadingsStay, RunsStay
<1>6. TypeOK' BY <1>2, <1>3 DEF IInv, TypeOK
<1>7. VersionsInOrder'
  <2>1. \A w \in Versions : run'[w].submitted => w <= current
    BY <1>4 DEF IInv, VersionsInOrder
  <2>2. \A w, x \in 1..current : w < x => from[w] <= from[x]
    BY DEF IInv, VersionsInOrder
  <2> QED BY <2>1, <2>2 DEF VersionsInOrder
<1>8. BlanksWait'
  BY DEF IInv, BlanksWait, BlankApproval, Approved, ReviewsFound
<1>9. GateHeld'
  <2> SUFFICES ASSUME NEW w \in Versions, run'[w].submitted,
                      NEW f \in run'[w].judged
               PROVE  reading'[f].stored
                      /\ (reading'[f].blank /\ ~run'[w].recovered => f \in waived')
    BY DEF GateHeld
  <2>1. CASE w # v BY <2>1, <1>4, <1>5, GateStable
  <2>2. CASE w = v
    <3>1. f \in InPeriod(p) BY <2>2, <1>2, <1>4
    <3>2. f \in Files /\ reading[f].stored BY <3>1 DEF InPeriod
    <3>3. reading[f] \in Stored BY <3>2 DEF IInv, TypeOK, NoReading
    <3>4. ASSUME reading[f].blank, ~recovered PROVE f \in waived
      <4>1. reading[f].status # "PENDING" BY <3>1, <3>4 DEF Anomalous
      <4>2. reading[f].status = "APPROVED" BY <4>1, <3>3 DEF Stored
      <4> QED BY <3>2, <3>4, <4>2 DEF IInv, BlanksWait, BlankApproval, Approved
    <3> QED BY <3>2, <3>4, <2>2, <1>2, <1>4
  <2> QED BY <2>1, <2>2
<1>10. BillsKeep' BY <1>5, BillsStable
<1>11. RecoveryQualifies'
  <2> SUFFICES ASSUME NEW w \in Versions, run'[w].submitted, run'[w].recovered,
                      NEW u \in Units
               PROVE  Qualifies(u, run[w].period)'
    BY DEF RecoveryQualifies
  <2>1. CASE w # v BY <2>1, <1>4, <1>5, RecoveryStable
  <2>2. CASE w = v
    <3>1. Qualifies(u, p) BY <2>2, <1>2, <1>4
    <3>2. Qualifies(u, p)' BY <3>1, QualifiesStable
    <3>3. run'[w].period = p BY <2>2, <1>2, <1>4
    <3> QED BY <3>2, <3>3
  <2> QED BY <2>1, <2>2
<1>12. EligibleIsBillable'
  <2> SUFFICES ASSUME NEW u \in Units, NEW w \in Versions, run'[w].submitted,
                      run'[w].recovered
               PROVE  bill[u][w] # Unread
    BY DEF EligibleIsBillable
  <2>1. CASE w # v BY <2>1, <1>4 DEF IInv, EligibleIsBillable
  <2>2. CASE w = v
    <3>1. bill[u][v] = NoBill BY <2>2 DEF IInv, BillsKeep
    <3> QED BY <2>2, <3>1 DEF NoBill, Unread
  <2> QED BY <2>1, <2>2
<1> QED BY <1>6, <1>7, <1>8, <1>9, <1>10, <1>11, <1>12 DEF IInv

LEMMA SubmitKeeps ==
  ASSUME IInv, Submit
  PROVE  IInv'
<1>1. PICK p : p = CurrentPeriod(RuleOf[current], today) OBVIOUS
<1>2. current \in Versions /\ today \in Days BY DEF IInv, TypeOK
<1>3. p \in Period BY <1>1, <1>2, CurrentPeriodTyped
<1>4. ~run[current].submitted /\ ~Anomalous(p)
      /\ run' = [run EXCEPT ![current] = Submitted(p, FALSE)]
  BY <1>1 DEF Submit
<1>5. current <= current BY <1>2, VersionsAreFirst
<1> QED BY <1>2, <1>3, <1>4, <1>5, SubmissionKeeps DEF Submit

LEMMA RecoverKeeps ==
  ASSUME IInv, NEW v \in Versions, NEW p \in LivePeriods(v), Recover(v, p)
  PROVE  IInv'
<1>1. p \in Period BY LivePeriodsTyped
<1> QED BY <1>1, SubmissionKeeps DEF Recover

\* The readings of a unit in a period, for the pair a bill is made from.
LEMMA PairIsUsed ==
  ASSUME IInv, NEW u \in Units, NEW p \in Period, NEW F, F = Used(u, p),
         NEW x \in FirstAndLast(F)
  PROVE  /\ x[1] \in Files /\ x[2] \in Files
         /\ reading[x[1]].stored /\ reading[x[2]].stored
         /\ x[1][2] \in p.start..p.end /\ x[2][2] \in p.start..p.end
         /\ x[1][2] <= x[2][2]
<1>1. x[1] \in F /\ x[2] \in F /\ x[1][2] <= x[2][2] BY DEF FirstAndLast
<1> QED BY <1>1 DEF Used, InPeriod

\* The counters are numbers, and so is what they differ by.
LEMMA ValueIsNumber ==
  ASSUME NEW f \in Files
  PROVE  Value(f) \in Int
BY MeteringAssumption DEF Value

\* A recovered run finds a first and a last reading for each of its units.
LEMMA BillUnitKeeps ==
  ASSUME IInv, NEW u \in Units, NEW v \in Versions, BillUnit(u, v)
  PROVE  IInv'
<1>1. PICK p, F : p = run[v].period /\ F = Used(u, p) OBVIOUS
<1>2. run[v].submitted /\ run[v] \in BillRun /\ p \in Period
  BY <1>1, RunTyped DEF IInv, BillUnit
<1>3. PICK b : /\ b \in {Charged(u, x[1], x[2]) : x \in FirstAndLast(F)}
                       \cup (IF FirstAndLast(F) = {} THEN {Unread} ELSE {})
               /\ bill' = [bill EXCEPT ![u][v] = b]
  BY <1>1 DEF BillUnit
<1>4. UNCHANGED <<today, current, from, unitOf, reading, edit, review, run, waived>>
  BY DEF BillUnit
<1>5. /\ bill'[u][v] = b
      /\ \A y \in Units, w \in Versions :
           y # u \/ w # v => bill'[y][w] = bill[y][w]
      /\ DOMAIN bill' = Units /\ \A y \in Units : DOMAIN bill'[y] = Versions
  BY <1>3 DEF IInv, TypeOK
<1>6. b = Unread \/ (IsBill(b) /\ b \notin {NoBill, Unread})
  <2>1. SUFFICES ASSUME NEW x \in FirstAndLast(F), b = Charged(u, x[1], x[2])
                 PROVE  IsBill(b) /\ b \notin {NoBill, Unread}
    BY <1>3
  <2>2. x[1] \in Files /\ x[2] \in Files BY <2>1, <1>1, <1>2, PairIsUsed
  <2>3. Value(x[2]) - Value(x[1]) \in Int BY <2>2, ValueIsNumber
  <2>4. /\ b.opening = x[1] /\ b.closing = x[2]
        /\ b.kwh = Value(x[2]) - Value(x[1])
        /\ b.outcome \in {"billed", "negative", "unreconciled"}
    BY <2>1 DEF Charged
  <2> QED BY <2>2, <2>3, <2>4 DEF IsBill, NoBill, Unread
<1>7. b # Unread => Keeps(u, v)'
  <2>1. SUFFICES ASSUME NEW x \in FirstAndLast(F), b = Charged(u, x[1], x[2])
                 PROVE  Keeps(u, v)'
    BY <1>3
  <2>2. /\ b.opening = x[1] /\ b.closing = x[2]
        /\ b.kwh = Value(x[2]) - Value(x[1])
        /\ b.outcome = "negative" => b.kwh < 0
    BY <2>1 DEF Charged
  <2>3. /\ reading[b.opening].stored /\ reading[b.closing].stored
        /\ b.opening[2] \in p.start..p.end /\ b.closing[2] \in p.start..p.end
        /\ b.opening[2] <= b.closing[2]
    <3>1. PICK o, c : o = x[1] /\ c = x[2] OBVIOUS
    <3>2. /\ reading[o].stored /\ reading[c].stored
          /\ o[2] \in p.start..p.end /\ c[2] \in p.start..p.end /\ o[2] <= c[2]
      BY <3>1, <1>1, <1>2, PairIsUsed
    <3>3. b.opening = o /\ b.closing = c BY <2>2, <3>1
    <3> QED BY <3>2, <3>3
  <2>4. \A f : Value(f)' = Value(f) BY <1>4 DEF Value
  <2> QED BY <2>2, <2>3, <2>4, <1>1, <1>4, <1>5 DEF Keeps
<1>8. TypeOK'
  <2>1. \A y \in Units, w \in Versions :
          bill'[y][w] \in {NoBill, Unread} \/ IsBill(bill'[y][w])
    BY <1>5, <1>6 DEF IInv, TypeOK
  <2> QED BY <2>1, <1>4, <1>5 DEF IInv, TypeOK
<1>9. VersionsInOrder' /\ BlanksWait' /\ GateHeld'
  BY <1>4 DEF IInv, VersionsInOrder, BlanksWait, BlankApproval, Approved,
              ReviewsFound, GateHeld
<1>10. BillsKeep'
  <2> SUFFICES ASSUME NEW y \in Units, NEW w \in Versions
               PROVE  /\ bill'[y][w] # NoBill => run'[w].submitted
                      /\ bill'[y][w] \notin {NoBill, Unread} => Keeps(y, w)'
    BY DEF BillsKeep
  <2>1. CASE y = u /\ w = v BY <2>1, <1>2, <1>4, <1>5, <1>7
  <2>2. CASE y # u \/ w # v
    <3>1. bill'[y][w] = bill[y][w] BY <2>2, <1>5
    <3>2. \A f : Value(f)' = Value(f) BY <1>4 DEF Value
    <3>3. Keeps(y, w) => Keeps(y, w)' BY <3>1, <3>2, <1>4 DEF Keeps
    <3> QED BY <3>1, <3>3, <1>4 DEF IInv, BillsKeep
  <2> QED BY <2>1, <2>2
<1>11. RecoveryQualifies'
  BY <1>4 DEF IInv, RecoveryQualifies, Qualifies, Used, InPeriod
<1>12. EligibleIsBillable'
  <2> SUFFICES ASSUME NEW y \in Units, NEW w \in Versions, run[w].submitted,
                      run[w].recovered
               PROVE  bill'[y][w] # Unread
    BY <1>4 DEF EligibleIsBillable
  <2>1. CASE y = u /\ w = v
    <3>1. Qualifies(u, p) BY <2>1, <1>1 DEF IInv, RecoveryQualifies
    <3>2. PICK f \in F, g \in F : f # g BY <3>1, <1>1 DEF Qualifies
    <3>3. F \in SUBSET Files BY <1>1 DEF Used, InPeriod
    <3>4. FirstAndLast(F) # {} BY <3>2, <3>3, FirstAndLastExist
    <3>5. PICK x \in FirstAndLast(F) : b = Charged(u, x[1], x[2])
      BY <3>4, <1>3
    <3>6. b.outcome # "unread" BY <3>5 DEF Charged
    <3> QED BY <3>6, <2>1, <1>5 DEF Unread
  <2>2. CASE y # u \/ w # v BY <2>2, <1>5 DEF IInv, EligibleIsBillable
  <2> QED BY <2>1, <2>2
<1> QED BY <1>8, <1>9, <1>10, <1>11, <1>12 DEF IInv

LEMMA StutterKeeps ==
  ASSUME IInv, UNCHANGED vars
  PROVE  IInv'
<1>1. ReadingsStay /\ UNCHANGED <<run, bill, waived>> BY DEF vars, ReadingsStay
<1>2. TypeOK' BY DEF IInv, TypeOK, vars
<1>3. VersionsInOrder' /\ BlanksWait'
  BY DEF IInv, VersionsInOrder, BlanksWait, BlankApproval, Approved,
         ReviewsFound, vars
<1> QED BY <1>1, <1>2, <1>3, RunsKept DEF IInv

LEMMA NextKeeps ==
  ASSUME IInv, [Next]_vars
  PROVE  IInv'
<1>1. CASE NextDay BY <1>1, NextDayKeeps
<1>2. CASE TakesOver BY <1>2, TakesOverKeeps
<1>3. ASSUME NEW f \in Files, NEW blank \in BOOLEAN, Ingest(f, blank)
      PROVE  IInv'
  BY <1>3, IngestKeeps
<1>4. ASSUME NEW c \in Editors, NEW m \in Meters, NEW remaps \in BOOLEAN,
             NEW u \in Units \cup {NoUnit}, EditReads(c, m, remaps, u)
      PROVE  IInv'
  BY <1>4, EditReadsKeeps
<1>5. ASSUME NEW c \in Editors, EditSaves(c) PROVE IInv'
  BY <1>5, EditSavesKeeps
<1>6. ASSUME NEW c \in Reviewers, NEW f \in Files, NEW approve \in BOOLEAN,
             ReviewReads(c, f, approve)
      PROVE  IInv'
  BY <1>6, ReviewReadsKeeps
<1>7. ASSUME NEW c \in Reviewers, ReviewSaves(c) PROVE IInv'
  BY <1>7, ReviewSavesKeeps
<1>8. CASE Submit BY <1>8, SubmitKeeps
<1>9. ASSUME NEW v \in Versions, NEW p \in LivePeriods(v), Recover(v, p)
      PROVE  IInv'
  BY <1>9, RecoverKeeps
<1>10. ASSUME NEW u \in Units, NEW v \in Versions, BillUnit(u, v) PROVE IInv'
  BY <1>10, BillUnitKeeps
<1>11. CASE UNCHANGED vars BY <1>11, StutterKeeps
<1> QED BY <1>1, <1>2, <1>3, <1>4, <1>5, <1>6, <1>7, <1>8, <1>9, <1>10, <1>11
        DEF Next

-----------------------------------------------------------------------------
(* The price of a consumption.  The recursions are taken apart by hand: of   *)
(* the steps at which a claim fails, none can be the first.                  *)

\* A recursion along 0..n defines a function.
LEMMA Recursion ==
  ASSUME NEW n \in Nat, NEW start \in Int, NEW Step \in [(1..n) \X Int -> Int]
  PROVE  \E f \in [0..n -> Int] :
           f[0] = start /\ \A i \in 1..n : f[i] = Step[<<i, f[i - 1]>>]
<1> DEFINE Computes(f, m) ==
             f[0] = start /\ \A i \in 1..m : f[i] = Step[<<i, f[i - 1]>>]
           T == {m \in 0..n : ~ \E f \in [0..m -> Int] : Computes(f, m)}
<1>1. T = {}
  <2> SUFFICES ASSUME T # {} PROVE FALSE
    OBVIOUS
  <2>1. PICK m \in T : \A k \in T : m <= k
    <3>1. T \in SUBSET Nat
      OBVIOUS
    <3> HIDE DEF T
    <3>2. QED
      BY <3>1, LeastNumber
  <2>2. CASE m = 0
    <3> DEFINE g == [i \in 0..0 |-> start]
    <3>1. g \in [0..0 -> Int] /\ g[0] = start /\ 1..0 = {}
      OBVIOUS
    <3> HIDE DEF g
    <3>2. Computes(g, 0)
      BY <3>1
    <3> HIDE DEF Computes
    <3>3. ~ \E f \in [0..0 -> Int] : Computes(f, 0)
      BY <2>1, <2>2
    <3>4. g \in [0..0 -> Int]
      BY <3>1
    <3>5. QED
      BY <3>2, <3>3, <3>4, Zenon
  <2>3. CASE m # 0
    <3> HIDE DEF Computes
    <3>1. m - 1 \in 0..n /\ m - 1 \notin T /\ m \in 1..n
      <4>1. T \in SUBSET (0..n)
        OBVIOUS
      <4> HIDE DEF T
      <4>2. QED
        BY <2>1, <2>3, <4>1
    <3>2. PICK f \in [0..(m - 1) -> Int] : Computes(f, m - 1)
      BY <3>1
    <3> DEFINE next == Step[<<m, f[m - 1]>>]
               g == [i \in 0..m |-> IF i = m THEN next ELSE f[i]]
    <3>3. next \in Int
      BY <3>1, <3>2
    <3>4. /\ g \in [0..m -> Int] /\ g[m] = next
          /\ \A i \in 0..(m - 1) : g[i] = f[i]
      <4> HIDE DEF next
      <4>1. \A i \in 0..m : i # m => i \in 0..(m - 1)
        BY <3>1
      <4>2. QED
        BY <3>1, <3>3, <4>1
    <3> HIDE DEF g
    <3>5. Computes(g, m)
      <4>1. g[0] = start
        BY <3>1, <3>2, <3>4 DEF Computes
      <4>2. ASSUME NEW i \in 1..m PROVE g[i] = Step[<<i, g[i - 1]>>]
        <5>1. g[i - 1] = f[i - 1]
          BY <3>1, <3>4
        <5>2. CASE i = m
          BY <3>4, <5>1, <5>2
        <5>3. CASE i # m
          <6>1. i \in 1..(m - 1) /\ i \in 0..(m - 1)
            BY <3>1, <5>3
          <6>2. QED
            BY <3>2, <3>4, <5>1, <6>1 DEF Computes
        <5>4. QED
          BY <5>2, <5>3
      <4>3. QED
        BY <4>1, <4>2 DEF Computes
    <3>6. QED
      BY <2>1, <3>4, <3>5
  <2>4. QED
    BY <2>2, <2>3
<1> HIDE DEF Computes
<1>2. \E f \in [0..n -> Int] : Computes(f, n)
  BY <1>1
<1>3. QED
  BY <1>2 DEF Computes

-----------------------------------------------------------------------------
(* Tiers without gaps.                                                      *)

\* Tiers that leave no kWh without a rate, of numbers.
LEMMA TiersAre ==
  ASSUME NEW tiers \in Seq(Tier), Whole(tiers)
  PROVE  /\ Len(tiers) \in Nat \ {0} /\ DOMAIN tiers = 1..Len(tiers)
         /\ \A i \in 1..Len(tiers) :
              /\ tiers[i].min \in Nat /\ tiers[i].rate \in Nat
              /\ i # Len(tiers) =>
                   /\ tiers[i].max \in Nat /\ tiers[i].max # NoMax
                   /\ tiers[i].max = tiers[i + 1].min
                   /\ tiers[i].min < tiers[i].max
              /\ i = Len(tiers) => tiers[i].max = NoMax
         /\ tiers[1].min = 0
<1>1. Len(tiers) \in Nat \ {0} /\ DOMAIN tiers = 1..Len(tiers)
  BY DEF Whole
<1>2. \A i \in 1..Len(tiers) : tiers[i] \in Tier
  OBVIOUS
<1>3. \A i \in 1..Len(tiers) :
        tiers[i].min \in Nat /\ tiers[i].rate \in Nat /\ tiers[i].max \in Nat \cup {NoMax}
  BY <1>2 DEF Tier
<1>4. ASSUME NEW i \in 1..Len(tiers), i # Len(tiers)
      PROVE  /\ tiers[i].max = tiers[i + 1].min /\ tiers[i + 1].min \in Nat
             /\ tiers[i].min < tiers[i].max
  <2>1. /\ i + 1 \in 2..Len(tiers) /\ (i + 1) - 1 = i /\ i \in 1..(Len(tiers) - 1)
        /\ i + 1 \in 1..Len(tiers)
    <3>1. \A n \in Nat : \A j \in 1..n : j # n =>
            /\ j + 1 \in 2..n /\ (j + 1) - 1 = j /\ j \in 1..(n - 1) /\ j + 1 \in 1..n
      OBVIOUS
    <3>2. QED
      BY <1>1, <1>4, <3>1
  <2>2. tiers[i + 1].min = tiers[(i + 1) - 1].max
    BY <2>1 DEF Whole
  <2>3. QED
    BY <1>3, <2>1, <2>2 DEF Whole
<1>5. tiers[1].min = 0 /\ tiers[Len(tiers)].max = NoMax
  BY DEF Whole
<1>6. QED
  BY <1>1, <1>3, <1>4, <1>5, ChargesAssumption

\* The kWh falls in the tier.
Holds(tier, k) == tier.min < k /\ (tier.max = NoMax \/ k <= tier.max)

\* The tiers follow one another.
LEMMA BandsInOrder ==
  ASSUME NEW tiers \in Seq(Tier), Whole(tiers)
  PROVE  \A j \in 1..Len(tiers) : \A i \in 1..(j - 1) : tiers[i].max <= tiers[j].min
<1> DEFINE T == {j \in 1..Len(tiers) : \E i \in 1..(j - 1) : ~(tiers[i].max <= tiers[j].min)}
<1> SUFFICES ASSUME T # {} PROVE FALSE
  OBVIOUS
<1>1. PICK j \in T : \A k \in T : j <= k
  <2>1. T \in SUBSET Nat
    OBVIOUS
  <2> HIDE DEF T
  <2>2. QED
    BY <2>1, LeastNumber
<1>2. PICK i \in 1..(j - 1) : ~(tiers[i].max <= tiers[j].min)
  BY <1>1
<1>3. /\ j \in 1..Len(tiers) /\ Len(tiers) \in Nat /\ j - 1 \in 1..Len(tiers)
      /\ i \in 1..Len(tiers) /\ i # Len(tiers) /\ j - 1 # Len(tiers) /\ (j - 1) + 1 = j
  BY <1>1, <1>2, TiersAre
<1>4. /\ tiers[i].max \in Nat /\ tiers[j].min \in Nat /\ tiers[j - 1].max \in Nat
      /\ tiers[j - 1].max = tiers[j].min /\ tiers[j - 1].min \in Nat
      /\ tiers[j - 1].min < tiers[j - 1].max
  BY <1>3, TiersAre
<1>5. i # j - 1
  BY <1>2, <1>4
<1>6. j - 1 \notin T /\ i \in 1..((j - 1) - 1)
  BY <1>1, <1>2, <1>3, <1>5
<1>7. tiers[i].max <= tiers[j - 1].min
  BY <1>3, <1>6
<1>8. QED
  BY <1>2, <1>4, <1>7

\* A kWh has the rate of the one tier that holds it.
LEMMA RateIs ==
  ASSUME NEW tiers \in Seq(Tier), Whole(tiers), NEW k \in Nat,
         NEW i \in 1..Len(tiers), Holds(tiers[i], k)
  PROVE  RateOf(tiers, k) = tiers[i].rate
<1>1. \A j \in 1..Len(tiers) : Holds(tiers[j], k) => j = i
  <2> SUFFICES ASSUME NEW j \in 1..Len(tiers), Holds(tiers[j], k), j # i PROVE FALSE
    OBVIOUS
  <2>1. ASSUME NEW a \in 1..Len(tiers), NEW b \in 1..Len(tiers), a < b,
               Holds(tiers[a], k), Holds(tiers[b], k)
        PROVE  FALSE
    <3>1. Len(tiers) \in Nat /\ a # Len(tiers) /\ a \in 1..(b - 1)
      BY <2>1, TiersAre
    <3>2. tiers[a].max <= tiers[b].min /\ tiers[a].max \in Nat /\ tiers[b].min \in Nat
      BY <3>1, BandsInOrder, TiersAre
    <3>3. QED
      BY <2>1, <3>2, ChargesAssumption DEF Holds
  <2>2. i < j \/ j < i
    BY TiersAre
  <2>3. QED
    BY <2>1, <2>2
<1>2. DOMAIN tiers = 1..Len(tiers)
  BY TiersAre
<1>3. \E j \in DOMAIN tiers :
        tiers[j].min < k /\ (tiers[j].max = NoMax \/ k <= tiers[j].max)
  BY <1>2 DEF Holds
<1>4. i = CHOOSE j \in DOMAIN tiers :
            tiers[j].min < k /\ (tiers[j].max = NoMax \/ k <= tiers[j].max)
  BY <1>1, <1>2, <1>3 DEF Holds
<1>5. QED
  BY <1>4 DEF RateOf

\* Every kWh is held by some tier.
LEMMA TierExists ==
  ASSUME NEW tiers \in Seq(Tier), Whole(tiers), NEW k \in Nat \ {0}
  PROVE  \E i \in 1..Len(tiers) : Holds(tiers[i], k)
<1> DEFINE T == {i \in 1..Len(tiers) : tiers[i].max = NoMax \/ k <= tiers[i].max}
<1>1. Len(tiers) \in T
  BY TiersAre
<1>2. PICK i \in T : \A j \in T : i <= j
  <2>1. T \in SUBSET Nat
    OBVIOUS
  <2> HIDE DEF T
  <2>2. QED
    BY <1>1, <2>1, LeastNumber
<1>3. CASE i = 1
  BY <1>2, <1>3, TiersAre DEF Holds
<1>4. CASE i # 1
  <2>1. /\ i \in 1..Len(tiers) /\ Len(tiers) \in Nat /\ i - 1 \in 1..Len(tiers)
        /\ i - 1 # Len(tiers) /\ (i - 1) + 1 = i /\ i - 1 \notin T
    BY <1>2, <1>4, TiersAre
  <2>2. /\ tiers[i - 1].max = tiers[i].min /\ tiers[i].min \in Nat
    BY <2>1, TiersAre
  <2>3. tiers[i].min < k
    BY <2>1, <2>2
  <2>4. QED
    BY <1>2, <2>3 DEF Holds
<1>5. QED
  BY <1>3, <1>4

\* What a recursion along 0..n computes stays within its values.
LEMMA RecursionTyped ==
  ASSUME NEW n \in Nat, NEW S, NEW f, f[0] \in S,
         \A i \in 1..n : f[i - 1] \in S => f[i] \in S
  PROVE  \A i \in 0..n : f[i] \in S
<1> DEFINE T == {i \in 0..n : f[i] \notin S}
<1> SUFFICES ASSUME T # {} PROVE FALSE
  OBVIOUS
<1>1. T \in SUBSET Nat /\ T \in SUBSET (0..n) /\ 0 \notin T
  OBVIOUS
<1>2. PICK i \in T : \A j \in T : i <= j
  <2> HIDE DEF T
  <2>1. QED
    BY <1>1, LeastNumber
<1>3. i \in 1..n /\ i - 1 \in 0..n /\ i - 1 \notin T
  <2> HIDE DEF T
  <2>1. i \in 0..n /\ i # 0
    BY <1>1, <1>2
  <2>2. QED
    BY <1>2, <2>1
<1>4. f[i - 1] \in S /\ f[i] \notin S
  BY <1>2, <1>3
<1>5. QED
  BY <1>3, <1>4

\* Every kWh has a rate.
LEMMA RateIsNumber ==
  ASSUME NEW tiers \in Seq(Tier), Whole(tiers), NEW k \in Nat \ {0}
  PROVE  RateOf(tiers, k) \in Nat
BY TierExists, RateIs, TiersAre

\* The price kWh by kWh is what its recursion says.
LEMMA PriceIs ==
  ASSUME NEW tiers \in Seq(Tier), Whole(tiers), NEW kwh \in Nat
  PROVE  \E price \in [0..kwh -> Int] :
           /\ price[0] = 0
           /\ \A k \in 1..kwh : price[k] = price[k - 1] + RateOf(tiers, k)
           /\ PriceByKwh(tiers, kwh) = price[kwh]
<1> DEFINE Is(f) == f = [k \in 0..kwh |->
                           IF k = 0 THEN 0 ELSE f[k - 1] + RateOf(tiers, k)]
           Step == [x \in (1..kwh) \X Int |-> x[2] + RateOf(tiers, x[1])]
<1>1. \A k \in 1..kwh : RateOf(tiers, k) \in Nat
  BY RateIsNumber
<1>2. Step \in [(1..kwh) \X Int -> Int]
  BY <1>1
<1>3. \E f : Is(f)
  <2> HIDE DEF Step
  <2>1. PICK f \in [0..kwh -> Int] :
          f[0] = 0 /\ \A k \in 1..kwh : f[k] = Step[<<k, f[k - 1]>>]
    <3>1. 0 \in Int
      OBVIOUS
    <3>2. QED
      BY <1>2, <3>1, Recursion
  <2>2. ASSUME NEW k \in 1..kwh PROVE f[k] = f[k - 1] + RateOf(tiers, k)
    <3>1. f[k - 1] \in Int
      BY <2>1
    <3>2. Step[<<k, f[k - 1]>>] = f[k - 1] + RateOf(tiers, k)
      BY <3>1 DEF Step
    <3>3. QED
      BY <2>1, <3>2
  <2>3. ASSUME NEW k \in 0..kwh
        PROVE  f[k] = IF k = 0 THEN 0 ELSE f[k - 1] + RateOf(tiers, k)
    BY <2>1, <2>2
  <2>4. Is(f)
    BY <2>1, <2>3
  <2>5. QED
    BY <2>4
<1> DEFINE price == CHOOSE f : Is(f)
<1>4. Is(price)
  BY <1>3
<1>5. PriceByKwh(tiers, kwh) = price[kwh]
  BY DEF PriceByKwh
<1> HIDE DEF price
<1>6. /\ price[0] = 0 /\ DOMAIN price = 0..kwh
      /\ \A k \in 1..kwh : price[k] = price[k - 1] + RateOf(tiers, k)
  BY <1>4
<1>7. \A k \in 0..kwh : price[k] \in Int
  <2>1. price[0] \in Int
    BY <1>6
  <2>2. \A k \in 1..kwh : price[k - 1] \in Int => price[k] \in Int
    BY <1>1, <1>6
  <2>3. QED
    BY <2>1, <2>2, RecursionTyped, Zenon
<1>8. price = [k \in 0..kwh |-> price[k]]
  BY <1>4
<1>9. price \in [0..kwh -> Int]
  BY <1>7, <1>8
<1>10. QED
  BY <1>5, <1>6, <1>9

\* What a tier takes and charges is a number.
LEMMA BandIsNumber ==
  ASSUME NEW tier \in Tier, NEW left \in Int
  PROVE  Band(tier, left) \in Int /\ tier.rate \in Nat
<1>1. tier.min \in Nat /\ tier.max \in Nat \cup {NoMax} /\ tier.rate \in Nat
  BY DEF Tier
<1>2. Width(tier, left) \in Int
  BY <1>1 DEF Width
<1>3. QED
  BY <1>1, <1>2 DEF Band

\* The loop over the tiers is what its two recursions say.
LEMMA TierChargeIs ==
  ASSUME NEW tiers \in Seq(Tier), NEW kwh \in Nat
  PROVE  \E left \in [0..Len(tiers) -> Int], charge \in [0..Len(tiers) -> Int] :
           /\ left[0] = kwh /\ charge[0] = 0
           /\ \A i \in 1..Len(tiers) :
                /\ left[i] = left[i - 1] - Band(tiers[i], left[i - 1])
                /\ charge[i] = charge[i - 1] + Band(tiers[i], left[i - 1]) * tiers[i].rate
           /\ TierCharge(tiers, kwh) = charge[Len(tiers)]
<1> DEFINE n == Len(tiers)
           IsLeft(f) == f = [i \in 0..Len(tiers) |->
                               IF i = 0 THEN kwh
                               ELSE f[i - 1] - Band(tiers[i], f[i - 1])]
           left == CHOOSE f : IsLeft(f)
           IsCharge(f) == f = [i \in 0..Len(tiers) |->
                                 IF i = 0 THEN 0
                                 ELSE f[i - 1] + Band(tiers[i], left[i - 1]) * tiers[i].rate]
           charge == CHOOSE f : IsCharge(f)
<1>1. n \in Nat /\ kwh \in Int /\ 0 \in Int
  OBVIOUS
<1>2. \A i \in 1..n : tiers[i] \in Tier
  OBVIOUS
<1>3. TierCharge(tiers, kwh) = charge[Len(tiers)]
  BY DEF TierCharge
<1>4. \A i \in 1..n, x \in Int : Band(tiers[i], x) \in Int /\ tiers[i].rate \in Nat
  BY <1>2, BandIsNumber
<1>5. IsLeft(left)
  <2> DEFINE Step == [x \in (1..n) \X Int |-> x[2] - Band(tiers[x[1]], x[2])]
  <2>1. Step \in [(1..n) \X Int -> Int]
    <3>1. ASSUME NEW x \in (1..n) \X Int PROVE x[2] - Band(tiers[x[1]], x[2]) \in Int
      <4>1. x[1] \in 1..n /\ x[2] \in Int
        OBVIOUS
      <4>2. Band(tiers[x[1]], x[2]) \in Int
        BY <1>4, <4>1
      <4>3. QED
        BY <4>1, <4>2
    <3>2. QED
      BY <3>1
  <2>2. \A i \in 1..n, x \in Int : Step[<<i, x>>] = x - Band(tiers[i], x)
    OBVIOUS
  <2> HIDE DEF Step
  <2>3. PICK f \in [0..n -> Int] :
          f[0] = kwh /\ \A i \in 1..n : f[i] = Step[<<i, f[i - 1]>>]
    BY <1>1, <2>1, Recursion
  <2>4. ASSUME NEW i \in 1..n PROVE f[i] = f[i - 1] - Band(tiers[i], f[i - 1])
    <3>1. f[i - 1] \in Int
      BY <1>1, <2>3
    <3>2. QED
      BY <2>2, <2>3, <3>1
  <2>5. \A i \in 0..n : f[i] = IF i = 0 THEN kwh ELSE f[i - 1] - Band(tiers[i], f[i - 1])
    BY <1>1, <2>3, <2>4
  <2>6. IsLeft(f)
    BY <2>3, <2>5
  <2>7. QED
    BY <2>6
<1> HIDE DEF left
<1>6. /\ left[0] = kwh /\ left \in [0..n -> Int]
      /\ \A i \in 1..n : left[i] = left[i - 1] - Band(tiers[i], left[i - 1])
  <2>1. left[0] = kwh /\ \A i \in 1..n : left[i] = left[i - 1] - Band(tiers[i], left[i - 1])
    BY <1>1, <1>5
  <2>2. left[0] \in Int /\ \A i \in 1..n : left[i - 1] \in Int => left[i] \in Int
    <3>1. left[0] \in Int
      BY <1>1, <2>1
    <3>2. ASSUME NEW i \in 1..n, left[i - 1] \in Int PROVE left[i] \in Int
      <4>1. Band(tiers[i], left[i - 1]) \in Int
        BY <1>4, <3>2
      <4>2. QED
        BY <2>1, <3>2, <4>1
    <3>3. QED
      BY <3>1, <3>2
  <2>3. \A i \in 0..n : left[i] \in Int
    BY <1>1, <2>2, RecursionTyped, Zenon
  <2>4. left = [i \in 0..n |-> left[i]]
    BY <1>5
  <2>5. QED
    BY <2>1, <2>3, <2>4
<1>7. IsCharge(charge)
  <2> DEFINE Step == [x \in (1..n) \X Int |->
                        x[2] + Band(tiers[x[1]], left[x[1] - 1]) * tiers[x[1]].rate]
  <2>1. \A i \in 1..n : left[i - 1] \in Int
    BY <1>1, <1>6
  <2>2. \A i \in 1..n : Band(tiers[i], left[i - 1]) * tiers[i].rate \in Int
    <3> TAKE i \in 1..n
    <3>1. Band(tiers[i], left[i - 1]) \in Int /\ tiers[i].rate \in Nat
      <4>1. tiers[i] \in Tier /\ left[i - 1] \in Int
        BY <1>2, <2>1
      <4>2. QED
        BY <4>1, BandIsNumber
    <3>2. \A a \in Int, b \in Int : a * b \in Int
      OBVIOUS
    <3>3. QED
      BY <3>1, <3>2
  <2>3. Step \in [(1..n) \X Int -> Int]
    BY <2>2
  <2>4. \A i \in 1..n, x \in Int :
          Step[<<i, x>>] = x + Band(tiers[i], left[i - 1]) * tiers[i].rate
    OBVIOUS
  <2> HIDE DEF Step
  <2>5. PICK f \in [0..n -> Int] :
          f[0] = 0 /\ \A i \in 1..n : f[i] = Step[<<i, f[i - 1]>>]
    <3>1. 0 \in Int /\ n \in Nat
      BY <1>1
    <3> HIDE DEF n
    <3>2. QED
      BY <2>3, <3>1, Recursion
  <2>6. ASSUME NEW i \in 1..n
        PROVE  f[i] = f[i - 1] + Band(tiers[i], left[i - 1]) * tiers[i].rate
    <3>1. f[i - 1] \in Int
      BY <1>1, <2>5
    <3>2. QED
      BY <2>4, <2>5, <3>1
  <2>7. \A i \in 0..n :
          f[i] = IF i = 0 THEN 0
                 ELSE f[i - 1] + Band(tiers[i], left[i - 1]) * tiers[i].rate
    BY <1>1, <2>5, <2>6
  <2>8. IsCharge(f)
    BY <2>5, <2>7
  <2>9. QED
    BY <2>8
<1> HIDE DEF charge
<1>8. /\ charge[0] = 0 /\ charge \in [0..n -> Int]
      /\ \A i \in 1..n :
           charge[i] = charge[i - 1] + Band(tiers[i], left[i - 1]) * tiers[i].rate
  <2>1. /\ charge[0] = 0
        /\ \A i \in 1..n :
             charge[i] = charge[i - 1] + Band(tiers[i], left[i - 1]) * tiers[i].rate
    <3>1. \A i \in 0..n :
            charge[i] = IF i = 0 THEN 0
                        ELSE charge[i - 1] + Band(tiers[i], left[i - 1]) * tiers[i].rate
      BY <1>7, Zenon
    <3>2. QED
      BY <1>1, <3>1
  <2>2. \A i \in 1..n : Band(tiers[i], left[i - 1]) * tiers[i].rate \in Int
    <3> TAKE i \in 1..n
    <3>1. tiers[i] \in Tier /\ left[i - 1] \in Int
      BY <1>1, <1>2, <1>6
    <3>2. Band(tiers[i], left[i - 1]) \in Int /\ tiers[i].rate \in Nat
      BY <3>1, BandIsNumber
    <3>3. \A a \in Int, b \in Int : a * b \in Int
      OBVIOUS
    <3>4. QED
      BY <3>2, <3>3
  <2>3. charge[0] \in Int /\ \A i \in 1..n : charge[i - 1] \in Int => charge[i] \in Int
    BY <1>1, <2>1, <2>2
  <2>4. \A i \in 0..n : charge[i] \in Int
    BY <1>1, <2>3, RecursionTyped, Zenon
  <2>5. charge = [i \in 0..n |-> charge[i]]
    BY <1>7
  <2>6. QED
    BY <2>1, <2>4, <2>5
<1>9. QED
  BY <1>3, <1>6, <1>8

\* One kWh more.
LEMMA OneMore ==
  ASSUME NEW price \in Int, NEW min \in Int, NEW k \in Int, NEW rate \in Int
  PROVE  /\ price + (min - min) * rate = price
         /\ (price + ((k - 1) - min) * rate) + rate = price + (k - min) * rate
<1>1. min - min = 0 /\ 0 * rate = 0
  OBVIOUS
<1>2. ((k - 1) - min) * rate + rate = (k - min) * rate
  OBVIOUS
<1>3. ((k - 1) - min) * rate \in Int /\ (k - min) * rate \in Int
  OBVIOUS
<1>4. QED
  BY <1>1, <1>2, <1>3

\* What a tier takes of a consumption.
LEMMA BandTakes ==
  ASSUME NEW tier, NEW min \in Nat, min = tier.min, NEW left \in Nat
  PROVE  /\ tier.max = NoMax => Band(tier, left) = left
         /\ \A max \in Nat : max = tier.max /\ max # NoMax /\ min < max =>
              Band(tier, left) = IF left < max - min THEN left ELSE max - min
BY DEF Band, Width

\* Within a tier the price grows by its rate.
LEMMA PriceWithin ==
  ASSUME NEW tiers \in Seq(Tier), Whole(tiers), NEW kwh \in Nat,
         NEW price \in [0..kwh -> Int],
         \A k \in 1..kwh : price[k] = price[k - 1] + RateOf(tiers, k),
         NEW i \in 1..Len(tiers), NEW to \in 0..kwh, tiers[i].min <= to,
         tiers[i].max = NoMax \/ to <= tiers[i].max
  PROVE  price[to] = price[tiers[i].min] + (to - tiers[i].min) * tiers[i].rate
<1> DEFINE min == tiers[i].min
           rate == tiers[i].rate
           T == {k \in min..to : price[k] # price[min] + (k - min) * rate}
<1>1. min \in Nat /\ rate \in Nat /\ to \in Nat /\ min <= to /\ min \in 0..kwh
  BY TiersAre
<1>2. \A k \in 1..kwh : min < k /\ k <= to => RateOf(tiers, k) = rate
  <2> SUFFICES ASSUME NEW k \in 1..kwh, min < k, k <= to PROVE RateOf(tiers, k) = rate
    OBVIOUS
  <2>1. i # Len(tiers) => tiers[i].max \in Nat
    BY TiersAre
  <2>2. i = Len(tiers) => tiers[i].max = NoMax
    BY TiersAre
  <2>3. tiers[i].max = NoMax \/ k <= tiers[i].max
    <3>1. \A n \in Nat : to <= n => k <= n
      BY <1>1
    <3>2. CASE i = Len(tiers)
      BY <2>2, <3>2
    <3>3. CASE i # Len(tiers)
      <4>1. tiers[i].max \in Nat /\ to <= tiers[i].max
        BY <2>1, <3>3, ChargesAssumption
      <4>2. QED
        BY <3>1, <4>1
    <3>4. QED
      BY <3>2, <3>3
  <2>4. Holds(tiers[i], k)
    BY <2>3 DEF Holds
  <2>5. QED
    BY <2>4, RateIs
<1> HIDE DEF min, rate
<1>3. T = {}
  <2> SUFFICES ASSUME T # {} PROVE FALSE
    OBVIOUS
  <2>1. T \in SUBSET Nat /\ T \in SUBSET (min..to)
    BY <1>1
  <2>2. PICK k \in T : \A j \in T : k <= j
    <3> HIDE DEF T
    <3>1. QED
      BY <2>1, LeastNumber
  <2>3. k \in min..to /\ price[k] # price[min] + (k - min) * rate
    BY <2>2
  <2>4. price[min] \in Int
    BY <1>1
  <2>5. k # min
    BY <1>1, <2>3, <2>4, OneMore
  <2>6. k - 1 \in min..to /\ k \in 1..kwh /\ min < k /\ k <= to
    BY <1>1, <2>3, <2>5
  <2>7. k - 1 \notin T
    <3> HIDE DEF T
    <3>1. QED
      BY <2>1, <2>2, <2>6
  <2>8. price[k - 1] = price[min] + ((k - 1) - min) * rate
    BY <2>6, <2>7
  <2>9. price[k] = price[k - 1] + rate
    BY <1>2, <2>6
  <2>10. QED
    BY <1>1, <2>3, <2>4, <2>6, <2>8, <2>9, OneMore
<1>4. to \in min..to
  BY <1>1
<1>5. price[to] = price[min] + (to - min) * rate
  BY <1>3, <1>4
<1>6. QED
  BY <1>5 DEF min, rate

\* What the loop has left and charged when it comes to a tier.
Reached(tiers, kwh, price, left, charge, i) ==
  LET min == tiers[i + 1].min IN
  /\ left[i] = IF kwh > min THEN kwh - min ELSE 0
  /\ charge[i] = price[IF kwh > min THEN min ELSE kwh]

\* The price kWh by kWh.
Prices(tiers, kwh, price) ==
  /\ price \in [0..kwh -> Int]
  /\ \A k \in 1..kwh : price[k] = price[k - 1] + RateOf(tiers, k)

\* One turn of the loop.
TakesTier(tiers, left, charge, i) ==
  /\ left[i] = left[i - 1] - Band(tiers[i], left[i - 1])
  /\ charge[i] = charge[i - 1] + Band(tiers[i], left[i - 1]) * tiers[i].rate

\* One tier of the loop.
LEMMA TierCharges ==
  ASSUME NEW tiers \in Seq(Tier), Whole(tiers), NEW kwh \in Nat,
         NEW price, Prices(tiers, kwh, price),
         NEW left, NEW charge, NEW i \in 1..Len(tiers), TakesTier(tiers, left, charge, i),
         Reached(tiers, kwh, price, left, charge, i - 1)
  PROVE  /\ i # Len(tiers) => Reached(tiers, kwh, price, left, charge, i)
         /\ i = Len(tiers) => charge[i] = price[kwh]
<1> DEFINE min == tiers[i].min
           max == tiers[i].max
           rate == tiers[i].rate
           band == Band(tiers[i], left[i - 1])
<1>1. /\ min \in Nat /\ rate \in Nat /\ (i - 1) + 1 = i
      /\ i # Len(tiers) => max \in Nat /\ max # NoMax /\ max = tiers[i + 1].min /\ min < max
      /\ i = Len(tiers) => max = NoMax
  BY TiersAre
<1>2. /\ left[i - 1] = IF kwh > min THEN kwh - min ELSE 0
      /\ charge[i - 1] = price[IF kwh > min THEN min ELSE kwh]
  BY <1>1 DEF Reached
<1>3. \A to \in 0..kwh : min <= to /\ (max = NoMax \/ to <= max) =>
        price[to] = price[min] + (to - min) * rate
  BY PriceWithin DEF Prices
<1>4. /\ max = NoMax => \A n \in Nat : left[i - 1] = n => band = n
      /\ max # NoMax => \A n \in Nat : left[i - 1] = n =>
           band = IF n < max - min THEN n ELSE max - min
  BY <1>1, BandTakes
<1>5. /\ left[i] = left[i - 1] - band
      /\ charge[i] = charge[i - 1] + band * rate
      /\ i # Len(tiers) =>
           (Reached(tiers, kwh, price, left, charge, i) <=>
              /\ left[i] = IF kwh > max THEN kwh - max ELSE 0
              /\ charge[i] = price[IF kwh > max THEN max ELSE kwh])
      /\ i = Len(tiers) \/ i # Len(tiers)
  BY <1>1 DEF Reached, TakesTier
<1>6. price[kwh] \in Int /\ 0 * rate = 0 /\ kwh \in 0..kwh
  BY <1>1 DEF Prices
<1> HIDE DEF min, max, rate, band
<1>7. CASE kwh <= min
  <2>1. left[i - 1] = 0 /\ charge[i - 1] = price[kwh]
    BY <1>1, <1>2, <1>7
  <2>2. band = 0
    BY <2>1 DEF Band, band
  <2>3. left[i] = 0 /\ charge[i] = price[kwh]
    BY <1>5, <1>6, <2>1, <2>2
  <2>4. QED
    BY <1>1, <1>5, <1>7, <2>3
<1>8. CASE kwh > min /\ (max = NoMax \/ kwh < max)
  <2>1. left[i - 1] = kwh - min /\ charge[i - 1] = price[min] /\ kwh - min \in Nat
    BY <1>1, <1>2, <1>8
  <2>2. band = kwh - min
    BY <1>1, <1>4, <1>8, <2>1
  <2>3. price[kwh] = price[min] + (kwh - min) * rate
    BY <1>1, <1>3, <1>6, <1>8
  <2>4. left[i] = 0 /\ charge[i] = price[kwh]
    BY <1>1, <1>5, <2>1, <2>2, <2>3
  <2>5. QED
    BY <1>1, <1>5, <1>8, <2>4
<1>9. CASE kwh > min /\ max # NoMax /\ kwh >= max
  <2>1. left[i - 1] = kwh - min /\ charge[i - 1] = price[min] /\ i # Len(tiers)
        /\ kwh - min \in Nat /\ max \in Nat /\ min < max
    BY <1>1, <1>2, <1>9
  <2>2. band = max - min
    BY <1>1, <1>4, <1>9, <2>1
  <2>3. price[max] = price[min] + (max - min) * rate
    <3>1. max \in 0..kwh
      BY <1>9, <2>1
    <3>2. min <= max /\ max <= max
      BY <1>1, <2>1
    <3>3. QED
      BY <1>3, <3>1, <3>2
  <2>4. left[i] = kwh - max /\ charge[i] = price[max]
    BY <1>1, <1>5, <2>1, <2>2, <2>3
  <2>5. QED
    BY <1>5, <1>9, <2>1, <2>4
<1>10. kwh <= min \/ kwh > min
  BY <1>1
<1>11. kwh < max \/ kwh >= max \/ max = NoMax
  BY <1>1
<1>12. QED
  BY <1>7, <1>8, <1>9, <1>10, <1>11

\* The loop that charges by the width of a tier finds the price kWh by kWh.
LEMMA LoopFindsPrice ==
  ASSUME NEW tiers \in Seq(Tier), Whole(tiers), NEW kwh \in Nat
  PROVE  TierCharge(tiers, kwh) = PriceByKwh(tiers, kwh)
<1> DEFINE n == Len(tiers)
<1>1. n \in Nat \ {0} /\ tiers[1].min = 0
  BY TiersAre
<1>2. PICK price :
        /\ price[0] = 0 /\ Prices(tiers, kwh, price)
        /\ PriceByKwh(tiers, kwh) = price[kwh]
  BY PriceIs DEF Prices
<1>3. PICK left \in [0..Len(tiers) -> Int], charge \in [0..Len(tiers) -> Int] :
         /\ left[0] = kwh /\ charge[0] = 0
         /\ \A i \in 1..Len(tiers) :
              /\ left[i] = left[i - 1] - Band(tiers[i], left[i - 1])
              /\ charge[i] = charge[i - 1] + Band(tiers[i], left[i - 1]) * tiers[i].rate
         /\ TierCharge(tiers, kwh) = charge[Len(tiers)]
  BY TierChargeIs
<1>4. /\ left[0] = kwh /\ charge[0] = 0
      /\ \A i \in 1..n : TakesTier(tiers, left, charge, i)
      /\ TierCharge(tiers, kwh) = charge[n]
  BY <1>3 DEF TakesTier
<1> DEFINE At(i) == Reached(tiers, kwh, price, left, charge, i)
           T == {i \in 0..(n - 1) : ~At(i)}
<1>5. At(0)
  BY <1>1, <1>2, <1>4 DEF Reached
<1>6. ASSUME NEW i \in 1..n, At(i - 1)
      PROVE  (i # n => At(i)) /\ (i = n => charge[i] = price[kwh])
  BY <1>2, <1>4, <1>6, TierCharges
<1> HIDE DEF At, n
<1>7. T = {}
  <2> SUFFICES ASSUME T # {} PROVE FALSE
    OBVIOUS
  <2>1. PICK i \in T : \A j \in T : i <= j
    <3>1. T \in SUBSET Nat
      BY <1>1
    <3> HIDE DEF T
    <3>2. QED
      BY <3>1, LeastNumber
  <2>2. i \in 1..n /\ i # n /\ i - 1 \in 0..(n - 1)
    BY <1>1, <1>5, <2>1
  <2>3. i - 1 \notin T
    <3> HIDE DEF T
    <3>1. QED
      BY <2>1, <2>2
  <2>4. QED
    BY <1>6, <2>1, <2>2, <2>3
<1>8. n - 1 \in 0..(n - 1) /\ n \in 1..n
  BY <1>1
<1>9. charge[n] = price[kwh]
  BY <1>6, <1>7, <1>8
<1>10. QED
  BY <1>2, <1>4, <1>9

-----------------------------------------------------------------------------
(* The theorems.                                                           *)

\* Every state of every behaviour of readings, edits, reviews, runs and bills
\* satisfies the inductive invariant.
THEOREM InductiveInvariant == Spec => []IInv
<1>1. Init => IInv BY InitHolds
<1>2. IInv /\ [Next]_vars => IInv' BY NextKeeps
<1> QED BY <1>1, <1>2, PTL DEF Spec

\* The state stays within the rows the tables can hold.
THEOREM TypeOKHolds == Spec => []TypeOK
<1>1. IInv => TypeOK BY DEF IInv
<1> QED BY <1>1, InductiveInvariant, PTL

\* A missing value in a bill of a routine run was approved by a reviewer at some
\* time, or arrived after readiness was evaluated.
THEOREM BlankPassedGateHolds == Spec => []BlankPassedGate
<1>1. IInv => BlankPassedGate
  <2> SUFFICES ASSUME IInv, NEW u \in Units, NEW v \in Versions, Billed(u, v),
                      ~run[v].recovered,
                      NEW f \in {bill[u][v].opening, bill[u][v].closing},
                      reading[f].blank, f \in run[v].judged
               PROVE  f \in waived
    BY DEF BlankPassedGate
  <2>1. bill[u][v] # NoBill BY DEF Billed, NoBill
  <2>2. run[v].submitted BY <2>1 DEF IInv, BillsKeep
  <2> QED BY <2>2 DEF IInv, GateHeld
<1> QED BY <1>1, InductiveInvariant, PTL

\* No unit of a recovered run lacks the readings of its bill.
THEOREM EligibleIsBillableHolds == Spec => []EligibleIsBillable
<1>1. IInv => EligibleIsBillable BY DEF IInv
<1> QED BY <1>1, InductiveInvariant, PTL

\* Bills of runs whose periods lie within the time of their versions charge no
\* day twice.
THEOREM ChargedOnceHolds == Spec => []ChargedOnce
<1>1. IInv => ChargedOnce
  <2> SUFFICES ASSUME IInv, NEW u \in Units, NEW v \in Versions,
                      NEW w \in Versions, v < w, Billed(u, v), Billed(u, w),
                      Contained(v), Contained(w)
               PROVE  bill[u][v].closing[2] <= bill[u][w].opening[2]
    BY DEF ChargedOnce
  <2>1. bill[u][v] \notin {NoBill, Unread} /\ bill[u][w] \notin {NoBill, Unread}
    BY DEF Billed, NoBill, Unread
  <2>2. /\ run[v].submitted /\ run[w].submitted
        /\ Keeps(u, v) /\ Keeps(u, w)
        /\ IsBill(bill[u][v]) /\ IsBill(bill[u][w])
    BY <2>1 DEF IInv, BillsKeep, TypeOK
  <2>3. run[v].period \in Period /\ run[w].period \in Period
    BY <2>2, RunTyped DEF IInv
  <2>4. PICK cl, op, e, s :
          /\ cl = bill[u][v].closing[2] /\ op = bill[u][w].opening[2]
          /\ e = run[v].period.end /\ s = run[w].period.start
    OBVIOUS
  <2>5. e \in Int /\ s \in Int BY <2>3, <2>4 DEF Period
  <2>6. cl \in Int /\ op \in Int
    <3>1. \A f \in Files : f[2] \in Int
      BY CalendarAssumption, MeteringAssumption DEF Days
    <3> QED BY <3>1, <2>2, <2>4 DEF IsBill
  <2>7. cl <= e /\ s <= op
    <3>1. /\ bill[u][v].closing[2] \in run[v].period.start..e
          /\ bill[u][w].opening[2] \in s..run[w].period.end
      BY <2>2, <2>4 DEF Keeps
    <3>2. run[v].period.start \in Int /\ run[w].period.end \in Int
      BY <2>3 DEF Period
    <3> QED BY <3>1, <3>2, <2>4, <2>5
  <2>8. w <= current /\ current \in Versions BY <2>2 DEF IInv, VersionsInOrder, TypeOK
  <2>9. /\ v \in Nat /\ w \in Nat /\ current \in Nat
        /\ v \in 1..current /\ w \in 1..current /\ v + 1 \in 1..current
        /\ v < current
    <3>1. \A x \in Versions : x \in Nat /\ x >= 1 BY MeteringAssumption DEF Versions
    <3> QED BY <3>1, <2>8
  <2>10. from[v + 1] <= from[w]
    <3>0. from[v + 1] \in Int
      BY <2>8, <2>9, VersionsAreFirst, CalendarAssumption DEF IInv, TypeOK, Days
    <3>1. CASE v + 1 = w BY <3>0, <3>1
    <3>2. CASE v + 1 # w
      <4>1. v + 1 < w BY <2>9, <3>2
      <4> QED BY <4>1, <2>9 DEF IInv, VersionsInOrder
    <3> QED BY <3>1, <3>2
  <2>11. e <= from[v + 1] /\ s >= from[w] BY <2>4, <2>9 DEF Contained
  <2>12. from[v + 1] \in Int /\ from[w] \in Int
    <3>1. v + 1 \in Versions BY <2>8, <2>9, VersionsAreFirst
    <3>2. from \in [Versions -> Int]
      BY CalendarAssumption DEF IInv, TypeOK, Days
    <3> QED BY <3>1, <3>2
  <2>13. cl <= op BY <2>5, <2>6, <2>7, <2>10, <2>11, <2>12
  <2> QED BY <2>4, <2>13
<1> QED BY <1>1, InductiveInvariant, PTL

\* A negative consumption mixes two meters or contains a missing value, for the
\* counter of one meter does not run backwards.
THEOREM NegativeMeansMixedHolds == Spec => []NegativeMeansMixed
<1>1. IInv => NegativeMeansMixed
  <2> SUFFICES ASSUME IInv, NEW u \in Units, NEW v \in Versions,
                      bill[u][v].outcome = "negative",
                      bill[u][v].opening[1] = bill[u][v].closing[1],
                      ~reading[bill[u][v].opening].blank,
                      ~reading[bill[u][v].closing].blank
               PROVE  FALSE
    BY DEF NegativeMeansMixed
  <2>1. bill[u][v] \notin {NoBill, Unread} BY DEF NoBill, Unread
  <2>2. Keeps(u, v) /\ IsBill(bill[u][v]) BY <2>1 DEF IInv, BillsKeep, TypeOK
  <2>3. PICK f \in Files, g \in Files :
          f = bill[u][v].opening /\ g = bill[u][v].closing
    BY <2>2 DEF IsBill
  <2>4. f[1] = g[1] /\ f[2] <= g[2] /\ Value(g) - Value(f) < 0
    BY <2>2, <2>3 DEF Keeps
  <2>5. Value(f) = Dial[f] /\ Value(g) = Dial[g] BY <2>3 DEF Value
  <2>6. Dial[f] \in Nat /\ Dial[g] \in Nat BY MeteringAssumption
  <2>7. CASE f[2] < g[2]
    <3>1. Dial[f] <= Dial[g] BY <2>4, <2>7, MeteringAssumption
    <3> QED BY <3>1, <2>4, <2>5, <2>6
  <2>8. CASE f[2] = g[2]
    <3>1. f \in Meters \X Days /\ g \in Meters \X Days BY MeteringAssumption
    <3>2. f = g BY <3>1, <2>4, <2>8
    <3> QED BY <3>2, <2>4, <2>5, <2>6
  <2>9. f[2] \in Int /\ g[2] \in Int
    BY CalendarAssumption, MeteringAssumption DEF Days
  <2> QED BY <2>4, <2>7, <2>8, <2>9
<1> QED BY <1>1, InductiveInvariant, PTL

\* The amount is settled when the unit is billed, and by no other action.
LEMMA AmountsStay ==
  ASSUME TypeOK, AmountsKeep, [Next]_vars
  PROVE  AmountsKeep'
<1>1. CASE UNCHANGED bill
  BY <1>1 DEF AmountsKeep, Billed
<1>2. ASSUME NEW u \in Units, NEW v \in Versions, BillUnit(u, v)
      PROVE  AmountsKeep'
  <2>1. PICK F : F = Used(u, run[v].period) OBVIOUS
  <2>2. PICK b : /\ b \in {Charged(u, x[1], x[2]) : x \in FirstAndLast(F)}
                         \cup (IF FirstAndLast(F) = {} THEN {Unread} ELSE {})
                 /\ bill' = [bill EXCEPT ![u][v] = b]
    BY <1>2, <2>1 DEF BillUnit
  <2>3. /\ bill'[u][v] = b
        /\ \A y \in Units, w \in Versions :
             y # u \/ w # v => bill'[y][w] = bill[y][w]
    BY <2>2 DEF TypeOK
  <2>4. b.outcome = "billed" =>
          /\ b.kwh \in Nat
          /\ b.subtotal = ConsumptionCharge(TariffOf[u], b.kwh) + TariffOf[u].fee
    <3>1. SUFFICES ASSUME b.outcome = "billed",
                          NEW x \in FirstAndLast(F), b = Charged(u, x[1], x[2])
                   PROVE  /\ b.kwh \in Nat
                          /\ b.subtotal =
                               ConsumptionCharge(TariffOf[u], b.kwh) + TariffOf[u].fee
      BY <2>2 DEF Unread
    <3>2. x[1] \in Files /\ x[2] \in Files
      BY <2>1 DEF FirstAndLast, Used, InPeriod
    <3>3. Value(x[2]) - Value(x[1]) \in Int BY <3>2, ValueIsNumber
    <3>4. /\ b.kwh = Value(x[2]) - Value(x[1])
          /\ b.subtotal = calculateCharges(TariffOf[u], b.kwh).subtotal
          /\ b.kwh < 0 => b.outcome = "negative"
      BY <3>1 DEF Charged
    <3>5. calculateCharges(TariffOf[u], b.kwh).subtotal =
            ConsumptionCharge(TariffOf[u], b.kwh) + TariffOf[u].fee
      BY DEF calculateCharges
    <3> QED BY <3>1, <3>3, <3>4, <3>5
  <2>5. ASSUME NEW y \in Units, NEW w \in Versions, bill'[y][w].outcome = "billed"
        PROVE  /\ bill'[y][w].kwh \in Nat
               /\ bill'[y][w].subtotal =
                    ConsumptionCharge(TariffOf[y], bill'[y][w].kwh) + TariffOf[y].fee
    <3>1. CASE y = u /\ w = v BY <3>1, <2>3, <2>4, <2>5
    <3>2. CASE y # u \/ w # v BY <3>2, <2>3, <2>5 DEF AmountsKeep, Billed
    <3> QED BY <3>1, <3>2
  <2> QED BY <2>5 DEF AmountsKeep, Billed
<1> QED
  BY <1>1, <1>2 DEF Next, vars, NextDay, TakesOver, Ingest, EditReads, EditSaves,
                    ReviewReads, ReviewSaves, Submit, Recover

\* The amount of a bill on tiers without gaps is the price of its kWh one by one:
\* calculateCharges, which forgets where a tier begins, finds it for every tariff
\* and every consumption.
THEOREM ChargedByBandHolds == Spec => []ChargedByBand
<1>1. Init => AmountsKeep
  BY DEF Init, AmountsKeep, Billed, NoBill
<1>2. TypeOK /\ AmountsKeep /\ [Next]_vars => AmountsKeep' BY AmountsStay
<1>3. AmountsKeep => ChargedByBand
  <2> SUFFICES ASSUME AmountsKeep, NEW u \in Units, NEW v \in Versions, Billed(u, v),
                      TariffOf[u].rateType = "TIERED", Whole(TariffOf[u].tiers)
               PROVE  bill[u][v].subtotal =
                        Round(PriceByKwh(TariffOf[u].tiers, bill[u][v].kwh), 100)
                          + TariffOf[u].fee
    BY DEF ChargedByBand
  <2>1. PICK t : t = TariffOf[u] OBVIOUS
  <2>2. PICK kwh \in Nat : kwh = bill[u][v].kwh BY DEF AmountsKeep
  <2>3. t.tiers \in Seq(Tier) BY <2>1, MeteringAssumption DEF Tariff
  <2>4. TierCharge(t.tiers, kwh) = PriceByKwh(t.tiers, kwh)
    BY <2>1, <2>3, LoopFindsPrice
  <2>5. ConsumptionCharge(t, kwh) = Round(PriceByKwh(t.tiers, kwh), 100)
    BY <2>1, <2>4 DEF ConsumptionCharge
  <2>6. bill[u][v].subtotal = ConsumptionCharge(t, kwh) + t.fee
    BY <2>1, <2>2 DEF AmountsKeep
  <2> QED BY <2>1, <2>2, <2>5, <2>6
<1> QED BY <1>1, <1>2, <1>3, TypeOKHolds, PTL DEF Spec
===============================================================================
