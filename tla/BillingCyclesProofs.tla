-------------------------- MODULE BillingCyclesProofs --------------------------
(***************************************************************************)
(* Proofs about BillingCycles and ReadingPeriods, for any calendar, number *)
(* of versions and makers.  The inductive invariant is IInv.  Four eyes    *)
(* rests on the resubmission wiping the signature of the last review; that *)
(* only approved versions go live rests on that too (SignedIsRatified) and *)
(* on the nightly job's list being fresh (ListIsFresh), which nothing      *)
(* ensures when requests and the job interleave.                           *)
(***************************************************************************)
EXTENDS BillingCycles, TLAPS

-----------------------------------------------------------------------------
(* Reading periods.                                                        *)

LEMMA MonthOfUnique ==
  ASSUME NEW m \in 1..Months, NEW d \in Nat,
         FirstDay[m] <= d, d < FirstDay[m + 1]
  PROVE  MonthOf(d) = m
<1>1. ASSUME NEW k \in 1..Months, FirstDay[k] <= d /\ d < FirstDay[k + 1]
      PROVE  k = m
  <2>1. /\ \A i \in 1..(Months + 1) : FirstDay[i] \in Nat
        /\ Months \in Nat /\ k + 1 \in 1..(Months + 1) /\ m + 1 \in 1..(Months + 1)
    BY CalendarAssumption
  <2>2. CASE k < m
    <3>1. FirstDay[k + 1] <= FirstDay[m]
      BY <2>1, <2>2, CalendarAssumption
    <3> QED BY <1>1, <2>1, <3>1
  <2>3. CASE m < k
    <3>1. FirstDay[m + 1] <= FirstDay[k]
      BY <2>1, <2>3, CalendarAssumption
    <3> QED BY <1>1, <2>1, <3>1
  <2> QED BY <2>2, <2>3
<1> QED BY <1>1 DEF MonthOf

\* Rules whose days every month has.
Fits(rule, m) == rule[1] <= LengthOf(m) /\ rule[2] <= LengthOf(m)

\* A period is not empty and ends no later than the next one begins, whether it
\* stays in its month or runs over into the next: readingPeriodAnchoredTo.
THEOREM PeriodsTile ==
  ASSUME NEW rule \in ReadingRule, NEW m \in 1..(Months - 1), Fits(rule, m)
  PROVE  /\ PeriodStart(rule, m) < PeriodEnd(rule, m)
         /\ PeriodEnd(rule, m) <= PeriodStart(rule, m + 1)
<1>1. /\ rule[1] \in 1..31 /\ rule[2] \in 1..31
      /\ FirstDay[m] \in Nat /\ FirstDay[m + 1] \in Nat
      /\ FirstDay[m] < FirstDay[m + 1]
      /\ m \in 1..Months /\ m + 1 \in 1..Months
  BY CalendarAssumption DEF ReadingRule
<1>2. MonthOf(PeriodStart(rule, m)) = m
  BY <1>1, MonthOfUnique DEF Fits, LengthOf, PeriodStart, DayOf
<1>3. CASE rule[2] <= rule[1]
  BY <1>1, <1>2, <1>3
     DEF PeriodStart, PeriodEnd, EndMonthOffset, DayOf, Fits, LengthOf
<1>4. CASE ~(rule[2] <= rule[1])
  BY <1>1, <1>2, <1>4
     DEF PeriodStart, PeriodEnd, EndMonthOffset, DayOf, Fits, LengthOf
<1> QED BY <1>3, <1>4

-----------------------------------------------------------------------------
(* Rows.                                                                   *)

ClockType == today \in Days /\ configured \in BOOLEAN
RowsType  ==
  /\ current \in Versions \cup {NoVersion}
  /\ ver \in [Versions -> Row \cup {NoRow}]
  /\ wf \in [Versions -> {"NONE", "WAITING", "COMPLETED", "REJECTED"}]
ReqType   == req \in [Makers -> {Idle} \cup Request]
JobType   == job \in {Idle} \cup Job
HistType  == live \subseteq Versions /\ ratified \subseteq Versions

LEMMA TypeParts ==
  ASSUME TypeOK
  PROVE  ClockType /\ RowsType /\ ReqType /\ JobType /\ HistType
BY DEF TypeOK, ClockType, RowsType, ReqType, JobType, HistType

LEMMA TypePartsNext ==
  ASSUME ClockType', RowsType', ReqType', JobType', HistType'
  PROVE  TypeOK'
BY DEF TypeOK, ClockType, RowsType, ReqType, JobType, HistType

LEMMA NoRowIsNoRow == NoRow \notin Row
<1>1. NoRow.status \notin Status
  BY DEF NoRow, Status
<1> QED BY <1>1 DEF Row

LEMMA StoredRows ==
  ASSUME RowsType, NEW v \in Versions
  PROVE  /\ v \in Stored <=> ver[v] \in Row
         /\ v \notin Stored <=> ver[v] = NoRow
         /\ v \in Stored <=> ver[v].status \in Status
         /\ v \in Stored <=> ver[v].status # "NONE"
<1>1. ver[v] \in Row => ver[v].status \in Status
  BY DEF Row
<1>2. NoRow.status = "NONE" /\ "NONE" \notin Status
  BY DEF NoRow, Status
<1> QED BY <1>1, <1>2, NoRowIsNoRow DEF RowsType, Stored

LEMMA RowFields ==
  ASSUME NEW x \in Row
  PROVE  /\ x.status \in Status /\ x.parent \in Versions \cup {NoVersion}
         /\ x.rule \in Rules /\ x.from \in Days \cup {NoDay}
         /\ x.until \in Days \cup {NoDay} /\ x.by \in Users \cup {None}
         /\ x.approver \in Users \cup {None}
BY DEF Row

\* The saves of a row change its status, dates, parent, submitter and reviewer.
LEMMA RowSaved ==
  ASSUME NEW x \in Row, NEW s \in Status, NEW d \in Days \cup {NoDay},
         NEW p \in Versions \cup {NoVersion}, NEW b \in Users \cup {None},
         NEW a \in Users \cup {None}
  PROVE  [x EXCEPT !.status = s, !.until = d, !.parent = p, !.by = b,
                   !.approver = a] \in Row
BY DEF Row

\* Saving columns of a stored row.
LEMMA SaveType ==
  ASSUME RowsType, NEW v \in Stored, NEW x \in Row
  PROVE  [ver EXCEPT ![v] = x] \in [Versions -> Row \cup {NoRow}]
BY DEF RowsType, Stored

\* A row that a step leaves alone as far as four eyes and signatures go.
Alike(v) ==
  /\ ver'[v].by = ver[v].by /\ ver'[v].approver = ver[v].approver
  /\ ver'[v].status = "PENDING" => ver[v].status = "PENDING"

LEMMA AlikeKeeps ==
  ASSUME FourEyes, SignedIsRatified, ratified \subseteq ratified',
         \A v \in Versions : Alike(v)
  PROVE  FourEyes' /\ SignedIsRatified'
BY DEF FourEyes, SignedIsRatified, Alike

\* Likewise when v is the only row that is not.
LEMMA AlikeButOne ==
  ASSUME FourEyes, SignedIsRatified, NEW v \in Versions,
         ratified \ {v} \subseteq ratified',
         \A w \in Versions \ {v} : Alike(w),
         ver'[v].by # None => ver'[v].approver # ver'[v].by,
         ver'[v].status = "PENDING" /\ ver'[v].approver # None => v \in ratified'
  PROVE  FourEyes' /\ SignedIsRatified'
BY DEF FourEyes, SignedIsRatified, Alike

\* No row is ever deleted, so that what is in flight still refers to rows.
LEMMA RefersStill ==
  ASSUME RefersToStored, UNCHANGED <<req, job>>, Stored \subseteq Stored'
  PROVE  RefersToStored'
BY DEF RefersToStored

\* Without overlap nobody but the job moves while it runs.
LEMMA FreshStill ==
  ASSUME ~Overlap => ListIsFresh, UNCHANGED job, Awake
  PROVE  ~Overlap => ListIsFresh'
BY DEF ListIsFresh, Awake

LEMMA FreshUntouched ==
  ASSUME ~Overlap => ListIsFresh, UNCHANGED <<job, req>>, ratified \subseteq ratified'
  PROVE  ~Overlap => ListIsFresh'
BY DEF ListIsFresh

\* A request in flight: the job cannot be running without overlap.
LEMMA InFlightAwake ==
  ASSUME ~Overlap => ListIsFresh, NEW m \in Makers, req[m] # Idle
  PROVE  Awake
BY DEF ListIsFresh, Awake

-----------------------------------------------------------------------------
(* The makers.                                                             *)

LEMMA RequestFields ==
  ASSUME NEW x \in {Idle} \cup Request, x.phase = "write"
  PROVE  /\ x.kind \in {"create", "newVersion", "resubmit", "deprecate"}
         /\ x.id \in Versions \cup {NoVersion} /\ x.status \in Status
         /\ x.day \in Days \cup {NoDay} /\ x.children \in SUBSET Versions
         /\ x # Idle
BY DEF Idle, Request

\* A read: what it will write is typed and is about a stored row.
LEMMA ReadKeeps ==
  ASSUME IInv, NEW m \in Makers, NEW v \in Versions \cup {NoVersion},
         NEW kind \in {"create", "newVersion", "resubmit", "deprecate"},
         NEW status \in Status, NEW day \in Days \cup {NoDay},
         Reads(m, kind, v, status, day),
         kind \in {"resubmit", "deprecate"} => v \in Stored,
         kind = "deprecate" => status # "PENDING"
  PROVE  IInv'
<1>0. /\ ClockType /\ RowsType /\ ReqType /\ JobType /\ HistType
      /\ RefersToStored /\ FourEyes /\ SignedIsRatified /\ (~Overlap => ListIsFresh)
  BY TypeParts DEF IInv
<1> DEFINE new == [phase |-> "write", kind |-> kind, id |-> v, status |-> status,
                   day |-> day, children |-> {c \in Stored : ver[c].parent = v}]
<1>1. /\ req' = [req EXCEPT ![m] = new]
      /\ UNCHANGED <<today, configured, current, ver, wf, job, live, ratified>>
      /\ Awake
  BY DEF Reads, rows, hist
<1>2. new \in Request
  BY DEF Request, Stored
<1>3. TypeOK'
  <2>1. ReqType'
    <3> HIDE DEF new
    <3> QED BY <1>0, <1>1, <1>2 DEF ReqType
  <2>2. ClockType' /\ RowsType' /\ JobType' /\ HistType'
    BY <1>0, <1>1 DEF ClockType, RowsType, JobType, HistType
  <2> QED BY <2>1, <2>2, TypePartsNext
<1>4. RefersToStored'
  <2>1. Stored' = Stored
    BY <1>1 DEF Stored
  <2>2. job # Idle => \A row \in job.todo : row.id \in Stored
    BY <1>0 DEF RefersToStored
  <2>3. ASSUME NEW n \in Makers, req'[n].phase = "write"
        PROVE  /\ req'[n].kind \in {"resubmit", "deprecate"} => req'[n].id \in Stored
               /\ req'[n].kind = "deprecate" => req'[n].status # "PENDING"
    <3>1. CASE n = m
      <4>1. req'[n] = new
        BY <1>0, <1>1, <3>1 DEF ReqType
      <4>2. new.kind = kind /\ new.id = v /\ new.status = status
        OBVIOUS
      <4> QED BY <4>1, <4>2
    <3>2. CASE n # m
      <4>1. req'[n] = req[n]
        BY <1>1, <3>2, <1>0 DEF ReqType
      <4> QED BY <1>0, <2>3, <4>1 DEF RefersToStored
    <3> QED BY <3>1, <3>2
  <2> QED BY <1>1, <2>1, <2>2, <2>3 DEF RefersToStored
<1>5. FourEyes' /\ SignedIsRatified'
  BY <1>0, <1>1 DEF FourEyes, SignedIsRatified
<1>6. ~Overlap => ListIsFresh'
  BY <1>0, <1>1, FreshStill
<1> QED BY <1>3, <1>4, <1>5, <1>6 DEF IInv

LEMMA ReadsKeep ==
  ASSUME IInv, NEW m \in Makers, MakerReads(m)
  PROVE  IInv'
<1>0. RowsType
  BY TypeParts DEF IInv
<1>1. ASSUME NEW status \in Status, CreateReads(m, status) PROVE IInv'
  <2>1. NoVersion \in Versions \cup {NoVersion} /\ NoDay \in Days \cup {NoDay}
    OBVIOUS
  <2> QED BY <1>1, <2>1, ReadKeeps DEF CreateReads
<1>2. ASSUME NEW v \in Versions, NEW day \in Days, NewVersionReads(m, v, day)
      PROVE  IInv'
  <2>1. "PENDING" \in Status
    BY DEF Status
  <2> QED BY <1>2, <2>1, ReadKeeps DEF NewVersionReads
<1>3. ASSUME NEW v \in Versions, ResubmitReads(m, v) PROVE IInv'
  <2>1. "PENDING" \in Status
    BY DEF Status
  <2>2. v \in Stored /\ ver[v].until \in Days \cup {NoDay}
    BY <1>0, <1>3, StoredRows, RowFields DEF ResubmitReads
  <2> QED BY <1>3, <2>1, <2>2, ReadKeeps DEF ResubmitReads
<1>4. ASSUME NEW v \in Versions, NEW day \in Days, DeprecateReads(m, v, day)
      PROVE  IInv'
  <2> DEFINE status == IF day = today THEN "DEPRECATED" ELSE ver[v].status
  <2>1. v \in Stored /\ status \in Status /\ status # "PENDING"
    BY <1>0, <1>4, StoredRows, RowFields DEF DeprecateReads, Status
  <2>2. Reads(m, "deprecate", v, status, day)
    BY <1>4 DEF DeprecateReads
  <2> HIDE DEF status
  <2> QED BY <2>1, <2>2, ReadKeeps
<1> QED BY <1>1, <1>2, <1>3, <1>4 DEF MakerReads

\* The writes of a request: IInv' follows from what they do to the rows.
LEMMA WriteKeeps ==
  ASSUME IInv, NEW m \in Makers, req[m] # Idle,
         NEW x \in {Idle} \cup Request, x.phase # "write",
         req' = [req EXCEPT ![m] = x],
         UNCHANGED <<today, configured, job, live>>,
         RowsType', ratified' \subseteq Versions,
         Stored \subseteq Stored', FourEyes', SignedIsRatified'
  PROVE  IInv'
<1>0. /\ ClockType /\ RowsType /\ ReqType /\ JobType /\ HistType
      /\ RefersToStored /\ (~Overlap => ListIsFresh)
  BY TypeParts DEF IInv
<1>1. TypeOK'
  <2>1. ReqType'
    BY <1>0 DEF ReqType
  <2>2. ClockType' /\ JobType' /\ HistType'
    BY <1>0 DEF ClockType, JobType, HistType
  <2> QED BY <2>1, <2>2, TypePartsNext
<1>2. RefersToStored'
  <2>1. ASSUME NEW n \in Makers, req'[n].phase = "write"
        PROVE  req'[n] = req[n]
    BY <1>0, <2>1 DEF ReqType
  <2> QED BY <1>0, <2>1 DEF RefersToStored
<1>3. ~Overlap => ListIsFresh'
  BY <1>0, InFlightAwake, FreshStill
<1> QED BY <1>1, <1>2, <1>3 DEF IInv

LEMMA FinishKeeps ==
  ASSUME IInv, NEW m \in Makers, req[m] # Idle, Finishes(m),
         UNCHANGED <<today, configured, job, live>>,
         RowsType', ratified' \subseteq Versions,
         Stored \subseteq Stored', FourEyes', SignedIsRatified'
  PROVE  IInv'
<1>1. Idle \in {Idle} \cup Request /\ Idle.phase # "write"
  BY DEF Idle
<1> QED BY <1>1, WriteKeeps DEF Finishes

\* The row of a new version.
LEMMA NewRow ==
  ASSUME NEW s \in Status, NEW rule \in Rules, NEW p \in Versions \cup {NoVersion},
         NEW d \in Days \cup {NoDay}, NEW b \in Users \cup {None}
  PROVE  [NoRow EXCEPT !.status = s, !.rule = rule, !.by = b, !.parent = p,
                       !.from = d] \in Row
BY DEF NoRow, Row

LEMMA WriteOfKind ==
  ASSUME ReqType, NEW m \in Makers, NEW kind, Writes(m, kind)
  PROVE  /\ req[m] # Idle /\ req[m].kind = kind
         /\ req[m].id \in Versions \cup {NoVersion} /\ req[m].status \in Status
         /\ req[m].day \in Days \cup {NoDay}
BY RequestFields DEF ReqType, Writes

LEMMA CreateKeeps ==
  ASSUME IInv, NEW m \in Makers, NEW v \in Versions, NEW rule \in Rules,
         CreateWrites(m, v, rule)
  PROVE  IInv'
<1>0. RowsType /\ ReqType /\ HistType /\ FourEyes /\ SignedIsRatified
  BY TypeParts DEF IInv
<1> DEFINE row == [NoRow EXCEPT !.status = req[m].status, !.rule = rule]
<1>1. /\ ver' = [ver EXCEPT ![v] = row] /\ current' = v /\ ratified' = ratified
      /\ wf' = IF req[m].status = "PENDING" THEN Started(v) ELSE wf
      /\ UNCHANGED <<today, configured, job, live>> /\ Finishes(m)
      /\ Writes(m, "create")
  BY DEF CreateWrites, Writes
<1>2. row \in Row /\ row.by = None /\ row.approver = None
  <2>1. None \in Users \cup {None} /\ NoVersion \in Versions \cup {NoVersion}
        /\ NoDay \in Days \cup {NoDay} /\ req[m].status \in Status
    BY <1>0, <1>1, WriteOfKind
  <2>2. row.status = req[m].status /\ row.rule = rule /\ row.by = None
        /\ row.approver = None /\ row.parent = NoVersion /\ row.from = NoDay
        /\ row.until = NoDay
    BY DEF NoRow
  <2> QED BY <2>1, <2>2 DEF NoRow, Row
<1> HIDE DEF row
<1>3. RowsType'
  BY <1>0, <1>1, <1>2 DEF RowsType, Started
<1>4. Stored \subseteq Stored'
  BY <1>0, <1>1, <1>2, NoRowIsNoRow DEF Stored, RowsType
<1>5. FourEyes' /\ SignedIsRatified'
  <2>1. ver'[v] = row
    BY <1>0, <1>1 DEF RowsType
  <2>2. \A w \in Versions \ {v} : Alike(w)
    BY <1>0, <1>1 DEF RowsType, Alike
  <2>3. ratified \ {v} \subseteq ratified'
    BY <1>1
  <2> QED BY <1>0, <1>2, <2>1, <2>2, <2>3, AlikeButOne
<1>6. req[m] # Idle /\ ratified' \subseteq Versions
  BY <1>0, <1>1, WriteOfKind DEF HistType
<1> QED BY <1>1, <1>3, <1>4, <1>5, <1>6, FinishKeeps

LEMMA NewVersionKeeps ==
  ASSUME IInv, NEW m \in Makers, NEW v \in Versions, NEW rule \in Rules,
         NEW u \in Users, NewVersionWrites(m, v, rule, u)
  PROVE  IInv'
<1>0. RowsType /\ ReqType /\ HistType /\ FourEyes /\ SignedIsRatified
  BY TypeParts DEF IInv
<1> DEFINE row == [NoRow EXCEPT !.status = "PENDING", !.rule = rule, !.by = u,
                                !.parent = req[m].id, !.from = req[m].day]
<1>1. /\ ver' = [ver EXCEPT ![v] = row] /\ current' = current
      /\ ratified' = ratified /\ wf' = Started(v)
      /\ UNCHANGED <<today, configured, job, live>> /\ Finishes(m)
      /\ Writes(m, "newVersion")
  BY DEF NewVersionWrites, Writes
<1>2. row \in Row /\ row.by = u /\ row.approver = None
  <2>1. "PENDING" \in Status /\ req[m].id \in Versions \cup {NoVersion}
        /\ req[m].day \in Days \cup {NoDay}
    BY <1>0, <1>1, WriteOfKind DEF Status
  <2>2. row.by = u /\ row.approver = None
    BY DEF NoRow
  <2>3. row \in Row
    BY <2>1, NewRow
  <2> QED BY <2>2, <2>3
<1> HIDE DEF row
<1>3. RowsType'
  BY <1>0, <1>1, <1>2 DEF RowsType, Started
<1>4. Stored \subseteq Stored'
  BY <1>0, <1>1, <1>2, NoRowIsNoRow DEF Stored, RowsType
<1>5. FourEyes' /\ SignedIsRatified'
  <2>1. ver'[v] = row
    BY <1>0, <1>1 DEF RowsType
  <2>2. \A w \in Versions \ {v} : Alike(w)
    BY <1>0, <1>1 DEF RowsType, Alike
  <2>3. ratified \ {v} \subseteq ratified' /\ None # u
    BY <1>1, BillingCycleAssumption
  <2> QED BY <1>0, <1>2, <2>1, <2>2, <2>3, AlikeButOne
<1>6. req[m] # Idle /\ ratified' \subseteq Versions
  BY <1>0, <1>1, WriteOfKind DEF HistType
<1> QED BY <1>1, <1>3, <1>4, <1>5, <1>6, FinishKeeps

\* The resubmission wipes the signature, so that anybody but its submitter may
\* sign again, and a signature means an approval again.
LEMMA ResubmitKeeps ==
  ASSUME IInv, NEW m \in Makers, NEW u \in Users, ResubmitWrites(m, u)
  PROVE  IInv'
<1>0. /\ RowsType /\ ReqType /\ HistType /\ FourEyes /\ SignedIsRatified
      /\ RefersToStored
  BY TypeParts DEF IInv
<1> DEFINE v == req[m].id
           row == [ver[v] EXCEPT !.status = "PENDING", !.until = req[m].day,
                                 !.by = u, !.approver = None]
<1>1. /\ ver' = [ver EXCEPT ![v] = row]
      /\ current' = current /\ ratified' = ratified \ {v} /\ wf' = Started(v)
      /\ UNCHANGED <<today, configured, job, live>> /\ Finishes(m)
      /\ Writes(m, "resubmit")
  BY DEF ResubmitWrites, Writes, Resubmitted
<1>2. v \in Stored /\ v \in Versions /\ ver[v] \in Row
  <2>1. req[m].phase = "write" /\ req[m].kind = "resubmit"
    BY <1>1 DEF Writes
  <2>2. v \in Stored
    BY <1>0, <2>1 DEF RefersToStored
  <2> QED BY <1>0, <2>2, StoredRows DEF Stored
<1>3. row \in Row /\ row.by = u /\ row.approver = None
  <2>1. "PENDING" \in Status /\ req[m].day \in Days \cup {NoDay}
    BY <1>0, <1>1, WriteOfKind DEF Status
  <2> QED BY <1>2, <2>1 DEF Row
<1> HIDE DEF v, row
<1>4. RowsType'
  BY <1>0, <1>1, <1>2, <1>3 DEF RowsType, Started
<1>5. Stored \subseteq Stored'
  BY <1>0, <1>1, <1>2, <1>3, NoRowIsNoRow DEF Stored, RowsType
<1>6. FourEyes' /\ SignedIsRatified'
  <2>1. ver'[v] = row
    BY <1>0, <1>1, <1>2 DEF RowsType
  <2>2. \A w \in Versions \ {v} : Alike(w)
    BY <1>0, <1>1 DEF RowsType, Alike
  <2>3. ratified \ {v} \subseteq ratified' /\ None # u
    BY <1>1, BillingCycleAssumption
  <2> QED BY <1>0, <1>2, <1>3, <2>1, <2>2, <2>3, AlikeButOne
<1>7. req[m] # Idle /\ ratified' \subseteq Versions
  BY <1>0, <1>1, WriteOfKind DEF HistType
<1> QED BY <1>1, <1>4, <1>5, <1>6, <1>7, FinishKeeps

LEMMA DeprecateKeeps ==
  ASSUME IInv, NEW m \in Makers, DeprecateWrites(m)
  PROVE  IInv'
<1>0. /\ RowsType /\ ReqType /\ HistType /\ FourEyes /\ SignedIsRatified
      /\ RefersToStored
  BY TypeParts DEF IInv
<1> DEFINE v == req[m].id
           detached == {c \in Stored : ver[c].parent = v} \ req[m].children
           row(w) == IF w = v
                     THEN [ver[v] EXCEPT !.status = req[m].status,
                                         !.until = req[m].day]
                     ELSE IF w \in detached THEN [ver[w] EXCEPT !.parent = NoVersion]
                     ELSE ver[w]
           x == IF req[m].status = "DEPRECATED"
                THEN [phase |-> "unpoint", id |-> v] ELSE Idle
<1>1. /\ ver' = [w \in Versions |-> row(w)] /\ req' = [req EXCEPT ![m] = x]
      /\ UNCHANGED <<today, configured, job, live, current, wf, ratified>>
      /\ Writes(m, "deprecate")
  BY DEF DeprecateWrites, Writes
<1>2. /\ v \in Stored /\ v \in Versions /\ req[m].status \in Status
      /\ req[m].status # "PENDING" /\ req[m].day \in Days \cup {NoDay}
      /\ req[m] # Idle
  <2>1. req[m].phase = "write" /\ req[m].kind = "deprecate"
    BY <1>1 DEF Writes
  <2>2. v \in Stored /\ req[m].status # "PENDING"
    BY <1>0, <2>1 DEF RefersToStored
  <2> QED BY <1>0, <1>1, <2>2, WriteOfKind DEF Stored
<1>3. ASSUME NEW w \in Versions
      PROVE  /\ row(w) \in Row \cup {NoRow}
             /\ w \in Stored => row(w) \in Row
             /\ row(w).by = ver[w].by /\ row(w).approver = ver[w].approver
             /\ row(w).status = "PENDING" => ver[w].status = "PENDING"
  <2>1. w \in Stored => ver[w] \in Row
    BY <1>0, StoredRows
  <2>2. CASE w = v
    <3>1. ver[v] \in Row
      BY <1>2, <2>1, <2>2
    <3>2. row(w) = [ver[v] EXCEPT !.status = req[m].status, !.until = req[m].day]
      BY <2>2
    <3> HIDE DEF row
    <3>3. row(w) \in Row /\ row(w).status = req[m].status
          /\ row(w).by = ver[w].by /\ row(w).approver = ver[w].approver
      BY <1>2, <2>2, <3>1, <3>2 DEF Row
    <3> QED BY <1>2, <3>3
  <2>3. CASE w # v /\ w \in detached
    <3>1. ver[w] \in Row
      BY <2>1, <2>3
    <3>2. row(w) = [ver[w] EXCEPT !.parent = NoVersion]
      BY <2>3
    <3> HIDE DEF row
    <3> QED BY <3>1, <3>2 DEF Row
  <2>4. CASE w # v /\ w \notin detached
    <3>1. row(w) = ver[w]
      BY <2>4
    <3> QED BY <1>0, <2>1, <3>1 DEF RowsType
  <2> QED BY <2>2, <2>3, <2>4
<1>4. x \in {Idle} \cup Request /\ x.phase # "write"
  BY <1>2 DEF Idle, Request
<1> HIDE DEF row, x, v, detached
<1>5. RowsType'
  BY <1>0, <1>1, <1>3 DEF RowsType
<1>6. Stored \subseteq Stored'
  BY <1>1, <1>3, NoRowIsNoRow DEF Stored
<1>7. FourEyes' /\ SignedIsRatified'
  <2>1. \A w \in Versions : Alike(w)
    BY <1>1, <1>3 DEF Alike
  <2> QED BY <1>0, <1>1, <2>1, AlikeKeeps
<1>8. ratified' \subseteq Versions
  BY <1>0, <1>1 DEF HistType
<1> QED BY <1>1, <1>2, <1>4, <1>5, <1>6, <1>7, <1>8, WriteKeeps

\* A step of a request that leaves the versions alone.
LEMMA RowsAlone ==
  ASSUME RowsType, HistType, FourEyes, SignedIsRatified, UNCHANGED <<ver, wf, hist>>,
         current' \in Versions \cup {NoVersion}
  PROVE  /\ RowsType' /\ ratified' \subseteq Versions /\ Stored \subseteq Stored'
         /\ FourEyes' /\ SignedIsRatified'
BY DEF RowsType, HistType, FourEyes, SignedIsRatified, hist, Stored

LEMMA WritesKeep ==
  ASSUME IInv, NEW m \in Makers, MakerWrites(m)
  PROVE  IInv'
<1>0. /\ RowsType /\ ReqType /\ HistType /\ FourEyes /\ SignedIsRatified
  BY TypeParts DEF IInv
<1>1. CASE DeprecateUnpoints(m)
  <2>1. /\ req[m] # Idle /\ Finishes(m) /\ current' = Unpointed(req[m].id)
        /\ UNCHANGED <<today, configured, ver, wf, job, live, ratified>>
    BY <1>1 DEF DeprecateUnpoints, hist, Idle
  <2>2. current' \in Versions \cup {NoVersion}
    BY <1>0, <2>1 DEF Unpointed, RowsType
  <2> QED BY <1>0, <2>1, <2>2, RowsAlone, FinishKeeps DEF hist
<1>2. CASE RequestDies(m)
  <2>1. /\ req[m] # Idle /\ Finishes(m)
        /\ UNCHANGED <<today, configured, current, ver, wf, job, live, ratified>>
    BY <1>2 DEF RequestDies, hist, rows
  <2>2. current' \in Versions \cup {NoVersion}
    BY <1>0, <2>1 DEF RowsType
  <2> QED BY <1>0, <2>1, <2>2, RowsAlone, FinishKeeps DEF hist
<1> QED BY <1>1, <1>2, CreateKeeps, NewVersionKeeps, ResubmitKeeps, DeprecateKeeps
        DEF MakerWrites

-----------------------------------------------------------------------------
(* The reviewers.                                                          *)

\* Ending the parent's window touches no signature.
LEMMA SupersededRows ==
  ASSUME NEW before \in [Versions -> Row \cup {NoRow}], NEW p, today \in Days
  PROVE  /\ Superseded(before, p) \in [Versions -> Row \cup {NoRow}]
         /\ \A w \in Versions :
              /\ before[w] # NoRow => Superseded(before, p)[w] # NoRow
              /\ Superseded(before, p)[w].by = before[w].by
              /\ Superseded(before, p)[w].approver = before[w].approver
              /\ Superseded(before, p)[w].status = "PENDING"
                 => before[w].status = "PENDING"
<1>1. CASE p \in Versions /\ before[p].status \notin {"NONE", "DEPRECATED"}
  <2> DEFINE row == [before[p] EXCEPT !.status = "DEPRECATED", !.until = today]
  <2>1. before[p] \in Row
    BY <1>1 DEF NoRow
  <2>2. /\ row \in Row /\ row.by = before[p].by
        /\ row.approver = before[p].approver /\ row.status = "DEPRECATED"
    BY <2>1 DEF Row, Status
  <2>3. Superseded(before, p) = [before EXCEPT ![p] = row]
    BY <1>1 DEF Superseded
  <2> HIDE DEF row
  <2> QED BY <1>1, <2>2, <2>3, NoRowIsNoRow
<1>2. CASE ~(p \in Versions /\ before[p].status \notin {"NONE", "DEPRECATED"})
  BY <1>2 DEF Superseded
<1> QED BY <1>1, <1>2

\* A decision of a reviewer: IInv' follows from what it does to the rows.
LEMMA DecisionKeeps ==
  ASSUME IInv, Awake, UNCHANGED <<today, configured, req, job>>,
         RowsType', HistType', Stored \subseteq Stored', FourEyes', SignedIsRatified'
  PROVE  IInv'
<1>0. /\ ClockType /\ ReqType /\ JobType /\ RefersToStored
      /\ (~Overlap => ListIsFresh)
  BY TypeParts DEF IInv
<1>1. TypeOK'
  BY <1>0, TypePartsNext DEF ClockType, ReqType, JobType
<1>2. RefersToStored'
  BY <1>0, RefersStill
<1>3. ~Overlap => ListIsFresh'
  BY <1>0, FreshStill
<1> QED BY <1>1, <1>2, <1>3 DEF IInv

LEMMA VerdictType ==
  ASSUME RowsType, NEW v \in Versions, NEW verdict \in {"COMPLETED", "REJECTED"},
         Decides(v, verdict)
  PROVE  wf' \in [Versions -> {"NONE", "WAITING", "COMPLETED", "REJECTED"}]
BY DEF RowsType, Decides

\* assertNotSelfReview, and no name for the system.
LEMMA SignedByOther ==
  ASSUME RowsType, FourEyes, NEW v \in Versions, NEW actor \in Users \cup {System},
         MayReview(v, actor)
  PROVE  /\ v \in Stored /\ ver[v] \in Row /\ Awake
         /\ Signed(v, actor) \in Users \cup {None}
         /\ ver[v].by # None => Signed(v, actor) # ver[v].by
<1>1. v \in Stored /\ Awake /\ actor # ver[v].by
  BY DEF MayReview
<1>2. ver[v] \in Row
  BY <1>1, StoredRows
<1> QED BY <1>1, <1>2, RowFields DEF Signed, FourEyes

LEMMA ApproveKeeps ==
  ASSUME IInv, NEW v \in Versions, NEW actor \in Users \cup {System},
         Approve(v, actor)
  PROVE  IInv'
<1>0. RowsType /\ HistType /\ FourEyes /\ SignedIsRatified /\ ClockType
  BY TypeParts DEF IInv
<1>1. /\ MayReview(v, actor) /\ Decides(v, "COMPLETED")
      /\ ratified' = ratified \cup {v}
      /\ UNCHANGED <<today, configured, req, job>>
  BY DEF Approve, Decides
<1>2. /\ v \in Stored /\ ver[v] \in Row /\ Awake
      /\ Signed(v, actor) \in Users \cup {None}
      /\ ver[v].by # None => Signed(v, actor) # ver[v].by
  BY <1>0, <1>1, SignedByOther
<1> DEFINE signed == [ver[v] EXCEPT !.approver = Signed(v, actor)]
           active == [ver[v] EXCEPT !.status = "ACTIVE",
                                    !.approver = Signed(v, actor)]
<1>3. /\ signed \in Row /\ signed.by = ver[v].by
      /\ signed.approver = Signed(v, actor)
      /\ active \in Row /\ active.by = ver[v].by
      /\ active.approver = Signed(v, actor) /\ active.status = "ACTIVE"
  BY <1>2 DEF Row, Status
<1>4. wf' \in [Versions -> {"NONE", "WAITING", "COMPLETED", "REJECTED"}]
  BY <1>0, <1>1, VerdictType
<1>5. CASE ver[v].from \in 1..today
  <2>1. /\ ver' = Superseded([ver EXCEPT ![v] = active], ver[v].parent)
        /\ current' = v /\ live' = live \cup {v}
    BY <1>5 DEF Approve
  <2> HIDE DEF active, signed
  <2> DEFINE before == [ver EXCEPT ![v] = active]
  <2>2. before \in [Versions -> Row \cup {NoRow}] /\ today \in Days
    BY <1>0, <1>3 DEF RowsType, ClockType
  <2>3. /\ before[v] = active /\ \A w \in Versions \ {v} : before[w] = ver[w]
        /\ \A w \in Stored : before[w] # NoRow
    BY <1>0, <1>3, NoRowIsNoRow DEF RowsType, Stored
  <2> HIDE DEF before
  <2>4. /\ ver' \in [Versions -> Row \cup {NoRow}]
        /\ \A w \in Versions :
              /\ before[w] # NoRow => ver'[w] # NoRow
              /\ ver'[w].by = before[w].by /\ ver'[w].approver = before[w].approver
              /\ ver'[w].status = "PENDING" => before[w].status = "PENDING"
    <3>1. ver' = Superseded(before, ver[v].parent)
      BY <2>1 DEF before
    <3> QED BY <2>2, <3>1, SupersededRows
  <2>5. RowsType' /\ HistType'
    BY <1>0, <1>1, <1>4, <2>1, <2>4 DEF RowsType, HistType
  <2>6. Stored \subseteq Stored'
    BY <2>3, <2>4 DEF Stored
  <2>7. FourEyes' /\ SignedIsRatified'
    <3>1. \A w \in Versions \ {v} : Alike(w)
      BY <2>3, <2>4 DEF Alike
    <3>2. ver'[v].by # None => ver'[v].approver # ver'[v].by
      BY <1>2, <1>3, <2>3, <2>4
    <3>3. v \in ratified' /\ ratified \ {v} \subseteq ratified'
      BY <1>1
    <3> QED BY <1>0, <3>1, <3>2, <3>3, AlikeButOne
  <2> QED BY <1>1, <1>2, <2>5, <2>6, <2>7, DecisionKeeps
<1>6. CASE ver[v].from \notin 1..today
  <2>1. ver' = [ver EXCEPT ![v] = signed] /\ current' = current /\ live' = live
    BY <1>6 DEF Approve
  <2> HIDE DEF active, signed
  <2>2. RowsType' /\ HistType'
    BY <1>0, <1>1, <1>3, <1>4, <2>1 DEF RowsType, HistType
  <2>3. Stored \subseteq Stored'
    BY <1>0, <1>3, <2>1, NoRowIsNoRow DEF Stored, RowsType
  <2>4. FourEyes' /\ SignedIsRatified'
    <3>1. ver'[v] = signed /\ \A w \in Versions \ {v} : Alike(w)
      BY <1>0, <2>1 DEF RowsType, Alike
    <3>2. ver'[v].by # None => ver'[v].approver # ver'[v].by
      BY <1>2, <1>3, <3>1
    <3>3. v \in ratified' /\ ratified \ {v} \subseteq ratified'
      BY <1>1
    <3> QED BY <1>0, <3>1, <3>2, <3>3, AlikeButOne
  <2> QED BY <1>1, <1>2, <2>2, <2>3, <2>4, DecisionKeeps
<1> QED BY <1>5, <1>6

LEMMA RejectKeeps ==
  ASSUME IInv, NEW v \in Versions, NEW actor \in Users \cup {System},
         Reject(v, actor)
  PROVE  IInv'
<1>0. RowsType /\ HistType /\ FourEyes /\ SignedIsRatified
  BY TypeParts DEF IInv
<1> DEFINE row == [ver[v] EXCEPT !.status = "REJECTED", !.approver = actor]
<1>1. /\ MayReview(v, actor) /\ Decides(v, "REJECTED") /\ actor \in Users
      /\ ver' = [ver EXCEPT ![v] = row] /\ current' = current /\ live' = live
      /\ ratified' = ratified \ {v} /\ UNCHANGED <<today, configured, req, job>>
  BY DEF Reject, Decides, hist
<1>2. v \in Stored /\ ver[v] \in Row /\ Awake /\ actor # ver[v].by
  BY <1>0, <1>1, SignedByOther DEF MayReview
<1>3. /\ row \in Row /\ row.by = ver[v].by /\ row.approver = actor
      /\ row.status = "REJECTED"
  BY <1>1, <1>2 DEF Row, Status
<1> HIDE DEF row
<1>4. wf' \in [Versions -> {"NONE", "WAITING", "COMPLETED", "REJECTED"}]
  BY <1>0, <1>1, VerdictType
<1>5. RowsType' /\ HistType'
  BY <1>0, <1>1, <1>3, <1>4 DEF RowsType, HistType
<1>6. Stored \subseteq Stored'
  BY <1>0, <1>1, <1>3, NoRowIsNoRow DEF Stored, RowsType
<1>7. FourEyes' /\ SignedIsRatified'
  <2>1. ver'[v] = row /\ \A w \in Versions \ {v} : Alike(w)
    BY <1>0, <1>1 DEF RowsType, Alike
  <2>2. /\ ver'[v].by # None => ver'[v].approver # ver'[v].by
        /\ ver'[v].status # "PENDING" /\ ratified \ {v} \subseteq ratified'
    BY <1>1, <1>2, <1>3, <2>1
  <2> QED BY <1>0, <2>1, <2>2, AlikeButOne
<1> QED BY <1>1, <1>2, <1>5, <1>6, <1>7, DecisionKeeps

-----------------------------------------------------------------------------
(* The nightly job.                                                        *)

Activating == {"activate", "point", "supersede"}

LEMMA JobFields ==
  ASSUME JobType, job.phase # "idle"
  PROVE  /\ job \in Job /\ job # Idle /\ job.todo \in SUBSET Listed
         /\ job.phase \in {"point", "supersede", "unpoint"} => job.row \in Listed
BY DEF JobType, Job, Idle

LEMMA IdlePhase == ASSUME JobType PROVE job = Idle <=> job.phase = "idle"
BY DEF JobType, Job, Idle

LEMMA ListType ==
  ASSUME RowsType, NEW vs \in SUBSET Stored
  PROVE  /\ List(vs) \in SUBSET Listed
         /\ \A row \in List(vs) : row.id \in vs
<1>1. \A v \in vs : ver[v] \in Row /\ v \in Versions
  BY StoredRows DEF Stored
<1> QED BY <1>1, RowFields DEF List, Listed

\* A step of the job: IInv' follows from what it does to the rows and its list.
LEMMA JobStepKeeps ==
  ASSUME IInv, JobKeeps, RowsType', live' \subseteq Versions,
         Stored \subseteq Stored', \A v \in Versions : Alike(v),
         job' \in {Idle} \cup Job,
         job' # Idle => \A row \in job'.todo : row.id \in Stored,
         ~Overlap /\ job' # Idle => \A m \in Makers : req[m] = Idle,
         ~Overlap /\ job' # Idle /\ job'.phase \in Activating =>
            \A row \in job'.todo : row.id \in ratified
  PROVE  IInv'
<1>0. /\ ClockType /\ RowsType /\ ReqType /\ HistType
      /\ RefersToStored /\ FourEyes /\ SignedIsRatified
  BY TypeParts DEF IInv
<1>1. UNCHANGED <<today, configured, wf, req, ratified>>
  BY DEF JobKeeps
<1>2. TypeOK'
  BY <1>0, <1>1, TypePartsNext DEF ClockType, ReqType, JobType, HistType
<1>3. RefersToStored'
  BY <1>0, <1>1 DEF RefersToStored
<1>4. FourEyes' /\ SignedIsRatified'
  BY <1>0, <1>1, AlikeKeeps
<1>5. ~Overlap => ListIsFresh'
  BY <1>1 DEF ListIsFresh, Activating
<1> QED BY <1>2, <1>3, <1>4, <1>5 DEF IInv

\* The job goes on with what is left of its list.
LEMMA JobGoesOn ==
  ASSUME IInv, JobKeeps, RowsType', live' \subseteq Versions,
         Stored \subseteq Stored', \A v \in Versions : Alike(v),
         job.phase # "idle", job' \in Job, job'.todo \subseteq job.todo,
         job'.phase \in Activating => job.phase \in Activating
  PROVE  IInv'
<1>1. job # Idle /\ job' \in {Idle} \cup Job
  BY JobFields, TypeParts DEF IInv
<1>2. \A row \in job'.todo : row.id \in Stored
  BY <1>1 DEF IInv, RefersToStored
<1>3. ~Overlap => /\ \A m \in Makers : req[m] = Idle
                  /\ job'.phase \in Activating =>
                       \A row \in job'.todo : row.id \in ratified
  BY <1>1 DEF IInv, ListIsFresh, Activating
<1> QED BY <1>1, <1>2, <1>3, JobStepKeeps

\* A step of the job that leaves the versions alone.
LEMMA SameRows ==
  ASSUME RowsType, HistType, UNCHANGED <<ver, live, wf>>,
         current' \in Versions \cup {NoVersion}
  PROVE  /\ RowsType' /\ live' \subseteq Versions /\ Stored \subseteq Stored'
         /\ \A v \in Versions : Alike(v)
BY DEF RowsType, HistType, Stored, Alike

\* A step of the job that saves one stored row under another status.
LEMMA OneRow ==
  ASSUME RowsType, NEW v \in Stored, NEW row \in Row,
         ver' = [ver EXCEPT ![v] = row], UNCHANGED wf,
         row.by = ver[v].by, row.approver = ver[v].approver,
         row.status # "PENDING", current' \in Versions \cup {NoVersion}
  PROVE  /\ RowsType' /\ Stored \subseteq Stored'
         /\ \A w \in Versions : Alike(w)
BY NoRowIsNoRow DEF RowsType, Stored, Alike

LEMMA ActivatesKeeps ==
  ASSUME IInv, NEW v \in Versions, JobActivates(v)
  PROVE  IInv'
<1>0. RowsType /\ JobType /\ HistType /\ RefersToStored
  BY TypeParts DEF IInv
<1>1. PICK x \in job.todo :
        /\ x.id = v
        /\ ver' = [ver EXCEPT ![v] = [ver[v] EXCEPT !.status = "ACTIVE",
                                        !.until = x.until, !.parent = x.parent]]
        /\ job' = [phase |-> "point", row |-> x, todo |-> job.todo \ {x}]
  BY <1>0 DEF JobActivates, RowsType
<1>2. /\ job.phase = "activate" /\ live' = live \cup {v} /\ JobKeeps
      /\ current' = current
  BY DEF JobActivates
<1>3. job # Idle /\ job.todo \in SUBSET Listed
  BY <1>0, <1>2, JobFields
<1>4. v \in Stored /\ ver[v] \in Row /\ x \in Listed
  BY <1>0, <1>1, <1>3, StoredRows DEF RefersToStored
<1> DEFINE row == [ver[v] EXCEPT !.status = "ACTIVE", !.until = x.until,
                                 !.parent = x.parent]
<1>5. /\ row \in Row /\ row.by = ver[v].by /\ row.approver = ver[v].approver
      /\ row.status # "PENDING"
  BY <1>4 DEF Row, Status, Listed
<1>6. ver' = [ver EXCEPT ![v] = row] /\ current' \in Versions \cup {NoVersion}
      /\ UNCHANGED wf
  BY <1>0, <1>1, <1>2 DEF RowsType, JobKeeps
<1> HIDE DEF row
<1>7. RowsType' /\ Stored \subseteq Stored' /\ \A w \in Versions : Alike(w)
  BY <1>0, <1>4, <1>5, <1>6, OneRow
<1>8. job' \in Job /\ job'.todo \subseteq job.todo /\ job'.phase = "point"
  BY <1>1, <1>3, <1>4 DEF Job
<1>9. live' \subseteq Versions
  BY <1>0, <1>2 DEF HistType
<1> QED BY <1>2, <1>7, <1>8, <1>9, JobGoesOn DEF Activating

LEMMA JobDeprecatesKeeps ==
  ASSUME IInv, NEW v \in Versions, JobDeprecates(v)
  PROVE  IInv'
<1>0. RowsType /\ JobType /\ HistType /\ RefersToStored
  BY TypeParts DEF IInv
<1>1. PICK x \in job.todo :
        /\ x.id = v
        /\ ver' = [ver EXCEPT ![v] = [ver[v] EXCEPT !.status = "DEPRECATED",
                                                    !.until = x.until]]
        /\ job' = [phase |-> "unpoint", row |-> x, todo |-> job.todo \ {x}]
  BY <1>0 DEF JobDeprecates, RowsType
<1>2. /\ job.phase = "deprecate" /\ live' = live /\ JobKeeps
      /\ current' = current
  BY DEF JobDeprecates
<1>3. job # Idle /\ job.todo \in SUBSET Listed
  BY <1>0, <1>2, JobFields
<1>4. v \in Stored /\ ver[v] \in Row /\ x \in Listed
  BY <1>0, <1>1, <1>3, StoredRows DEF RefersToStored
<1> DEFINE row == [ver[v] EXCEPT !.status = "DEPRECATED", !.until = x.until]
<1>5. /\ row \in Row /\ row.by = ver[v].by /\ row.approver = ver[v].approver
      /\ row.status # "PENDING"
  BY <1>4 DEF Row, Status, Listed
<1>6. ver' = [ver EXCEPT ![v] = row] /\ current' \in Versions \cup {NoVersion}
      /\ UNCHANGED wf
  BY <1>0, <1>1, <1>2 DEF RowsType, JobKeeps
<1> HIDE DEF row
<1>7. RowsType' /\ Stored \subseteq Stored' /\ \A w \in Versions : Alike(w)
  BY <1>0, <1>4, <1>5, <1>6, OneRow
<1>8. job' \in Job /\ job'.todo \subseteq job.todo /\ job'.phase = "unpoint"
  BY <1>1, <1>3, <1>4 DEF Job
<1>9. live' \subseteq Versions
  BY <1>0, <1>2 DEF HistType
<1> QED BY <1>2, <1>7, <1>8, <1>9, JobGoesOn DEF Activating

LEMMA PointsKeeps ==
  ASSUME IInv, JobPoints \/ JobUnpoints
  PROVE  IInv'
<1>0. RowsType /\ JobType /\ HistType
  BY TypeParts DEF IInv
<1>1. /\ job.phase \in {"point", "unpoint"} /\ UNCHANGED <<ver, live>> /\ JobKeeps
      /\ current' \in {job.row.id, current, NoVersion}
      /\ job.phase = "point" => job' = [job EXCEPT !.phase = "supersede"]
      /\ job.phase = "unpoint" => job' = [phase |-> "deprecate", todo |-> job.todo]
  BY DEF JobPoints, JobUnpoints, Unpointed
<1>2. job \in Job /\ job.todo \in SUBSET Listed /\ job.row \in Listed
  BY <1>0, <1>1, JobFields
<1>3. current' \in Versions \cup {NoVersion}
  BY <1>0, <1>1, <1>2 DEF RowsType, Listed
<1>4. /\ job' \in Job /\ job'.todo \subseteq job.todo
      /\ job'.phase \in Activating => job.phase \in Activating
  <2>1. CASE job.phase = "point"
    <3>1. job' = [phase |-> "supersede", row |-> job.row, todo |-> job.todo]
      BY <1>1, <1>2, <2>1 DEF Job
    <3> QED BY <1>2, <2>1, <3>1 DEF Job, Activating
  <2>2. CASE job.phase = "unpoint"
    BY <1>1, <1>2, <2>2 DEF Job, Activating
  <2> QED BY <1>1, <2>1, <2>2
<1>5. /\ RowsType' /\ live' \subseteq Versions /\ Stored \subseteq Stored'
      /\ \A v \in Versions : Alike(v)
  BY <1>0, <1>1, <1>3, SameRows DEF JobKeeps
<1> QED BY <1>1, <1>4, <1>5, JobGoesOn

LEMMA SupersedesKeeps ==
  ASSUME IInv, JobSupersedes
  PROVE  IInv'
<1>0. RowsType /\ JobType /\ HistType /\ ClockType
  BY TypeParts DEF IInv
<1>1. /\ job.phase = "supersede" /\ ver' = Superseded(ver, job.row.parent)
      /\ job' = [phase |-> "activate", todo |-> job.todo]
      /\ current' \in {current, NoVersion} /\ JobKeeps /\ live' = live
  BY DEF JobSupersedes, Unpointed
<1>2. job.todo \in SUBSET Listed
  BY <1>0, <1>1, JobFields
<1>3. /\ ver' \in [Versions -> Row \cup {NoRow}]
      /\ \A w \in Versions : /\ ver[w] # NoRow => ver'[w] # NoRow
                             /\ Alike(w)
  BY <1>0, <1>1, SupersededRows DEF RowsType, ClockType, Alike
<1>4. RowsType' /\ live' \subseteq Versions /\ Stored \subseteq Stored'
  BY <1>0, <1>1, <1>3 DEF RowsType, HistType, JobKeeps, Stored
<1>5. /\ job' \in Job /\ job'.todo \subseteq job.todo
      /\ job'.phase \in Activating => job.phase \in Activating
  BY <1>1, <1>2 DEF Job, Activating
<1> QED BY <1>1, <1>3, <1>4, <1>5, JobGoesOn

LEMMA ListsKeep ==
  ASSUME IInv, JobStarts \/ JobTurns \/ JobEnds \/ JobDies
  PROVE  IInv'
<1>0. RowsType /\ JobType /\ HistType /\ SignedIsRatified
  BY TypeParts DEF IInv
<1>1. JobKeeps /\ UNCHANGED <<current, ver, live, wf>>
  BY DEF JobStarts, JobTurns, JobEnds, JobDies, JobKeeps
<1>2. /\ RowsType' /\ live' \subseteq Versions /\ Stored \subseteq Stored'
      /\ \A v \in Versions : Alike(v)
  BY <1>0, <1>1, SameRows DEF RowsType
<1>3. CASE JobStarts
  <2>1. /\ job' = [phase |-> "activate", todo |-> List(DueToActivate)]
        /\ Overlap \/ \A m \in Makers : req[m] = Idle
    BY <1>3 DEF JobStarts
  <2>2. DueToActivate \in SUBSET Stored /\ DueToActivate \subseteq ratified
    BY <1>0 DEF DueToActivate, SignedIsRatified, Stored
  <2>3. /\ List(DueToActivate) \in SUBSET Listed
        /\ \A row \in List(DueToActivate) : row.id \in DueToActivate
    BY <1>0, <2>2, ListType
  <2>4. job' \in Job
    BY <2>1, <2>3 DEF Job
  <2> QED BY <1>1, <1>2, <2>1, <2>2, <2>3, <2>4, JobStepKeeps
<1>4. CASE JobTurns
  <2>1. /\ job' = [phase |-> "deprecate", todo |-> List(DueToDeprecate)]
        /\ job.phase = "activate"
    BY <1>4 DEF JobTurns
  <2>2. DueToDeprecate \in SUBSET Stored
    BY DEF DueToDeprecate
  <2>3. /\ List(DueToDeprecate) \in SUBSET Listed
        /\ \A row \in List(DueToDeprecate) : row.id \in DueToDeprecate
    BY <1>0, <2>2, ListType
  <2>4. job' \in Job /\ job'.phase \notin Activating
    BY <2>1, <2>3 DEF Job, Activating
  <2>5. ~Overlap => \A m \in Makers : req[m] = Idle
    BY <1>0, <2>1, JobFields DEF IInv, ListIsFresh
  <2> QED BY <1>1, <1>2, <2>1, <2>2, <2>3, <2>4, <2>5, JobStepKeeps
<1>5. CASE JobEnds \/ JobDies
  <2>1. job' = Idle
    BY <1>5 DEF JobEnds, JobDies
  <2> QED BY <1>1, <1>2, <2>1, JobStepKeeps
<1> QED BY <1>3, <1>4, <1>5

-----------------------------------------------------------------------------
(* The theorems.                                                           *)

LEMMA InitIInv == ASSUME Init PROVE IInv
<1>1. TypeOK
  BY BillingCycleAssumption
     DEF Init, TypeOK, Days, HistType, Idle
<1>2. /\ \A v \in Versions : ver[v] = NoRow /\ ver[v].by = None
                             /\ ver[v].status = "NONE"
      /\ job = Idle /\ \A m \in Makers : req[m].phase # "write"
  BY DEF Init, NoRow, Idle
<1> QED BY <1>1, <1>2
        DEF IInv, RefersToStored, FourEyes, SignedIsRatified, ListIsFresh

\* Time passes, a definition is published: neither touches the rows.
LEMMA OutsideKeeps ==
  ASSUME IInv, NextDay \/ DefinitionPublished \/ UNCHANGED vars
  PROVE  IInv'
<1>0. ClockType /\ RowsType /\ ReqType /\ JobType /\ HistType
  BY TypeParts DEF IInv
<1>1. /\ UNCHANGED <<current, ver, wf, req, job, live, ratified>>
      /\ today' \in {today, today + 1} /\ (today' # today => today < MaxDay)
      /\ configured' \in BOOLEAN
  BY <1>0 DEF NextDay, DefinitionPublished, vars, rows, hist, ClockType
<1>2. TypeOK'
  <2>1. ClockType'
    BY <1>0, <1>1, BillingCycleAssumption, CalendarAssumption DEF ClockType, Days
  <2>2. RowsType' /\ ReqType' /\ JobType' /\ HistType'
    BY <1>0, <1>1 DEF RowsType, ReqType, JobType, HistType
  <2> QED BY <2>1, <2>2, TypePartsNext
<1>3. RefersToStored' /\ FourEyes' /\ SignedIsRatified' /\ (~Overlap => ListIsFresh')
  BY <1>1 DEF IInv, RefersToStored, FourEyes, SignedIsRatified, ListIsFresh, Stored
<1> QED BY <1>2, <1>3 DEF IInv

LEMMA NextIInv == ASSUME IInv, [Next]_vars PROVE IInv'
<1>1. ASSUME NEW m \in Makers, MakerReads(m) \/ MakerWrites(m) PROVE IInv'
  BY <1>1, ReadsKeep, WritesKeep
<1>2. ASSUME NEW v \in Versions, ReviewNext(v) PROVE IInv'
  BY <1>2, ApproveKeeps, RejectKeeps DEF ReviewNext
<1>3. ASSUME NEW v \in Versions, JobRow(v) PROVE IInv'
  BY <1>3, ActivatesKeeps, JobDeprecatesKeeps DEF JobRow
<1>4. CASE JobStarts \/ JobStep \/ JobTurns \/ JobDies
  BY <1>4, ListsKeep, PointsKeeps, SupersedesKeeps DEF JobStep
<1>5. CASE NextDay \/ DefinitionPublished \/ UNCHANGED vars
  BY <1>5, OutsideKeeps
<1> QED BY <1>1, <1>2, <1>3, <1>4, <1>5 DEF Next

\* The inductive invariant of the billing cycle.
THEOREM InductiveInvariant == Spec => []IInv
BY InitIInv, NextIInv, PTL DEF Spec

\* Every row, request and list keeps its type, whatever interleaves.
THEOREM TypeCorrect == Spec => []TypeOK
<1>1. IInv => TypeOK
  BY DEF IInv
<1> QED BY <1>1, InductiveInvariant, PTL

\* Nobody has signed the version he submitted or resubmitted, with any number of
\* makers and reviewers, and also when they interleave with the nightly job.
THEOREM FourEyesHolds == Spec => []FourEyes
<1>1. IInv => FourEyes
  BY DEF IInv
<1> QED BY <1>1, InductiveInvariant, PTL

LEMMA GoesLive ==
  ASSUME IInv, [Next]_vars, ~Overlap
  PROVE  GoesLiveRatified
<1>1. ASSUME NEW v \in Versions, JobActivates(v) PROVE GoesLiveRatified
  <2>1. /\ job.phase = "activate" /\ live' = live \cup {v}
        /\ ratified' = ratified /\ \E row \in job.todo : row.id = v
    BY <1>1 DEF JobActivates, JobKeeps
  <2>2. job # Idle
    BY <2>1, JobFields, TypeParts DEF IInv
  <2>3. v \in ratified
    BY <2>1, <2>2 DEF IInv, ListIsFresh
  <2> QED BY <2>1, <2>3 DEF GoesLiveRatified
<1>2. ASSUME NEW v \in Versions, NEW actor, Approve(v, actor)
      PROVE  GoesLiveRatified
  BY <1>2 DEF Approve, GoesLiveRatified
<1>3. CASE live' = live
  BY <1>3 DEF GoesLiveRatified
<1>4. ASSUME NEW m \in Makers, MakerReads(m) \/ MakerWrites(m)
      PROVE  live' = live
  BY <1>4 DEF MakerReads, CreateReads, NewVersionReads, ResubmitReads,
              DeprecateReads, Reads, MakerWrites, CreateWrites, NewVersionWrites,
              ResubmitWrites, DeprecateWrites, DeprecateUnpoints, RequestDies,
              Writes, hist
<1>5. ASSUME NEW v \in Versions, NEW actor, Reject(v, actor) PROVE live' = live
  BY <1>5 DEF Reject
<1>6. ASSUME NEW v \in Versions, JobDeprecates(v) PROVE live' = live
  BY <1>6 DEF JobDeprecates
<1>7. CASE \/ JobStarts \/ JobStep \/ JobTurns \/ JobDies
           \/ NextDay \/ DefinitionPublished \/ UNCHANGED vars
  BY <1>3, <1>7 DEF JobStarts, JobStep, JobTurns, JobDies, JobPoints, JobSupersedes,
              JobUnpoints, JobEnds, NextDay, DefinitionPublished, vars, hist
<1> QED BY <1>1, <1>2, <1>3, <1>4, <1>5, <1>6, <1>7 DEF Next, ReviewNext, JobRow

\* While the nightly job has the rows for itself, no version takes over whose
\* present submission was not approved.
THEOREM OnlyRatifiedHolds == Spec /\ ~Overlap => OnlyRatifiedGoLive
<1>1. ASSUME ~Overlap PROVE Spec => OnlyRatifiedGoLive
  <2>1. IInv /\ [Next]_vars => [GoesLiveRatified]_vars
    BY <1>1, GoesLive
  <2> QED BY <2>1, InductiveInvariant, PTL DEF Spec, OnlyRatifiedGoLive
<1> QED BY <1>1

\* The periods of every stored version are whole and in order, if every month of
\* the calendar has the days of every rule.
THEOREM PeriodsInOrderHolds ==
  ASSUME \A rule \in Rules, m \in 1..(Months - 1) : Fits(rule, m)
  PROVE  Spec => []PeriodsInOrder
<1>1. IInv => PeriodsInOrder
  <2> SUFFICES ASSUME IInv, NEW v \in Stored, NEW m \in 1..(Months - 2)
               PROVE  /\ PeriodStart(ver[v].rule, m) < PeriodEnd(ver[v].rule, m)
                      /\ PeriodEnd(ver[v].rule, m) <= PeriodStart(ver[v].rule, m + 1)
    BY DEF PeriodsInOrder
  <2>1. ver[v].rule \in Rules
    BY TypeParts, StoredRows, RowFields DEF IInv, Stored
  <2>2. m \in 1..(Months - 1) /\ ver[v].rule \in ReadingRule
    BY <2>1, CalendarAssumption, BillingCycleAssumption
  <2> QED BY <2>1, <2>2, PeriodsTile
<1> QED BY <1>1, InductiveInvariant, PTL
===============================================================================
