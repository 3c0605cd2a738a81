------------------------ MODULE TariffVersionsProofs ------------------------
(***************************************************************************)
(* Proofs about TariffVersions, for every set of versions, forms, calls    *)
(* and days: the invariant that makes Exclusive and TermsReviewed          *)
(* inductive.  As long as no check overlapped what it should have seen,    *)
(* what a check read and found still holds when its call saves, and every  *)
(* other save leaves a live version its terms, or takes it out of use.     *)
(***************************************************************************)
EXTENDS TariffVersions, TLAPS

LEMMA NoneIsNothing ==
  /\ None \notin Row /\ None \notin Versions
  /\ \A S \in SUBSET (Properties \cup Units) : None # S
  /\ MaxDay \in Nat
BY TariffAssumption

\* What a form makes of a version is a version.
LEMMA EditedIsRow ==
  ASSUME NEW r \in Row, NEW f \in Forms
  PROVE  /\ Edited(r, f) \in Row
         /\ Edited(r, f).status = r.status
<1>1. f \in Form
  BY TariffAssumption
<1>2. /\ Given(f.type, r.type) \in Types /\ Given(f.app, r.app) \in Applicability
      /\ Given(f.from, r.from) \in From /\ Given(f.to, r.to) \in To
      /\ Given(f.on, r.on) \in SUBSET (Properties \cup Units)
  BY <1>1 DEF Given, Form, Row
<1>3. QED
  BY <1>2 DEF Edited, Row

LEMMA BlankIsRow ==
  ASSUME NEW f \in Forms, f.app # None, f.type # None
  PROVE  Blank(f) \in Row
<1>1. f \in Form /\ MaxDay \in Nat
  BY TariffAssumption, NoneIsNothing
<1>2. f.app \in Applicability /\ f.type \in Types
  BY <1>1 DEF Form
<1>3. 0 \in From /\ Never \in To
  BY <1>1 DEF From, To, Never
<1>4. QED
  BY <1>2, <1>3 DEF Blank, Row, TariffStatus

LEMMA EntityIsRow ==
  ASSUME NEW c \in Call, c.read \in Row, c.op = "update" => c.form \in Forms
  PROVE  Entity(c) \in Row
<1>1. CASE c.op = "update"
  BY <1>1, EditedIsRow DEF Entity
<1>2. CASE c.op \in {"submit", "reactivate", "deactivate"}
  <2>1. \/ Entity(c) = [c.read EXCEPT !.status = "PENDING"]
        \/ Entity(c) = [c.read EXCEPT !.status = "ACTIVE"]
        \/ Entity(c) = [c.read EXCEPT !.status = "INACTIVE"]
    BY <1>2 DEF Entity
  <2>2. QED
    BY <2>1 DEF Row, TariffStatus
<1>3. CASE c.op \notin {"update", "submit", "reactivate", "deactivate"}
  <2>1. Entity(c) = [c.read EXCEPT !.status = "DEPRECATED"]
    BY <1>3 DEF Entity
  <2>2. QED
    BY <2>1 DEF Row, TariffStatus
<1>4. QED
  BY <1>1, <1>2, <1>3

LEMMA SavedIsRow ==
  ASSUME NEW entity \in Row, NEW snap \in Row, NEW r \in Row, NEW relations \in BOOLEAN
  PROVE  Saved(entity, snap, r, relations) \in Row
BY DEF Saved, Row

LEMMA InitInv == Init => IInv
<1> SUFFICES ASSUME Init PROVE IInv
  OBVIOUS
<1>1. row \in [Versions -> {None} \cup Row] /\ NoClash(row)
  BY TariffAssumption DEF Init
<1>2. TypeOK
  <2>1. today \in 0..MaxDay /\ deaths \in 0..MaxDeaths
    BY TariffAssumption DEF Init
  <2>2. call \in [Requests -> {New, Ended} \cup Call]
    BY DEF Init
  <2>3. /\ job.at \in {"idle", "supersede", "expire"}
        /\ job.todo = {} /\ job.now = None /\ job.snap = None
    BY DEF Init, Idle
  <2>4. QED
    BY <1>1, <2>1, <2>2, <2>3 DEF Init, TypeOK, Idle, Job
<1>3. NoCorrection /\ JobConsistent
  BY TariffAssumption DEF Init, NoCorrection, JobConsistent, Idle, InFlight, New
<1>4. \A q \in Requests : ~ InFlight(q)
  BY DEF Init, InFlight
<1>5. Exclusive /\ TermsReviewed
  BY <1>1 DEF Init, Exclusive, TermsReviewed
<1>6. ReadsHold /\ ChecksHold
  BY <1>4 DEF ReadsHold, ChecksHold, Has, Checked, Checks, Init, Idle
<1>7. QED
  BY <1>2, <1>3, <1>4, <1>5, <1>6 DEF IInv

\* A call that is on its way is a call.
LEMMA InFlightCall ==
  ASSUME IInv, NEW q \in Requests, InFlight(q)
  PROVE  /\ call[q] \in Call
         /\ CallConsistent(q)
         /\ call[q].op # "create" => call[q].v \in Versions
         /\ call[q].at # "load" => call[q].read \in Row /\ row[call[q].v] \in Row
         /\ call[q].at = "commit" => call[q].snap \in Row
         /\ call[q].op = "update" => call[q].form \in Forms
         /\ call[q].op = "create" => call[q].form \in Forms
<1>1. call[q] \in Call
  BY DEF IInv, TypeOK, InFlight
<1>2. CallConsistent(q)
  BY DEF IInv
<1>3. call[q].op # "create" => call[q].v \in Versions
  BY <1>1, <1>2 DEF CallConsistent, Call
<1>4. call[q].at # "load" => call[q].op # "create" /\ call[q].read \in Row
  BY <1>1, <1>2 DEF CallConsistent, Call
<1>5. call[q].at # "load" => row[call[q].v] \in Row
  BY <1>2, <1>3, <1>4 DEF CallConsistent, IInv, TypeOK
<1>6. QED
  BY <1>1, <1>2, <1>3, <1>4, <1>5 DEF CallConsistent, Call

-----------------------------------------------------------------------------
\* A call goes on, and the tables stay.
LEMMA CallGoesOn ==
  ASSUME IInv, NEW q \in Requests, NEW y \in Call,
         call' = [call EXCEPT ![q] = y],
         UNCHANGED <<row, today, job, deaths, drifted, revived>>,
         raced' \in BOOLEAN, raced => raced',
         CallConsistent(q)',
         y.read # None => y.read.status # "REQUEST_FOR_CORRECTION",
         ~ raced' =>
           /\ \A v \in Versions : Has(q, v)' =>
                /\ y.op \in Checking => row[v] = y.read /\ (y.at = "commit" => y.snap = row[v])
                /\ y.op = "update" => ~ IsLive(row[v])
                /\ y.op \in {"deactivate", "deprecate"} /\ IsLive(row[v]) =>
                     SameTerms(row[v], y.read)
           /\ Checked(q)' =>
                /\ \A p \in Requests \ {q} : ~ Checked(p)
                /\ NoExactConflict(y.read, y.v)
  PROVE  IInv'
<1>1. /\ call'[q] = y
      /\ \A p \in Requests \ {q} : call'[p] = call[p]
  BY DEF IInv, TypeOK
<1>2. TypeOK'
  BY DEF IInv, TypeOK
<1>3. NoCorrection'
  BY <1>1 DEF IInv, NoCorrection, InFlight
<1>4. JobConsistent'
  BY DEF IInv, JobConsistent
<1>5. \A p \in Requests : InFlight(p)' => CallConsistent(p)'
  BY <1>1 DEF IInv, InFlight, CallConsistent, Inserting
<1>6. Exclusive' /\ TermsReviewed'
  BY DEF IInv, Exclusive, TermsReviewed, NoClash, Active
<1>7. ASSUME ~ raced' PROVE ReadsHold'
  <2>1. ~ raced /\ ReadsHold
    BY <1>7 DEF IInv
  <2>2. \A p \in Requests \ {q}, v \in Versions :
          (Has(p, v)' <=> Has(p, v)) /\ (Checks(p)' <=> Checks(p))
    BY <1>1 DEF Has, InFlight, Inserting, Checks
  <2>3. \A p \in Requests \ {q}, v \in Versions : Has(p, v)' =>
       /\ Checks(p)' => row'[v] = call'[p].read /\ (call'[p].at = "commit" => call'[p].snap = row'[v])
       /\ call'[p].op = "update" => ~ IsLive(row'[v])
       /\ call'[p].op \in {"deactivate", "deprecate"} /\ IsLive(row'[v]) =>
            SameTerms(row'[v], call'[p].read)
    BY <1>1, <2>1, <2>2 DEF ReadsHold
  <2>4. \A v \in Versions : Has(q, v)' =>
       /\ Checks(q)' => row'[v] = call'[q].read /\ (call'[q].at = "commit" => call'[q].snap = row'[v])
       /\ call'[q].op = "update" => ~ IsLive(row'[v])
       /\ call'[q].op \in {"deactivate", "deprecate"} /\ IsLive(row'[v]) =>
            SameTerms(row'[v], call'[q].read)
    BY <1>1, <1>7 DEF Checks
  <2>5. QED
    BY <2>1, <2>3, <2>4 DEF ReadsHold
<1>8. ASSUME ~ raced' PROVE ChecksHold'
  <2>1. ~ raced /\ ChecksHold
    BY <1>8 DEF IInv
  <2>2. \A p \in Requests \ {q} : Checked(p)' <=> Checked(p)
    BY <1>1 DEF Checked, Checks, InFlight
  <2>3. \A p \in Requests \ {q} : Checked(p)' =>
          NoExactConflict(call[p].read, call[p].v) /\ ~ Checked(q)'
    BY <1>8, <2>1, <2>2 DEF ChecksHold
  <2>4. \A p, z \in Requests : p # z /\ Checked(p)' => ~ Checked(z)'
    BY <1>8, <2>1, <2>2 DEF ChecksHold
  <2>5. ASSUME NEW p \in Requests, Checked(p)'
        PROVE  NoExactConflict(call[p].read, call[p].v)'
    <3>1. NoExactConflict(call'[p].read, call'[p].v)
      BY <1>1, <1>8, <2>3, <2>5
    <3>2. QED
      BY <3>1 DEF NoExactConflict
  <2>6. QED
    BY <2>4, <2>5 DEF ChecksHold
<1>9. QED
  BY <1>2, <1>3, <1>4, <1>5, <1>6, <1>7, <1>8 DEF IInv

\* A call ends without a save.
LEMMA RefusedInv ==
  ASSUME IInv, NEW q \in Requests, Refused(q)
  PROVE  IInv'
<1>1. /\ call'[q] = Ended
      /\ \A p \in Requests \ {q} : call'[p] = call[p]
      /\ ~ InFlight(q)'
      /\ UNCHANGED <<row, today, job, deaths, raced, drifted, revived>>
  BY DEF IInv, TypeOK, Refused, End, InFlight, OfTheOffice, history
<1>2. \A p \in Requests : InFlight(p)' => call'[p] = call[p] /\ InFlight(p)
  BY <1>1 DEF InFlight
<1>3. TypeOK'
  BY <1>1 DEF IInv, TypeOK, Refused, End
<1>4. NoCorrection' /\ JobConsistent'
  BY <1>1, <1>2 DEF IInv, NoCorrection, JobConsistent
<1>5. \A p \in Requests : InFlight(p)' => CallConsistent(p)'
  BY <1>1, <1>2 DEF IInv, CallConsistent, Inserting
<1>6. Exclusive' /\ TermsReviewed'
  BY <1>1 DEF IInv, Exclusive, TermsReviewed, NoClash, Active
<1>7. ASSUME ~ raced' PROVE ReadsHold' /\ ChecksHold'
  <2>1. ReadsHold /\ ChecksHold
    BY <1>1, <1>7 DEF IInv
  <2>2. \A p \in Requests, v \in Versions :
          /\ Has(p, v)' => Has(p, v) /\ call'[p] = call[p]
          /\ Checks(p)' => Checks(p) /\ call'[p] = call[p]
          /\ Checked(p)' => Checked(p) /\ call'[p] = call[p]
    BY <1>2 DEF Has, Checks, Checked, Inserting
  <2>3. ReadsHold'
    BY <1>1, <2>1, <2>2 DEF ReadsHold
  <2>4. \A p \in Requests : Checked(p)' => NoExactConflict(call[p].read, call[p].v)'
    BY <1>1, <2>1, <2>2 DEF ChecksHold, NoExactConflict
  <2>5. ChecksHold'
    <3>1. ASSUME NEW p \in Requests, NEW z \in Requests \ {p}, Checked(p)', Checked(z)'
          PROVE  FALSE
      <4>1. Checked(p) /\ Checked(z)
        BY <1>2, <3>1 DEF Checked, Checks
      <4>2. QED
        BY <2>1, <4>1 DEF ChecksHold
    <3>2. QED
      BY <2>4, <3>1 DEF ChecksHold
  <2>6. QED
    BY <2>3, <2>5
<1>8. QED
  BY <1>3, <1>4, <1>5, <1>6, <1>7 DEF IInv
-----------------------------------------------------------------------------
\* A call is made.
LEMMA AsksInv ==
  ASSUME IInv, NEW q \in Requests, Asks(q)
  PROVE  IInv'
<1>1. PICK op \in Ops, v \in {None} \cup Versions, f \in {None} \cup Forms :
        /\ Ask(q, op, v, f)
        /\ op = "create" => f # None /\ f.app # None /\ f.type # None
        /\ op # "create" => v # None
        /\ op = "update" => f # None
  <2>1. \A f \in Forms : f # None
    BY TariffAssumption
  <2>2. CASE \E f \in Forms : f.app # None /\ f.type # None /\ Ask(q, "create", None, f)
    BY <2>1, <2>2 DEF Ops
  <2>3. CASE \E v \in Versions, f \in Forms : Ask(q, "update", v, f)
    BY <2>1, <2>3, NoneIsNothing DEF Ops
  <2>4. CASE \E v \in Versions, op \in Ops \ {"create", "update"} : Ask(q, op, v, None)
    BY <2>4, NoneIsNothing
  <2>5. QED
    BY <2>2, <2>3, <2>4 DEF Asks
<1> DEFINE y == [op |-> op, at |-> "load", v |-> v, form |-> f, read |-> None, snap |-> None]
<1>2. y \in Call
  BY DEF Call, Steps
<1>3. /\ call' = [call EXCEPT ![q] = y]
      /\ UNCHANGED <<row, today, job, deaths, raced, drifted, revived>>
  BY <1>1 DEF Ask, OfTheOffice, history
<1>4. call'[q] = y
  BY <1>3 DEF IInv, TypeOK
<1>5. CallConsistent(q)'
  BY <1>1, <1>4 DEF CallConsistent, Inserting
<1>6. ~ Checked(q)' /\ \A w \in Versions : ~ Has(q, w)'
  BY <1>4 DEF Checked, Has
<1>7. raced' \in BOOLEAN /\ y.read = None
  BY <1>3 DEF IInv, TypeOK
<1> HIDE DEF y
<1>8. QED
  BY <1>2, <1>3, <1>5, <1>6, <1>7, CallGoesOn

\* A call reads its version: what it reads is what is there.
LEMMA LoadsInv ==
  ASSUME IInv, NEW q \in Requests, Loads(q)
  PROVE  IInv'
<1> DEFINE c == call[q]
           at == IF c.op \in Checking THEN "check" ELSE "begin"
           y == [c EXCEPT !.at = at, !.read = row[c.v]]
<1>1. InFlight(q) /\ c \in Call /\ CallConsistent(q) /\ c.v \in Versions
  BY InFlightCall DEF Loads, At
<1>2. row[c.v] \in Row /\ Accepts(c.op, row[c.v])
      /\ row[c.v].status # "REQUEST_FOR_CORRECTION"
  BY <1>1 DEF Loads, IInv, TypeOK, NoCorrection
<1>3. y \in Call /\ y.at = at /\ y.read = row[c.v] /\ y.op = c.op /\ y.v = c.v /\ y.form = c.form
  BY <1>1, <1>2 DEF Call, Steps
<1>4. /\ call' = [call EXCEPT ![q] = y]
      /\ UNCHANGED <<row, today, job, deaths, raced, drifted, revived>>
  BY DEF Loads, OfTheOffice, history
<1>5. call'[q] = y
  BY <1>4 DEF IInv, TypeOK
<1>6. at \in {"check", "begin"} /\ (at = "check" <=> c.op \in Checking)
  OBVIOUS
<1>7. CallConsistent(q)'
  <2>1. c.op # "create" /\ row[c.v] # None
    BY DEF Loads
  <2>2. row[c.v] # None /\ row' = row
    BY <1>4, <2>1
  <2>3. QED
    BY <1>1, <1>2, <1>3, <1>5, <1>6, <2>1, <2>2 DEF CallConsistent
<1>8. ~ Checked(q)'
  BY <1>3, <1>5, <1>6 DEF Checked, Checks
<1>9. ASSUME NEW v \in Versions, Has(q, v)'
      PROVE  /\ y.op \in Checking => row[v] = y.read /\ (y.at = "commit" => y.snap = row[v])
             /\ y.op = "update" => ~ IsLive(row[v])
             /\ y.op \in {"deactivate", "deprecate"} /\ IsLive(row[v]) => SameTerms(row[v], y.read)
  <2>1. v = c.v
    BY <1>3, <1>5, <1>9 DEF Has
  <2>2. c.op = "update" => ~ IsLive(row[v])
    BY <1>2, <2>1 DEF Accepts, EDITABLE_TARIFF_STATUSES, IsLive, LiveStatus
  <2>3. QED
    BY <1>3, <1>6, <2>1, <2>2 DEF SameTerms
<1>10. raced' \in BOOLEAN /\ y.read.status # "REQUEST_FOR_CORRECTION"
  BY <1>2, <1>3, <1>4 DEF IInv, TypeOK
<1> HIDE DEF y
<1>11. QED
  BY <1>3, <1>4, <1>7, <1>8, <1>9, <1>10, CallGoesOn

\* A check finds no conflict: it is the only one, or the history says it is not.
LEMMA ChecksInv ==
  ASSUME IInv, NEW q \in Requests, ChecksConflict(q)
  PROVE  IInv'
<1> DEFINE c == call[q]
           y == [c EXCEPT !.at = "begin"]
<1>1. InFlight(q) /\ c \in Call /\ CallConsistent(q) /\ c.at = "check" /\ c.read \in Row
  BY InFlightCall DEF ChecksConflict, At
<1>2. /\ y \in Call /\ y.at = "begin" /\ y.read = c.read /\ y.op = c.op
      /\ y.v = c.v /\ y.form = c.form
  BY <1>1 DEF Call, Steps
<1>3. /\ call' = [call EXCEPT ![q] = y]
      /\ UNCHANGED <<row, today, job, deaths, drifted, revived>>
  BY DEF ChecksConflict, Goto, OfTheOffice
<1>4. call'[q] = y
  BY <1>3 DEF IInv, TypeOK
<1>5. raced' \in BOOLEAN /\ (raced => raced')
      /\ (~ raced' => \A p \in Requests \ {q} : ~ Checked(p))
  BY DEF ChecksConflict, Checked, IInv, TypeOK
<1>6. CallConsistent(q)'
  BY <1>1, <1>2, <1>3, <1>4 DEF CallConsistent
<1>7. NoExactConflict(y.read, y.v)
  BY <1>2 DEF ChecksConflict
<1>8. ASSUME ~ raced', NEW v \in Versions, Has(q, v)'
      PROVE  /\ y.op \in Checking => row[v] = y.read /\ (y.at = "commit" => y.snap = row[v])
             /\ y.op = "update" => ~ IsLive(row[v])
             /\ y.op \in {"deactivate", "deprecate"} /\ IsLive(row[v]) => SameTerms(row[v], y.read)
  <2>1. c.op \in Checking /\ Checks(q)
    BY <1>1 DEF CallConsistent, Checks
  <2>2. Has(q, v)
    BY <1>1, <1>2, <1>4, <1>8 DEF Has, Inserting
  <2>3. row[v] = c.read
    BY <1>5, <1>8, <2>1, <2>2 DEF IInv, ReadsHold
  <2>4. QED
    BY <1>2, <2>1, <2>3 DEF Checking
<1>9. c.read.status # "REQUEST_FOR_CORRECTION"
  BY <1>1, NoneIsNothing DEF IInv, NoCorrection
<1> HIDE DEF y
<1>10. QED
  BY <1>2, <1>3, <1>5, <1>6, <1>7, <1>8, <1>9, CallGoesOn

\* The save reads the row again.
LEMMA BeginsInv ==
  ASSUME IInv, NEW q \in Requests, Begins(q)
  PROVE  IInv'
<1> DEFINE c == call[q]
           y == [c EXCEPT !.at = "commit", !.snap = row[c.v]]
<1>1. /\ InFlight(q) /\ c \in Call /\ CallConsistent(q) /\ c.at = "begin" /\ c.read \in Row
      /\ row[c.v] \in Row /\ ~ Inserting(q)
  BY InFlightCall DEF Begins, At
<1>2. /\ y \in Call /\ y.at = "commit" /\ y.read = c.read /\ y.op = c.op
      /\ y.v = c.v /\ y.form = c.form /\ y.snap = row[c.v]
  BY <1>1 DEF Call, Steps
<1>3. /\ call' = [call EXCEPT ![q] = y]
      /\ UNCHANGED <<row, today, job, deaths, raced, drifted, revived>>
  BY DEF Begins, OfTheOffice, history
<1>4. call'[q] = y
  BY <1>3 DEF IInv, TypeOK
<1>5. CallConsistent(q)'
  BY <1>1, <1>2, <1>3, <1>4, NoneIsNothing DEF CallConsistent, Inserting
<1>6. ASSUME ~ raced', NEW v \in Versions, Has(q, v)'
      PROVE  /\ y.op \in Checking => row[v] = y.read /\ (y.at = "commit" => y.snap = row[v])
             /\ y.op = "update" => ~ IsLive(row[v])
             /\ y.op \in {"deactivate", "deprecate"} /\ IsLive(row[v]) => SameTerms(row[v], y.read)
  <2>1. Has(q, v) /\ v = c.v
    BY <1>1, <1>2, <1>4, <1>6 DEF Has, Inserting
  <2>2. ReadsHold
    BY <1>3, <1>6 DEF IInv
  <2>3. QED
    BY <1>1, <1>2, <2>1, <2>2 DEF ReadsHold, Checks
<1>7. ASSUME ~ raced', Checked(q)'
      PROVE  (\A p \in Requests \ {q} : ~ Checked(p)) /\ NoExactConflict(y.read, y.v)
  <2>1. Checked(q)
    BY <1>1, <1>2, <1>4, <1>7 DEF Checked, Checks
  <2>2. ChecksHold
    BY <1>3, <1>7 DEF IInv
  <2>3. QED
    BY <1>2, <2>1, <2>2 DEF ChecksHold
<1>8. c.read.status # "REQUEST_FOR_CORRECTION" /\ raced' \in BOOLEAN
  BY <1>1, <1>3, NoneIsNothing DEF IInv, NoCorrection, TypeOK
<1> HIDE DEF y
<1>9. QED
  BY <1>2, <1>3, <1>5, <1>6, <1>7, <1>8, CallGoesOn
-----------------------------------------------------------------------------
\* Only what a version applies to, and when, makes it clash.
LEMMA SameTermsClash ==
  ASSUME NEW r, NEW s, SameTerms(r, s), NEW t
  PROVE  (Clash(r, t) <=> Clash(s, t)) /\ (Clash(t, r) <=> Clash(t, s))
<1>1. Scope(r) = Scope(s)
  BY DEF SameTerms, Scope, Targets
<1>2. QED
  BY <1>1 DEF SameTerms, Clash, SameScope, Overlap

LEMMA ClashBothWays ==
  ASSUME NEW r \in Row, NEW s \in Row
  PROVE  Clash(r, s) <=> Clash(s, r)
<1>1. MaxDay \in Nat
  BY NoneIsNothing
<1>2. r.to \in Int /\ s.to \in Int /\ r.from \in Int /\ s.from \in Int
  BY <1>1 DEF Row, From, To, Never
<1>3. QED
  BY <1>2 DEF Clash, SameScope, Overlap

\* A save that takes a version out of use leaves it so, or leaves a version, that
\* was live with the terms that were read, as it was.
LEMMA OutOfUse ==
  ASSUME NEW r \in Row, NEW entity \in Row, NEW snap \in Row,
         entity.status \notin LiveStatus, IsLive(r) => SameTerms(r, entity)
  PROVE  \/ ~ IsLive(Saved(entity, snap, r, FALSE))
         \/ /\ IsLive(r) /\ SameTerms(Saved(entity, snap, r, FALSE), r)
            /\ Saved(entity, snap, r, FALSE).status = r.status
<1> DEFINE s == Saved(entity, snap, r, FALSE)
<1>1. s.status = entity.status \/ s.status = r.status
  BY DEF Saved
<1>2. CASE s.status = entity.status
  BY <1>2 DEF IsLive
<1>3. CASE s.status = r.status /\ IsLive(s)
  <2>1. IsLive(r)
    BY <1>3, NoneIsNothing DEF IsLive
  <2>2. SameTerms(s, r)
    BY <2>1 DEF Saved, SameTerms
  <2>3. QED
    BY <1>3, <2>1, <2>2
<1>4. QED
  BY <1>1, <1>2, <1>3

\* A save of v that leaves it out of use, or as it was but for a verdict.
LEMMA QuietSave ==
  ASSUME IInv, NEW v \in Versions, NEW r \in Row,
         row' = [row EXCEPT ![v] = r], r.status # "REQUEST_FOR_CORRECTION",
         \A q \in Requests : call'[q] = call[q] \/ ~ InFlight(q)',
         TypeOK', JobConsistent',
         job'.todo \subseteq job.todo, job'.now \in {None, job.now},
         raced => raced',
         \A w \in Versions \ {v} : (w \in drifted' => w \in drifted) /\ (w \in revived => w \in revived'),
         ~ raced' =>
           /\ ~ IsLive(r) \/ (IsLive(row[v]) /\ SameTerms(r, row[v]))
           /\ r.status = "ACTIVE" /\ v \in drifted' => v \in revived'
           /\ \A q \in Requests : Has(q, v)' => ~ Checks(q)
  PROVE  IInv'
<1>1. row'[v] = r /\ \A w \in Versions \ {v} : row'[w] = row[w]
  BY DEF IInv, TypeOK
<1>2. r # None
  BY NoneIsNothing
<1>3. \A q \in Requests : InFlight(q)' => InFlight(q) /\ call'[q] = call[q]
  BY DEF InFlight
<1>4. NoCorrection'
  BY <1>1, <1>3 DEF IInv, NoCorrection
<1>5. ASSUME NEW q \in Requests, InFlight(q)' PROVE CallConsistent(q)'
  <2>1. InFlight(q) /\ call'[q] = call[q] /\ CallConsistent(q)
    BY <1>3, <1>5 DEF IInv
  <2>2. call[q].at # "load" => call[q].v \in Versions /\ row'[call[q].v] # None
    BY <1>1, <1>2, <2>1, InFlightCall, NoneIsNothing DEF CallConsistent
  <2>3. QED
    BY <2>1, <2>2 DEF CallConsistent, Inserting
<1>6. \A w \in Versions : ~ raced' /\ w # v => (IsLive(row'[w]) <=> IsLive(row[w]))
  BY <1>1
<1>7. ASSUME ~ raced', IsLive(r) PROVE IsLive(row[v]) /\ SameTerms(r, row[v]) /\ row[v] \in Row
  BY <1>7 DEF IsLive, IInv, TypeOK
<1>8. ASSUME ~ raced' PROVE NoClash(row')
  <2>1. SUFFICES ASSUME NEW w \in Versions, NEW z \in Versions, w # z,
                        IsLive(row'[w]), IsLive(row'[z])
                 PROVE  ~ Clash(row'[w], row'[z])
    BY DEF NoClash
  <2>2. NoClash(row)
    BY <1>8 DEF IInv, Exclusive
  <2>3. CASE w # v /\ z # v
    BY <1>1, <2>1, <2>2, <2>3 DEF NoClash
  <2>4. CASE w = v
    BY <1>1, <1>7, <1>8, <2>1, <2>2, <2>4, SameTermsClash DEF NoClash
  <2>5. CASE z = v
    BY <1>1, <1>7, <1>8, <2>1, <2>2, <2>5, SameTermsClash DEF NoClash
  <2>6. QED
    BY <2>3, <2>4, <2>5
<1>9. Exclusive'
  BY <1>8 DEF Exclusive, NoClash
<1>10. TermsReviewed'
  <2>1. SUFFICES ASSUME ~ raced', NEW w \in drifted', Active(w)'
                 PROVE  w \in revived'
    BY DEF TermsReviewed
  <2>2. w \in Versions
    BY DEF TypeOK
  <2>3. CASE w = v
    BY <1>1, <2>1, <2>3 DEF Active
  <2>4. CASE w # v
    <3>1. w \in drifted /\ Active(w)
      BY <1>1, <2>1, <2>2, <2>4 DEF Active
    <3>2. w \in revived
      BY <2>1, <3>1 DEF IInv, TermsReviewed
    <3>3. QED
      BY <2>2, <2>4, <3>2
  <2>5. QED
    BY <2>3, <2>4
<1>11. ASSUME ~ raced' PROVE ReadsHold'
  <2>1. ReadsHold
    BY <1>11 DEF IInv
  <2>2. ASSUME NEW q \in Requests, NEW w \in Versions, Has(q, w)'
        PROVE  /\ Checks(q)' => row'[w] = call'[q].read /\ (call'[q].at = "commit" => call'[q].snap = row'[w])
               /\ call'[q].op = "update" => ~ IsLive(row'[w])
               /\ call'[q].op \in {"deactivate", "deprecate"} /\ IsLive(row'[w]) =>
                    SameTerms(row'[w], call'[q].read)
    <3>1. InFlight(q) /\ call'[q] = call[q] /\ Has(q, w) /\ (Checks(q)' => Checks(q))
      BY <1>3, <2>2 DEF Has, Inserting, Checks
    <3>2. CASE w # v
      BY <1>1, <2>1, <3>1, <3>2 DEF ReadsHold
    <3>3. CASE w = v
      <4>1. ~ Checks(q)
        BY <1>11, <2>2, <3>3
      <4>2. call[q].op = "update" => ~ IsLive(r)
        BY <1>7, <1>11, <2>1, <3>1, <3>3 DEF ReadsHold
      <4>3. call[q].op \in {"deactivate", "deprecate"} /\ IsLive(r) => SameTerms(r, call[q].read)
        BY <1>7, <1>11, <2>1, <3>1, <3>3 DEF ReadsHold, SameTerms
      <4>4. QED
        BY <1>1, <3>1, <3>3, <4>1, <4>2, <4>3
    <3>4. QED
      BY <3>2, <3>3
  <2>3. ASSUME NEW e \in Entry, e \in job.todo \/ (job.now # None /\ e = job.now),
               IsLive(row'[e.v]), e.v \in Versions
        PROVE  SameTerms(row'[e.v], e.read)
    <3>1. CASE e.v # v
      BY <1>1, <2>1, <2>3, <3>1 DEF ReadsHold
    <3>2. CASE e.v = v
      BY <1>1, <1>7, <1>11, <2>1, <2>3, <3>2 DEF ReadsHold, SameTerms
    <3>3. QED
      BY <3>1, <3>2
  <2>4. \A e \in job'.todo : e \in Entry /\ e \in job.todo
    BY DEF TypeOK, Job
  <2>5. job'.now # None => job'.now \in Entry /\ job'.now = job.now
    BY DEF TypeOK, Job
  <2>6. \A e \in Entry : e.v \in Versions
    BY DEF Entry
  <2>7. (\A e \in job'.todo : IsLive(row'[e.v]) => SameTerms(row'[e.v], e.read))
    BY <2>3, <2>4, <2>6
  <2>8. job'.now # None /\ IsLive(row'[job'.now.v]) => SameTerms(row'[job'.now.v], job'.now.read)
    BY <2>3, <2>5, <2>6
  <2>9. QED
    BY <2>2, <2>7, <2>8 DEF ReadsHold
<1>12. ASSUME ~ raced' PROVE ChecksHold'
  <2>1. ChecksHold
    BY <1>12 DEF IInv
  <2>2. ASSUME NEW q \in Requests, Checked(q)'
        PROVE  Checked(q) /\ call'[q] = call[q] /\ InFlight(q)
    BY <1>3, <2>2 DEF Checked, Checks
  <2>3. ASSUME NEW q \in Requests, NEW p \in Requests \ {q}, Checked(q)', Checked(p)'
        PROVE  FALSE
    BY <2>1, <2>2, <2>3 DEF ChecksHold
  <2>4. ASSUME NEW q \in Requests, Checked(q)'
        PROVE  NoExactConflict(call[q].read, call[q].v)'
    <3>1. NoExactConflict(call[q].read, call[q].v) /\ call'[q] = call[q]
      BY <2>1, <2>2, <2>4 DEF ChecksHold
    <3>2. ASSUME NEW w \in Versions \ {call[q].v}, IsLive(row'[w])
          PROVE  ~ Clash(row'[w], call[q].read)
      BY <1>1, <1>7, <1>12, <3>1, <3>2, SameTermsClash DEF NoExactConflict
    <3>3. QED
      BY <3>1, <3>2 DEF NoExactConflict
  <2>5. QED
    BY <2>3, <2>4 DEF ChecksHold
<1>13. QED
  BY <1>4, <1>5, <1>9, <1>10, <1>11, <1>12 DEF IInv
-----------------------------------------------------------------------------
\* A row for a draft: no call and no verdict can have read it.
LEMMA InsertsInv ==
  ASSUME IInv, NEW q \in Requests, NEW r \in Row, r.status = "DRAFT", Inserts(q, r)
  PROVE  IInv'
<1>1. PICK v \in Versions : row[v] = None /\ row' = [row EXCEPT ![v] = r]
  BY DEF Inserts
<1>2. /\ call' = [call EXCEPT ![q] = Ended]
      /\ UNCHANGED <<today, job, deaths, raced, drifted, revived>>
  BY DEF Inserts, End, OfTheOffice, history
<1>3. \A p \in Requests : call'[p] = call[p] \/ ~ InFlight(p)'
  BY <1>2 DEF InFlight, IInv, TypeOK
<1>4. TypeOK'
  BY <1>1, <1>2 DEF IInv, TypeOK
<1>5. JobConsistent'
  BY <1>1, <1>2 DEF IInv, JobConsistent, TypeOK
<1>6. ~ IsLive(r)
  BY DEF IsLive, LiveStatus
<1>7. \A p \in Requests : ~ Has(p, v)'
  <2>1. SUFFICES ASSUME NEW p \in Requests, Has(p, v)' PROVE FALSE
    OBVIOUS
  <2>2. InFlight(p) /\ call'[p] = call[p] /\ call[p].at # "load" /\ call[p].v = v
    BY <1>3, <2>1 DEF Has, InFlight
  <2>3. CallConsistent(p)
    BY <2>2 DEF IInv
  <2>4. QED
    BY <1>1, <2>2, <2>3 DEF CallConsistent
<1>8. QED
  BY <1>1, <1>2, <1>3, <1>4, <1>5, <1>6, <1>7, QuietSave

LEMMA CreatesInv ==
  ASSUME IInv, NEW q \in Requests, Creates(q)
  PROVE  IInv'
<1>1. InFlight(q) /\ call[q].op = "create" /\ Inserts(q, Edited(Blank(call[q].form), call[q].form))
  BY DEF Creates, At
<1>2. call[q].form \in Forms /\ call[q].form.app # None /\ call[q].form.type # None
  BY <1>1, InFlightCall DEF CallConsistent
<1>3. Blank(call[q].form) \in Row /\ Blank(call[q].form).status = "DRAFT"
  BY <1>2, BlankIsRow DEF Blank
<1>4. QED
  BY <1>1, <1>2, <1>3, EditedIsRow, InsertsInv

LEMMA ClonesInv ==
  ASSUME IInv, NEW q \in Requests, Clones(q)
  PROVE  IInv'
<1> DEFINE r == [call[q].read EXCEPT !.status = "DRAFT", !.from = 0, !.parent = call[q].v]
<1>1. InFlight(q) /\ call[q].at = "begin" /\ call[q].op = "newVersion" /\ Inserts(q, r)
  BY DEF Clones, At
<1>2. call[q].read \in Row /\ call[q].v \in Versions
  BY <1>1, InFlightCall
<1>3. 0 \in From
  BY NoneIsNothing DEF From
<1>4. r \in Row /\ r.status = "DRAFT"
  BY <1>2, <1>3 DEF Row, TariffStatus
<1>5. QED
  BY <1>1, <1>4, InsertsInv

\* What every commit has at hand.
LEMMA CommitFacts ==
  ASSUME IInv, NEW q \in Requests, Commits(q)
  PROVE  LET c == call[q]
             r == Saved(Entity(c), c.snap, row[c.v], LoadsRelations(c.op))
         IN /\ InFlight(q) /\ c \in Call /\ CallConsistent(q) /\ c.at = "commit"
            /\ c.v \in Versions /\ c.read \in Row /\ c.snap \in Row /\ row[c.v] \in Row
            /\ Accepts(c.op, c.read) /\ ~ Inserting(q) /\ Has(q, c.v)
            /\ c.read.status # "REQUEST_FOR_CORRECTION"
            /\ Entity(c) \in Row /\ r \in Row
            /\ row' = [row EXCEPT ![c.v] = r]
            /\ drifted' = IF Terms(r) # Terms(row[c.v]) THEN drifted \cup {c.v} ELSE drifted
            /\ revived' = IF c.op = "reactivate" THEN revived \cup {c.v} ELSE revived
            /\ call' = [call EXCEPT ![q] = Ended]
            /\ \A p \in Requests : call'[p] = call[p] \/ ~ InFlight(p)'
            /\ UNCHANGED <<today, job, deaths>>
            /\ raced' \in BOOLEAN /\ (raced => raced')
            /\ ~ raced' => \A p \in Requests \ {q} : ~ (Has(p, c.v) /\ (Checks(p) \/ Checks(q)))
            /\ ~ raced' /\ Checks(q) => ~ JobHas(c.v)
            /\ TypeOK' /\ JobConsistent'
<1> DEFINE c == call[q]
           r == Saved(Entity(c), c.snap, row[c.v], LoadsRelations(c.op))
<1>1. /\ InFlight(q) /\ c \in Call /\ CallConsistent(q) /\ c.at = "commit"
      /\ c.read \in Row /\ c.snap \in Row /\ row[c.v] \in Row
      /\ c.op = "update" => c.form \in Forms
  BY InFlightCall DEF Commits, At
<1>2. ~ Inserting(q) /\ Accepts(c.op, c.read)
  BY <1>1 DEF CallConsistent
<1>3. c.v \in Versions /\ Has(q, c.v)
  BY <1>1, <1>2, InFlightCall DEF Has, Inserting
<1>4. c.read.status # "REQUEST_FOR_CORRECTION"
  BY <1>1, NoneIsNothing DEF IInv, NoCorrection
<1>5. Entity(c) \in Row
  BY <1>1, EntityIsRow
<1>6. r \in Row
  <2>1. LoadsRelations(c.op) \in BOOLEAN
    BY DEF LoadsRelations
  <2>2. QED
    BY <1>1, <1>5, <2>1, SavedIsRow
<1>7. /\ row' = [row EXCEPT ![c.v] = r]
      /\ drifted' = IF Terms(r) # Terms(row[c.v]) THEN drifted \cup {c.v} ELSE drifted
      /\ revived' = IF c.op = "reactivate" THEN revived \cup {c.v} ELSE revived
      /\ call' = [call EXCEPT ![q] = Ended]
      /\ UNCHANGED <<today, job, deaths>>
  BY DEF Commits, Save, End, OfTheOffice
<1>8. /\ raced' \in BOOLEAN /\ (raced => raced')
      /\ ~ raced' => \A p \in Requests \ {q} : ~ (Has(p, c.v) /\ (Checks(p) \/ Checks(q)))
      /\ ~ raced' /\ Checks(q) => ~ JobHas(c.v)
  BY DEF Commits, IInv, TypeOK
<1> HIDE DEF c, r
<1>9. TypeOK'
  BY <1>3, <1>6, <1>7, <1>8 DEF IInv, TypeOK
<1>10. JobConsistent'
  BY <1>3, <1>6, <1>7, NoneIsNothing DEF IInv, JobConsistent, TypeOK
<1>11. \A p \in Requests : call'[p] = call[p] \/ ~ InFlight(p)'
  BY <1>7 DEF IInv, TypeOK, InFlight
<1>12. QED
  BY <1>1, <1>2, <1>3, <1>4, <1>5, <1>6, <1>7, <1>8, <1>9, <1>10, <1>11 DEF c, r

\* A save that no check comes before.
LEMMA PlainCommitInv ==
  ASSUME IInv, NEW q \in Requests, Commits(q), ~ Checks(q), NEW v, v = call[q].v
  PROVE  IInv'
<1> DEFINE c == call[q]
           r == Saved(Entity(c), c.snap, row[v], LoadsRelations(c.op))
<1>1. /\ InFlight(q) /\ c \in Call /\ CallConsistent(q) /\ c.at = "commit"
      /\ v \in Versions /\ c.read \in Row /\ c.snap \in Row /\ row[v] \in Row
      /\ Accepts(c.op, c.read) /\ ~ Inserting(q) /\ Has(q, v)
      /\ c.read.status # "REQUEST_FOR_CORRECTION"
  BY CommitFacts
<1>2. /\ Entity(c) \in Row /\ r \in Row
      /\ row' = [row EXCEPT ![v] = r]
      /\ drifted' = IF Terms(r) # Terms(row[v]) THEN drifted \cup {v} ELSE drifted
      /\ revived' = IF c.op = "reactivate" THEN revived \cup {v} ELSE revived
  BY CommitFacts
<1>3. /\ call' = [call EXCEPT ![q] = Ended]
      /\ \A p \in Requests : call'[p] = call[p] \/ ~ InFlight(p)'
      /\ UNCHANGED <<today, job, deaths>>
      /\ raced' \in BOOLEAN /\ (raced => raced')
      /\ ~ raced' => \A p \in Requests \ {q} : ~ (Has(p, v) /\ (Checks(p) \/ Checks(q)))
      /\ TypeOK' /\ JobConsistent'
  BY CommitFacts
<1>4. c.op \in {"update", "deactivate", "deprecate"}
  BY <1>1 DEF Checks, Checking, Inserting, Call, Ops
<1>5. row[v].status # "REQUEST_FOR_CORRECTION"
  BY <1>1, NoneIsNothing DEF IInv, NoCorrection
<1>6. r.status \in {Entity(c).status, row[v].status}
  BY DEF Saved
<1>7. Entity(c).status # "REQUEST_FOR_CORRECTION"
      /\ (c.op = "update" => Entity(c).status \notin LiveStatus)
  <2>1. CASE c.op = "update"
    <3>1. c.form \in Forms
      BY <1>1, <2>1, InFlightCall
    <3>2. Entity(c).status = c.read.status
      BY <1>1, <2>1, <3>1, EditedIsRow DEF Entity
    <3>3. QED
      BY <1>1, <2>1, <3>2 DEF Accepts, EDITABLE_TARIFF_STATUSES, LiveStatus
  <2>2. CASE c.op = "deactivate"
    BY <1>1, <2>2 DEF Entity, Row
  <2>3. CASE c.op = "deprecate"
    BY <1>1, <2>3 DEF Entity, Row
  <2>4. QED
    BY <1>4, <2>1, <2>2, <2>3
<1>8. ASSUME ~ raced'
      PROVE  ~ IsLive(r) \/ (IsLive(row[v]) /\ SameTerms(r, row[v]) /\ r.status = row[v].status)
  <2>1. ReadsHold
    BY <1>3, <1>8 DEF IInv
  <2>2. CASE c.op = "update"
    <3>1. ~ IsLive(row[v])
      BY <1>1, <2>1, <2>2 DEF ReadsHold
    <3>2. row[v].status \notin LiveStatus
      BY <1>1, <3>1, NoneIsNothing DEF IsLive
    <3>3. r.status \notin LiveStatus
      BY <1>6, <1>7, <2>2, <3>2
    <3>4. ~ IsLive(r)
      BY <3>3 DEF IsLive
    <3>5. QED
      BY <3>4
  <2>3. CASE c.op # "update"
    <3>1. IsLive(row[v]) => SameTerms(row[v], c.read)
      BY <1>1, <1>4, <2>1, <2>3 DEF ReadsHold
    <3>2. PICK status \in TariffStatus \ LiveStatus : Entity(c) = [c.read EXCEPT !.status = status]
      <4>1. CASE c.op = "deactivate"
        BY <4>1 DEF Entity, TariffStatus, LiveStatus
      <4>2. CASE c.op = "deprecate"
        BY <4>2 DEF Entity, TariffStatus, LiveStatus
      <4>3. QED
        BY <1>4, <2>3, <4>1, <4>2
    <3>3. /\ Entity(c).status \notin LiveStatus
          /\ IsLive(row[v]) => SameTerms(row[v], Entity(c))
      BY <1>1, <3>1, <3>2 DEF SameTerms, Row
    <3>4. LoadsRelations(c.op) = FALSE
      BY <1>4, <2>3 DEF LoadsRelations
    <3>5. r = Saved(Entity(c), c.snap, row[v], FALSE)
      BY <3>4
    <3>6. c.snap \in Row /\ row[v] \in Row /\ Entity(c) \in Row
      BY <1>1, <1>2
    <3>7. LET t == Saved(Entity(c), c.snap, row[v], FALSE)
          IN ~ IsLive(t) \/ (IsLive(row[v]) /\ SameTerms(t, row[v]) /\ t.status = row[v].status)
      BY <3>3, <3>6, OutOfUse
    <3>8. QED
      BY <3>5, <3>7
  <2>4. QED
    BY <2>2, <2>3
<1>9. revived' = revived
  BY <1>2, <1>4
<1>10. ASSUME ~ raced', r.status = "ACTIVE", v \in drifted'
       PROVE  v \in revived'
  <2>1. IsLive(r)
    BY <1>2, <1>10, NoneIsNothing DEF IsLive, LiveStatus
  <2>2. SameTerms(r, row[v]) /\ r.status = row[v].status
    BY <1>8, <1>10, <2>1
  <2>3. Terms(r) = Terms(row[v])
    BY <2>2 DEF SameTerms, Terms, Scope, Targets
  <2>4. v \in drifted /\ Active(v)
    BY <1>1, <1>2, <1>10, <2>2, <2>3, NoneIsNothing DEF Active
  <2>5. QED
    BY <1>3, <1>9, <1>10, <2>4 DEF IInv, TermsReviewed
<1>11. \A p \in Requests : ~ raced' /\ Has(p, v)' => ~ Checks(p)
  <2>1. SUFFICES ASSUME NEW p \in Requests, ~ raced', Has(p, v)', Checks(p) PROVE FALSE
    OBVIOUS
  <2>2. p # q /\ Has(p, v)
    BY <1>3, <2>1 DEF Has, InFlight, Inserting, IInv, TypeOK
  <2>3. QED
    BY <1>3, <2>1, <2>2
<1>12. r.status # "REQUEST_FOR_CORRECTION"
  BY <1>5, <1>6, <1>7
<1>13. \A w \in Versions \ {v} : (w \in drifted' => w \in drifted) /\ (w \in revived => w \in revived')
  BY <1>2, <1>9
<1>14. job'.todo \subseteq job.todo /\ job'.now \in {None, job.now}
  BY <1>3
<1>15. ~ raced' =>
         /\ ~ IsLive(r) \/ (IsLive(row[v]) /\ SameTerms(r, row[v]))
         /\ r.status = "ACTIVE" /\ v \in drifted' => v \in revived'
         /\ \A p \in Requests : Has(p, v)' => ~ Checks(p)
  BY <1>8, <1>10, <1>11
<1>16. v \in Versions /\ r \in Row /\ row' = [row EXCEPT ![v] = r]
  BY <1>1, <1>2
<1> HIDE DEF c, r
<1>17. QED
  BY <1>3, <1>12, <1>13, <1>14, <1>15, <1>16, QuietSave
\* The save of a submission, or of a reactivation: nothing has touched its version
\* since it was read, and it clashes with none that is live.
LEMMA CheckedCommitInv ==
  ASSUME IInv, NEW q \in Requests, Commits(q), Checks(q), NEW v, v = call[q].v
  PROVE  IInv'
<1> DEFINE c == call[q]
           r == Saved(Entity(c), c.snap, row[v], LoadsRelations(c.op))
<1>1. /\ InFlight(q) /\ c \in Call /\ CallConsistent(q) /\ c.at = "commit"
      /\ v \in Versions /\ c.read \in Row /\ c.snap \in Row /\ row[v] \in Row
      /\ Accepts(c.op, c.read) /\ ~ Inserting(q) /\ Has(q, v)
      /\ c.read.status # "REQUEST_FOR_CORRECTION"
  BY CommitFacts
<1>2. /\ Entity(c) \in Row /\ r \in Row
      /\ row' = [row EXCEPT ![v] = r]
      /\ drifted' = IF Terms(r) # Terms(row[v]) THEN drifted \cup {v} ELSE drifted
      /\ revived' = IF c.op = "reactivate" THEN revived \cup {v} ELSE revived
  BY CommitFacts
<1>3. /\ call' = [call EXCEPT ![q] = Ended]
      /\ \A p \in Requests : call'[p] = call[p] \/ ~ InFlight(p)'
      /\ UNCHANGED <<today, job, deaths>>
      /\ raced' \in BOOLEAN /\ (raced => raced')
      /\ ~ raced' => \A p \in Requests \ {q} : ~ Has(p, v)
      /\ ~ raced' => ~ JobHas(v)
      /\ TypeOK' /\ JobConsistent'
  BY CommitFacts
<1>4. c.op \in {"submit", "reactivate"} /\ LoadsRelations(c.op)
  BY DEF Checks, Checking, LoadsRelations
<1>5. ~ InFlight(q)' /\ row'[v] = r /\ (\A w \in Versions \ {v} : row'[w] = row[w])
  BY <1>1, <1>2, <1>3 DEF InFlight, IInv, TypeOK
<1>6. \A p \in Requests : InFlight(p)' => p # q /\ InFlight(p) /\ call'[p] = call[p]
  BY <1>3, <1>5 DEF InFlight
<1>7. Entity(c) = [c.read EXCEPT !.status = IF c.op = "submit" THEN "PENDING" ELSE "ACTIVE"]
  BY <1>4 DEF Entity
<1>8. r.status # "REQUEST_FOR_CORRECTION"
  <2>1. Entity(c).status \in {"PENDING", "ACTIVE"}
    BY <1>1, <1>7 DEF Row
  <2>2. row[v].status # "REQUEST_FOR_CORRECTION"
    BY <1>1, NoneIsNothing DEF IInv, NoCorrection
  <2>3. QED
    BY <2>1, <2>2 DEF Saved
<1>9. NoCorrection'
  BY <1>5, <1>6, <1>8 DEF IInv, NoCorrection
<1>10. ASSUME NEW p \in Requests, InFlight(p)' PROVE CallConsistent(p)'
  <2>1. InFlight(p) /\ call'[p] = call[p] /\ CallConsistent(p)
    BY <1>6, <1>10 DEF IInv
  <2>2. call[p].at # "load" => call[p].v \in Versions /\ row'[call[p].v] # None
    BY <1>2, <1>5, <2>1, InFlightCall, NoneIsNothing DEF CallConsistent
  <2>3. QED
    BY <2>1, <2>2 DEF CallConsistent, Inserting
<1>11. ASSUME ~ raced'
       PROVE  /\ SameTerms(r, row[v]) /\ row[v] = c.read
              /\ r.status = IF c.op = "submit" THEN "PENDING" ELSE "ACTIVE"
  <2>1. row[v] = c.read /\ c.snap = row[v]
    BY <1>1, <1>3, <1>11 DEF IInv, ReadsHold
  <2>2. Entity(c).type = c.read.type /\ Entity(c).app = c.read.app /\ Entity(c).from = c.read.from
        /\ Entity(c).to = c.read.to /\ Entity(c).on = c.read.on
        /\ Entity(c).status = IF c.op = "submit" THEN "PENDING" ELSE "ACTIVE"
    BY <1>1, <1>7 DEF Row
  <2>3. QED
    BY <1>4, <2>1, <2>2 DEF Saved, SameTerms
<1>12. ASSUME ~ raced' PROVE NoClash(row')
  <2>1. SUFFICES ASSUME NEW w \in Versions, NEW z \in Versions, w # z,
                        IsLive(row'[w]), IsLive(row'[z])
                 PROVE  ~ Clash(row'[w], row'[z])
    BY DEF NoClash
  <2>2. NoClash(row) /\ NoExactConflict(c.read, v)
    BY <1>1, <1>3, <1>12 DEF IInv, Exclusive, ChecksHold, Checked
  <2>3. CASE w # v /\ z # v
    BY <1>5, <2>1, <2>2, <2>3 DEF NoClash
  <2>4. ASSUME NEW x \in Versions \ {v}, IsLive(row'[x])
        PROVE  ~ Clash(row'[x], r) /\ ~ Clash(r, row'[x])
    <3>1. row'[x] = row[x] /\ row[x] \in Row
      BY <1>5, <2>4 DEF IsLive, IInv, TypeOK
    <3>2. ~ Clash(row[x], c.read)
      BY <2>2, <2>4, <3>1 DEF NoExactConflict
    <3>3. ~ Clash(row[x], r)
      BY <1>11, <1>12, <3>2, SameTermsClash
    <3>4. QED
      BY <1>2, <3>1, <3>3, ClashBothWays
  <2>5. CASE w = v
    BY <1>5, <2>1, <2>4, <2>5
  <2>6. CASE z = v
    BY <1>5, <2>1, <2>4, <2>6
  <2>7. QED
    BY <2>3, <2>5, <2>6
<1>13. Exclusive'
  BY <1>12 DEF Exclusive, NoClash
<1>14. TermsReviewed'
  <2>1. SUFFICES ASSUME ~ raced', NEW w \in drifted', Active(w)'
                 PROVE  w \in revived'
    BY DEF TermsReviewed
  <2>2. w \in Versions
    BY <1>3 DEF TypeOK
  <2>3. CASE w = v
    <3>1. r.status = "ACTIVE"
      BY <1>5, <2>1, <2>3 DEF Active
    <3>2. c.op = "reactivate"
      BY <1>4, <1>11, <2>1, <3>1
    <3>3. QED
      BY <1>2, <2>3, <3>2
  <2>4. CASE w # v
    <3>1. w \in drifted /\ Active(w)
      BY <1>2, <1>5, <2>1, <2>2, <2>4 DEF Active
    <3>2. w \in revived
      BY <1>3, <2>1, <3>1 DEF IInv, TermsReviewed
    <3>3. QED
      BY <1>2, <3>2
  <2>5. QED
    BY <2>3, <2>4
<1>15. ASSUME ~ raced' PROVE ReadsHold'
  <2>1. ReadsHold
    BY <1>3, <1>15 DEF IInv
  <2>2. ASSUME NEW p \in Requests, NEW w \in Versions, Has(p, w)'
        PROVE  /\ Checks(p)' => row'[w] = call'[p].read /\ (call'[p].at = "commit" => call'[p].snap = row'[w])
               /\ call'[p].op = "update" => ~ IsLive(row'[w])
               /\ call'[p].op \in {"deactivate", "deprecate"} /\ IsLive(row'[w]) =>
                    SameTerms(row'[w], call'[p].read)
    <3>1. p # q /\ call'[p] = call[p] /\ Has(p, w) /\ (Checks(p)' => Checks(p))
      BY <1>6, <2>2 DEF Has, Inserting, Checks
    <3>2. w # v
      BY <1>3, <1>15, <3>1
    <3>3. row'[w] = row[w]
      BY <1>5, <3>2
    <3>4. QED
      BY <2>1, <3>1, <3>3 DEF ReadsHold
  <2>3. /\ \A e \in job.todo : e.v \in Versions \ {v}
        /\ job.now # None => job.now.v \in Versions \ {v}
    BY <1>3, <1>15 DEF JobHas, IInv, TypeOK, Job, Entry
  <2>4. /\ \A e \in job'.todo : IsLive(row'[e.v]) => SameTerms(row'[e.v], e.read)
        /\ job'.now # None /\ IsLive(row'[job'.now.v]) => SameTerms(row'[job'.now.v], job'.now.read)
    BY <1>3, <1>5, <2>1, <2>3 DEF ReadsHold
  <2>5. QED
    BY <2>2, <2>4 DEF ReadsHold
<1>16. ASSUME ~ raced' PROVE ChecksHold'
  <2>1. Checked(q) /\ ChecksHold
    BY <1>1, <1>3, <1>16 DEF Checked, IInv
  <2>2. \A p \in Requests : ~ Checked(p)'
    BY <1>6, <2>1 DEF ChecksHold, Checked, Checks
  <2>3. QED
    BY <2>2 DEF ChecksHold
<1>17. QED
  BY <1>3, <1>9, <1>10, <1>13, <1>14, <1>15, <1>16 DEF IInv

-----------------------------------------------------------------------------
\* A verdict: nobody who checks has read a pending version.
LEMMA VerdictInv ==
  ASSUME IInv, NEW v \in Versions, Approve(v) \/ Reject(v)
  PROVE  IInv'
<1>1. PICK status \in {"ACTIVE", "REJECTED"} : row' = [row EXCEPT ![v].status = status]
  BY DEF Approve, Reject
<1> DEFINE r == [row[v] EXCEPT !.status = status]
<1>2. row[v] \in Row /\ row[v].status = "PENDING"
  BY DEF Approve, Reject, IInv, TypeOK
<1>3. r \in Row /\ r.status = status /\ SameTerms(r, row[v])
  BY <1>2 DEF Row, TariffStatus, SameTerms
<1>4. row' = [row EXCEPT ![v] = r]
  BY <1>1
<1>5. /\ UNCHANGED <<call, today, job, deaths, raced>>
      /\ drifted' \subseteq drifted /\ \A w \in Versions \ {v} : w \in revived => w \in revived'
      /\ revived' \subseteq revived /\ (status = "ACTIVE" => v \notin drifted')
  <2>1. CASE Approve(v)
    BY <2>1 DEF Approve, OfTheOffice
  <2>2. CASE Reject(v)
    <3>1. row'[v].status = "REJECTED"
      BY <1>2, <2>2 DEF Reject, IInv, TypeOK
    <3>2. row'[v].status = status
      BY <1>3, <1>4 DEF IInv, TypeOK
    <3>3. QED
      BY <2>2, <3>1, <3>2 DEF Reject, OfTheOffice, history
  <2>3. QED
    BY <2>1, <2>2
<1>6. TypeOK'
  BY <1>3, <1>4, <1>5 DEF IInv, TypeOK
<1>7. JobConsistent'
  BY <1>3, <1>4, <1>5, NoneIsNothing DEF IInv, JobConsistent, TypeOK
<1>8. IsLive(row[v])
  BY <1>2, NoneIsNothing DEF IsLive, LiveStatus
<1>9. ASSUME ~ raced', NEW q \in Requests, Has(q, v)', Checks(q)
      PROVE  FALSE
  <2>1. Has(q, v) /\ ReadsHold
    BY <1>5, <1>9 DEF Has, InFlight, Inserting, IInv
  <2>2. row[v] = call[q].read
    BY <1>9, <2>1 DEF ReadsHold
  <2>3. CallConsistent(q) /\ call[q].at # "load"
    BY <2>1 DEF Has, IInv
  <2>4. Accepts(call[q].op, row[v])
    BY <2>2, <2>3 DEF CallConsistent
  <2>5. CASE call[q].op = "submit"
    BY <1>2, <2>4, <2>5 DEF Accepts, SUBMITTABLE_TARIFF_STATUSES
  <2>6. CASE call[q].op = "reactivate"
    BY <1>2, <2>4, <2>6 DEF Accepts
  <2>7. QED
    BY <1>9, <2>5, <2>6 DEF Checks, Checking
<1>10. ~ raced' =>
         /\ ~ IsLive(r) \/ (IsLive(row[v]) /\ SameTerms(r, row[v]))
         /\ r.status = "ACTIVE" /\ v \in drifted' => v \in revived'
         /\ \A q \in Requests : Has(q, v)' => ~ Checks(q)
  BY <1>3, <1>5, <1>8, <1>9
<1>11. r.status # "REQUEST_FOR_CORRECTION"
  BY <1>3
<1> HIDE DEF r
<1>12. QED
  BY <1>3, <1>4, <1>5, <1>6, <1>7, <1>10, <1>11, QuietSave
-----------------------------------------------------------------------------
\* The night goes on, and the tables stay.
LEMMA NightGoesOn ==
  ASSUME IInv, UNCHANGED <<row, call, raced, drifted, revived>>,
         TypeOK', JobConsistent',
         \A e \in job'.todo : e \in job.todo \/ e.read = row[e.v],
         job'.now = None \/ job'.now = job.now \/ job'.now \in job.todo
  PROVE  IInv'
<1>1. NoCorrection' /\ Exclusive' /\ TermsReviewed'
      /\ (\A q \in Requests : InFlight(q)' => CallConsistent(q)')
  BY DEF IInv, NoCorrection, InFlight, Exclusive, TermsReviewed, NoClash, Active,
         CallConsistent, Inserting
<1>2. ASSUME ~ raced' PROVE ReadsHold'
  <2>1. ReadsHold
    BY <1>2 DEF IInv
  <2>2. \A e \in job'.todo : IsLive(row[e.v]) => SameTerms(row[e.v], e.read)
    BY <2>1 DEF ReadsHold, SameTerms
  <2>3. job'.now # None /\ IsLive(row[job'.now.v]) => SameTerms(row[job'.now.v], job'.now.read)
    BY <2>1 DEF ReadsHold
  <2>4. QED
    BY <2>1, <2>2, <2>3 DEF ReadsHold, Has, InFlight, Inserting, Checks
<1>3. ASSUME ~ raced' PROVE ChecksHold'
  BY <1>3 DEF IInv, ChecksHold, Checked, Checks, InFlight, NoExactConflict
<1>4. QED
  BY <1>1, <1>2, <1>3 DEF IInv

LEMMA MidnightInv ==
  ASSUME IInv, Midnight
  PROVE  IInv'
<1>1. PICK day \in 0..MaxDay :
        today' = day /\ job' = [Idle EXCEPT !.at = "supersede", !.todo = Superseded(day)]
  <2>1. (IF today = MaxDay THEN MaxDay ELSE today + 1) \in 0..MaxDay
    BY NoneIsNothing DEF IInv, TypeOK
  <2>2. QED
    BY <2>1 DEF Midnight
<1>2. job'.at = "supersede" /\ job'.todo = Superseded(day) /\ job'.now = None /\ job'.snap = None
  BY <1>1 DEF Idle
<1>3. \A e \in Superseded(day) : e \in Entry /\ e.read = row[e.v] /\ row[e.v] # None
  <2>1. ASSUME NEW c \in Versions, Active(c), row[c].parent # None, Active(row[c].parent)
        PROVE  /\ row[c].parent \in Versions /\ row[row[c].parent] \in Row
               /\ row[row[c].parent] # None
    BY <2>1 DEF Active, IInv, TypeOK, Row
  <2>2. QED
    BY <2>1 DEF Superseded, Entry
<1>4. UNCHANGED <<row, call, deaths, raced, drifted, revived>>
  BY DEF Midnight, history
<1>5. job' \in Job
  <2>1. Idle \in Job /\ Superseded(day) \in SUBSET Entry
    BY <1>3 DEF Idle, Job
  <2>2. QED
    BY <1>1, <2>1 DEF Job
<1>6. TypeOK' /\ JobConsistent'
  BY <1>1, <1>2, <1>3, <1>4, <1>5 DEF IInv, TypeOK, JobConsistent
<1>7. QED
  BY <1>2, <1>3, <1>4, <1>6, NightGoesOn

LEMMA JobReadsInv ==
  ASSUME IInv, JobReads
  PROVE  IInv'
<1>0. job \in Job
  BY DEF IInv, TypeOK
<1>1. PICK e \in job.todo : job' = [job EXCEPT !.todo = @ \ {e}, !.now = e, !.snap = row[e.v]]
  BY DEF JobReads
<1>2. /\ e \in Entry /\ row[e.v] # None /\ row[e.v] \in Row
      /\ UNCHANGED <<row, call, today, deaths, raced, drifted, revived>>
      /\ job.at # "idle"
  BY DEF IInv, TypeOK, Job, JobConsistent, Entry, JobReads, history
<1>3. job'.at = job.at /\ job'.todo = job.todo \ {e} /\ job'.now = e /\ job'.snap = row[e.v]
  BY <1>0, <1>1 DEF Job
<1>4. job' \in Job
  BY <1>0, <1>1, <1>2 DEF Job
<1>5. TypeOK' /\ JobConsistent'
  BY <1>2, <1>3, <1>4 DEF IInv, TypeOK, JobConsistent
<1>6. QED
  BY <1>1, <1>2, <1>3, <1>5, NightGoesOn
\* The job takes a version out of use.
LEMMA JobSavesInv ==
  ASSUME IInv, JobSaves
  PROVE  IInv'
<1>1. PICK e \in Entry : e = job.now /\ job.now # None
  BY DEF JobSaves, IInv, TypeOK, Job
<1>2. PICK v \in Versions : v = e.v
  BY DEF Entry
<1>3. e.read \in Row /\ job.snap \in Row /\ row[v] \in Row
  BY <1>1, <1>2 DEF IInv, TypeOK, JobConsistent, Job, Entry
<1> DEFINE status == IF job.at = "supersede" THEN "DEPRECATED" ELSE "EXPIRED"
           r == Saved([e.read EXCEPT !.status = status], job.snap, row[v], FALSE)
<1>4. /\ row' = [row EXCEPT ![v] = r]
      /\ drifted' = IF Terms(r) # Terms(row[v]) THEN drifted \cup {v} ELSE drifted
      /\ job' = [job EXCEPT !.now = None, !.snap = None]
      /\ UNCHANGED <<call, today, deaths, revived>>
      /\ raced' = (raced \/ \E p \in Requests : Has(p, v) /\ Checks(p))
  BY <1>1, <1>2 DEF JobSaves, Save
<1>5. status \in TariffStatus \ LiveStatus
  BY DEF TariffStatus, LiveStatus
<1>6. job'.at = job.at /\ job'.todo = job.todo /\ job'.now = None /\ job'.snap = None
  BY <1>4 DEF IInv, TypeOK, Job
<1>7. job' \in Job
  BY <1>4 DEF IInv, TypeOK, Job
<1>8. r \in Row
  <2>1. [e.read EXCEPT !.status = status] \in Row
    BY <1>3, <1>5 DEF Row
  <2>2. QED
    BY <1>3, <2>1, SavedIsRow
<1>9. raced' \in BOOLEAN /\ (raced => raced')
      /\ (~ raced' => \A q \in Requests : Has(q, v)' => ~ Checks(q))
  BY <1>4 DEF IInv, TypeOK, Has, InFlight, Inserting
<1>10. TypeOK'
  BY <1>4, <1>7, <1>8, <1>9 DEF IInv, TypeOK
<1>11. JobConsistent'
  <2>1. \A w \in Versions : row[w] # None => row'[w] # None
    BY <1>4, <1>8, NoneIsNothing DEF IInv, TypeOK
  <2>2. \A x \in job.todo : x.v \in Versions
    BY DEF IInv, TypeOK, Job, Entry
  <2>3. QED
    BY <1>6, <2>1, <2>2 DEF IInv, JobConsistent
<1>12. r.status \in {status, row[v].status}
  <2>1. [e.read EXCEPT !.status = status].status = status
    BY <1>3 DEF Row
  <2>2. QED
    BY <2>1 DEF Saved
<1>13. r.status # "REQUEST_FOR_CORRECTION"
  <2>1. row[v].status # "REQUEST_FOR_CORRECTION"
    BY <1>3, NoneIsNothing DEF IInv, NoCorrection
  <2>2. QED
    BY <1>12, <2>1
<1>14. ASSUME ~ raced'
       PROVE  ~ IsLive(r) \/ (IsLive(row[v]) /\ SameTerms(r, row[v]) /\ r.status = row[v].status)
  <2>1. IsLive(row[v]) => SameTerms(row[v], e.read)
    BY <1>1, <1>2, <1>9, <1>14 DEF IInv, ReadsHold
  <2> DEFINE entity == [e.read EXCEPT !.status = status]
  <2>2. entity \in Row /\ entity.status = status /\ SameTerms(entity, e.read)
    BY <1>3, <1>5 DEF Row, SameTerms
  <2>3. entity.status \notin LiveStatus /\ (IsLive(row[v]) => SameTerms(row[v], entity))
    BY <1>5, <2>1, <2>2 DEF SameTerms
  <2> HIDE DEF entity
  <2>4. LET t == Saved(entity, job.snap, row[v], FALSE)
        IN ~ IsLive(t) \/ (IsLive(row[v]) /\ SameTerms(t, row[v]) /\ t.status = row[v].status)
    BY <1>3, <2>2, <2>3, OutOfUse
  <2>5. QED
    BY <2>4 DEF entity
<1>15. ASSUME ~ raced', r.status = "ACTIVE", v \in drifted'
       PROVE  v \in revived'
  <2>1. IsLive(r)
    BY <1>8, <1>15, NoneIsNothing DEF IsLive, LiveStatus
  <2>2. SameTerms(r, row[v]) /\ r.status = row[v].status
    BY <1>14, <1>15, <2>1
  <2>3. Terms(r) = Terms(row[v])
    BY <2>2 DEF SameTerms, Terms, Scope, Targets
  <2>4. v \in drifted /\ Active(v)
    BY <1>3, <1>4, <1>15, <2>2, <2>3, NoneIsNothing DEF Active
  <2>5. QED
    BY <1>4, <1>9, <1>15, <2>4 DEF IInv, TermsReviewed
<1> HIDE DEF r
<1>16. QED
  BY <1>4, <1>6, <1>8, <1>9, <1>10, <1>11, <1>13, <1>14, <1>15, QuietSave

LEMMA JobTurnsInv ==
  ASSUME IInv, JobTurns
  PROVE  IInv'
<1>1. /\ UNCHANGED <<row, call, today, deaths, raced, drifted, revived>>
      /\ job \in Job /\ job.now = None
      /\ job' = [job EXCEPT !.at = "expire",
                           !.todo = {[v |-> v, by |-> v, read |-> row[v]] : v \in Expiring}]
  BY DEF JobTurns, IInv, TypeOK, history
<1>2. /\ job'.at = "expire" /\ job'.now = None /\ job'.snap = job.snap
      /\ job'.todo = {[v |-> v, by |-> v, read |-> row[v]] : v \in Expiring}
  BY <1>1 DEF Job
<1>3. \A v \in Expiring : v \in Versions /\ row[v] # None /\ row[v] \in Row
  BY DEF Expiring, Active, IInv, TypeOK
<1>4. \A e \in job'.todo : e \in Entry /\ e.read = row[e.v] /\ row[e.v] # None
  BY <1>2, <1>3 DEF Entry
<1>5. job' \in Job
  BY <1>1, <1>2, <1>4 DEF Job
<1>6. TypeOK' /\ JobConsistent'
  BY <1>1, <1>2, <1>4, <1>5 DEF IInv, TypeOK, JobConsistent
<1>7. QED
  BY <1>1, <1>2, <1>4, <1>6, NightGoesOn

LEMMA JobStopsInv ==
  ASSUME IInv, JobEnds \/ JobDies
  PROVE  IInv'
<1>1. /\ UNCHANGED <<row, call, today, raced, drifted, revived>>
      /\ job' = Idle /\ deaths' \in 0..MaxDeaths
  BY TariffAssumption DEF JobEnds, JobDies, IInv, TypeOK, history
<1>2. job'.at = "idle" /\ job'.todo = {} /\ job'.now = None /\ job' \in Job
  BY <1>1 DEF Idle, Job
<1>3. TypeOK' /\ JobConsistent'
  BY <1>1, <1>2 DEF IInv, TypeOK, JobConsistent
<1>4. QED
  BY <1>1, <1>2, <1>3, NightGoesOn

-----------------------------------------------------------------------------
\* Every step of every call, of a reviewer and of the night keeps the invariant.
THEOREM InductiveInvariant == Spec => []IInv
<1>1. Init => IInv
  BY InitInv
<1>2. IInv /\ [Next]_vars => IInv'
  <2>1. SUFFICES ASSUME IInv, [Next]_vars PROVE IInv'
    OBVIOUS
  <2>2. ASSUME NEW q \in Requests, Office(q) PROVE IInv'
    <3>1. CASE Commits(q)
      <4>1. PICK v \in Versions : v = call[q].v
        BY <2>1, <3>1, InFlightCall DEF Commits, At, CallConsistent, Inserting
      <4>2. QED
        BY <2>1, <3>1, <4>1, PlainCommitInv, CheckedCommitInv
    <3>2. QED
      BY <2>1, <2>2, <3>1, AsksInv, RefusedInv, CreatesInv, LoadsInv, ChecksInv,
         BeginsInv, ClonesInv DEF Office
  <2>3. ASSUME NEW v \in Versions, Approve(v) \/ Reject(v) PROVE IInv'
    BY <2>1, <2>3, VerdictInv
  <2>4. CASE Midnight \/ JobStep \/ JobDies
    BY <2>1, <2>4, MidnightInv, JobReadsInv, JobSavesInv, JobTurnsInv, JobStopsInv DEF JobStep
  <2>5. CASE UNCHANGED vars
    BY <2>1, <2>5 DEF vars, IInv, TypeOK, NoCorrection, JobConsistent, InFlight,
       CallConsistent, Inserting, Exclusive, NoClash, TermsReviewed, Active, ReadsHold,
       ChecksHold, Has, Checks, Checked, NoExactConflict
  <2>6. QED
    BY <2>1, <2>2, <2>3, <2>4, <2>5 DEF Next
<1>3. QED
  BY <1>1, <1>2, PTL DEF Spec

\* Without overlapping checks no two live versions clash.
THEOREM ExclusiveHolds == Spec => []Exclusive
<1>1. IInv => Exclusive
  BY DEF IInv
<1>2. QED
  BY <1>1, InductiveInvariant, PTL

\* Without overlapping checks an active version has the terms that were approved,
\* unless it was reactivated.
THEOREM TermsReviewedHolds == Spec => []TermsReviewed
<1>1. IInv => TermsReviewed
  BY DEF IInv
<1>2. QED
  BY <1>1, InductiveInvariant, PTL
=============================================================================
