---------------------------- MODULE Registrations ----------------------------
(***************************************************************************)
(* A registration request from draft to decision, the security deposit     *)
(* that follows its approval, and the customer account the approval        *)
(* creates: RegistrationRequestService, with create, activate and          *)
(* activateFromDepositVerification of CustomerService.                     *)
(*                                                                         *)
(* Every call loads the whole request with its children, without a lock,   *)
(* checks what it loaded and changes it in memory; then a transaction      *)
(* saves it.  TypeORM re-reads the rows in the transaction and writes the  *)
(* columns that differ from the entity, its children's included.  The      *)
(* re-read is a snapshot (REPEATABLE READ), and a row another transaction  *)
(* has written since is overwritten blindly.  So a call has three steps    *)
(* here: it loads, its transaction begins (the snapshot), it commits.      *)
(***************************************************************************)
EXTENDS Naturals, Sequences

CONSTANTS
  RequestIds,    \* registration requests
  Corporate,     \* those of a company, whose KYC document must be verified
  Slots,         \* a unit and resident type: what a customer is unique for
  SlotOf,        \* the first unit and the resident type of each request
  MaxDemands,    \* bound: demands raised per request
  MaxCustomers,  \* bound: customers created
  Staff, Portal  \* concurrent calls, of staff and from the customer portal

ASSUME RegistrationAssumption ==
  /\ Corporate \subseteq RequestIds /\ SlotOf \in [RequestIds -> Slots]
  /\ MaxDemands \in Nat /\ MaxCustomers \in Nat

Callers == Staff \cup Portal

VARIABLES
  request,    \* request[r]: the row with its children
  customers,  \* the customers, by id
  ongoing     \* ongoing[p]: the call in progress

registrationsVars == <<request, customers, ongoing>>

Status ==
  {"DRAFT", "SENT_TO_RESIDENT", "PENDING_CS_REVIEW", "RETURNED_TO_RESIDENT",
   "APPROVED", "REJECTED"}
DepositStatus ==
  {"UNDECIDED", "NOT_REQUIRED", "REQUESTED", "PAID_PENDING", "VERIFIED"}
DemandStatus == {"RAISED", "PAID", "VERIFIED", "REVERSED"}

\* customer: 0 for none.  ledger: the one registration_deposits row.  document:
\* the KYC document, blank before its fields are extracted.
RequestRow ==
  [status: Status, deposit: DepositStatus, customer: 0..MaxCustomers,
   demands: Seq(DemandStatus), ledger: {"none", "PENDING", "PAID"},
   document: {"none", "blank", "unverified", "verified"}]
Customer == [slot: Slots, active: BOOLEAN, password: BOOLEAN]

Saves ==
  {"updateDraft", "sendToResident", "submitForReview", "returnToResident",
   "approve", "reject", "requestDeposit", "recordDepositPayment",
   "verifyDeposit", "returnReceipt"}

\* goal: the entity as the call has changed it; snap and seen: the request and
\* the customers in the transaction's snapshot.
Idle     == [at |-> "idle"]
Loaded   == [at: {"loaded"}, op: Saves \cup {"document"}, on: RequestIds, goal: RequestRow]
Begun    == [at: {"begun"}, op: Saves \cup {"document"}, on: RequestIds, goal: RequestRow,
             snap: RequestRow, seen: SUBSET Slots]
Activate == [at: {"activating"}, customer: 1..MaxCustomers, resolved: BOOLEAN]

RegistrationsTypeOK ==
  /\ request \in [RequestIds -> RequestRow]
  /\ \A r \in RequestIds : request[r].customer \in 0..Len(customers)
  /\ customers \in Seq(Customer) /\ Len(customers) <= MaxCustomers
  /\ ongoing \in [Callers -> {Idle} \cup Loaded \cup Begun \cup Activate]

\* createDraft
Draft ==
  [status |-> "DRAFT", deposit |-> "UNDECIDED", customer |-> 0, demands |-> <<>>,
   ledger |-> "none", document |-> "none"]

RegistrationsInit ==
  /\ request = [r \in RequestIds |-> Draft]
  /\ customers = <<>>
  /\ ongoing = [p \in Callers |-> Idle]

Taken == {customers[c].slot : c \in DOMAIN customers}
Demands(row, status) == {i \in DOMAIN row.demands : row.demands[i] = status}

Starts(p, record) ==
  /\ ongoing[p] = Idle
  /\ ongoing' = [ongoing EXCEPT ![p] = record]
  /\ UNCHANGED <<request, customers>>
Answers(p) == ongoing' = [ongoing EXCEPT ![p] = Idle]

\* findOneEntity and the changes made to what it returned.
Loads(p, op, r, goal) ==
  Starts(p, [at |-> "loaded", op |-> op, on |-> r, goal |-> goal])

\* The first demand of the status, as find() picks it, moves to another.
Moved(row, from, to) ==
  LET first == CHOOSE i \in Demands(row, from) :
                 \A j \in Demands(row, from) : i <= j
  IN  IF Demands(row, from) = {} THEN row ELSE [row EXCEPT !.demands[first] = to]

-----------------------------------------------------------------------------
(* The review: from draft to decision.                                      *)

\* Fields of the draft other than the rows kept here; the status is saved too.
UpdateDraft(p, r) ==
  /\ request[r].status \in {"DRAFT", "RETURNED_TO_RESIDENT"}
  /\ Loads(p, "updateDraft", r, request[r])

SendToResident(p, r) ==
  /\ request[r].status = "DRAFT"
  /\ Loads(p, "sendToResident", r, [request[r] EXCEPT !.status = "SENT_TO_RESIDENT"])

\* assertUnitsEligible refuses a unit that has such a resident already.
UnitsEligible(r) == SlotOf[r] \notin Taken

SubmitForReview(p, r) ==
  /\ request[r].status \in {"DRAFT", "SENT_TO_RESIDENT", "RETURNED_TO_RESIDENT"}
  /\ UnitsEligible(r)
  /\ Loads(p, "submitForReview", r, [request[r] EXCEPT !.status = "PENDING_CS_REVIEW"])

ReturnToResident(p, r) ==
  /\ request[r].status = "PENDING_CS_REVIEW"
  /\ Loads(p, "returnToResident", r,
       [request[r] EXCEPT !.status = "RETURNED_TO_RESIDENT"])

\* deriveAndAssertCompanyKyc; an admin may make the document optional.
KycDone(r, mandatory) ==
  r \in Corporate /\ mandatory => request[r].document = "verified"

Approve(p, r) ==
  /\ request[r].status = "PENDING_CS_REVIEW" /\ request[r].customer = 0
  /\ \E mandatory \in BOOLEAN : KycDone(r, mandatory)
  /\ Loads(p, "approve", r, [request[r] EXCEPT !.status = "APPROVED",
       !.deposit = IF Demands(request[r], "VERIFIED") # {} THEN "VERIFIED" ELSE @])

Reject(p, r) ==
  LET live == {i \in DOMAIN request[r].demands :
                 request[r].demands[i] \in {"RAISED", "PAID", "VERIFIED"}}
      reversed == CHOOSE i \in live : \A j \in live : i <= j
  IN
  /\ request[r].status = "PENDING_CS_REVIEW" /\ request[r].customer = 0
  /\ Loads(p, "reject", r,
       IF live = {} THEN [request[r] EXCEPT !.status = "REJECTED"]
       ELSE [request[r] EXCEPT !.status = "REJECTED", !.deposit = "UNDECIDED",
               !.demands[reversed] = "REVERSED",
               !.ledger = IF @ = "PAID" THEN "PENDING" ELSE @])

-----------------------------------------------------------------------------
(* The security deposit.                                                    *)

RequestDeposit(p, r) ==
  /\ request[r].status = "APPROVED" /\ request[r].customer # 0
  /\ request[r].deposit \notin {"REQUESTED", "PAID_PENDING"}
  /\ Loads(p, "requestDeposit", r, request[r])

RecordDepositPayment(p, r) ==
  /\ request[r].deposit = "REQUESTED" \/ request[r].status = "RETURNED_TO_RESIDENT"
  /\ Demands(request[r], "RAISED") # {}
  /\ Loads(p, "recordDepositPayment", r,
       [Moved(request[r], "RAISED", "PAID") EXCEPT
          !.deposit = "PAID_PENDING", !.ledger = "PAID"])

VerifyDeposit(p, r) ==
  /\ request[r].deposit = "PAID_PENDING" /\ Demands(request[r], "PAID") # {}
  /\ request[r].customer # 0
  /\ Loads(p, "verifyDeposit", r,
       [Moved(request[r], "PAID", "VERIFIED") EXCEPT !.deposit = "VERIFIED"])

\* The demand raised afresh comes with the commit.
ReturnReceiptForCorrection(p, r) ==
  /\ request[r].deposit = "PAID_PENDING"
  /\ Loads(p, "returnReceipt", r,
       IF Demands(request[r], "PAID") = {} THEN request[r]
       ELSE [Moved(request[r], "PAID", "REVERSED") EXCEPT !.ledger = "PENDING"])

\* upload, remove, setExtractedFields, the two ways to verify, and a corrected
\* value: each loads the request and saves the one document.
ChangeDocument(p, r) ==
  LET now == request[r].document IN
  r \in Corporate /\ \E next \in CASE now = "none"  -> {"blank"}
                [] now = "blank" -> {"blank", "none", "unverified"}
                [] OTHER         -> {now, "none", "unverified", "verified"} :
    Loads(p, "document", r, [request[r] EXCEPT !.document = next])

-----------------------------------------------------------------------------
(* The transactions.                                                        *)

Begins(p) ==
  /\ ongoing[p].at = "loaded"
  /\ ongoing' = [ongoing EXCEPT ![p] =
       [at |-> "begun", op |-> ongoing[p].op, on |-> ongoing[p].on, goal |-> ongoing[p].goal,
        snap |-> request[ongoing[p].on], seen |-> Taken]]
  /\ UNCHANGED <<request, customers>>

\* save() of the entity: what differs from the snapshot is written.
Written(goal, snap, row) ==
  [f \in DOMAIN row |->
     IF f = "demands"
       THEN [i \in DOMAIN row.demands |->
               IF i \in DOMAIN goal.demands /\ goal.demands[i] # snap.demands[i]
                 THEN goal.demands[i] ELSE row.demands[i]]
       ELSE IF goal[f] # snap[f] THEN goal[f] ELSE row[f]]

\* A child the snapshot has and the entity lacks would be detached, which its
\* NOT NULL request_id forbids: the save fails.
Detaches(goal, snap) ==
  \/ Len(snap.demands) > Len(goal.demands)
  \/ goal.document = "none" /\ snap.document # "none"
  \/ goal.ledger = "none" /\ snap.ledger # "none"

InTransaction(p, op) ==
  /\ ongoing[p].at = "begun" /\ ongoing[p].op = op
  /\ ~Detaches(ongoing[p].goal, ongoing[p].snap)

CommitSave(p) ==
  LET c == ongoing[p] IN
  /\ \E op \in {"updateDraft", "sendToResident", "submitForReview", "returnToResident",
                "reject", "recordDepositPayment"} : InTransaction(p, op)
  /\ request' = [request EXCEPT ![c.on] = Written(c.goal, c.snap, @)]
  /\ Answers(p) /\ UNCHANGED customers

\* The document is saved by itself, not with the request.
CommitDocument(p) ==
  LET c == ongoing[p] IN
  /\ c.at = "begun" /\ c.op = "document"
  /\ request' = [request EXCEPT ![c.on].document =
       Written(c.goal, c.snap, request[c.on]).document]
  /\ Answers(p) /\ UNCHANGED customers

\* raiseDepositDemandIfRequired, on r as loaded and changed: a second row of
\* the ledger would violate its unique request_id.
DemandRaised(goal, snap, row) ==
  [Written([goal EXCEPT !.deposit = "REQUESTED"], snap, row) EXCEPT
     !.demands = Append(@, "RAISED"),
     !.ledger = IF @ = "none" THEN "PENDING" ELSE @]

RaiseDepositDemandIfRequired(goal, snap, row) ==
  {Written([goal EXCEPT !.deposit = "NOT_REQUIRED"], snap, row)} \cup
  {raised \in {DemandRaised(goal, snap, row)} :
     Len(row.demands) < MaxDemands /\ (goal.ledger = "none" => row.ledger = "none")}

\* toCreateCustomerDto: the account waits for its activation.
NewCustomer(r) == [slot |-> SlotOf[r], active |-> FALSE, password |-> FALSE]

\* A plausible slip: the unit is not checked for a resident of the type again.
CreatesWithoutLooking(r, seen) == customers' = Append(customers, NewCustomer(r))

\* createWithManager: the residents seen are those of the snapshot.
CreateWithManager(r, seen) ==
  /\ SlotOf[r] \notin seen
  /\ customers' = Append(customers, NewCustomer(r))

CommitApprove(p) ==
  LET c    == ongoing[p]
      goal == [c.goal EXCEPT !.customer = Len(customers) + 1]
  IN
  /\ InTransaction(p, "approve") /\ Len(customers) < MaxCustomers
  /\ CreateWithManager(c.on, c.seen)
  /\ \E row \in IF Demands(goal, "VERIFIED") # {}
                  THEN {Written(goal, c.snap, request[c.on])}
                  ELSE RaiseDepositDemandIfRequired(goal, c.snap, request[c.on]) :
       request' = [request EXCEPT ![c.on] = row]
  /\ Answers(p)

\* A demand is inserted first, and its foreign key holds the request's row:
\* nothing commits between the snapshot and the commit.
CommitRequestDeposit(p) ==
  LET c == ongoing[p] IN
  /\ InTransaction(p, "requestDeposit")
  /\ \E row \in RaiseDepositDemandIfRequired(c.goal, c.snap, request[c.on]) :
       /\ Len(row.demands) > Len(request[c.on].demands) => c.snap = request[c.on]
       /\ request' = [request EXCEPT ![c.on] = row]
  /\ Answers(p) /\ UNCHANGED customers

\* A plausible slip: the paid demand is reversed and none raised in its place.
ReturnsWithoutRaising(p) ==
  LET c == ongoing[p] IN
  /\ InTransaction(p, "returnReceipt")
  /\ request' = [request EXCEPT ![c.on] =
       Written([c.goal EXCEPT !.deposit = "REQUESTED"], c.snap, @)]
  /\ Answers(p) /\ UNCHANGED customers

CommitReturnReceipt(p) ==
  LET c == ongoing[p] IN
  /\ InTransaction(p, "returnReceipt")
  /\ \E row \in RaiseDepositDemandIfRequired(c.goal, c.snap, request[c.on]) :
       request' = [request EXCEPT ![c.on] = row]
  /\ Answers(p) /\ UNCHANGED customers

CommitVerify(p) ==
  LET c == ongoing[p] IN
  /\ InTransaction(p, "verifyDeposit")
  /\ request' = [request EXCEPT ![c.on] = Written(c.goal, c.snap, @)]
  /\ customers' = [customers EXCEPT ![c.goal.customer].active = TRUE]
  /\ Answers(p)

\* A refusal, an error that rolls the transaction back, or a crash.
Fails(p) ==
  /\ ongoing[p] # Idle /\ Answers(p)
  /\ UNCHANGED <<request, customers>>

-----------------------------------------------------------------------------
(* The customer activates the account with the link of a mail: the deposit  *)
(* is looked up before the transaction.                                     *)

Resolved(c) ==
  \E r \in RequestIds :
    request[r].customer = c /\ request[r].deposit \in {"NOT_REQUIRED", "VERIFIED"}

ActivateReads(p, c) ==
  Starts(p, [at |-> "activating", customer |-> c, resolved |-> Resolved(c)])

ActivateCommits(p) ==
  LET c == ongoing[p].customer IN
  /\ ongoing[p].at = "activating"
  /\ customers' = [customers EXCEPT ![c].password = TRUE,
                                    ![c].active = @ \/ ongoing[p].resolved]
  /\ Answers(p) /\ UNCHANGED request

RegistrationsNext ==
  \/ \E p \in Staff, r \in RequestIds :
       \/ UpdateDraft(p, r) \/ SendToResident(p, r) \/ SubmitForReview(p, r)
       \/ ReturnToResident(p, r) \/ Approve(p, r) \/ Reject(p, r)
       \/ RequestDeposit(p, r) \/ VerifyDeposit(p, r)
       \/ ReturnReceiptForCorrection(p, r) \/ ChangeDocument(p, r)
  \/ \E p \in Callers, r \in RequestIds : RecordDepositPayment(p, r)
  \/ \E p \in Portal, c \in DOMAIN customers : ActivateReads(p, c)
  \/ \E p \in Callers :
       \/ Begins(p) \/ CommitSave(p) \/ CommitDocument(p) \/ CommitApprove(p)
       \/ CommitRequestDeposit(p) \/ CommitReturnReceipt(p) \/ CommitVerify(p)
       \/ ActivateCommits(p) \/ Fails(p)

RegistrationsSpec == RegistrationsInit /\ [][RegistrationsNext]_registrationsVars

-----------------------------------------------------------------------------
(* The properties.                                                          *)

\* The deposit column never points at nothing: a requested deposit has a demand
\* to pay, a paid one a demand to verify, a verified one a verified demand, or
\* the customer is asked for money no call will take; and a verified deposit comes
\* with an active account, the two being written by one transaction
\* (returnReceiptForCorrection, recordDepositPayment, verifyDeposit; the case
\* computePortalAccess says should never happen).
DepositBacked ==
  \A r \in RequestIds :
    /\ request[r].deposit = "REQUESTED" => Demands(request[r], "RAISED") # {}
    /\ request[r].deposit = "PAID_PENDING" => Demands(request[r], "PAID") # {}
    /\ request[r].deposit = "VERIFIED" =>
         /\ Demands(request[r], "VERIFIED") # {}
         /\ request[r].customer # 0 /\ customers[request[r].customer].active

\* An approval, its customer and its deposit decision come and stay together; no
\* customer is without an approved request, no unit has two of one resident
\* type (approve, createWithManager).
ApprovalIsWhole ==
  /\ \A r \in RequestIds :
       /\ request[r].customer # 0 <=> request[r].status = "APPROVED"
       /\ request[r].customer # 0 <=> request[r].deposit # "UNDECIDED"
  /\ \A c \in DOMAIN customers :
       /\ \E r \in RequestIds : request[r].customer = c
       /\ \A d \in DOMAIN customers : customers[c].slot = customers[d].slot => c = d

\* What resolveActiveDemand takes for granted: at most one demand is raised.
OneRaisedDemand ==
  \A r \in RequestIds : \A i, j \in Demands(request[r], "RAISED") : i = j

-----------------------------------------------------------------------------
(* The inductive invariant of the two, while nobody is in anybody's way:    *)
(* on one request at most one call of the staff and one payment of the      *)
(* customer, and of two approvals at most one for a slot.                   *)

InFlight(p, r) == ongoing[p].at \in {"loaded", "begun"} /\ ongoing[p].on = r

OneOfEach ==
  \A p, q \in Callers, r, s \in RequestIds :
    p # q /\ InFlight(p, r) /\ InFlight(q, s) =>
      /\ r = s => (p \in Staff <=> q \notin Staff)
      /\ ongoing[p].op = "approve" /\ ongoing[q].op = "approve" => SlotOf[r] # SlotOf[s]

Unapproved(row) ==
  /\ row.customer = 0 /\ row.status # "APPROVED"
  /\ row.deposit = "UNDECIDED" /\ row.demands = <<>>

Backed(row) ==
  /\ row.deposit = "REQUESTED" => Demands(row, "RAISED") # {}
  /\ row.deposit = "PAID_PENDING" => Demands(row, "PAID") # {}
  /\ row.deposit = "VERIFIED" => Demands(row, "VERIFIED") # {}

Approved(row) ==
  /\ row.customer # 0 /\ row.status = "APPROVED" /\ row.deposit # "UNDECIDED"
  /\ Backed(row)

\* A request is decided as a whole; a verified deposit has an active account.
RowsWhole ==
  \A r \in RequestIds :
    /\ Unapproved(request[r]) \/ Approved(request[r])
    /\ request[r].deposit = "VERIFIED" => customers[request[r].customer].active

CustomersWhole ==
  \A c \in DOMAIN customers :
    /\ \E r \in RequestIds : request[r].customer = c
    /\ \A d \in DOMAIN customers : customers[c].slot = customers[d].slot => c = d

\* The columns the decision and the deposit are about.
Same(a, b) ==
  /\ a.status = b.status /\ a.customer = b.customer
  /\ a.deposit = b.deposit /\ a.demands = b.demands

\* What a call of the staff makes of a row that waits for its decision.
Reviews ==
  {"updateDraft", "sendToResident", "submitForReview", "returnToResident", "reject"}
ReviewStands(c, row) ==
  /\ Unapproved(row) /\ (c.at = "begun" => Unapproved(c.snap))
  /\ c.op \in Reviews => Unapproved(c.goal)
  /\ c.op = "approve" =>
       /\ c.goal.status = "APPROVED" /\ c.goal.customer = 0
       /\ c.goal.deposit = "UNDECIDED" /\ c.goal.demands = <<>>
       /\ c.at = "begun" /\ SlotOf[c.on] \in Taken => SlotOf[c.on] \in c.seen

\* The goal is what the call makes of the deposit of this row.
MadeOf(op, goal, row) ==
  /\ goal.status = row.status /\ goal.customer = row.customer
  /\ \/ /\ op = "recordDepositPayment" /\ row.deposit = "REQUESTED"
        /\ goal.deposit = "PAID_PENDING"
        /\ goal.demands = Moved(row, "RAISED", "PAID").demands
     \/ /\ op = "verifyDeposit" /\ row.deposit = "PAID_PENDING"
        /\ goal.deposit = "VERIFIED"
        /\ goal.demands = Moved(row, "PAID", "VERIFIED").demands
     \/ /\ op = "returnReceipt" /\ row.deposit = "PAID_PENDING"
        /\ goal.deposit = "PAID_PENDING"
        /\ goal.demands = Moved(row, "PAID", "REVERSED").demands
     \/ /\ op = "requestDeposit" /\ row.deposit \in {"NOT_REQUIRED", "VERIFIED"}
        /\ goal.deposit = row.deposit /\ goal.demands = row.demands

\* A call of the staff on the row as it is, or as it was before the customer paid.
Fresh(c, row) ==
  MadeOf(c.op, c.goal, row) /\ (c.at = "begun" => Same(c.snap, row))

Overtaken(c, row) ==
  /\ row.deposit = "PAID_PENDING"
  /\ \E deposit \in DepositStatus, demands \in [DOMAIN row.demands -> DemandStatus] :
       LET old == [row EXCEPT !.deposit = deposit, !.demands = demands] IN
       /\ Backed(old) /\ MadeOf(c.op, c.goal, old)
       /\ c.at = "begun" => Same(c.snap, old) \/ Same(c.snap, row)

StaffStands(p) ==
  LET c == ongoing[p]  row == request[c.on] IN
  \/ c.op = "document"
  \/ c.op \in Reviews \cup {"approve"} /\ ReviewStands(c, row)
  \/ /\ Approved(row)
     /\ \/ Fresh(c, row)
        \/ Overtaken(c, row) /\ \A q \in Callers \ {p} : ~InFlight(q, c.on)

\* A payment in flight, its goal beside the row it will be compared with: since it
\* was loaded nothing has been done, or it has been recorded by the staff, and then
\* the demand was verified or reversed; or a demand has been raised, and it fails.
Pays(goal, row) ==
  \/ Len(goal.demands) < Len(row.demands)
  \/ /\ Len(goal.demands) = Len(row.demands)
     /\ \/ MadeOf("recordDepositPayment", goal, row)
        \/ row.deposit = "PAID_PENDING" /\ row.demands = goal.demands
        \/ /\ row.deposit \in {"VERIFIED", "NOT_REQUIRED"}
           /\ \E i \in Demands(goal, "PAID") : row.demands[i] \in {"VERIFIED", "REVERSED"}

PaymentStands(p) ==
  LET c == ongoing[p]  row == request[c.on]
      base == IF c.at = "begun" THEN c.snap ELSE row
  IN
  /\ c.op = "recordDepositPayment" /\ Approved(row) /\ c.goal.deposit = "PAID_PENDING"
  /\ \A other \in {c.goal, base} :
       other.status = "APPROVED" /\ other.customer = row.customer
  /\ Len(base.demands) <= Len(row.demands) /\ Backed(base) /\ Pays(c.goal, base)

CallsStand ==
  \A p \in Callers : ongoing[p].at \in {"loaded", "begun"} =>
    IF p \in Staff THEN StaffStands(p) ELSE PaymentStands(p)

RegistrationsInv ==
  RegistrationsTypeOK /\ RowsWhole /\ CustomersWhole /\ CallsStand
==============================================================================
