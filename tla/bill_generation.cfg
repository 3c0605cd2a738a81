SPECIFICATION Spec
CONSTANTS
  Runs = {r1, r2}
  Properties = {p1}
  Users = {maker, checker}
  System = System
  Clients = {c1}
  Reviewers = {a1, a2}
  Kinds = {"recover", "resubmit"}
  Units = {n1, n2}
  Billable = {n1}
  FinalLevel = 1
  MaxVersion = 1
  MaxMonth = 1
  NoRun = NoRun
SYMMETRY MCSymmetry
INVARIANTS SameVerdict BilledIfApproved EveryUnitTried
PROPERTIES HistoryKept
CHECK_DEADLOCK FALSE
