SPECIFICATION Spec
CONSTANTS
  Runs = {r1, r2}
  Properties = {p1, p2}
  Users = {maker}
  System = System
  Clients = {c1, c2}
  Reviewers = {}
  Kinds = {"batch"}
  Units = {}
  Billable = {}
  FinalLevel = 0
  MaxVersion = 2
  MaxMonth = 2
  NoRun = NoRun
SYMMETRY MCSymmetry
INVARIANTS OneActiveRun
CHECK_DEADLOCK FALSE
