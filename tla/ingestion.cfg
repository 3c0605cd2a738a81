SPECIFICATION Spec
CONSTANTS
  Names = {"f1", "f2"}
  Contents = {"c1", "c2", "bad", "torn", "odd"}
  Holds <- MCHolds
  KindOf <- MCKindOf
  RowsOf <- MCRowsOf
  Keys = {"k0", "k1", "k2"}
  Known = {"k1", "k2"}
  Jobs = {"cron", "now"}
  Nightly = "cron"
  Operators = {"op"}
  MaxFaults = 1
  MaxRetriggers = 1
  None = "none"
INVARIANTS RowsAccounted  Once
PROPERTIES EventuallyLogged
CHECK_DEADLOCK FALSE
