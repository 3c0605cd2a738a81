SPECIFICATION Spec
CONSTANTS
  Months = 2
  FirstDay <- MCFirstDay
  NoMax = NoMax
  m1 = m1
  m2 = m2
  u1 = u1
  Meters = {m1, m2}
  Units = {u1}
  NoUnit = NoUnit
  Installed <- MCInstalled
  Files <- MCFiles
  Spoilt <- MCSpoilt
  Dial <- MCDial
  RuleOf <- MCRuleOf
  TariffOf <- MCTariffOf
  Editors = {e1}
  Reviewers = {a1}
  System = System
  Nobody = Nobody
INVARIANTS ChargedByBand BlankPassedGate ChargedOnce EligibleIsBillable
CHECK_DEADLOCK FALSE
