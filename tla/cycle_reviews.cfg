SPECIFICATION FairSpec
CONSTANTS
  Users = {maker, checker}
  System = System
  Makers = {m1}
  Rules <- MCFullRules
  Overlap = FALSE
  MaxVersion = 2
  MaxDay = 2
  Months = 4
  FirstDay <- MCFirstDay
  None = None
INVARIANTS FourEyes PeriodsInOrder
PROPERTIES OnlyRatifiedGoLive DueHappens
