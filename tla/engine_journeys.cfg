SPECIFICATION Spec
CONSTANTS
  Tariffs = {t1}
  Users = {"bob", "cat"}
  System = "system"
  Roles = {"supervisor", "manager", "SUPER_ADMIN"}
  SuperAdmin = "SUPER_ADMIN"
  Editors = {e1}
  Reviewers = {r1}
  Sweepers = {s1}
  EditKinds = {"submit", "update", "deactivate", "reactivate", "deprecate", "expire"}
  MaxDef = 1
  MaxLevels = 2
  MaxInst = 2
  RolesOf <- MCRolesOf
  LevelCount <- MCLevelCount
  LevelRole <- MCLevelRole
  LevelBreach <- MCLevelBreach
INVARIANTS FourEyes OneWaiting VerdictReachesTariff
PROPERTIES ImplementsJourney
CHECK_DEADLOCK FALSE
