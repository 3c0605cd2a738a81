SPECIFICATION FairSpec
CONSTANTS
  Tariffs = {t1}
  Users = {"bob", "cat"}
  System = "system"
  Roles = {"supervisor", "manager", "SUPER_ADMIN"}
  SuperAdmin = "SUPER_ADMIN"
  Editors = {e1}
  Reviewers = {r1}
  Sweepers = {s1, s2}
  EditKinds = {"submit"}
  MaxDef = 2
  MaxLevels = 2
  MaxInst = 1
  RolesOf <- MCRolesOf
  LevelCount <- MCLevelCount
  LevelRole <- MCLevelRole
  LevelBreach <- MCLevelBreach
INVARIANTS OneDispatcher TrailFits
PROPERTIES OverdueNoticed HistoryKept
CHECK_DEADLOCK FALSE
