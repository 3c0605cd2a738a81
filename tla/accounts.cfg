SPECIFICATION Spec
CONSTANTS
  Users = {"a", "b", "c"}
  Roles = {"SUPER_ADMIN", "clerk"}
  SuperAdmin = "SUPER_ADMIN"
  Emails = {"ea", "eb", "ec"}
  Requests = {q1, q2, q3}
  Edits <- MCEdits
  Seed <- MCSeed
  SeedHeld <- MCSeedHeld
SYMMETRY MCSymmetry
PROPERTIES AdminsRemain KeepsARole AddressKept
CHECK_DEADLOCK FALSE
