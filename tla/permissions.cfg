SPECIFICATION PermissionsSpec
CONSTANTS
  Roles = {"SUPER_ADMIN", "finance"}
  SuperAdmin = "SUPER_ADMIN"
  Policies = {"named", "custom", "fresh"}
  Named = "named"
  Inlines = {"own"}
  InlineOf <- MCInlineOf
  Resources = {"tariffs", "meters"}
  Codes = {"approve", "view", "edit"}
  ResourceOf <- MCResourceOf
  Business = {"approve"}
  Types = {"TARIFF"}
  ApproveCodes <- MCApproveCodes
  Definitions = {1, 2, 3}
  Bodies = {{"view"}, {"approve"}}
  Changes = {q1, q2, q3}
  MaxStarts = 2
  Seeds <- MCSeeds
SYMMETRY MCSymmetry
INVARIANTS LevelsDecidable OneActive AttachedSound
PROPERTIES StartCovers
CHECK_DEADLOCK FALSE
