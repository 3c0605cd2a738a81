SPECIFICATION FairSpec
CONSTANTS
  Versions = {"v1", "v2", "v3"}
  Types = {"residential"}
  Properties = {"p1"}
  Units = {"u1"}
  PropertyOf <- MCPropertyOf
  TypeOf <- MCTypeOf
  MaxDay = 2
  Requests = {q1, q2}
  Forms <- MCForms
  Seeds <- MCSeeds
  MaxDeaths = 1
  None = None
INVARIANTS Exclusive TermsReviewed
PROPERTIES NightlyCatchesUp
