SPECIFICATION RegistrationsSpec
CONSTANTS
  RequestIds = {r1, r2}
  Corporate = {r1}
  Slots = {s}
  SlotOf <- MCSlotOf
  MaxDemands = 2
  MaxCustomers = 2
  Staff = {a}
  Portal = {c}
INVARIANTS DepositBacked 
CHECK_DEADLOCK FALSE
