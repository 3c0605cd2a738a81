SPECIFICATION FairSpec
CONSTANTS
  Principals = {p}
  DeviceIds = {d}
  NoDevice = NoDevice
  Headers = {d, NoDevice}
  MaxSession = 1
  MaxToken = 3
  Requests = {r1, r2}
INVARIANTS OneUsableToken
PROPERTIES EndedStaysEnded MarkerFades
CHECK_DEADLOCK FALSE
