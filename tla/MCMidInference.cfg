SPECIFICATION Spec
CONSTANTS
  alice = alice
  bob = bob
  weather = weather
  timer = timer
  Clients <- MCClients
  Queries <- MCQueries
  Malformed = Malformed
  Status = Status
  Smoke = Smoke
  Probe = Probe
  None = None
  MaxSteps = 2
CHECK_DEADLOCK FALSE
INVARIANTS
  RefusedIfMidInference
