\* Time, requests and restarts are bounded, and a torn key file ends the service.
CONSTANTS
  ant1 = ant1  ant2 = ant2  ant3 = ant3  ip = ip  c1 = c1  c2 = c2
  Key <- MCKeys  Tenant = ant1  Address = ip
  Client <- MCClients  Id <- MCIds  Value <- MCValues
  Unit = 2  CreationLimit <- MCCreationLimit  Idle = 0
  None = None  Torn = Torn
  Environments <- MCEnvironments
SYMMETRY ClientSymmetry
CHECK_DEADLOCK FALSE
SPECIFICATION Spec
INVARIANTS TypeOK KeysAsAnswered RateBounded UpdatesAreKept PagesExact
