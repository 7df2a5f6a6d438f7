\* A client of the registry, a dynamic one and an agent, two requests at once, two pairs.
SPECIFICATION Spec
CONSTANTS
  web = web
  dcr = dcr
  bot = bot
  r1 = r1
  r2 = r2
  Nobody = nobody
  Static = {web}
  Writers = {web}
  Dynamic = {dcr}
  Agents = {bot}
  Requests = {r1, r2}
  Backends = {"memory", "json", "sqlite"}
  SelfRegistration = FALSE
  CodeTTL = 1
  AccessTTL = 1
  RefreshTTL = 2
  AssertionTTL = 1
  ClaimTTL = 0
  Faults = {"restart", "store", "random"}
  MaxFaults = 1
  MaxClock = 2
  MaxCodes = 1
  MaxPairs = 2
INVARIANTS RedeemedOnce AnsweredSurvives
PROPERTIES RotationIsAtomic ExpiredAreForgotten
CHECK_DEADLOCK FALSE
