\* Two agents, two pages, one of them published; two calls, two writes, one fault.
SPECIFICATION Spec
CONSTANTS
  a1 = a1
  a2 = a2
  p = p
  q = q
  Author = author
  Nobody = nobody
  NoTree = notree
  Agents = {a1, a2}
  Pages = {p, q}
  InitialPages = {p}
  MaxWrites = 2
  MaxCalls = 2
  MaxFaults = 1
INVARIANTS PromotedIsStable PublishesWhatWasRead OldTreeRetained
PROPERTIES GuardedPublication PublishedMeansLive CallsAreAnswered
