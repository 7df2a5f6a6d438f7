\* One caller with up to two calls open, three calls, one crash, and one failure or edit by another tool.
SPECIFICATION Spec
CONSTANTS
  c1 = c1
  c2 = c2
  a = a
  fr = fr
  en = en
  v0 = v0
  v1 = v1
  k = k
  Blank = blank
  Absent = absent
  NoKey = nokey
  NoClient = noclient
  NoPlan = noplan
  Unused = unused
  Clients = {c1, c2}
  Callers = {a}
  CallerOf <- MCCallerOf
  Langs = {fr, en}
  Assets = {}
  Contents = {v0, v1, blank}
  Keys = {k}
  Asks <- MCAsks
  InitialDisks <- MCDisks
  MaxCalls = 3
  MaxCrashes = 1
  MaxTroubles = 1
INVARIANTS ExactlyOnce RecordsAgree
PROPERTY ImplementsService
