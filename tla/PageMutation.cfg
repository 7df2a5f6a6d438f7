\* Two callers, three calls, two crashes, one failed write.
SPECIFICATION Spec
CONSTANTS
  c1 = c1
  c2 = c2
  en = en
  Default = index
  v0 = v0
  v1 = v1
  k = k
  Absent = absent
  Bundle = bundle
  NoKey = nokey
  NoClient = noclient
  Unused = unused
  Clients = {c1, c2}
  Langs = {index, en}
  Contents = {v0, v1}
  Keys = {k}
  Requests <- MCRequests
  Asks <- MCAsks
  InitialDisks <- MCDisks
  MaxCalls = 3
  MaxCrashes = 2
  MaxFailures = 1
INVARIANTS ExactlyOnce CopiesAgreeWithSource
PROPERTIES RestartKeepsPages ImplementsService LockIsFreed
