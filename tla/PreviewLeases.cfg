SPECIFICATION Spec
CONSTANTS
    Previews = {p1, p2, p3}
    Calls = {c1, c2}
    Owner <- OneOwner
    caller = caller
    Visitors = {v1}
    None = None
    MaxPerCaller = 1
    MaxDisk = 3
    Verify = TRUE
    MaxFaults = 1
    MaxRestarts = 1
SYMMETRY Interchangeable
INVARIANTS
    LeasesAreAccountedFor
    LinksOpenOnce
PROPERTIES
    GoneStaysGone
