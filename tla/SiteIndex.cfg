\* Three rendered files over three slugs, two read tools, one mutator.
SPECIFICATION Spec
CONSTANTS
    Slugs = {1, 2, 3}
    Lists = {3}
    Files = {1, 2, 3}
    Own <- OwnSlugs
    Bodies <- PageBodies
    Readers = {r1, r2}
    None = None
    MaxEntries = 2
    Interval = 1
    MaxClock = 2
SYMMETRY Interchangeable
INVARIANTS
    SlugsFindTheirPages
    BacklinksAreCurrent
    EditsAreNoticed
CHECK_DEADLOCK FALSE
