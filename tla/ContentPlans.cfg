\* One bearer token, two concurrent calls, three in all, on a page without a language of its
\* own and with a translation that has the tag; or two tokens on a page without either,
\* while the clock runs (InScope). A plan lives one tick, a snapshot two.
SPECIFICATION PlansSpec
CONSTANTS
    Tags = {x}
    Draft = draft
    Twin = {x}
    LanguageBlind = {"apply", "update"}
    Callers = {a, b}
    Main = a
    PlanIds = {p}
    PlanCalls = {k1, k2}
    Nobody = Nobody
    PlanTTL = 0
    SnapshotTTL = 1
    MaxSnapshots = 1
    MaxClock = 1
    MaxPlanFaults = 1
    MaxBegun = 3
CONSTRAINT InScope
SYMMETRY Interchangeable
INVARIANTS
    TagsAreIndexed
    SnapshotsHaveOneKeeper
PROPERTIES
    NoEditLost
CHECK_DEADLOCK FALSE
