\* Three bundles of which two are there at the start, pages of one or two entries.
SPECIFICATION QueriesSpec
CONSTANTS
    SourcePages <- Everything
    Start <- Opening
    SectionPages <- Home
    Rank <- Ranking
    Tag = "tag"
    Query = {"go", "tla"}
    Langs = {"en", "fr"}
    Nothing = Nothing
    Limits = {1, 2}
    Headroom = 2
    MaxHits = 2
    ByHand = TRUE
    MaxEdits = 2
    MaxFaults = 1
INVARIANTS
    WalksMissNothing
    QuietLookupsFindTheirPage
CHECK_DEADLOCK FALSE
