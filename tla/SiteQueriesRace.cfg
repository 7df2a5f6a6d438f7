\* Two edits beside one lookup.
SPECIFICATION QueriesSpec
CONSTANTS
    SourcePages <- Everything
    Start <- Opening
    SectionPages <- Home
    Rank <- Ranking
    Tag = "tag"
    Query = {"go", "tla"}
    Langs = {"en", "fr"}
    Nothing = Nothing
    Limits = {1, 2}
    Headroom = 2
    MaxHits = 2
    ByHand = FALSE
    MaxEdits = 2
    MaxFaults = 0
PROPERTY
    UpdatesReplaceWhatWasRead
CHECK_DEADLOCK FALSE
