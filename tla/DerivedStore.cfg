\* Three files, four public slugs, two edits or template changes, one failed call, one restart.
SPECIFICATION StoreSpec
CONSTANTS
    SourceFiles <- SiteFiles
    FileTexts <- SiteTexts
    Order <- SiteOrder
    Trees <- SiteTrees
    Generated = {}
    Default = "en"
    LangCodes = {"en", "fr"}
    Null = Null
    MaxEdits = 3
    MaxFaults = 1
    MaxRestarts = 1
INVARIANTS
    LastBuiltIsPublished
    TablesSettle
    RecheckReachesEveryPage
    ReadsAreTrue
PROPERTIES
    ChangesAreReported
CHECK_DEADLOCK FALSE
