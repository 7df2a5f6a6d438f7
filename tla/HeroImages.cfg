SPECIFICATION HeroSpec
CONSTANTS
    Main = main
    Servers = {main, late}
    Calls = {c1, c2}
    InlineCalls = {c2}
    Uploads = {u1}
    None = None
    Names = {logo}
    Svgs = {logo}
    Pieces = {root, script}
    Torn = Torn
    Signatures = {}
    Roots = {root}
    Barred = {script}
    Sizes = {2}
    MaxAsset = 3
    Keys = {k}
    KeyedTools = {"delete_page_asset"}
    NoKey = NoKey
    Absent = Absent
    MaxFaults = 1
    Gens = {g1, g2}
    Large = {g2}
    HeroName = hero
INVARIANTS
    FilesAreWhole
    NothingIsLeftBehind
    KeyedOnce
PROPERTY
    RemovedOnRequest
