SPECIFICATION FairSpec
CONSTANTS
    blank = blank
    n = n
    raw = raw
    bad = bad
    Kinds = {"xray", "wg"}
    Names = {"", "a"}
    NoName = ""
    TagSets = {"none"}
    NoTags = "none"
    Normal = {blank, n}
    Fresh = blank
    Foreign = {raw, bad}
    Import <- MCImport
    OthersCores <- MCOthersCores
    NotImported = NotImported
    Savable = {n}
    Broken = Broken
    None = None
    Sent = Sent
    EditsWhileSaving = FALSE
    SwitchesBack = FALSE
    LeavesJsonEarly = FALSE
INVARIANTS
    TypeOK
    CleanMeansSaved
    EditorProtocol
PROPERTIES
    EditsSurvive
    TypedTextSurvives
    TypedIsMerged
