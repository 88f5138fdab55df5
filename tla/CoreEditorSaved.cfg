SPECIFICATION Spec
CONSTANTS
    blank = blank
    n = n
    raw = raw
    bad = bad
    Kinds = {"xray", "wg"}
    Names = {"", "a"}
    NoName = ""
    TagSets = {"none", "t"}
    NoTags = "none"
    Normal = {blank, n}
    Fresh = blank
    Foreign = {raw, bad}
    Import <- MCImport
    OthersCores <- MCOthersCores
    NotImported = NotImported
    Savable = {n}
    Broken = Broken
    None = None
    Sent = Sent
    EditsWhileSaving = TRUE
    SwitchesBack = FALSE
    LeavesJsonEarly = FALSE
INVARIANTS
    CleanMeansSaved
CHECK_DEADLOCK FALSE
