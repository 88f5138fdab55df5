SPECIFICATION Spec
CONSTANTS
    Sections = {"outbounds", "balancers"}
    Tags = {a, b}
    NoTag = NoTag
    None = None
    Profiles <- MCProfiles
    Picks = {{}}
    TraitSections = {"outbounds"}
    MaxRows <- MCMaxRows
SYMMETRY MCSymmetry
INVARIANTS TypeOK TagsUnique LastRowStays ObservationKept DialogProtocol
PROPERTIES SelectorsFollow
