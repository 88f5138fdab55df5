SPECIFICATION Spec
CONSTANTS
    Sections = {"inbounds", "routing"}
    Tags = {a, b}
    NoTag = NoTag
    None = None
    Profiles <- MCOneProfile
    Picks = {{}}
    TraitSections = {"outbounds"}
    MaxRows <- MCMaxRows
PROPERTIES DiscardedEditsAreLost
