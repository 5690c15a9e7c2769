SPECIFICATION MeshSpec
CONSTANTS
    SiteNode = {1, 2, 3}
    Joining = {3}
    Selection <- Selections
    r1 = r1
    CloudNode = {r1}
    NoNode = nonode
    Unreadable = {}
    Sparing = FALSE
    MaxChange = 2
INVARIANT NeverStranded
CHECK_DEADLOCK FALSE
