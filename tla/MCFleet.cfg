SPECIFICATION MCSpec
CONSTANTS
    w1 = w1
    w2 = w2
    g1 = g1
    r1 = r1
    Site = site
    None = none
    Worker = {w1, w2}
    Gateway = {g1}
    Checked = {g1}
    Lease <- MCLease
    MaxLease = 1
    MaxEvent = 1
    Late = {w2}
    PromptReceipt = TRUE
    SiteNode = {1, 2, 3}
    Joining = {3}
    Selection <- Selections
    CloudNode = {r1}
    NoNode = nonode
    Unreadable = {}
    Sparing = TRUE
    MaxChange = 2
INVARIANTS
    
    NeverStranded
PROPERTIES
    RequestsRetire
    
    MeshConverges
CHECK_DEADLOCK FALSE
