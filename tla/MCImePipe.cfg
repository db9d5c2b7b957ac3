CONSTANTS
    Clients = {c1, c2}
    NoClient = NoClient
    HungUp = HungUp
    Servers = {s1, s2}
    MaxAttempts = 2
    MaxProbes = 1
    MaxCommits = 2
    NoPanel = NoPanel
    NoReply = NoReply
    Faults = TRUE
    Prompt = FALSE
SYMMETRY Symmetry
SPECIFICATION Spec
INVARIANTS
    TypeOK
    OneEngine
    LaunchIsSerialized
    CacheFollowsSession
    PanelsStayHome
    CommitsDeliveredOnce
PROPERTIES
    KeepsOneSession
