CONSTANTS
    Clients = {c1, c2}
    NoClient = NoClient
    HungUp = HungUp
    Servers = {s1, s2}
    MaxAttempts = 2
    MaxProbes = 1
    MaxCommits = 0
    NoPanel = NoPanel
    NoReply = NoReply
    Faults = FALSE
    Prompt = TRUE
SPECIFICATION FairSpec
PROPERTIES
    LoneHostConnects
