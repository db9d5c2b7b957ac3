CONSTANTS
    Clients = {c1, c2}
    NoClient = NoClient
    HungUp = HungUp
    Servers = {s1, s2}
    MaxAttempts = 2
    MaxProbes = 0
    MaxCommits = 0
    NoPanel = NoPanel
    NoReply = NoReply
    Faults = TRUE
    Prompt = FALSE
SPECIFICATION FairSpec
PROPERTIES
    EveryCallReturns
