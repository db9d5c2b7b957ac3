CONSTANTS
    Contexts = {c1}
    NoContext = NoContext
    NoPick = NoPick
    Preedits = {1, 2}
    Lists = {1, 2}
    MaxCommits = 2
    SessionMayFail = TRUE
    StartMayFail = TRUE
    Refusals = {{}, {1}, {2}}
    EmptyCommits = TRUE
    BackMayCommit = TRUE
    PipeMayFail = TRUE
SPECIFICATION Spec
INVARIANTS
    CommitsHaveOneFate
    UnreachedKeyNotEaten
PROPERTIES
    CommitNeedsNoComposition
