CONSTANTS
    Contexts = {c1, c2}
    NoContext = NoContext
    NoPick = NoPick
    Preedits = {1, 2}
    Lists = {1, 2}
    MaxCommits = 2
    SessionMayFail = TRUE
    StartMayFail = FALSE
    Refusals = {{}}
    EmptyCommits = FALSE
    BackMayCommit = FALSE
    PipeMayFail = FALSE
SPECIFICATION Spec
INVARIANTS
    TypeOK
    CommitsInOrder
    HandledKeyDrains
    DocumentFollowsPanel
    WindowHasComposition
    EnglishModeStartsClean
PROPERTIES
    FreshCommitIsWritten
    PickServedOnItsList
