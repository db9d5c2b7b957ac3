CONSTANTS
    Apps = {a1, a2}
    Shells = {sh}
    MaxRequests = 2
    MaxSaves = 1
SYMMETRY Symmetry
SPECIFICATION Spec
INVARIANTS
    TypeOK
    CompartmentFollowsMode
    ServedRequestIsGone
    ReloadSeesItsConfig
    FocusedRequestIsTaken
