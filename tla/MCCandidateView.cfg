CONSTANTS
    long = long
    short = short
    Lists = {long, short}
    Size <- MCSize
    Nothing = Nothing
    NoPick = NoPick
    MaxWindows = 2
    MaxViews = 2
    MaxScripts = 1
SPECIFICATION Spec
INVARIANTS
    TypeOK
PROPERTIES
    KeepsPanelPromises
