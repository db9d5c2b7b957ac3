CONSTANTS
    Shifts = {lshift, rshift}
    Chords = {ctrl}
    Letters = {a}
    UnknownShift = UnknownShift
    NoKey = NoKey
    NoMsg = NoMsg
SPECIFICATION Spec
INVARIANTS
    TypeOK
    TrackedShiftIsHeld
PROPERTIES
    ToggleOnlyAfterCleanTap
    UntestedTapToggles
