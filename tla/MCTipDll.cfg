CONSTANTS
    Services = {t1, t2}
    NoService = NoService
    Categories = {k1, k2}
    NProfiles = 2
    MaxWindows = 2
    MaxFactory = 1
    MayStay = {"threadMgr", "profile"}
    MaxHolds = 3
    MaxDeploys = 2
SPECIFICATION MCSpec
INVARIANTS
    TypeOK
    DllCountsEveryObject
    HolderCountIsExact
    DeactivatedIsSilent
    RegistrationIsAllOrNothing
PROPERTIES
    DeployEnds
CHECK_DEADLOCK FALSE
