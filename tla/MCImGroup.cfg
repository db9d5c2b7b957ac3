CONSTANTS
    Apps = {a}
    Sessions = {s}
    Server = Server
    Rime = rime
    Others = {rime}
    NoIM = NoIM
    Packages <- MCPackages
    Texts <- MCTexts
    MaxWrites = 1
SPECIFICATION Spec
INVARIANTS
    TypeOK
    ChineseCanBeSwitchedOn
PROPERTIES
    SwitchReachesNewApps
