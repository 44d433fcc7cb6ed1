SPECIFICATION Spec
CONSTANTS
    Nil = Nil
    Error = Error
    Panic = Panic
    UintMod = 8
    MaxEdits = 1
    Zones = {"", "a", "b"}
    FoldCase <- MCFoldCase
    FoldZone <- MCFoldZone
    Stores <- MCStores
    Edits <- MCEdits
    Targets <- MCTargets
    Calls <- MCCalls
INVARIANTS
    TypeOK
    RoutesReachTheirBackends
    HintedHostsComeFirst
    NamedCallsAreCaught
    HeldNamesStayInRange
CHECK_DEADLOCK FALSE
