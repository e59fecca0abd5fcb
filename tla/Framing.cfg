CONSTANTS
    Header = 2
    Size = 3
    Window = 4
    MaxMessages = 3
    MaxGarbled = 2
SPECIFICATION FairSpec
CHECK_DEADLOCK FALSE
INVARIANTS
    TypeOK
    InOrderUnlessCut
    NeverJammed
PROPERTIES
    EndIsNoticed
    CleanRunDelivers
