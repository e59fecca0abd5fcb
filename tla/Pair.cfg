CONSTANTS
    Swarms = {a, b}
    Protocols = {"tcp", "utp"}
    Unreliable = {"utp"}
    Echoed = {a}
    Patchy = {a}
    Closing = {b}
SPECIFICATION FairSpec
CHECK_DEADLOCK FALSE
INVARIANTS
    TypeOK
    OneLinkEachWay
    DropLeavesALink
PROPERTY DialledAreMet
