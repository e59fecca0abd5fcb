CONSTANTS
    Swarms = {a, b}
    BootstrapNodes = {n}
    Ports = {1, 2, 3, 4, 5}
    Wishes = {0, 1}
    NodePort = 3
    Protocols = {"tcp", "utp"}
SPECIFICATION Spec
INVARIANTS
    TypeOK
    AnnouncedPortReaches
    BootstrapAddrReaches
