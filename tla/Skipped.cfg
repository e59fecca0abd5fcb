CONSTANTS
    p1 = p1
    p2 = p2
    Peers = {p1}
    Topics = {t1, t2}
    Answers <- OnePeer
    MdnsKinds = {}
    Protocols = {"tcp", "utp"}
    Faults = {"close"}
    MaxIncoming = 0
    Configs <- OnlyLookup
    MaxCalls = 2
    MaxFound = 0
SPECIFICATION Spec
PROPERTY SkippedOnlyWhileConnected
