CONSTANTS
    p1 = p1
    p2 = p2
    Peers = {p1}
    Topics = {t1}
    Answers <- OnePeer
    MdnsKinds = {"peer", "bad_topic", "end"}
    Protocols = {"tcp", "utp"}
    Faults = {"refused", "reset", "accept", "close"}
    MaxIncoming = 1
    Configs <- OnlyLookup
    MaxCalls = 1
    MaxFound = 1
SPECIFICATION Spec
CHECK_DEADLOCK FALSE
INVARIANTS
    OneOutgoingPerAddress
    SkippedForAnother
