CONSTANTS
    p1 = p1
    p2 = p2
    Peers = {p1, p2}
    Topics = {t1}
    Answers <- OneOrTwoPeers
    MdnsKinds = {}
    Protocols = {"tcp", "utp"}
    Faults = {"refused", "close"}
    MaxIncoming = 0
    Configs <- OnlyLookup
    MaxCalls = 1
    MaxFound = 0
SPECIFICATION WokenSpec
INVARIANTS
    TypeOK
    StallNeedsSwallowedItem
PROPERTIES
    KeepsPromise
    FoundPeersDialled
