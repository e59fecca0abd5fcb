CONSTANTS
    p1 = p1
    p2 = p2
    Peers = {p1, p2}
    Topics = {t1}
    Answers <- TwoPeers
    MdnsKinds = {}
    Protocols = {"tcp", "utp"}
    Faults = {"refused"}
    MaxIncoming = 0
    Configs <- OnlyLookup
    MaxCalls = 1
    MaxFound = 0
SPECIFICATION FairSpec
PROPERTY FoundPeersDialled
