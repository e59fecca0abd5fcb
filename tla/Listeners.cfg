CONSTANTS
    p1 = p1
    p2 = p2
    Peers = {p1, p2}
    Topics = {t1}
    Answers <- OneOrTwoPeers
    MdnsKinds = {}
    Protocols = {"tcp", "utp"}
    Faults = {"refused"}
    MaxIncoming = 1
    Configs <- OnlyLookup
    MaxCalls = 1
    MaxFound = 0
SPECIFICATION FairSpec
INVARIANT ListenerNotStranded
PROPERTY ListenerServed
