CONSTANTS
    p1 = p1
    p2 = p2
    Peers = {p1, p2}
    Topics = {t1}
    Answers <- TwoPeers
    MdnsKinds = {}
    Protocols = {"tcp"}
    Faults = {}
    MaxIncoming = 0
    Configs <- OnOrOff
    MaxCalls = 3
    MaxFound = 0
SPECIFICATION FairSpec
INVARIANTS
    WantedReachesDht
    NoRepeatedQuery
    CommandsNotStranded
PROPERTIES
    CommandsApplied
    LastCommandWins
    CleanRunDialsAll
