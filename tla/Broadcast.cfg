CONSTANTS
    c1 = c1
    c2 = c2
    c3 = c3
    utp = utp
    tcp = tcp
    Conns = {c1, c2, c3}
    Ids = {utp, tcp}
    IdOf <- TwoNamesakes
    MaxLines = 2
SPECIFICATION FairSpec
CHECK_DEADLOCK FALSE
INVARIANTS
    TypeOK
    NoLineMissed
    CutOffByNamesake
PROPERTIES
    GhostsOnlyByPush
    LinesArrive
    CutOffEnds
