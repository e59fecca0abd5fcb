CONSTANTS
    Swarms = {a, b}
    Protocols = {"tcp", "utp"}
    Unreliable = {}
    Echoed = {}
    Patchy = {}
    Closing = {}
SPECIFICATION PolledSpec
CHECK_DEADLOCK FALSE
PROPERTY InterestedPeersMeet
