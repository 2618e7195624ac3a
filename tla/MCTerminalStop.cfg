SPECIFICATION FairSpec
CONSTANTS
    Conns = {c1, c2}
    NoConn = NoConn
    Sessions = {s1}
    NoSession = NoSession
    MaxListed = 1
    Capacity = 1
    Manners = {"chatty"}
PROPERTY StopEnds
