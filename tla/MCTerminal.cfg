SPECIFICATION FairSpec
CONSTANTS
    Conns = {c1, c2}
    NoConn = NoConn
    Sessions = {s1}
    NoSession = NoSession
    MaxListed = 1
    Capacity = 1
    Manners = {"silent", "chatty", "stubborn"}
INVARIANTS
    TypeOK
    OneSocket
    OnlySweptDangle
    ShellIsReachable
PROPERTIES
    OffEndsShells
    QuietStopEnds
