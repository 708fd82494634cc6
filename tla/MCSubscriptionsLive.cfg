SPECIFICATION FairSpec
CONSTANTS
    a = a
    Subs = {a}
    Former = {}
    p = p
    Peers = {p}
    PeerOf <- OnePeer
    MaxSubscriptionsPerFabric = 1
    g = g
    Setters = {g}
    Kinds = {"critical", "info", "other"}
    MaxChanges = 2
INVARIANT NoLostEvent
PROPERTY ChangeReported
CHECK_DEADLOCK FALSE
