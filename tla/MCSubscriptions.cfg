SPECIFICATION Spec
CONSTANTS
    a = a
    b = b
    Subs = {a, b}
    Former = {b}
    p = p
    Peers = {p}
    PeerOf <- OnePeer
    MaxSubscriptionsPerFabric = 1
    g = g
    Setters = {g}
    Kinds = {"critical"}
    MaxChanges = 1
INVARIANTS TypeOK QuotaExact NoLostUpdate TerminatedForgotten LeaveReported
CHECK_DEADLOCK FALSE
