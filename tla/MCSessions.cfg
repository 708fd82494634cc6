SPECIFICATION Spec
CONSTANTS
    r1 = r1
    r2 = r2
    i1 = i1
    c1 = c1
    p = p
    MaxID = 2
    Handshakes = {r1, r2, i1, c1}
    KindOf <- MCKindOf
    Peers = {p}
    PeerOf <- MCPeerOf
    NoPeer = NoPeer
    MaxSessionsPerPeer = 1
    Free = Free
SYMMETRY Responders
INVARIANTS TypeOK NoOrphan PeerCap GoneIsAnnounced
CHECK_DEADLOCK FALSE
