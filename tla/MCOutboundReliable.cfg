SPECIFICATION FairSpec
CONSTANTS
    Messages <- MCMessages
    Kind <- MCKind
    Session <- MCSession
    Counter <- MCCounter
    Exchange <- MCExchange
    Owner <- MCOwner
    Subs = {"s"}
    SubSession <- MCSubSession
    Sessions = {"A", "B"}
    Peer <- MCPeer
    Unsecured = "0"
    None = "none"
    MaxRetransmissions = 1
    SendErrorRetryLimit = 1
    MaxMessages = 2
CHECK_DEADLOCK FALSE
INVARIANTS TypeOK AckedWasSent BudgetKept ReapedForCause
PROPERTY ReportResolved
