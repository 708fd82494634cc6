SPECIFICATION Spec
CONSTANTS
    Messages <- StreamMessages
    Exchanges = {"x", "y"}
    ExchangeOf <- StreamExchangeOf
    Kind <- StreamKind
    Pipelined = TRUE
    None = None
VIEW StreamView
CHECK_DEADLOCK FALSE
INVARIANTS AckedOrOwed RepliesCancelTheirOwn
