SPECIFICATION FairSpec
CONSTANTS
    Messages <- QuietMessages
    Exchanges = {"x"}
    ExchangeOf <- QuietExchangeOf
    Kind <- QuietKind
    Pipelined = FALSE
    None = None
CHECK_DEADLOCK FALSE
PROPERTY RepeatedIsAcked
