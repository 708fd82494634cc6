SPECIFICATION Spec
CONSTANTS
    WindowSize = 2
    CounterMax = 7
    Reserve = 2
    Variants = {"secure", "group", "unsecured"}
    Seeds <- MCSeeds
    MaxLap = 1
INVARIANTS TypeOK GroupCounterFresh BitmapExact
PROPERTIES NeverTwice NoFalseDrop
CHECK_DEADLOCK FALSE
