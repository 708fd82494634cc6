SPECIFICATION FairSpec
CONSTANTS
    Mod = 3
    WindowSize = 2
    ImmediateAckWindowThreshold = 0
    FragmentSize = 6
    Lengths = {4}
    MaxSent <- MCMaxSent
    CanStall = TRUE
INVARIANTS TypeOK PeersAgree WindowKept NoLostWakeup NoStandoff
PROPERTY FifoBothWays
CHECK_DEADLOCK FALSE
