CONSTANTS
    Emitters = {e1, e2}
    Fabrics = {f1}
    NoFabric = nofabric
    Epoch = 2
    MinEventAllowance = 2
    MaxEventAllowance = 3
    MinInfoAllowance = 1
    MinDebugAllowance = 1
    StoreFailures = 0
    MaxNumber = 7
SPECIFICATION Spec
INVARIANTS TypeOK EventNumbersNeverReused StoredCeilingCovers BufferWithinAllowance
PROPERTIES CriticalDroppedLast
