CONSTANTS
    c1 = c1
    c2 = c2
    k1 = k1
    k2 = k2
    l1 = l1
    Cpus = {c1, c2}
    Counters = {k1, l1}
    CpuOf <- OneEach
    Rates = {0, 5}
    DEFAULT = 30
    Locks = TRUE
    FreesDef = TRUE
    FreesInfos = TRUE
    Failures <- AllFailures
    Program = Program
    Nobody = Nobody
    NoCounter = NoCounter
    Garbage = Garbage
SPECIFICATION FairSpec
INVARIANT TypeOK
PROPERTY ClientReturns
CHECK_DEADLOCK FALSE
