CONSTANTS
    c1 = c1
    c2 = c2
    k1 = k1
    k2 = k2
    l1 = l1
    Cpus = {c1}
    Counters = {k1, k2}
    CpuOf <- OneCpu
    Rates = {0, 5}
    DEFAULT = 30
    Locks = TRUE
    FreesDef = TRUE
    FreesInfos = FALSE
    Failures = {}
    Program = Program
    Nobody = Nobody
    NoCounter = NoCounter
    Garbage = Garbage
SPECIFICATION FairSpec
INVARIANT CallsExact
INVARIANT NoDanglingCall
PROPERTY SleepsAsPromised
PROPERTY KeptSampled
PROPERTY ThreadsStop
CHECK_DEADLOCK FALSE
