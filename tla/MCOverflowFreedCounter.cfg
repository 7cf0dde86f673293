CONSTANTS
    c1 = c1
    c2 = c2
    k1 = k1
    k2 = k2
    l1 = l1
    Cpus = {c1}
    Counters = {k1, k2}
    CpuOf <- OneCpu
    Rates = {5}
    DEFAULT = 30
    Locks = TRUE
    FreesDef = TRUE
    FreesInfos = TRUE
    Failures = {}
    Program = Program
    Nobody = Nobody
    NoCounter = NoCounter
    Garbage = Garbage
SPECIFICATION Spec
INVARIANT NoFreedCounter
CHECK_DEADLOCK FALSE
