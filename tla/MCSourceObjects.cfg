CONSTANTS
    a1 = a1
    a2 = a2
    Accesses = {a1, a2}
    o1 = o1
    o2 = o2
    o3 = o3
    Counters = {o1, o2, o3}
    d1 = d1
    d2 = d2
    d3 = d3
    Setups = {d1, d2, d3}
    NoSetup = NoSetup
    cpu0 = cpu0
    cpu1 = cpu1
    Cpus = {cpu0, cpu1}
    FirstCpu = cpu0
    OneOwner = TRUE
SYMMETRY ObjectSymmetry
SPECIFICATION Spec
INVARIANT OwnedOnce
INVARIANT InitOwned
INVARIANT ReadFindsAll
INVARIANT NothingLost
