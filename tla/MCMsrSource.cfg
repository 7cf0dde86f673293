CONSTANTS
    x1 = x1
    x2 = x2
    x3 = x3
    a = a
    b = b
    d = d
    Cpus = {x1, x2, x3}
    Counters = {a, b, d}
    CpuOf <- OneEach
    Unhandled = {d}
    MaxFd = 4
    Failures = {"open", "unit", "pread", "create"}
    Stdin = Stdin
    Closed = Closed
SPECIFICATION Spec
INVARIANT NumbersNotStale
INVARIANT OpenReadsOwn
INVARIANT NoLeak
PROPERTY StdinUntouched
