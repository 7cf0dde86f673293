CONSTANTS
    x1 = x1
    x2 = x2
    x3 = x3
    a = a
    b = b
    d = d
    Cpus = {x1, x2}
    Counters = {a, b, d}
    CpuOf <- Shared
    Unhandled = {}
    MaxFd = 3
    Failures = {}
    Stdin = Stdin
    Closed = Closed
SPECIFICATION Spec
INVARIANT NeverForeign
