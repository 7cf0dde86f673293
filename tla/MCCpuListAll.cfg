CONSTANTS
    MaxCpu = 7
    Lists <- KernelLists
SPECIFICATION Spec
INVARIANT ReadsAll
CHECK_DEADLOCK FALSE
