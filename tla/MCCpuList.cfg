CONSTANTS
    MaxCpu = 7
    Lists <- KernelLists
SPECIFICATION Spec
INVARIANT ReadsList
INVARIANT DamageNoticed
PROPERTY Terminates
CHECK_DEADLOCK FALSE
