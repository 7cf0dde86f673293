CONSTANTS
    NCpus = 4
    Systems <- Plain
SPECIFICATION Spec
INVARIANT TreeMatches
INVARIANT CoresNumbered
INVARIANT TestCpuBelongs
