CONSTANTS
    client = client
    overflow_thread = overflow_thread
    Readers = {client, overflow_thread}
    NoReader = NoReader
    PMin = 1
    PMax = 2
    MaxTime = 3
    MaxFiles = 2
    Listings <- Boards
    Foreign = Foreign
    Packages = {0, 1}
SYMMETRY ReaderSymmetry
SPECIFICATION Spec
INVARIANT EveryIntervalOnce
INVARIANT AnswersPossible
INVARIANT ReadsOwnSensor
INVARIANT SensorsBalanced
PROPERTY NeverBackwards
CHECK_DEADLOCK FALSE
