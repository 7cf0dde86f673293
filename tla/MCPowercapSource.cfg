CONSTANTS
    WRAP = 3
    MaxRange = 2
    client = client
    overflow_thread = overflow_thread
    Readers = {client, overflow_thread}
    NoReader = NoReader
    MaxEnergy = 4
    Foreign = Foreign
    Machines <- SomeMachines
    Types <- SomeTypes
    Indexes = {0, 1}
SYMMETRY ReaderSymmetry
SPECIFICATION PowercapSpec
INVARIANT CountedFromSetup
INVARIANT ReadsWantedZone
INVARIANT FilesBalanced
INVARIANT FindsWhatIsListed
CHECK_DEADLOCK FALSE
