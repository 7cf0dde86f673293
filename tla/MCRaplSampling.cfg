CONSTANTS
    Period = 1
    Delay = 0
    Rate = 1
    MaxFails = 1
    WRAP = 4
    MaxEnergy = 8
    Readers = {client, ovthread}
    Sampler = ovthread
    NoReader = NoReader
SPECIFICATION FairTimedSpec
INVARIANT Exact
PROPERTY PremiseKept
PROPERTY MeterSpec
PROPERTY ReadsReturn
