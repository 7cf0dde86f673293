CONSTANTS
    WRAP = 3
    MaxEnergy = 7
    Readers = {client, ovthread}
SPECIFICATION Spec
INVARIANT NeverAboveEnergy
