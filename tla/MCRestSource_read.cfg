SPECIFICATION FairSpec
CONSTANTS
    i1 = i1  i2 = i2  i3 = i3
    Records = {i1, i2, i3}
    Setups <- MCSetups
    PageSize = 2
    MaxChanges = 4
    MaxFaults = 1
INVARIANTS
    RestTypeOK
    NothingPassedOver
    CompleteRead
PROPERTIES
    Converges
