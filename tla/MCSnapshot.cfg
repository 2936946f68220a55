CONSTANTS
    Base = 8
    W = 2
    DbVals <- MCDbVals
    GzMagic = 5
    MaxSlack = 3
    MaxFaults = 1
SPECIFICATION Spec
INVARIANTS TypeOK RoundTrip
