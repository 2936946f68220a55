CONSTANTS
    a = a
    b = b
    c = c
    none = none
    Nodes <- MCNodes
    NoLeader <- none
    MaxElections = 2
    MaxCrashes = 1
SPECIFICATION Spec
PROPERTIES EveryNodeProcesses
