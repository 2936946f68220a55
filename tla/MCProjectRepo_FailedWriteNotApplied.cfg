CONSTANTS
    c1 = c1
    c2 = c2
    n1 = n1
    n2 = n2
    d1 = d1
    empty = empty
    Clients <- MCClients
    Names <- MCNames
    Descs <- MCDescs
    Empty <- empty
    MaxRequests = 3
    MaxLeaderChanges = 1
    MaxStoreFaults = 0
    MaxIdInput = 2
    AutoIncrement = FALSE
SPECIFICATION Spec
INVARIANT
    FailedWriteNotApplied
