SPECIFICATION Spec
CONSTANTS
    ClientIds = {i1, i2}
    Ids <- MCIds
    NoChannel = NoChannel
    QueueSize = 1
    MaxGroup = 3
SYMMETRY MCSymmetry
INVARIANTS
    TypeOK
    OutcomeTellsAll
    OpenIsSendable
