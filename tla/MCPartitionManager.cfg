CONSTANTS
    Managers = {m1, m2}
    NodeIDs = {n1, n2, n3}
    PartitionCount = 5
    NoOwner = NoOwner
SPECIFICATION PartitionSpec
INVARIANTS
    PartitionTypeOK
    OwnersAreRegistered
    PartitionsSharedEvenly
