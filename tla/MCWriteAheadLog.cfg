CONSTANTS
    Records = {r1, r2}
    MaxSequence = 5
SPECIFICATION WalSpec
INVARIANTS
    WalTypeOK
    SequencesContiguous
    ReplayExact
