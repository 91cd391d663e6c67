SPECIFICATION Spec
CONSTANTS
    Queries = {q1, q2, q3}
    Observable <- MCObservable
    ChunkSize = 2
    MaxOutcome = 5
SYMMETRY MCSymmetry
INVARIANTS
    RootIsCanonical
    RootIsWhole
