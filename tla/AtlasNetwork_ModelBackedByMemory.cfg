CONSTANTS
    n1 = n1
    n2 = n2
    Nets <- MCNets
    Batches = {1, 2}
    MaxBatch = 2
    NullContextFails = TRUE
SYMMETRY MCSymmetry
SPECIFICATION Spec
INVARIANT ModelBackedByMemory
CHECK_DEADLOCK FALSE
