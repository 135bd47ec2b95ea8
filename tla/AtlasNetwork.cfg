\* Two instances sharing the runtime; ACL rejects a null context.
CONSTANTS
    n1 = n1
    n2 = n2
    Nets <- MCNets
    Batches = {1, 2}
    MaxBatch = 2
    NullContextFails = TRUE
SYMMETRY MCSymmetry
SPECIFICATION Spec
INVARIANT TypeOK
INVARIANT ReadyNetsKeepModel
INVARIANT NoDoubleFree
PROPERTY ImplementsAclRuntime
\* Every instance may be destroyed; the process then has nothing left to do.
CHECK_DEADLOCK FALSE
