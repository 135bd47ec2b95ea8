\* Type negotiation of one layer whose constants all stay on the CPU.
CONSTANTS
    i1 = i1
    i2 = i2
    i3 = i3
    i4 = i4
    o1 = o1
    InputSeq <- MCInputSeq
    OutputSeq <- MCOutputSeq
    Consts <- MCConsts
    Int32Consts <- MCInt32ConstsAll
    Flagged <- MCFlagged
SPECIFICATION Spec
INVARIANT TypeOK
INVARIANT ResolvedBeforeForward
\* A crashed or rejected layer has nothing left to do.
CHECK_DEADLOCK FALSE
