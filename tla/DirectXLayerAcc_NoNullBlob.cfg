\* spec.md 4.3 against the code: a constant that is not cached yet is reloaded.
CONSTANTS
    i1 = i1
    i2 = i2
    i3 = i3
    i4 = i4
    o1 = o1
    InputSeq <- MCInputSeq
    OutputSeq <- MCOutputSeq
    Consts <- MCConsts
    Int32Consts <- MCInt32Consts
    Flagged <- MCFlagged
SPECIFICATION Spec
INVARIANT NoNullBlob
\* A crashed or rejected layer has nothing left to do.
CHECK_DEADLOCK FALSE
