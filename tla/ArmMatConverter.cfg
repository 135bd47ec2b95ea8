CONSTANTS
    SrcMats <- MCSrcMats
    DstShapes <- MCDstShapes
    Coords <- MCCoords
    Extents <- MCExtents
INIT Init
NEXT Next
INVARIANTS
    TypeOK
    CallMatchesReference
CHECK_DEADLOCK FALSE
