CONSTANTS
    SrcMats <- MCSrcMats
    DstShapes <- MCLargeDst
    Coords <- MCCoords
    Extents <- MCExtents
INIT Init
NEXT Next
INVARIANT DispatchMatchesSource
CHECK_DEADLOCK FALSE
