CONSTANTS
    Shapes <- MCShapesMixed
    ParamAxes <- MCLastAxis
    DataTypes = {"float"}
INIT Init
NEXT Next
INVARIANT ForwardComputesCumsum
