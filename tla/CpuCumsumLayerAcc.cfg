CONSTANTS
    Shapes <- MCShapes3
    ParamAxes <- MCParamAxes
    DataTypes = {"float", "int8"}
INIT Init
NEXT Next
INVARIANTS
    TypeOK
    ForwardComputesCumsum
