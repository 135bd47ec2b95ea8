\* Two graphs whose batch reaches the shape data in ways the heuristic
\* misreads: [b, 2, 3] to [b, 6] and [b, 2, b] to [b*b, 2].
CONSTANTS
    Graphs = {"flatten", "square"}
    Batches = {1, 2}
    ReshapeTypes = {0}
    DataTypes = {"float"}
    InputOf <- MCInputOf
    DataOf <- MCDataOf
    HasShapeInput <- MCHasShapeInput
    ModelShape <- MCModelShape
INIT Init
NEXT Next
INVARIANT StoredShapeGeneral
