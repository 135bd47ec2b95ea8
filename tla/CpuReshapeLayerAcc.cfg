\* Graphs whose batch enters one dim of the shape data, and a model-file
\* shape: the stored shape stays right for every batch.
CONSTANTS
    Graphs = {"torch", "seq", "single"}
    Batches = {1, 2, 3}
    ReshapeTypes = {0, 1, 2}
    DataTypes = {"float", "int8", "bfp16"}
    InputOf <- MCInputOf
    DataOf <- MCDataOf
    HasShapeInput <- MCHasShapeInput
    ModelShape <- MCModelShape
INIT Init
NEXT Next
INVARIANTS
    TypeOK
    StoredShapeReproduces
    StoredShapeGeneral
