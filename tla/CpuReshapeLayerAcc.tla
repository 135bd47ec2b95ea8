------------------------- MODULE CpuReshapeLayerAcc -------------------------
(***************************************************************************)
(* The CPU Reshape layer, CpuReshapeLayerAcc in                            *)
(* src/source/tnn/device/cpu/acc/cpu_reshape_layer_acc.cc.                 *)
(*                                                                         *)
(* InferRuntimeOutputShape runs each time the network infers shapes for    *)
(* new input dims.  It keeps ReshapeLayerParam.shape ("the stored shape")  *)
(* across calls and rewrites it: entries equal to the input dim become 0,  *)
(* a single remaining entry becomes -1, and when the shape input's data    *)
(* differs from the stored shape in exactly one position, that position   *)
(* becomes -1.  The aim (code comment, lines 72-92) is a stored shape that *)
(* gives the right output for the dims of later calls.                     *)
(*                                                                         *)
(* A graph is fixed by how its input dims and, if it has one, its shape    *)
(* input's data depend on a batch value chosen at each call.               *)
(***************************************************************************)
EXTENDS Integers, Sequences, FiniteSets

CONSTANTS
    Graphs,          \* graph kinds
    Batches,         \* batch values the caller may reshape to
    InputOf(_, _),   \* InputOf(g, b): dims of inputs[0]
    DataOf(_, _),    \* DataOf(g, b): data of inputs[1], for a graph with one
    HasShapeInput(_),\* the Reshape node has the shape as a second input
    ModelShape(_),   \* ReshapeLayerParam.shape as the model file gives it
    ReshapeTypes,    \* values ReshapeLayerParam.reshape_type may have
    DataTypes        \* data types the output blob may have

ASSUME GraphAssumption == Graphs # {} /\ Batches # {}

\* Blob dims are DimsVector entries, never negative; the shape input's
\* data and ReshapeLayerParam.shape are int vectors.
ASSUME DimsAssumption ==
    /\ \A g \in Graphs, b \in Batches : InputOf(g, b) \in Seq(Nat) /\ DataOf(g, b) \in Seq(Int)
    /\ \A g \in Graphs : ModelShape(g) \in Seq(Int)

VARIABLES
    graph,     \* the graph this layer belongs to
    shapeInt32,\* inputs[1] is DATA_TYPE_INT32
    stored,    \* layer_param->shape
    numAxes,   \* layer_param->num_axes
    inDims,    \* inputs[0] dims of the last call
    outDims,   \* outputs[0] dims after the last call
    status,    \* Status of the last call: none, ok, paramErr, reshapeErr
    seen,      \* batches of the calls made so far (auxiliary)
    reshapeType,\* layer_param->reshape_type
    dtype,     \* outputs[0] data type
    fwd,       \* Status of the last Forward since the last call: none, ok, modelErr
    copied     \* bytes Forward's memcpy moved (0 when it copied nothing)

vars == <<graph, shapeInt32, stored, numAxes, inDims, outDims, status, seen,
          reshapeType, dtype, fwd, copied>>

-----------------------------------------------------------------------------
(* DimsFunctionUtils::Reshape with axis 0, over the whole shape.            *)

Prod(d) == LET p[i \in 0..Len(d)] == IF i = 0 THEN 1 ELSE p[i - 1] * d[i]
           IN p[Len(d)]

\* Faulty variant: the -1 entry is left in the output instead of inferred.
DimsReshapeKeepsMinusOne(in, shape) ==
    IF \E i \in 1..Len(shape) : shape[i] = 0 /\ i > Len(in) THEN <<>>
    ELSE [i \in 1..Len(shape) |-> IF shape[i] = 0 THEN in[i] ELSE shape[i]]

\* The output dims, or <<>> for an error: 0 copies the input dim, one -1 is
\* inferred from the element count, which must be preserved.
DimsReshape(in, shape) ==
    LET fixed == [i \in 1..Len(shape) |->
                    IF shape[i] = 0 THEN (IF i <= Len(in) THEN in[i] ELSE -2)
                    ELSE IF shape[i] = -1 THEN 1 ELSE shape[i]]
        inferred == {i \in 1..Len(shape) : shape[i] = -1}
        rest == Prod(fixed)
    IN IF \E i \in 1..Len(shape) : fixed[i] < 0 \/ fixed[i] = 0 THEN <<>>
       ELSE IF Cardinality(inferred) > 1 THEN <<>>
       ELSE IF inferred = {}
            THEN IF rest = Prod(in) THEN fixed ELSE <<>>
       ELSE IF Prod(in) % rest # 0 THEN <<>>
       ELSE LET j == CHOOSE j \in inferred : TRUE
            IN [fixed EXCEPT ![j] = Prod(in) \div rest]

-----------------------------------------------------------------------------
(* The rewriting steps of InferRuntimeOutputShape, on 1-based indices.     *)

\* reset 0: an entry whose output dim equals the input dim becomes 0.
ResetZero(shape, in, out) ==
    [i \in 1..Len(shape) |->
        IF /\ i <= Len(in) /\ i <= Len(out)
           /\ out[i] > 0 /\ in[i] = out[i] /\ shape[i] # -1
        THEN 0 ELSE shape[i]]

\* Positions where the current shape data and the shape differ, neither
\* being 0.
DiffIndices(curr, shape) ==
    {i \in 1..Len(shape) : curr[i] # shape[i] /\ curr[i] # 0 /\ shape[i] # 0}

\* The shape with -1 at the one position in the singleton idx.
MinusOneAt(shape, idx) == [i \in DOMAIN shape |-> IF i \in idx THEN -1 ELSE shape[i]]

\* reset -1: a shape with a single non-zero entry gets -1 there.
ResetMinusOne(shape) ==
    LET nz == {i \in 1..Len(shape) : shape[i] # 0}
    IN IF Cardinality(nz) = 1 THEN MinusOneAt(shape, nz) ELSE shape

-----------------------------------------------------------------------------
(* Operations.                                                             *)

Init ==
    /\ graph \in Graphs
    /\ shapeInt32 \in BOOLEAN
    /\ stored = ModelShape(graph)
    /\ numAxes = Len(ModelShape(graph))
    /\ inDims = <<>>
    /\ outDims = <<>>
    /\ status = "none"
    /\ seen = {}
    /\ reshapeType \in ReshapeTypes
    /\ dtype \in DataTypes
    /\ fwd = "none"
    /\ copied = 0

\* Faulty variant: the rebuilt shape starts from the stored shape instead
\* of this call's output dims (line 111 left out).
AdjustShapeKeepsShape(in, out, st, twoInputs, curr) ==
    LET s0 == ResetZero(st, in, out)
        diff == DiffIndices(curr, s0)
        rebuilt == twoInputs /\ curr # s0 /\ Cardinality(diff) = 1
        s1 == IF rebuilt THEN MinusOneAt(s0, diff) ELSE s0
        st1 == IF rebuilt THEN s1 ELSE st
        s2 == ResetMinusOne(s1)
        infer == DimsReshape(in, s2)
    IN IF Len(st) # Len(out) THEN st
       ELSE IF infer # <<>> /\ infer = out /\ (~twoInputs \/ st1 # <<>>)
       THEN s2 ELSE st1

\* The part after the shape input is read (lines 57-140): the output dims
\* of this call are out; the stored shape is rewritten.
AdjustShape(in, out, st, twoInputs, curr) ==
    LET s0 == ResetZero(st, in, out)
        diff == DiffIndices(curr, s0)
        rebuilt == twoInputs /\ curr # s0 /\ Cardinality(diff) = 1
        s1 == IF rebuilt THEN MinusOneAt(out, diff) ELSE s0
        st1 == IF rebuilt THEN s1 ELSE st
        s2 == ResetMinusOne(s1)
        infer == DimsReshape(in, s2)
    IN IF Len(st) # Len(out) THEN st
       ELSE IF infer # <<>> /\ infer = out /\ (~twoInputs \/ st1 # <<>>)
       THEN s2 ELSE st1

\* Faulty variant: the shape data replaces the stored shape on every call.
ShapeToAdjustAlwaysData(st, data, twoInputs) == IF twoInputs THEN data ELSE st

\* layer_param->shape after lines 47-49: the shape data of the first call
\* is stored only while the stored shape is empty.
ShapeToAdjust(st, data, twoInputs) ==
    IF twoInputs /\ st = <<>> THEN data ELSE st

\* The network infers shapes for batch b and calls InferRuntimeOutputShape.
\* With a shape input, the output dims come from its data (lines 36-55);
\* without one, the layer's own shape inference has set them from the
\* stored shape.  The diff loop reads curr_dims[i] for every i below the
\* shape's length: a shorter shape data is read out of range.
InferRuntimeOutputShape(b) ==
    LET in == InputOf(graph, b)
        data == DataOf(graph, b)
        two == HasShapeInput(graph)
        st == ShapeToAdjust(stored, data, two)
        out == IF two THEN DimsReshape(in, data) ELSE DimsReshape(in, stored)
    IN /\ seen' = seen \cup {b}
       /\ inDims' = in
       /\ IF two /\ ~shapeInt32
          THEN /\ status' = "paramErr"
               /\ UNCHANGED <<stored, numAxes, outDims>>
          ELSE IF out = <<>>
          THEN /\ status' = "reshapeErr"
               /\ stored' = st
               /\ numAxes' = IF two THEN Len(data) ELSE numAxes
               /\ UNCHANGED outDims
          ELSE /\ status' = "ok"
               /\ outDims' = out
               /\ numAxes' = IF two THEN Len(data) ELSE numAxes
               /\ stored' = AdjustShape(in, out, st, two, data)
    /\ fwd' = "none" /\ copied' = 0
    /\ UNCHANGED <<graph, shapeInt32, reshapeType, dtype>>

\* DataTypeUtils::GetBytesSize.
BytesSize(t) == CASE t \in {"float", "int32"} -> 4 [] t \in {"half", "bfp16"} -> 2
                  [] OTHER -> 1

\* size_in_bytes of the reshape_type 0 copy (lines 153-155).
CopyBytes(d, t) == Prod(d) * BytesSize(t)

\* Forward after a successful shape inference.  reshape_type 0 copies the
\* input when output and input do not share memory (the memory planner
\* may alias them); reshape_type 1 (TensorFlow order) goes through
\* NHWC for outputs of rank at most 4 and the four supported data types.
Forward ==
    /\ status = "ok"
    /\ \/ /\ reshapeType = 0
          /\ fwd' = "ok"
          /\ \E shared \in BOOLEAN : copied' = IF shared THEN 0 ELSE CopyBytes(inDims, dtype)
       \/ /\ reshapeType = 1
          /\ fwd' = IF Len(outDims) <= 4 /\ dtype \in {"float", "half", "int8", "int32"}
                    THEN "ok" ELSE "modelErr"
          /\ copied' = 0
       \/ /\ reshapeType \notin {0, 1}
          /\ fwd' = "modelErr"
          /\ copied' = 0
    /\ UNCHANGED <<graph, shapeInt32, stored, numAxes, inDims, outDims, status,
                   seen, reshapeType, dtype>>

Next == Forward \/ \E b \in Batches : InferRuntimeOutputShape(b)

Spec == Init /\ [][Next]_vars

-----------------------------------------------------------------------------
(* Properties.                                                             *)

\* The output dims the graph defines for batch b.
GraphOutput(g, b) ==
    IF HasShapeInput(g) THEN DimsReshape(InputOf(g, b), DataOf(g, b))
    ELSE DimsReshape(InputOf(g, b), ModelShape(g))

TypeOK ==
    /\ graph \in Graphs /\ shapeInt32 \in BOOLEAN
    /\ stored \in Seq(Int) /\ numAxes \in Nat
    /\ inDims \in Seq(Nat) /\ outDims \in Seq(Nat)
    /\ status \in {"none", "ok", "paramErr", "reshapeErr"}
    /\ seen \subseteq Batches
    /\ reshapeType \in ReshapeTypes /\ dtype \in DataTypes
    /\ fwd \in {"none", "ok", "modelErr"} /\ copied \in Nat

\* After a call that returns TNN_OK, the stored shape applied to that
\* call's input gives that call's output.
StoredShapeReproduces ==
    status = "ok" => DimsReshape(inDims, stored) = outDims

\* Code comment, lines 83-92: once the layer has seen two calls whose
\* shape data differ, the stored shape is the true one: it gives the
\* graph's output for every batch.
StoredShapeGeneral ==
    (HasShapeInput(graph) /\ Cardinality({DataOf(graph, b) : b \in seen}) >= 2 /\ status = "ok")
        => \A b \in Batches : DimsReshape(InputOf(graph, b), stored) = GraphOutput(graph, b)

=============================================================================
