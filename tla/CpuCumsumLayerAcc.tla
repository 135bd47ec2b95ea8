-------------------------- MODULE CpuCumsumLayerAcc --------------------------
(***************************************************************************)
(* The CPU cumulative-sum layer, CpuCumsumLayerAcc in                      *)
(* src/source/tnn/device/cpu/acc/cpu_cumsum_layer_acc.cc.                  *)
(*                                                                         *)
(* The network gives the layer new input dims (a Reshape of the graph) and *)
(* calls Forward.  Forward reads CumsumLayerParam.axis, normalises a       *)
(* negative axis IN PLACE in the shared layer parameter, splits the dims   *)
(* into dim_pre * dim_curr * dim_post and runs CPUCumsumKernel.            *)
(*                                                                         *)
(* Element values are abstracted: the input holds 2^x at flat offset x, so *)
(* every sum of distinct elements is distinct and a wrong index shows in   *)
(* the output.  Float and int32 arithmetic is exact on these sums (below  *)
(* 2^12); half is not (an 11-bit significand), and no run uses half.      *)
(***************************************************************************)
EXTENDS Integers, Sequences, FiniteSetsExt, Functions

CONSTANTS
    Shapes,      \* input dims the network may give the layer
    ParamAxes,   \* values CumsumLayerParam.axis may have in the model
    DataTypes    \* data types the input blob may have

ASSUME ShapesAssumption == Shapes \subseteq Seq(Nat) /\ Shapes # {}
ASSUME AxesAssumption == ParamAxes \subseteq Int /\ ParamAxes # {}

\* Output content never written by a kernel.
Junk == -1

VARIABLES
    axis,        \* cumsum_param->axis, as Forward leaves it
    modelAxis,   \* the axis the model declared (auxiliary, never changes)
    exclusive,   \* cumsum_param->exclusive
    reverse,     \* cumsum_param->reverse
    paramOk,     \* param_ is a CumsumLayerParam
    dims,        \* input_blob dims (output dims are equal)
    dtype,       \* input_blob data type
    out,         \* output buffer: flat offset -> value
    status       \* none (no Forward since the last Reshape), ok, modelErr, undefined

vars == <<axis, modelAxis, exclusive, reverse, paramOk, dims, dtype, out, status>>

-----------------------------------------------------------------------------
(* Kernel.                                                                 *)

Mul(a, b) == a * b

\* DimsVectorUtils-style product of the 0-based dims lo .. hi-1.
DimsProduct(d, lo, hi) == FoldFunctionOnSet(Mul, 1, d, (lo + 1)..hi)

Count(d) == DimsProduct(d, 0, Len(d))

Offsets(d) == 0..(Count(d) - 1)

\* The value stored at flat offset x of the input blob.
In(x) == 2^x

\* Faulty variant: a reversed loop starts one row past the last element.
LoopWritesFromEnd(offset, curr, post, excl, rev) ==
    LET pos(k) == IF rev THEN offset + post * (curr - k) ELSE offset + post * k
        acc[k \in 0..curr] == IF k = 0 THEN 0 ELSE acc[k - 1] + In(pos(k - 1))
    IN {<<pos(k), IF excl THEN acc[k] ELSE acc[k + 1]>> : k \in 0..(curr - 1)}

\* One call of func_cumsum_loop from offset: the writes it makes, as
\* <<offset, value>> pairs.  curr_cumsum before step k is acc[k].
LoopWrites(offset, curr, post, excl, rev) ==
    LET pos(k) == IF rev THEN offset + post * (curr - 1 - k) ELSE offset + post * k
        acc[k \in 0..curr] == IF k = 0 THEN 0 ELSE acc[k - 1] + In(pos(k - 1))
    IN {<<pos(k), IF excl THEN acc[k] ELSE acc[k + 1]>> : k \in 0..(curr - 1)}

\* CPUCumsumKernel: the main loop over i < dim_pre and j < dim_post.
CPUCumsumKernel(pre, curr, post, excl, rev) ==
    UNION {LoopWrites(i * curr * post + j, curr, post, excl, rev) :
              i \in 0..(pre - 1), j \in 0..(post - 1)}

\* The output buffer after the writes: a written offset holds the value
\* written there, the others keep what they held.
Written(buf, writes) ==
    [x \in DOMAIN buf |->
        IF \E w \in writes : w[1] = x
        THEN (CHOOSE w \in writes : w[1] = x)[2]
        ELSE buf[x]]

\* Faulty variant: the rank is subtracted instead of added.
NormalisedAxisSubtracts(a, d) == IF a < 0 THEN a - Len(d) ELSE a

\* Forward's axis normalisation: a negative axis counts from the back.
NormalisedAxis(a, d) == IF a < 0 THEN a + Len(d) ELSE a

\* input_dims[a] is read without a bound check.
AxisInRange(a, d) == a \in 0..(Len(d) - 1)

-----------------------------------------------------------------------------
(* Operations.                                                             *)

Init ==
    /\ modelAxis \in ParamAxes
    /\ axis = modelAxis
    /\ exclusive \in BOOLEAN
    /\ reverse \in BOOLEAN
    /\ paramOk \in BOOLEAN
    /\ dims \in Shapes
    /\ dtype \in DataTypes
    /\ out = [x \in Offsets(dims) |-> Junk]
    /\ status = "none"

\* The network reshapes the graph: new input dims, a freshly allocated
\* output; CpuCumsumLayerAcc::Reshape itself returns TNN_OK.
Reshape(d) ==
    /\ dims' = d
    /\ out' = [x \in Offsets(d) |-> Junk]
    /\ status' = "none"
    /\ UNCHANGED <<axis, modelAxis, exclusive, reverse, paramOk, dtype>>

\* Forward: the parameter check, the in-place normalisation, the split of
\* the dims and the dispatch on the data type.  An axis outside the dims
\* reads past input_dims: undefined behaviour.
Forward ==
    LET a == NormalisedAxis(axis, dims)
        pre == DimsProduct(dims, 0, a)
        curr == dims[a + 1]
        post == DimsProduct(dims, a + 1, Len(dims))
    IN /\ \/ /\ ~paramOk
             /\ status' = "modelErr"
             /\ UNCHANGED <<axis, out>>
          \/ /\ paramOk
             /\ axis' = a
             /\ IF ~AxisInRange(a, dims)
                THEN status' = "undefined" /\ UNCHANGED out
                ELSE IF dtype \in {"float", "half", "int32"}
                THEN /\ out' = Written(out, CPUCumsumKernel(pre, curr, post, exclusive, reverse))
                     /\ status' = "ok"
                ELSE status' = "modelErr" /\ UNCHANGED out
       /\ UNCHANGED <<modelAxis, exclusive, reverse, paramOk, dims, dtype>>

Next == Forward \/ \E d \in Shapes : Reshape(d)

Spec == Init /\ [][Next]_vars

-----------------------------------------------------------------------------
(* Reference and properties.                                               *)

\* The cumulative sum along axis a, stated on indices: the element at
\* (p, k, q) of the pre x curr x post split is the sum of the elements
\* (p, k', q) with k' before k (or after, when reversed), k itself included
\* unless exclusive.
RefCumsum(d, a, excl, rev) ==
    LET curr == d[a + 1]
        post == DimsProduct(d, a + 1, Len(d))
        Sel(k) == {k2 \in 0..(curr - 1) :
                      \/ k2 = k /\ ~excl
                      \/ k2 < k /\ ~rev
                      \/ k2 > k /\ rev}
    IN [x \in Offsets(d) |->
          LET q == x % post
              k == (x \div post) % curr
              p == x \div (post * curr)
          IN MapThenSumSet(LAMBDA k2 : In(p * curr * post + k2 * post + q), Sel(k))]

\* Every variable has its type.
TypeOK ==
    /\ axis \in ParamAxes \cup Nat /\ modelAxis \in ParamAxes
    /\ exclusive \in BOOLEAN /\ reverse \in BOOLEAN /\ paramOk \in BOOLEAN
    /\ dims \in Shapes
    /\ out \in [Offsets(dims) -> Int]
    /\ status \in {"none", "ok", "modelErr", "undefined"}

\* A Forward that returns TNN_OK leaves in the output the cumulative sum of
\* the input along the axis the model declared (counted from the back when
\* negative, for the dims of this call), whatever Reshapes and Forwards came
\* before; and no Forward reads input_dims out of range when that axis is
\* valid for the dims.  Forward rewrites the shared parameter's axis in
\* place, so this relates every Forward to the first one.
ForwardComputesCumsum ==
    LET a == NormalisedAxis(modelAxis, dims)
    IN AxisInRange(a, dims) =>
          /\ status # "undefined"
          /\ status = "ok" => out = RefCumsum(dims, a, exclusive, reverse)

=============================================================================
