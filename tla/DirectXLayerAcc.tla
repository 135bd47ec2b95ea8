--------------------------- MODULE DirectXLayerAcc ---------------------------
(***************************************************************************)
(* The DirectX layer accelerator base, DirectXLayerAcc in                  *)
(* src/source/tnn/device/directx/acc/directx_layer_acc.cc: one accelerator *)
(* instance bound to one operation, its input and output blob descriptors *)
(* (data types only: formats are NCHW for every type) and its private      *)
(* cache of converted constant blobs.                                      *)
(*                                                                         *)
(* The owning network drives the instance one call at a time: Init,        *)
(* Reshape, Forward, and ReloadConstantBlobs(inputs, true) when the graph  *)
(* is instantiated again.  RawBuffer2DirectXBlob is compiled with its body *)
(* commented out: it returns TNN_OK and leaves the blob pointer as it was. *)
(* A member call through a null shared_ptr is modelled as the process     *)
(* crashing.                                                               *)
(***************************************************************************)
EXTENDS Naturals, Sequences, FiniteSets

CONSTANTS
    InputSeq,     \* input blob names, in the order of the inputs vector
    OutputSeq,    \* output blob names, in the order of the outputs vector
    Consts,       \* names with an entry in the constant-resource table
    Int32Consts,  \* constants whose raw buffer holds int32 data
    Flagged       \* constants listed in the constant-resource flag table

Inputs == {InputSeq[i] : i \in 1..Len(InputSeq)}
Outputs == {OutputSeq[i] : i \in 1..Len(OutputSeq)}
Blobs == Inputs \cup Outputs

ASSUME SeqAssumption ==
    /\ InputSeq \in Seq(Inputs) /\ OutputSeq \in Seq(Outputs)
    /\ Len(InputSeq) > 0 /\ Len(OutputSeq) > 0
    /\ Inputs \cap Outputs = {}
ASSUME ConstAssumption ==
    /\ Consts \subseteq Inputs
    /\ Int32Consts \subseteq Consts
    /\ Flagged \subseteq Consts

\* DataType values a blob descriptor can carry.
Types == {"float", "half", "int32", "int8", "auto"}

\* A converted constant blob is device resident: float or half.
DeviceTypes == {"float", "half"}

NoBlob == "none"

VARIABLES
    phase,      \* constructed, initFailed, initialized, reshaped, forwarded, crashed
    dtype,      \* data_type of every input and output blob descriptor
    cache,      \* const_blob_map_: name -> type of the cached blob, or NoBlob
    bound,      \* inputs whose handle and descriptor were rebound to a cached blob
    status      \* Status of the last call

vars == <<phase, dtype, cache, bound, status>>

Phases == {"constructed", "initFailed", "initialized", "reshaped", "forwarded", "crashed"}
Statuses == {"none", "ok", "nullParam", "notSupported"}

-----------------------------------------------------------------------------
(* Type negotiation.                                                       *)

\* SupportDataType: the same list for every rank and blob kind.
SupportDataType == <<"float", "half">>

SupportedTypes == {SupportDataType[i] : i \in 1..Len(SupportDataType)}

\* Faulty variant: AUTO accepted as it is, without storing the default.
ResolveAutoUnstored(t) == IF t \in SupportedTypes \cup {"auto"} THEN t ELSE NoBlob

\* ResolveBlobDataType: the type the descriptor has afterwards, or NoBlob
\* when the call returns "unsupported data type".  AUTO becomes the first
\* entry of the support list.
ResolveBlobDataType(t) ==
    IF t = "auto" THEN SupportDataType[1]
    ELSE IF t \in SupportedTypes THEN t
    ELSE NoBlob

\* CheckBlob visits the outputs, then the inputs, and returns at the first
\* blob whose type cannot be resolved.
CheckOrder == OutputSeq \o InputSeq

Min2(a, b) == IF a <= b THEN a ELSE b

\* Position of the first blob CheckBlob rejects (one past the end: none).
FirstRejected(dt) ==
    LET bad == {k \in 1..Len(CheckOrder) : ResolveBlobDataType(dt[CheckOrder[k]]) = NoBlob}
    IN IF bad = {} THEN Len(CheckOrder) + 1
       ELSE CHOOSE k \in bad : \A j \in bad : k <= j

\* The descriptors after CheckBlob: every blob visited before the rejected
\* one is resolved; the rejected one and those after it are untouched.
\* Faulty variant: the rejected blob's descriptor is written as well.
CheckBlobThroughRejected(dt) ==
    LET visited == {CheckOrder[k] : k \in 1..Min2(FirstRejected(dt), Len(CheckOrder))}
    IN [b \in Blobs |-> IF b \in visited THEN ResolveBlobDataType(dt[b]) ELSE dt[b]]

CheckBlob(dt) ==
    LET stop == FirstRejected(dt)
        visited == {CheckOrder[k] : k \in 1..(stop - 1)}
    IN [b \in Blobs |-> IF b \in visited THEN ResolveBlobDataType(dt[b]) ELSE dt[b]]

CheckBlobOk(dt) == FirstRejected(dt) > Len(CheckOrder)

-----------------------------------------------------------------------------
(* Constant reload.                                                        *)

\* Inputs ReloadConstantBlobs converts: listed constants, not int32, and,
\* with only_reload_shape_differ_blob, only those in the flag table.
Reloaded(onlyDiffer) ==
    {i \in Inputs \cap Consts :
        /\ onlyDiffer => i \in Flagged
        /\ i \notin Int32Consts}

\* RawBuffer2DirectXBlob leaves an uncached blob null, and blob->SetFlag
\* dereferences it.
ReloadCrashes(onlyDiffer) == \E i \in Reloaded(onlyDiffer) : cache[i] = NoBlob

\* The inputs after a reload that returns: each converted input takes the
\* cached blob's descriptor.
ReloadedTypes(dt, onlyDiffer) ==
    [b \in Blobs |-> IF b \in Reloaded(onlyDiffer) THEN cache[b] ELSE dt[b]]

-----------------------------------------------------------------------------
(* The instance's operations.                                              *)

\* A freshly constructed accelerator: descriptors as the network built them,
\* and const_blob_map_ empty (only line 264 writes it, after the loop).
Init ==
    /\ phase = "constructed"
    /\ dtype \in [Blobs -> Types]
    /\ cache = [c \in Consts |-> NoBlob]
    /\ bound = {}
    /\ status = "none"

\* Init's set_data_type: FLOAT and HALF blobs take the context's precision.
Downgraded(dt, high) ==
    [b \in Blobs |-> IF dt[b] \in {"float", "half"}
                     THEN IF high THEN "float" ELSE "half"
                     ELSE dt[b]]

\* Init: the context must be a DirectXContext; precision is applied, shapes
\* cached, then ReloadConstantBlobs(inputs, false).
AccInit ==
    /\ phase = "constructed"
    /\ \E isDirectX \in BOOLEAN, high \in BOOLEAN :
          IF ~isDirectX
          THEN /\ phase' = "initFailed"
               /\ status' = "nullParam"
               /\ UNCHANGED <<dtype, cache, bound>>
          ELSE LET dt == Downgraded(dtype, high)
               IN IF ReloadCrashes(FALSE)
                  THEN /\ phase' = "crashed"
                       /\ dtype' = dt
                       /\ UNCHANGED <<cache, bound, status>>
                  ELSE /\ phase' = "initialized"
                       /\ dtype' = ReloadedTypes(dt, FALSE)
                       /\ bound' = bound \cup Reloaded(FALSE)
                       /\ status' = "ok"
                       /\ UNCHANGED cache

\* Reshape is CheckBlob.  A failed Reshape leaves the layer to be reshaped
\* again before it may run.
Reshape ==
    /\ phase \in {"initialized", "reshaped", "forwarded"}
    /\ dtype' = CheckBlob(dtype)
    /\ IF CheckBlobOk(dtype)
       THEN phase' = "reshaped" /\ status' = "ok"
       ELSE phase' = "initialized" /\ status' = "notSupported"
    /\ UNCHANGED <<cache, bound>>

\* Forward: the kernel dispatch is commented out; it returns TNN_OK.  The
\* network calls it only after a successful Reshape.
Forward ==
    /\ phase \in {"reshaped", "forwarded"}
    /\ phase' = "forwarded"
    /\ status' = "ok"
    /\ UNCHANGED <<dtype, cache, bound>>

\* The network reloads the flagged constants of an initialised layer; the
\* rebound descriptors call for a new Reshape.
ReloadConstants ==
    /\ phase \in {"initialized", "reshaped", "forwarded"}
    /\ IF ReloadCrashes(TRUE)
       THEN phase' = "crashed" /\ UNCHANGED <<dtype, bound, status>>
       ELSE /\ phase' = "initialized"
            /\ dtype' = ReloadedTypes(dtype, TRUE)
            /\ bound' = bound \cup Reloaded(TRUE)
            /\ status' = "ok"
    /\ UNCHANGED cache

Next == AccInit \/ Reshape \/ Forward \/ ReloadConstants

Spec == Init /\ [][Next]_vars

-----------------------------------------------------------------------------
(* Properties.                                                             *)

\* Every variable has its type.
TypeOK ==
    /\ phase \in Phases
    /\ dtype \in [Blobs -> Types]
    /\ cache \in [Consts -> DeviceTypes \cup {NoBlob}]
    /\ bound \subseteq Inputs \cap Consts
    /\ status \in Statuses

\* spec.md 3: an AUTO data type is resolved, and every blob has a type the
\* accelerator supports, before Forward runs: Init's precision change, a
\* reload's rebinding and CheckBlob's early return must not leave one behind.
ResolvedBeforeForward ==
    phase = "forwarded" => \A b \in Blobs : dtype[b] \in SupportedTypes

\* spec.md 4.3: every constant input is converted and cached; no reload
\* dereferences a missing blob.
NoNullBlob == phase # "crashed"

=============================================================================
