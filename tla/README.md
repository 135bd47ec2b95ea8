# TLA+ models of TNN device backends

This directory holds TLA+ models of parts of the TNN inference runtime under
`src/source/tnn/device/`, together with TLC configurations that check them on
small instances and TLAPS proofs that hold for every instance.
`PROJECT.json` lists each component, run, mutant, finding and hazard, and
gives the source lines each definition models.

## The system and its parts

| Part | Source | What it does | Model |
|---|---|---|---|
| AtlasNetwork | `device/atlas/atlas_network.cc` | Network backend for Ascend ACL. It loads one model, owns its context, stream, model memory, descriptor and input/output datasets, and runs it. | `AtlasNetwork` (modelled) |
| AtlasRuntime | not under `src/` | Process-wide singleton for ACL init and finalize, with a reference count shared by every AtlasNetwork. | Inside `AtlasNetwork`, from spec.md 4.1 and 5 (partly) |
| DirectXLayerAcc | `device/directx/acc/directx_layer_acc.cc` | Base class of DirectX layer accelerators. It handles precision, data-type negotiation and the constant-blob cache. | `DirectXLayerAcc` (partly: data formats are left out) |
| DirectXAddLayerAcc | `device/directx/acc/directx_add_layer_acc.cc` | Add layer. Its Init delegates to a class that is not under `src/`. | not modelled |
| CpuReshapeLayerAcc | `device/cpu/acc/cpu_reshape_layer_acc.cc` | Runtime shape inference for Reshape, including the "-1 dimension" heuristic, and Forward. | `CpuReshapeLayerAcc` (modelled) |
| CpuCumsumLayerAcc | `device/cpu/acc/cpu_cumsum_layer_acc.cc` | Cumulative-sum layer: axis handling and kernel. | `CpuCumsumLayerAcc` (modelled) |
| ArmMatConverterAcc | `device/arm/arm_mat_converter.cc` | Image kernels: parameter checks and dispatch on pixel type. | `ArmMatConverter` (partly: pixel arithmetic of resize, warp and colour kernels left out) |
| CudaContext, GradManager | `.h` only | Class declarations only. GradManager is training code. | not modelled |

How the parts interact:

- **AtlasNetwork instances share AtlasRuntime.** Several instances in one process, each driven by its own caller thread, share only AtlasRuntime: its ACL init flag, its reference count and its model-info registry.
- **AtlasRuntime has two entry points.** Every `AtlasNetwork::Init` calls `AtlasRuntime::Init` and then `IncreaseRef`. Every `DeInit` that gets past `aclrtSetCurrentContext` calls `DecreaseRef`. The DecreaseRef that takes the count to zero finalizes ACL for the whole process.
- **Layer parameters are shared across calls.** A CPU layer keeps its LayerParam for the life of the network. Reshape and Cumsum both rewrite it during a call, so a later call with other input dims starts from what an earlier call left.
- **A layer accelerator is driven by its network.** The owning network calls it one call at a time: `Init`, `Reshape`, `Forward`, and `ReloadConstantBlobs(inputs, true)` when the graph is built again.

## The modules

### `AtlasNetwork.tla`: AtlasNetwork and AtlasRuntime

**State.**

- Per instance:
  - `phase`: where the instance is in its caller's protocol.
  - `ptr`: the native handles its member fields still hold.
  - `live`: the native objects that still exist.
  - `dynamic`, `inBatch`, `devBatch`, `outBatch`: the dynamic-batch state.
  - `status`: the last Status returned.
- Shared (AtlasRuntime):
  - `rtInit`: ACL is initialised.
  - `refCount`: the process-wide count.
  - `registry`: the model-info registry.
- Auxiliary:
  - `holdsRef`: an instance's increment is outstanding.
  - `doubleFreed`: the pairs (instance, object) released through a handle whose object was already gone.

Native objects are the names in `Res`: ctx, stream, mem, weight, model, desc, inDs and outDs.

**Actions.** Each public method is one atomic step of one instance. The exception is `Init`, which is split in two:

- `RuntimeInit`: lines 27-31, the call to the shared runtime and its early return.
- `InitRest`: lines 32-82.

Init's native calls are numbered in the order the code makes them (`ContextCalls`, `LoadModelFromFile`, `AllocateDataset`). The step picks `k`, the first call that fails, or `NoFailure`. `Acquired(k)` is what the member fields then hold. The early returns keep all of it, as the code does.

The other actions:

- `Reshape(n, b)` and `Forward(n)` each start with the `aclrtSetCurrentContext` check.
- `DeInit(n)` is the explicit call.
- `Destroy(n)` is the destructor, which calls DeInit once more.
- `TearDown` is the body of DeInit past its context check: the datasets, `UnloadModel`, the stream and the context, then `DecreaseRef`.

Every native call may fail, and a call on an object that does not exist always fails (`NativeOutcomes`).

**The uncertain ACL behaviour.** It is unknown whether `aclrtSetCurrentContext(nullptr)` fails. That is the constant `NullContextFails`.

### `AclRuntime.tla`: what the shared runtime promises

This is an abstract specification of the process-wide ACL lifetime (spec.md 5). It has two variables: `up` (ACL is initialised) and `users` (the instances using the device). It has four actions:

- `Start`: the first Init brings ACL up.
- `Join(u)`: an instance starts using the device, only while ACL is up.
- `Leave(u)`: an instance stops using the device. ACL may go down in the same step only if no user remains.
- `Stop`: ACL goes down with no user.

`AtlasNetwork` instantiates it as `AR` with the refinement mapping `up <- rtInit` and `users <- DeviceUsers`, the instances whose `context_` is set. `ImplementsAclRuntime == AR!Spec` is checked by TLC and proved by TLAPS.

### `DirectXLayerAcc.tla`: one DirectX layer accelerator

**State.**

- `dtype`: the data type of every input and output blob descriptor.
- `cache`: `const_blob_map_`, mapping each constant's name to the type of its cached blob, or none.
- `bound`: the inputs rebound to a cached blob.
- `phase` and `status`.

**Actions.**

- `AccInit`: the `dynamic_cast` check, the precision change of FLOAT/HALF blobs, then `ReloadConstantBlobs(inputs, false)`.
- `Reshape`: `CheckBlob`. It visits the outputs, then the inputs, and stops at the first type `ResolveBlobDataType` rejects.
- `Forward`: a stub that returns OK.
- `ReloadConstants`: `ReloadConstantBlobs(inputs, true)`, called by the network.

`RawBuffer2DirectXBlob` is compiled with its body commented out, so a constant that is not cached stays null. A member call through a null pointer is modelled as a crash.

`const_blob_map_` starts empty (`Init` sets every entry to none). Only line 264 writes it, and that line comes after the loop. In the loop, a float or half constant that is not cached crashes at `SetFlag`. So nothing under `src/` ever fills the cache, and the path that rebinds an input to a cached blob is unreachable. The `directx_layer` run therefore uses a layer whose constants are all int32: `ReloadConstantBlobs` keeps them on the CPU, and Init and reloads return. The `directx_null_blob` run uses a float constant and shows the crash.

### `CpuCumsumLayerAcc.tla`: the CPU cumulative-sum layer

- **State.**
  - The parameter's `axis` as Forward leaves it, and the axis the model declared (`modelAxis`, auxiliary).
  - `exclusive`, `reverse`, and whether the parameter has the right type.
  - The input dims, the data type, the output buffer (offset to value) and the status of the last Forward.
- **Actions.**
  - `Reshape(d)`: the network gives new dims and a fresh output. `CpuCumsumLayerAcc::Reshape` itself does nothing.
  - `Forward` (lines 80-124): the parameter check, the in-place normalisation of a negative axis (lines 91-93), the dims split and the data-type dispatch.
  - An axis outside the dims is an unchecked `input_dims[axis]` read. The model records it as status `undefined`.
- **Kernel.** `LoopWrites` is one `func_cumsum_loop`; the four exclusive/reverse lambdas are one definition over the two flags. `CPUCumsumKernel` is the main loop.
- **Data.** The input holds 2^x at offset x, so every sum names its terms and a wrong index shows.
- **Reference.** `RefCumsum` states the result on (pre, k, post) indices with `MapThenSumSet`, independently of the loop.

### `ArmMatConverter.tla`: ARM image conversions

- **State.** The source and destination Mats (type, n, h, w, whether they hold data, device), the destination bytes, the call and its parameters, the kernel that ran, an out-of-bounds flag and the status.
- **Actions.** One per operation, each a single call from idle: `Copy`, `Resize`, `Crop`, `WarpAffine`, `CvtColor`, `ResizeAndPaste`, `ConcatMatWithBatch`.
  - Each one keeps the code's parameter check, early returns and pixel-type dispatch.
  - Copy and Crop are modelled down to the bytes: every `MatMemcpy2D` is a set of (destination, source) offset pairs. Bytes outside either buffer set `oob`.
  - The resize, warp and colour kernels are not under `src/`. Their calls record which kernel runs and which pixel types it reads.
- **Reference.** `RefCrop` states a crop on pixels: byte k of pixel (row, col) of image b comes from pixel (y + row, x + col). `RefCropPacked` covers the packed types. `RefCropYUV` covers NV21/NV12, whose images of `PlaneBytes` bytes are a luma plane followed by one chroma row per two luma rows.

### `CpuReshapeLayerAcc.tla`: the CPU Reshape layer

- **Constants.** A graph gives, for each batch value, the dims of `inputs[0]`. It also gives either the data of the shape input or the shape from the model file.
- **State.**
  - `stored`: `ReshapeLayerParam.shape`, kept across calls.
  - `num_axes`, the dims of the last call, the status.
  - `reshape_type`, the data type, and the status and copy size of the last Forward.
- **Actions.**
  - `InferRuntimeOutputShape(b)` (lines 30-143): the network infers shapes for batch b.
    - `ShapeToAdjust` stores the first shape data.
    - `AdjustShape` applies reset 0, the one-position diff and rebuild (`DiffIndices`, `MinusOneAt`) and reset -1, then stores the result only if it reproduces the output (line 135).
  - `Forward` (lines 145-189): reshape_type 0 copies `CopyBytes`, unless the memory planner aliased input and output. Type 1 checks the rank and the data type. Any other type is a model error.
- **Not under `src/`.** `DimsFunctionUtils::Reshape` (`DimsReshape`) is modelled with axis 0 from how this file calls it: 0 copies the input dim, one -1 is inferred, and the element count must match.

## The runs

| Run | Config | Expect | What it shows |
|---|---|---|---|
| atlas_refcount | `AtlasNetwork.cfg` | pass | With ACL rejecting a null context, no teardown finalizes ACL or frees the model of a ready instance (`ReadyNetsKeepModel`), and no DeInit releases through a stale field (`NoDoubleFree`). The instances and their runtime implement `AclRuntime` (`ImplementsAclRuntime`, a refinement checked as a temporal property). This holds across every failure point of Init and every failing native call. |
| atlas_init_failure_releases | `AtlasNetwork_InitFailureReleases.cfg` | violation | An Init that fails after `aclrtCreateContext` returns with the context still held. spec.md 4.2 says it is released. |
| atlas_model_backed_by_memory | `AtlasNetwork_ModelBackedByMemory.cfg` | violation | When `aclmdlUnload` fails, UnloadModel still frees the model's memory. |
| atlas_refcount_released | `AtlasNetwork_RefCountReleased.cfg` | violation | Suppose Init fails at SetDevice. Context_ stays null, and every later DeInit returns before `DecreaseRef`. The count stays at 1 after all instances are destroyed. |
| directx_layer | `DirectXLayerAcc.cfg` | pass | A layer whose constants are all int32, with every combination of data types. No blob reaches Forward with an AUTO or unsupported type (`ResolvedBeforeForward`). |
| cumsum | `CpuCumsumLayerAcc.cfg` | pass | For any sequence of Reshapes to rank-3 shapes and Forwards, every successful Forward leaves the exact cumulative sum along the declared axis, for every axis from -3 to 2 and all four flag combinations (`ForwardComputesCumsum`). |
| cumsum_rank_change | `CpuCumsumLayerAcc_RankChange.cfg` | violation | Axis -1 on rank 3, then a Reshape to rank 2. The first Forward stored axis 2 in the shared parameter, so the second reads `input_dims[2]` out of range. |
| arm_mat_converter | `ArmMatConverter.cfg` | pass | Copy with room, and every Crop that fits, move exactly the reference bytes, NV21/NV12 chroma included (`CallMatchesReference`). |
| arm_cvtcolor_dispatch | `ArmMatConverter_DispatchMatchesSource.cfg` | violation | CvtColor picks its kernel from the conversion type alone: NV12TOBGR runs on an NGRAY source. |
| cpu_reshape | `CpuReshapeLayerAcc.cfg` | pass | The graph of the code comment (`[4, b, 6]` with data `[-1, 2b, 3]`), a graph with the batch in front, and a model-file shape, over any sequence of batches. The stored shape reproduces every call (`StoredShapeReproduces`). After two different shape data it gives every batch's output (`StoredShapeGeneral`). |
| cpu_reshape_batch_dims | `CpuReshapeLayerAcc_BatchDims.cfg` | violation | Two graphs the heuristic misreads, over batches 1 and 2. For `[b, 2, 3]` to `[b, 6]`, reset -1 stores `[0, -1]`; the next call's diff counts `6 != -1` as the one difference and rebuilds `[1, -1]` or `[2, -1]` from the output, fixing the batch. The trace TLC prints is this flatten graph: batch 1 stores `[0, -1]`, batch 2 rebuilds `[2, -1]`, and lines 134-138 keep it. For `[b, 2, b]` to `[b*b, 2]`, batch 1 makes both output dims equal to input dims, so `[0, 0]` is stored; a later call finds no difference and keeps it. |
| directx_null_blob | `DirectXLayerAcc_NoNullBlob.cfg` | violation | A float constant that is not cached makes `ReloadConstantBlobs` call `SetFlag` through a null blob. |

Each property of a passing run has a mutant in `PROJECT.json`: a plausible bug in the modelled code that TLC catches with that property.

- Init incrementing the count twice, or only on success.
- An entry point ignoring the context check.
- DecreaseRef finalizing ACL while the count is still 2, breaking the refinement to `AclRuntime`.
- CheckBlob writing the rejected blob.
- AUTO accepted without being stored.
- A reversed cumsum loop starting one row too far; a negative axis normalised by subtraction.
- The NV21/NV12 chroma origin without the halving; ResizeAndPaste returning another code.
- Reshape's rebuild starting from the stored shape instead of the output dims; the shape data stored on every call; the -1 left in the inferred dims.

**Bounds.**

- **Atlas runs: two instances.** That is the least number for one instance's teardown to affect another's. Batches are {1, 2}, which is enough to tell the reshaped batch from the declared one. Every failure point of Init (13 native calls) and every native outcome is enumerated.
- **DirectX runs: four inputs and one output.** The inputs are a plain input, an int32 constant, a flagged constant and an unflagged one. Every combination of the five data types is an initial state, and the cache starts empty.

- **Crop past the edge.** The ARM model reaches crops whose rectangle leaves the source and records the out-of-bounds bytes in `oob`. This is a divergence from spec.md 3, which says the kernel only reads and writes within the declared extents: Crop never checks the rectangle. No run asserts `~oob`; `CallMatchesReference` covers every crop that fits.
- **Cumsum runs: every rank-3 shape of at most 12 elements** with dims 1 to 3, so every axis has pre, curr and post sizes of 1 and more than 1. Axes -3 to 2 include every negative form. The rank-change run mixes ranks 2 and 3.
- **ARM runs: every pixel type, batch 1 or 2, height 2 or 4, width 4,** with and without data. The destination is larger, narrower or of width zero. Crop origins are 0..2 and extents 1..2, so odd and even, fitting and overflowing rectangles all occur.
- **Reshape runs: batches 1 to 3 in any order and any number of calls.** Batch 1 is where coincidences between input and output dims happen, and the three batches allow two changes after the first call.

Deadlock checking is off in the Atlas, DirectX and ARM runs. The Atlas instances can all be destroyed, and a DirectX layer can be rejected or crash; after that nothing is left to do, as in the program. An ARM call is modelled as a single call, which ends the behaviour. In the Cumsum and Reshape runs the network can always call again, so deadlock is checked.

**Fairness.** There is none: every property checked is a safety property.

## What is proved

`AtlasNetworkProofs.tla` (TLAPS) proves four theorems for every finite non-empty set of instances and every set of batches.

- **`TypeCorrect`: `Spec => []TypeOK`.** Its one non-trivial part is `refCount <= Cardinality(Nets)`. It follows from the inductive invariant `TInv`: the count never exceeds the number of instances that have passed `IncreaseRef` (`Started`), and an instance enters `Started` once.
- **`ReadyNetsKeepModelHolds` and `NoDoubleFreeHolds`, under the hypothesis `NullContextFails`.** Both rest on the inductive invariant `RefInv`:
  - the count equals the number of instances holding an increment (`CountsHolders`);
  - an instance before IncreaseRef holds nothing (`UnstartedEmpty`);
  - an instance whose `context_` is set holds an increment, has only live handles, and ACL is initialised (`ContextHeld`);
  - a ready instance holds every handle (`ReadyComplete`);
  - nothing was double freed.

  With a null context rejected, only a holder of `context_` gets past setCurrent. So the DecreaseRef that finalizes ACL comes from the last holder. No other instance then has a context, and a ready instance always has one. TLC checked `RefInv` as an invariant of the two-instance model before it was proved. The hypothesis is needed. If ACL accepted a null context, the destructor of an instance whose Init never ran would get past setCurrent and call DecreaseRef without holding an increment. That would finalize ACL under a ready instance.

- **`ImplementsAclRuntimeHolds`: `Spec => AR!Spec`, under `NullContextFails`.** This is the refinement proof:
  - **Initial states.** `Init` maps to the abstract `Init`: no context is set and ACL is down.
  - **Steps.** Each step, in a state satisfying `RefInv`, maps to an abstract step or a stutter (`StepRefines`, one lemma per action):
    - `RuntimeInit` is `Start` or a stutter.
    - `InitRest` is `Join`, because Init reaches `aclrtCreateContext` only after SetDevice succeeded on an initialised ACL.
    - A DeInit past setCurrent is `Leave`. Lemma `LastHolderFinalizes` shows that when DecreaseRef finalizes, the leaving instance was the only holder of an increment, and so the only one with a context.
    - Every other step leaves `rtInit` and the context fields unchanged.
  - **What the mapping rests on.** The invariant `RefInv` (its conjuncts `CountsHolders` and `ContextHeld`) is what makes the mapping work.

The proofs use lemmas of `FiniteSetTheorems` on the cardinality of the holder set: adding and removing an element, subsets, and the empty set.

`DirectXLayerAccProofs.tla` proves every invariant of the `directx_layer` run, for every set of blobs, every input and output sequence, and every constant table. The constant assumption `SeqAssumption` says only that the inputs and outputs are sequences of blobs.

- **`TypeCorrect`, `ResolvedBeforeForwardHolds`.** Both follow from the inductive invariant `DXInv`. TLC checked `DXInv` on the run's instance before it was proved.
- **Why `DXInv` is stronger.** `ResolvedBeforeForward` is not inductive, because Forward keeps the descriptors. So `DXInv` says every descriptor is supported as soon as a Reshape has succeeded (`Resolved`).
- **Lemmas about the operators.**
  - `CheckOrderCovers`: CheckBlob's order visits every blob.
  - `FirstRejectedFacts`: the first rejected blob is found with the well-founded minimum of `WellFoundedInduction`, not by induction.
  - `ResolveFacts`, `CheckBlobFacts`, `ReloadFacts`: what resolving, checking and reloading return.

`ArmMatConverterProofs.tla` and `ArmCropProofs.tla` prove every property of the `arm_mat_converter` run, for every set of source Mats, destination extents and crop parameters. The constant assumption `MatsAssumption` says the extents and crop parameters are naturals.

- **`TypeCorrect` (`Spec => []TypeOK`).** It rests on `ArmInv`: in the idle state the destination is fresh, no status is set and nothing is out of bounds (`IdleFresh`). Every operation is one call from idle, so every action lemma starts there. The byte moves of Copy and Crop are pairs of naturals (`CropMovesNat`), so the buffer keeps its type.
- **`CallMatchesReferenceHolds`: `Spec => []CallMatchesReference`, under `SubsampledEven`.** The inductive invariant is `ArmInv /\ CallMatchesReference`, which TLC checked on the run's instance.
  - **Copy.** The moves are `<<i, i>>` for every byte of the source.
  - **Packed crop.** `PackedSets` shows that the moves `CropPacked` computes from strides and offsets equal `RefCropPacked`. It splits a byte column into pixel and channel (`Split`).
  - **NV21/NV12 crop.** `YUVSets` shows the same for `CropYUV420sp` and `RefCropYUV`.
  - **Bounds.** `PackedInBounds` and `YUVInBounds` show that every move lies in both buffers when `CropFits` holds. They rest on the mixed-radix lemmas `Flat` and `PixelInMat`.
  - **Why the hypothesis is needed.** The code places NV21/NV12 image b at `b * h * w * 3 / 2`. That is b times an image's size only when `h * w` is even. With three 3 x 3 NV21 images, TLC finds `CallMatchesReference` violated at image 2. The spec describes 4:2:0 formats as holding half-resolution chroma planes (spec.md 4.4), so their luma extents are even. `SubsampledEven` assumes exactly that of the NV21/NV12 sources of the instance and of their destination extents, and nothing else. The run's instance satisfies it.
  - **A change for the prover.** `RefCropPacked` is a union over images of a set built from three bound variables. tlapm does not reason about a set comprehension with four bound variables. The set is the same.

`CpuReshapeProofs.tla` proves `TypeOK` of the `cpu_reshape` run (`TypeCorrect`). It holds for every set of graphs and batches, every input dims, every shape data and every model-file shape. It needs the constant assumption `DimsAssumption`:
- input dims are sequences of naturals, since a `DimsVector` entry is never negative;
- the shape data and `ReshapeLayerParam.shape` are sequences of integers.

`TypeOK` is inductive. It rests on lemmas about the operators:

- **`DimsReshapeType`.** Whenever `DimsReshape` succeeds, it returns natural dims. This includes the -1 entry, which it infers as `Prod(in) \div rest`, where `rest` is positive (`ProdPos`) and `Prod(in)` is natural (`ProdNat`).
- **`AdjustShapeType`.** Each rewriting step of the stored shape (`ResetZero`, `MinusOneAt`, `ResetMinusOne`) keeps it a sequence of integers.
- **`Prod` without induction rules.** `Prod` is a recursive function defined in a LET.
  - `ProdPrefixExists` shows that its prefix products exist. The argument is a least counterexample (`LeastNat`, from `WFMin` on `Nat`).
  - So the function the definition names exists (`ProdFix`), and `ProdUnfold` gives its recursion equations.
  - `ProdIn` uses the same least-counterexample argument.
  - No induction theorem with an operator parameter is needed.

## What is only model-checked, and what is not modelled

**Model-checked only.**

- The properties of the CPU layers.
  - `CpuCumsumLayerAcc` reaches RECURSIVE operators through the folds of `FiniteSetsExt` (`MapThenSumSet` in `RefCumsum`). tlapm loses its SMT backend in such a module.
  - `StoredShapeReproduces` and `StoredShapeGeneral` of `CpuReshapeLayerAcc` are statements about the graphs of the instance, not about every graph. The `cpu_reshape_batch_dims` run shows graphs where `StoredShapeGeneral` fails. `StoredShapeReproduces` fails too when a model-file shape is kept while the shape input's data differs from it.
- `DispatchMatchesSource` of ArmMatConverter: it is violated (a finding), not proved.
- The violations listed above.

**Not modelled in AtlasNetwork.** These details are abstracted away:

- the shapes beyond the batch dimension, the ranks, and data sizes;
- the data buffers inside a dataset;
- the model-info registry's content, which is tracked only as a set of instances.

As a result, the hazards listed in `PROJECT.json` at `atlas_network.cc` lines 115, 331, 397 and 439 have no property yet.

**Not modelled in the CPU layers.**

- Reshape's Forward moves no tracked element values. `DataFormatConverter` is not under `src/`, so the TensorFlow-order conversion is modelled by its checks only.
- The cumsum values are exact: int32 wrap-around on a long axis (hazard at line 117) is not modelled.

**Not modelled in ArmMatConverter.** The pixel arithmetic of the resize, warp-affine and colour-conversion kernels is not under `src/`. Resize and WarpAffine dispatch on the source type, so their kernels always read the type they were chosen for.

**Not modelled in DirectXLayerAcc.** Data formats are left out: `SupportDataFormat` accepts NCHW for every type, and `ResolveBlobDataFormat` is not under `src/`.

**Out of TLAPS's reach.** Liveness properties and `ENABLED` stay with TLC, as do facts about recursive definitions.
