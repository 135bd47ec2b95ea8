---------------------------- MODULE AtlasNetwork ----------------------------
(***************************************************************************)
(* The Atlas (Ascend ACL) network backend: AtlasNetwork in                 *)
(* src/source/tnn/device/atlas/atlas_network.cc, together with the part    *)
(* of the process-wide AtlasRuntime singleton it drives (ACL               *)
(* initialisation, reference count, model-info registry).  AtlasRuntime   *)
(* lives outside src/ and is modelled from spec.md (sections 4.1 and 5).  *)
(*                                                                         *)
(* Several AtlasNetwork instances live in one process, each driven by its  *)
(* own caller thread, one call at a time; they share only AtlasRuntime.   *)
(* A public method is one atomic step, except Init, which is split where  *)
(* it touches the shared runtime twice (lines 27 and 32).                  *)
(*                                                                         *)
(* Native ACL objects are names in Res.  For each instance, ptr holds the  *)
(* handles its member fields still carry and live the native objects that *)
(* still exist; a release through a field whose object is gone is         *)
(* recorded in doubleFreed.  Every native call may fail; a call on an      *)
(* object that does not exist, or before aclInit, fails.                   *)
(***************************************************************************)
EXTENDS Naturals, FiniteSets, Sequences

CONSTANTS
    Nets,              \* the AtlasNetwork instances of the process
    Batches,           \* batch sizes a caller passes to Reshape
    MaxBatch,          \* batch the model's input buffer is sized for
    NullContextFails   \* aclrtSetCurrentContext(nullptr) returns an error

ASSUME NetsAssumption == IsFiniteSet(Nets) /\ Nets # {}
ASSUME BatchAssumption == Batches \subseteq Nat \ {0} /\ MaxBatch \in Batches
ASSUME NullContextAssumption == NullContextFails \in BOOLEAN

VARIABLES
    rtInit,       \* AtlasRuntime: aclInit done and not yet finalized
    refCount,     \* AtlasRuntime: process-wide reference count
    registry,     \* AtlasRuntime: instances whose blobs have model info
    phase,        \* where each instance is in its caller's protocol
    ptr,          \* native handles held by the instance's member fields
    live,         \* native objects of the instance that still exist
    holdsRef,     \* auxiliary: the instance's increment is outstanding
    dynamic,      \* the loaded model has a dynamic-batch control input
    inBatch,      \* dims[0] of the input blob descriptor
    devBatch,     \* batch the loaded model executes with
    outBatch,     \* dims[0] of the output blob descriptors
    status,       \* Status returned by the instance's last call
    doubleFreed   \* <<instance, object>> released through a stale handle

runtimeVars == <<rtInit, refCount, registry>>
netVars == <<phase, ptr, live, holdsRef, dynamic, inBatch, devBatch, outBatch, status>>
vars == <<runtimeVars, netVars, doubleFreed>>

Res == {"ctx", "stream", "mem", "weight", "model", "desc", "inDs", "outDs"}
Phases == {"new", "initing", "rtFailed", "initFailed", "ready", "deinited", "gone"}
Statuses == {"none", "ok", "runtimeErr", "notSupported"}

-----------------------------------------------------------------------------
(* AtlasRuntime (spec-modelled).                                           *)

\* AtlasRuntime::Init: the first call performs aclInit, which may fail.
RuntimeInitOutcomes == IF rtInit THEN {TRUE} ELSE BOOLEAN

\* Faulty variant: the count compared before the decrement, one too high.
FinalizesAtTwo == refCount <= 2

\* AtlasRuntime::DecreaseRef releases the runtime (aclrtResetDevice,
\* aclFinalize) when the count drops to zero.
Finalizes == refCount <= 1

-----------------------------------------------------------------------------
(* Native call outcomes.                                                   *)

\* A native call on existing objects may succeed or fail; otherwise it fails.
NativeOutcomes(usable) == IF usable THEN BOOLEAN ELSE {FALSE}

\* aclrtSetCurrentContext(context_): fails before aclInit, and on a null
\* context exactly when NullContextFails.
ContextOutcomes(n) ==
    NativeOutcomes(rtInit /\ ("ctx" \in ptr[n] \/ ~NullContextFails))

\* Faulty variant: an entry point that goes on when the context check fails.
ContextCurrentIgnored(n) == TRUE

ContextCurrent(n) == TRUE \in ContextOutcomes(n)

ContextNotCurrent(n) == FALSE \in ContextOutcomes(n)

-----------------------------------------------------------------------------
(* The native calls of Init, numbered in the order Init makes them: the    *)
(* object each call creates and stores in a member field, by number.       *)

\* 1 AtlasRuntime::SetDevice, 2 aclrtCreateContext, 3 aclrtCreateStream.
ContextCalls == [ctx |-> 2, stream |-> 3]

\* LoadModelFromFile, calls 4 to 9: aclmdlQuerySize, aclrtMalloc for the
\* model memory, aclrtMalloc for the weights, aclmdlLoadFromFileWithMem,
\* aclmdlCreateDesc, aclmdlGetDesc.
LoadModelFromFile == [mem |-> 5, weight |-> 6, model |-> 7, desc |-> 8]

\* AllocateDataset for input_ (calls 10, 11) and output_ (12, 13):
\* aclmdlCreateDataset, stored in *data_set at once, then per declared blob
\* a buffer, a data buffer and a Blob; a failure there leaves the buffers
\* already added in the dataset.
AllocateDataset == [inDs |-> 10, outDs |-> 12]

NumInitCalls == 13

NoFailure == NumInitCalls + 1

CreatedBy(r) ==
    IF r \in {"ctx", "stream"} THEN ContextCalls[r]
    ELSE IF r \in {"mem", "weight", "model", "desc"} THEN LoadModelFromFile[r]
    ELSE AllocateDataset[r]

\* What Init holds when call k is the first to fail (NoFailure: none does).
Acquired(k) == {r \in Res : CreatedBy(r) < k}

\* Faulty variants of InitRef: Init incrementing the count twice, and
\* Init incrementing it only once it has succeeded.
InitRefTwice(k) == refCount + 2

InitRefOnSuccess(k) == IF k = NoFailure THEN refCount + 1 ELSE refCount

\* AtlasRuntime::IncreaseRef as called from AtlasNetwork::Init; the
\* argument is the first native call of Init that fails.
InitRef(k) == refCount + 1

\* AddBlobToMap: an unbound first input dimension is back-computed from the
\* buffer size, which the model sizes for its largest batch.
DeclaredBatch == MaxBatch

-----------------------------------------------------------------------------
(* The instance's operations.                                              *)

Init ==
    /\ rtInit = FALSE
    /\ refCount = 0
    /\ registry = {}
    /\ phase = [n \in Nets |-> "new"]
    /\ ptr = [n \in Nets |-> {}]
    /\ live = [n \in Nets |-> {}]
    /\ holdsRef = [n \in Nets |-> FALSE]
    /\ dynamic = [n \in Nets |-> FALSE]
    /\ inBatch = [n \in Nets |-> MaxBatch]
    /\ devBatch = [n \in Nets |-> MaxBatch]
    /\ outBatch = [n \in Nets |-> MaxBatch]
    /\ status = [n \in Nets |-> "none"]
    /\ doubleFreed = {}

\* Init, up to AtlasRuntime::GetInstance()->Init() and its early return.
RuntimeInit(n) ==
    /\ phase[n] = "new"
    /\ \E ok \in RuntimeInitOutcomes :
          /\ rtInit' = (rtInit \/ ok)
          /\ phase' = [phase EXCEPT ![n] = IF ok THEN "initing" ELSE "rtFailed"]
          /\ status' = [status EXCEPT ![n] = IF ok THEN "none" ELSE "runtimeErr"]
    /\ UNCHANGED <<refCount, registry, ptr, live, holdsRef, dynamic,
                   inBatch, devBatch, outBatch, doubleFreed>>

\* The rest of Init: IncreaseRef, then the native calls of InitCalls, the
\* first failure returning at once with what was acquired still held; on
\* success AddModelInfo for the input blobs.
InitRest(n) ==
    /\ phase[n] = "initing"
    /\ \E k \in 1..NoFailure, d \in BOOLEAN :
          /\ rtInit \/ k = 1
          /\ refCount' = InitRef(k)
          /\ holdsRef' = [holdsRef EXCEPT ![n] = TRUE]
          /\ ptr' = [ptr EXCEPT ![n] = Acquired(k)]
          /\ live' = [live EXCEPT ![n] = Acquired(k)]
          /\ dynamic' = [dynamic EXCEPT ![n] = d]
          /\ \/ /\ k = NoFailure
                /\ registry' = registry \cup {n}
                /\ phase' = [phase EXCEPT ![n] = "ready"]
                /\ status' = [status EXCEPT ![n] = "ok"]
             \/ /\ k < NoFailure
                /\ UNCHANGED registry
                /\ phase' = [phase EXCEPT ![n] = "initFailed"]
                /\ status' = [status EXCEPT ![n] = "runtimeErr"]
    /\ inBatch' = [inBatch EXCEPT ![n] = DeclaredBatch]
    /\ devBatch' = [devBatch EXCEPT ![n] = DeclaredBatch]
    /\ outBatch' = [outBatch EXCEPT ![n] = DeclaredBatch]
    /\ UNCHANGED <<rtInit, doubleFreed>>

\* An entry point that returns "set context failed" and changes nothing.
FailsSettingContext(n) ==
    /\ ContextNotCurrent(n)
    /\ status' = [status EXCEPT ![n] = "runtimeErr"]
    /\ UNCHANGED <<runtimeVars, ptr, live, holdsRef, dynamic,
                   inBatch, devBatch, outBatch, doubleFreed>>

\* Reshape: the caller's shape overwrites the input descriptor first; for a
\* dynamic-batch model aclmdlGetInputIndexByName and
\* aclmdlSetDynamicBatchSize follow (one outcome for both), and only their
\* success propagates the batch to the outputs.
Reshape(n, b) ==
    /\ phase[n] = "ready"
    /\ \/ /\ FailsSettingContext(n)
          /\ UNCHANGED phase
       \/ /\ ContextCurrent(n)
          /\ inBatch' = [inBatch EXCEPT ![n] = b]
          /\ \/ /\ ~dynamic[n]
                /\ status' = [status EXCEPT ![n] = "ok"]
                /\ UNCHANGED <<devBatch, outBatch>>
             \/ /\ dynamic[n]
                /\ \E ok \in NativeOutcomes("model" \in live[n]) :
                      /\ devBatch' = [devBatch EXCEPT ![n] = IF ok THEN b ELSE @]
                      /\ outBatch' = [outBatch EXCEPT ![n] = IF ok THEN b ELSE @]
                      /\ status' = [status EXCEPT ![n] = IF ok THEN "ok" ELSE "runtimeErr"]
          /\ UNCHANGED <<runtimeVars, phase, ptr, live, holdsRef, dynamic, doubleFreed>>

\* Forward (ForwardAsync is the same call): aclmdlExecute on the model and
\* the two datasets.
Forward(n) ==
    /\ phase[n] = "ready"
    /\ \/ FailsSettingContext(n)
       \/ /\ ContextCurrent(n)
          /\ \E ok \in NativeOutcomes({"model", "inDs", "outDs"} \subseteq live[n]) :
                status' = [status EXCEPT ![n] = IF ok THEN "ok" ELSE "runtimeErr"]
          /\ UNCHANGED <<runtimeVars, ptr, live, holdsRef, dynamic,
                         inBatch, devBatch, outBatch, doubleFreed>>
    /\ UNCHANGED phase

\* SetForwardMemory always refuses.
SetForwardMemory(n) ==
    /\ phase[n] = "ready"
    /\ status' = [status EXCEPT ![n] = "notSupported"]
    /\ UNCHANGED <<runtimeVars, phase, ptr, live, holdsRef, dynamic,
                   inBatch, devBatch, outBatch, doubleFreed>>

\* UnloadModel: aclmdlUnload(model_id_) whatever its outcome, then the
\* description and both memory regions are released and their fields
\* nulled; model_id_ keeps its value.
UnloadModel(n, unloadOk) ==
    [released |-> ptr[n] \cap {"desc", "mem", "weight"},
     unloaded |-> IF unloadOk THEN {"model"} ELSE {}]

\* DestroyDataset(input_), DestroyDataset(output_): buffers and datasets are
\* released; input_ and output_ are not reset.
DestroyDatasets(n) == ptr[n] \cap {"inDs", "outDs"}

\* DeInit past its context check: DelModelInfo and the blobs, the datasets,
\* UnloadModel, aclrtDestroyStream and aclrtDestroyContext (a failure is only
\* logged, the field is nulled anyway), then DecreaseRef.
TearDown(n) ==
    \E unloadOk \in NativeOutcomes("model" \in live[n]),
       streamOk \in NativeOutcomes("stream" \in live[n]),
       ctxOk \in NativeOutcomes("ctx" \in live[n]) :
       LET um == UnloadModel(n, unloadOk)
           destroyed == {r \in ptr[n] \cap {"stream", "ctx"} :
                            IF r = "stream" THEN streamOk ELSE ctxOk}
           handed == DestroyDatasets(n) \cup um.released \cup (ptr[n] \cap {"stream", "ctx"})
           gone == DestroyDatasets(n) \cup um.released \cup um.unloaded \cup destroyed
       IN /\ doubleFreed' = doubleFreed \cup {<<n, r>> : r \in handed \ live[n]}
          /\ ptr' = [ptr EXCEPT ![n] = @ \ {"ctx", "stream", "desc", "mem", "weight"}]
          /\ live' = [m \in Nets |-> IF Finalizes THEN {}
                                     ELSE IF m = n THEN live[n] \ gone ELSE live[m]]
          /\ refCount' = IF Finalizes THEN 0 ELSE refCount - 1
          /\ rtInit' = (rtInit /\ ~Finalizes)
          /\ registry' = IF Finalizes THEN {} ELSE registry \ {n}
          /\ holdsRef' = [holdsRef EXCEPT ![n] = FALSE]
          /\ status' = [status EXCEPT ![n] = "ok"]
          /\ UNCHANGED <<dynamic, inBatch, devBatch, outBatch>>

\* DeInit, ending the instance in phase "to".
DeInitCall(n, to) ==
    /\ \/ FailsSettingContext(n)
       \/ ContextCurrent(n) /\ TearDown(n)
    /\ phase' = [phase EXCEPT ![n] = to]

\* An explicit DeInit by the caller.
DeInit(n) ==
    /\ phase[n] \in {"ready", "initFailed"}
    /\ DeInitCall(n, "deinited")

\* ~AtlasNetwork: DeInit once more, whatever came before.
Destroy(n) ==
    /\ phase[n] \in {"new", "rtFailed", "initFailed", "ready", "deinited"}
    /\ DeInitCall(n, "gone")

Next ==
    \E n \in Nets :
        \/ RuntimeInit(n)
        \/ InitRest(n)
        \/ \E b \in Batches : Reshape(n, b)
        \/ Forward(n)
        \/ SetForwardMemory(n)
        \/ DeInit(n)
        \/ Destroy(n)

Spec == Init /\ [][Next]_vars

-----------------------------------------------------------------------------
(* Properties.                                                             *)

\* Every variable has its type; the shared count never exceeds the number
\* of instances (Init increments it once per instance).
TypeOK ==
    /\ rtInit \in BOOLEAN
    /\ refCount \in 0..Cardinality(Nets)
    /\ registry \subseteq Nets
    /\ phase \in [Nets -> Phases]
    /\ ptr \in [Nets -> SUBSET Res]
    /\ live \in [Nets -> SUBSET Res]
    /\ holdsRef \in [Nets -> BOOLEAN]
    /\ dynamic \in [Nets -> BOOLEAN]
    /\ inBatch \in [Nets -> Batches]
    /\ devBatch \in [Nets -> Batches]
    /\ outBatch \in [Nets -> Batches]
    /\ status \in [Nets -> Statuses]
    /\ doubleFreed \subseteq Nets \X Res

\* While an instance is initialised and not yet torn down, ACL stays
\* initialised and its context, model and datasets exist: no other
\* instance's DeInit (DecreaseRef reaching zero, aclFinalize) pulls the
\* device out from under it.
ReadyNetsKeepModel ==
    \A n \in Nets : phase[n] = "ready" => rtInit /\ live[n] = Res

\* No DeInit, whether explicit or from the destructor, releases a native
\* object through a field whose object was already released.
NoDoubleFree == doubleFreed = {}

\* spec.md 4.2: when Init fails, the resources it acquired are released
\* before it returns.
InitFailureReleases ==
    \A n \in Nets : phase[n] = "initFailed" => live[n] = {}

\* spec.md 3: the model memory and weights are freed only after the model
\* is unloaded, so a loaded model always has its memory.
ModelBackedByMemory ==
    \A n \in Nets : "model" \in live[n] => {"mem", "weight"} \subseteq live[n]

\* spec.md 8: once every instance has been destroyed, the device-global
\* state has been released (count zero, ACL finalized).
RefCountReleased ==
    (\A n \in Nets : phase[n] = "gone") => (refCount = 0 /\ ~rtInit)


-----------------------------------------------------------------------------
(* Refinement of what AtlasRuntime promises.                               *)

\* Instances whose context_ is set: the users of the device.
DeviceUsers == {n \in Nets : "ctx" \in ptr[n]}

AR == INSTANCE AclRuntime WITH Users <- Nets, up <- rtInit, users <- DeviceUsers

\* spec.md 5: the shared runtime behaves as AclRuntime with the instances
\* holding a context as its users.  Init creates a context only after ACL
\* is up, and no DeInit or destructor (DecreaseRef reaching zero,
\* aclFinalize) takes ACL down while another instance still holds its
\* context.
ImplementsAclRuntime == AR!Spec

=============================================================================
