------------------------- MODULE AtlasNetworkProofs -------------------------
(***************************************************************************)
(* Proofs about AtlasNetwork for every set of instances and batches.       *)
(*                                                                         *)
(* TypeCorrect: TypeOK holds for every value of the constants.  Its one   *)
(* non-trivial conjunct, that the runtime's reference count never exceeds *)
(* the number of instances, rests on the count never exceeding the number *)
(* of instances that have gone past Init's IncreaseRef (Started).          *)
(*                                                                         *)
(* ReadyNetsKeepModelHolds, NoDoubleFreeHolds: when aclrtSetCurrentContext *)
(* rejects a null context, the count equals the number of instances       *)
(* holding an increment, an instance whose context field is set holds     *)
(* one, and so no DecreaseRef finalizes ACL under an instance still in    *)
(* use.                                                                    *)
(*                                                                         *)
(* ImplementsAclRuntimeHolds: under the same hypothesis the instances and  *)
(* their runtime implement the abstract AclRuntime, with the instances     *)
(* whose context field is set as its users.                                *)
(***************************************************************************)
EXTENDS AtlasNetwork, FiniteSetTheorems, TLAPS

\* Instances that have gone past AtlasRuntime::Init in AtlasNetwork::Init.
Started == {n \in Nets : phase[n] \notin {"new", "initing", "rtFailed"}}

\* TypeOK without the bound on the count.
TypeCore ==
    /\ rtInit \in BOOLEAN
    /\ refCount \in Nat
    /\ registry \subseteq Nets
    /\ phase \in [Nets -> Phases]
    /\ ptr \in [Nets -> SUBSET Res]
    /\ live \in [Nets -> SUBSET Res]
    /\ holdsRef \in [Nets -> BOOLEAN]
    /\ dynamic \in [Nets -> BOOLEAN]
    /\ inBatch \in [Nets -> Batches]
    /\ devBatch \in [Nets -> Batches]
    /\ outBatch \in [Nets -> Batches]
    /\ status \in [Nets -> Statuses]
    /\ doubleFreed \subseteq Nets \X Res

TInv == TypeCore /\ refCount <= Cardinality(Started)

-----------------------------------------------------------------------------

\* What Init acquires, by the first call that fails.
LEMMA AcquiredFacts ==
    /\ \A k \in 1..NoFailure : Acquired(k) \subseteq Res
    /\ Acquired(NoFailure) = Res
    /\ \A k \in 1..NoFailure : "ctx" \in Acquired(k) => k > 1
<1>1. \A r \in Res : CreatedBy(r) \in 2..12
  BY DEF CreatedBy, Res, ContextCalls, LoadModelFromFile, AllocateDataset
<1>2. CreatedBy("ctx") = 2
  BY DEF CreatedBy, ContextCalls
<1>3. \A k \in 1..NoFailure : Acquired(k) \subseteq Res
  BY DEF Acquired
<1>4. Acquired(NoFailure) = Res
  BY <1>1 DEF Acquired, NoFailure, NumInitCalls
<1>5. \A k \in 1..NoFailure : "ctx" \in Acquired(k) => k > 1
  BY <1>2 DEF Acquired
<1>6. QED
  BY <1>3, <1>4, <1>5

\* Subsets of the instances are finite and no larger than Nets.
LEMMA NetsSubset ==
    ASSUME NEW S \in SUBSET Nets
    PROVE  IsFiniteSet(S) /\ Cardinality(S) \in Nat /\ Cardinality(S) <= Cardinality(Nets)
BY NetsAssumption, FS_Subset, FS_CardinalityType

\* A growing set of instances does not lose cardinality.
LEMMA NetsMonotone ==
    ASSUME NEW S \in SUBSET Nets, NEW T \in SUBSET Nets, S \subseteq T
    PROVE  Cardinality(S) <= Cardinality(T)
BY NetsSubset, FS_Subset

-----------------------------------------------------------------------------

LEMMA InitTInv == Init => TInv
<1> SUFFICES ASSUME Init PROVE TInv
  OBVIOUS
<1>1. TypeCore
  BY BatchAssumption DEF Init, TypeCore, Phases, Statuses
<1>2. Started = {}
  BY DEF Init, Started
<1>3. Cardinality(Started) = 0
  BY <1>2, FS_EmptySet
<1>4. QED
  BY <1>1, <1>3 DEF TInv, Init

\* Steps that keep the count and every instance's phase.
LEMMA QuietTInv ==
    ASSUME TInv, TypeCore', UNCHANGED <<refCount, phase>>
    PROVE  TInv'
BY DEF TInv, Started

LEMMA RuntimeInitTInv ==
    ASSUME TInv, NEW n \in Nets, RuntimeInit(n)
    PROVE  TInv'
<1>1. TypeCore'
  BY DEF TInv, TypeCore, RuntimeInit, Phases, Statuses
<1>2. Started' = Started
  BY DEF TInv, TypeCore, RuntimeInit, Started
<1>3. QED
  BY <1>1, <1>2 DEF TInv, RuntimeInit

LEMMA InitRestTInv ==
    ASSUME TInv, NEW n \in Nets, InitRest(n)
    PROVE  TInv'
<1> PICK k \in 1..NoFailure, d \in BOOLEAN :
        /\ rtInit \/ k = 1
        /\ refCount' = InitRef(k)
        /\ holdsRef' = [holdsRef EXCEPT ![n] = TRUE]
        /\ ptr' = [ptr EXCEPT ![n] = Acquired(k)]
        /\ live' = [live EXCEPT ![n] = Acquired(k)]
        /\ dynamic' = [dynamic EXCEPT ![n] = d]
        /\ \/ /\ k = NoFailure
              /\ registry' = registry \cup {n}
              /\ phase' = [phase EXCEPT ![n] = "ready"]
              /\ status' = [status EXCEPT ![n] = "ok"]
           \/ /\ k < NoFailure
              /\ UNCHANGED registry
              /\ phase' = [phase EXCEPT ![n] = "initFailed"]
              /\ status' = [status EXCEPT ![n] = "runtimeErr"]
  BY DEF InitRest
<1>1. TypeCore'
  BY AcquiredFacts, BatchAssumption DEF InitRest, TInv, TypeCore, InitRef, DeclaredBatch, Phases, Statuses
<1>2. Started' = Started \cup {n} /\ n \notin Started
  BY DEF InitRest, TInv, TypeCore, Started
<1>3. Started \in SUBSET Nets
  BY DEF Started
<1>4. IsFiniteSet(Started) /\ Cardinality(Started) \in Nat
  BY <1>3, NetsSubset
<1>5. Cardinality(Started') = Cardinality(Started) + 1
  BY <1>2, <1>4, FS_AddElement
<1>6. QED
  BY <1>1, <1>4, <1>5 DEF TInv, TypeCore, InitRef

\* A DeInit, past its context check or not, moves the instance to a phase
\* of Started and never raises the count.
LEMMA DeInitCallTInv ==
    ASSUME TInv, NEW n \in Nets, NEW to \in {"deinited", "gone"}, DeInitCall(n, to)
    PROVE  TInv'
<1>1. Started \subseteq Started' /\ Started' \subseteq Nets
  BY DEF TInv, TypeCore, DeInitCall, Started
<1>2. /\ Cardinality(Started) <= Cardinality(Started')
      /\ Cardinality(Started) \in Nat /\ Cardinality(Started') \in Nat
  BY <1>1, NetsMonotone, NetsSubset DEF Started
<1>3. CASE FailsSettingContext(n)
  <2>1. TypeCore'
    BY <1>3 DEF TInv, TypeCore, DeInitCall, FailsSettingContext, runtimeVars, Phases, Statuses
  <2>2. refCount' <= Cardinality(Started')
    BY <1>2, <1>3 DEF TInv, TypeCore, FailsSettingContext, runtimeVars
  <2>. QED
    BY <2>1, <2>2 DEF TInv
<1>4. CASE ContextCurrent(n) /\ TearDown(n)
  <2>1. refCount' \in Nat /\ refCount' <= refCount
    BY <1>4 DEF TearDown, TInv, TypeCore, Finalizes
  <2>2. TypeCore'
    BY <1>4 DEF TearDown, NativeOutcomes, TInv, TypeCore, DeInitCall, UnloadModel,
              DestroyDatasets, Finalizes, Phases, Statuses
  <2>3. refCount' <= Cardinality(Started')
    BY <1>2, <2>1 DEF TInv, TypeCore
  <2>. QED
    BY <2>2, <2>3 DEF TInv
<1>5. QED
  BY <1>3, <1>4 DEF DeInitCall

LEMMA NextTInv == TInv /\ [Next]_vars => TInv'
<1> SUFFICES ASSUME TInv, [Next]_vars PROVE TInv'
  OBVIOUS
<1>1. ASSUME NEW n \in Nets, RuntimeInit(n) PROVE TInv'
  BY <1>1, RuntimeInitTInv
<1>2. ASSUME NEW n \in Nets, InitRest(n) PROVE TInv'
  BY <1>2, InitRestTInv
<1>3. ASSUME NEW n \in Nets, NEW b \in Batches, Reshape(n, b) PROVE TInv'
  <2>1. TypeCore'
    BY <1>3 DEF TInv, TypeCore, Reshape, FailsSettingContext, runtimeVars, Statuses
  <2>. QED
    BY <1>3, <2>1, QuietTInv DEF Reshape, FailsSettingContext, runtimeVars
<1>4. ASSUME NEW n \in Nets, Forward(n) PROVE TInv'
  <2>1. TypeCore'
    BY <1>4 DEF TInv, TypeCore, Forward, FailsSettingContext, runtimeVars, Statuses
  <2>. QED
    BY <1>4, <2>1, QuietTInv DEF Forward, FailsSettingContext, runtimeVars
<1>5. ASSUME NEW n \in Nets, SetForwardMemory(n) PROVE TInv'
  <2>1. TypeCore'
    BY <1>5 DEF TInv, TypeCore, SetForwardMemory, runtimeVars, Statuses
  <2>. QED
    BY <1>5, <2>1, QuietTInv DEF SetForwardMemory, runtimeVars
<1>6. ASSUME NEW n \in Nets, DeInit(n) PROVE TInv'
  BY <1>6, DeInitCallTInv DEF DeInit
<1>7. ASSUME NEW n \in Nets, Destroy(n) PROVE TInv'
  BY <1>7, DeInitCallTInv DEF Destroy
<1>8. CASE UNCHANGED vars
  BY <1>8 DEF vars, runtimeVars, netVars, TInv, TypeCore, Started
<1>9. QED
  BY <1>1, <1>2, <1>3, <1>4, <1>5, <1>6, <1>7, <1>8 DEF Next

LEMMA TInvTypeOK == TInv => TypeOK
<1> SUFFICES ASSUME TInv PROVE TypeOK
  OBVIOUS
<1>1. Started \in SUBSET Nets
  BY DEF Started
<1>2. Cardinality(Started) \in Nat /\ Cardinality(Started) <= Cardinality(Nets)
  BY <1>1, NetsSubset
<1>3. Cardinality(Nets) \in Nat
  BY NetsAssumption, FS_CardinalityType
<1>. QED
  BY <1>2, <1>3 DEF TInv, TypeCore, TypeOK

\* TypeOK, and with it the bound on AtlasRuntime's reference count, holds
\* in every reachable state of every instance of the model.
THEOREM TypeCorrect == Spec => []TypeOK
<1>1. Init => TInv
  BY InitTInv
<1>2. TInv /\ [Next]_vars => TInv'
  BY NextTInv
<1>3. TInv => TypeOK
  BY TInvTypeOK
<1>. QED
  BY <1>1, <1>2, <1>3, PTL DEF Spec

-----------------------------------------------------------------------------
(* Reference counting, when aclrtSetCurrentContext rejects a null context. *)

\* Instances whose Init increment has not been matched by a DecreaseRef.
Holders == {n \in Nets : holdsRef[n]}

\* The runtime's count is the number of outstanding increments.
CountsHolders == refCount = Cardinality(Holders)

\* Before IncreaseRef an instance holds nothing.
UnstartedEmpty ==
    \A n \in Nets : phase[n] \in {"new", "initing", "rtFailed"} => ~holdsRef[n] /\ ptr[n] = {}

\* An instance whose context_ is set holds an increment, ACL is
\* initialised, and every handle it holds names a live object.
ContextHeld ==
    \A n \in Nets : "ctx" \in ptr[n] => holdsRef[n] /\ ptr[n] = live[n] /\ rtInit

\* A ready instance holds every handle.
ReadyComplete == \A n \in Nets : phase[n] = "ready" => ptr[n] = Res

RefInv == TInv /\ CountsHolders /\ UnstartedEmpty /\ ContextHeld /\ ReadyComplete /\ NoDoubleFree

\* With a null context rejected, DeInit gets past setCurrent only through a
\* context the instance created.
LEMMA ContextCurrentHeld ==
    ASSUME NullContextFails, NEW n \in Nets, ContextCurrent(n)
    PROVE  "ctx" \in ptr[n] /\ rtInit
BY DEF ContextCurrent, ContextOutcomes, NativeOutcomes

LEMMA HoldersFinite == IsFiniteSet(Holders) /\ Cardinality(Holders) \in Nat
<1>1. Holders \in SUBSET Nets
  BY DEF Holders
<1>. QED
  BY <1>1, NetsSubset

LEMMA InitRefInv == Init => RefInv
<1> SUFFICES ASSUME Init PROVE RefInv
  OBVIOUS
<1>1. Holders = {}
  BY DEF Init, Holders
<1>2. CountsHolders
  BY <1>1, FS_EmptySet DEF Init, CountsHolders
<1>. QED
  BY <1>2, InitTInv DEF Init, RefInv, UnstartedEmpty, ContextHeld, ReadyComplete, NoDoubleFree

\* Steps that change none of the state the invariant relates.
LEMMA QuietRefInv ==
    ASSUME RefInv, TInv', UNCHANGED <<rtInit, refCount, phase, ptr, live, holdsRef, doubleFreed>>
    PROVE  RefInv'
BY DEF RefInv, CountsHolders, Holders, UnstartedEmpty, ContextHeld, ReadyComplete, NoDoubleFree

LEMMA RuntimeInitRefInv ==
    ASSUME RefInv, NEW n \in Nets, RuntimeInit(n)
    PROVE  RefInv'
<1>1. TInv'
  BY RuntimeInitTInv DEF RefInv
<1>2. UNCHANGED <<refCount, ptr, live, holdsRef, doubleFreed>> /\ (rtInit => rtInit')
  BY DEF RuntimeInit
<1>3. phase[n] = "new" /\ phase' = [phase EXCEPT ![n] = phase'[n]]
      /\ phase'[n] \in {"initing", "rtFailed"}
  BY DEF RuntimeInit, RefInv, TInv, TypeCore
<1>. QED
  BY <1>1, <1>2, <1>3 DEF RefInv, CountsHolders, Holders, UnstartedEmpty, ContextHeld,
                          ReadyComplete, NoDoubleFree, TInv, TypeCore

LEMMA InitRestRefInv ==
    ASSUME RefInv, NEW n \in Nets, InitRest(n)
    PROVE  RefInv'
<1> PICK k \in 1..NoFailure, d \in BOOLEAN :
        /\ rtInit \/ k = 1
        /\ refCount' = InitRef(k)
        /\ holdsRef' = [holdsRef EXCEPT ![n] = TRUE]
        /\ ptr' = [ptr EXCEPT ![n] = Acquired(k)]
        /\ live' = [live EXCEPT ![n] = Acquired(k)]
        /\ \/ k = NoFailure /\ phase' = [phase EXCEPT ![n] = "ready"]
           \/ k < NoFailure /\ phase' = [phase EXCEPT ![n] = "initFailed"]
  BY DEF InitRest
<1>1. TInv'
  BY InitRestTInv DEF RefInv
<1>2. UNCHANGED <<rtInit, doubleFreed>> /\ phase[n] = "initing"
  BY DEF InitRest
<1>3. ~holdsRef[n] /\ Holders' = Holders \cup {n}
  BY <1>2 DEF RefInv, UnstartedEmpty, TInv, TypeCore, Holders
<1>4. CountsHolders'
  BY <1>3, HoldersFinite, FS_AddElement DEF RefInv, CountsHolders, Holders, InitRef
<1>5. "ctx" \in Acquired(k) => rtInit
  BY <1>2, AcquiredFacts
<1>6. k = NoFailure => Acquired(k) = Res
  BY AcquiredFacts
<1>. QED
  BY <1>1, <1>2, <1>4, <1>5, <1>6 DEF RefInv, UnstartedEmpty, ContextHeld, ReadyComplete,
                                      NoDoubleFree, TInv, TypeCore

\* The context check fails and DeInit returns: only phase and status move.
LEMMA DeInitFailsRefInv ==
    ASSUME RefInv, NEW n \in Nets, NEW to \in {"deinited", "gone"},
           FailsSettingContext(n), phase' = [phase EXCEPT ![n] = to], TInv'
    PROVE  RefInv'
<1>1. UNCHANGED <<rtInit, refCount, ptr, live, holdsRef, doubleFreed>>
  BY DEF FailsSettingContext, runtimeVars
<1>. QED
  BY <1>1 DEF RefInv, CountsHolders, Holders, UnstartedEmpty, ContextHeld, ReadyComplete,
              NoDoubleFree, TInv, TypeCore

\* DeInit past the context check, by the instance holding that context.
LEMMA TearDownRefInv ==
    ASSUME NullContextFails, RefInv, NEW n \in Nets, NEW to \in {"deinited", "gone"},
           ContextCurrent(n), TearDown(n), phase' = [phase EXCEPT ![n] = to], TInv'
    PROVE  RefInv'
<1>1. "ctx" \in ptr[n] /\ rtInit /\ holdsRef[n] /\ ptr[n] = live[n]
  BY ContextCurrentHeld DEF RefInv, ContextHeld
<1>2. /\ ptr' = [ptr EXCEPT ![n] = @ \ {"ctx", "stream", "desc", "mem", "weight"}]
      /\ holdsRef' = [holdsRef EXCEPT ![n] = FALSE]
      /\ refCount' = IF Finalizes THEN 0 ELSE refCount - 1
      /\ rtInit' = (rtInit /\ ~Finalizes)
      /\ \A m \in Nets \ {n} : live'[m] = IF Finalizes THEN {} ELSE live[m]
  BY DEF TearDown
<1>3. doubleFreed' = {}
  BY <1>1 DEF TearDown, RefInv, NoDoubleFree, UnloadModel, DestroyDatasets
<1>4. Holders' = Holders \ {n} /\ n \in Holders
  BY <1>1, <1>2 DEF Holders, RefInv, TInv, TypeCore
<1>5. IsFiniteSet(Holders \ {n}) /\ Cardinality(Holders \ {n}) = refCount - 1
  BY <1>4, HoldersFinite, FS_RemoveElement DEF RefInv, CountsHolders
<1>6. refCount - 1 \in Nat
  BY <1>5, FS_CardinalityType
<1>7. CountsHolders'
  BY <1>2, <1>4, <1>5, <1>6 DEF CountsHolders, Finalizes, RefInv, TInv, TypeCore
<1>8. Finalizes => Holders \ {n} = {}
  BY <1>5, <1>6, FS_EmptySet DEF Finalizes, RefInv, TInv, TypeCore
<1>9. \A m \in Nets \ {n} : "ctx" \in ptr[m] => ~Finalizes
  BY <1>8 DEF RefInv, ContextHeld, Holders
<1>10. ContextHeld'
  BY <1>1, <1>2, <1>9 DEF ContextHeld, RefInv, TInv, TypeCore
<1>11. ReadyComplete'
  BY <1>2 DEF ReadyComplete, RefInv, TInv, TypeCore
<1>12. UnstartedEmpty'
  BY <1>2 DEF UnstartedEmpty, RefInv, TInv, TypeCore
<1>. QED
  BY <1>3, <1>7, <1>10, <1>11, <1>12 DEF RefInv, NoDoubleFree

LEMMA DeInitCallRefInv ==
    ASSUME NullContextFails, RefInv, NEW n \in Nets, NEW to \in {"deinited", "gone"},
           DeInitCall(n, to)
    PROVE  RefInv'
<1>1. TInv'
  BY DeInitCallTInv DEF RefInv
<1>2. phase' = [phase EXCEPT ![n] = to]
  BY DEF DeInitCall
<1>3. CASE FailsSettingContext(n)
  BY <1>1, <1>2, <1>3, DeInitFailsRefInv
<1>4. CASE ContextCurrent(n) /\ TearDown(n)
  BY <1>1, <1>2, <1>4, TearDownRefInv
<1>. QED
  BY <1>3, <1>4 DEF DeInitCall

LEMMA NextRefInv ==
    ASSUME NullContextFails
    PROVE  RefInv /\ [Next]_vars => RefInv'
<1> SUFFICES ASSUME RefInv, [Next]_vars PROVE RefInv'
  OBVIOUS
<1>0. TInv'
  BY NextTInv DEF RefInv
<1>1. ASSUME NEW n \in Nets, RuntimeInit(n) PROVE RefInv'
  BY <1>1, RuntimeInitRefInv
<1>2. ASSUME NEW n \in Nets, InitRest(n) PROVE RefInv'
  BY <1>2, InitRestRefInv
<1>3. ASSUME NEW n \in Nets, NEW b \in Batches, Reshape(n, b) PROVE RefInv'
  BY <1>0, <1>3, QuietRefInv DEF Reshape, FailsSettingContext, runtimeVars
<1>4. ASSUME NEW n \in Nets, Forward(n) PROVE RefInv'
  BY <1>0, <1>4, QuietRefInv DEF Forward, FailsSettingContext, runtimeVars
<1>5. ASSUME NEW n \in Nets, SetForwardMemory(n) PROVE RefInv'
  BY <1>0, <1>5, QuietRefInv DEF SetForwardMemory, runtimeVars
<1>6. ASSUME NEW n \in Nets, DeInit(n) PROVE RefInv'
  BY <1>6, DeInitCallRefInv DEF DeInit
<1>7. ASSUME NEW n \in Nets, Destroy(n) PROVE RefInv'
  BY <1>7, DeInitCallRefInv DEF Destroy
<1>8. CASE UNCHANGED vars
  BY <1>0, <1>8, QuietRefInv DEF vars, runtimeVars, netVars
<1>9. QED
  BY <1>1, <1>2, <1>3, <1>4, <1>5, <1>6, <1>7, <1>8 DEF Next

\* When ACL rejects a null context, no DeInit or destructor of one instance
\* (DecreaseRef reaching zero, aclFinalize) releases the device or the model
\* of another instance that is ready: the count is the number of instances
\* holding an increment, and only a holder gets past setCurrent.
THEOREM ReadyNetsKeepModelHolds ==
    ASSUME NullContextFails
    PROVE  Spec => []ReadyNetsKeepModel
<1>1. Init => RefInv
  BY InitRefInv
<1>2. RefInv /\ [Next]_vars => RefInv'
  BY NextRefInv
<1>3. RefInv => ReadyNetsKeepModel
  BY DEF RefInv, ReadyComplete, ContextHeld, ReadyNetsKeepModel, Res
<1>. QED
  BY <1>1, <1>2, <1>3, PTL DEF Spec

\* When ACL rejects a null context, no DeInit, explicit or from the
\* destructor, releases an object through a stale member field: a repeated
\* DeInit stops at setCurrent because context_ was nulled.
THEOREM NoDoubleFreeHolds ==
    ASSUME NullContextFails
    PROVE  Spec => []NoDoubleFree
<1>1. Init => RefInv
  BY InitRefInv
<1>2. RefInv /\ [Next]_vars => RefInv'
  BY NextRefInv
<1>3. RefInv => NoDoubleFree
  BY DEF RefInv
<1>. QED
  BY <1>1, <1>2, <1>3, PTL DEF Spec

-----------------------------------------------------------------------------
(* Refinement of AclRuntime, when ACL rejects a null context.              *)

\* A DecreaseRef that finalizes ACL comes from the only instance holding a
\* context.
LEMMA LastHolderFinalizes ==
    ASSUME NullContextFails, RefInv, NEW n \in Nets, ContextCurrent(n), Finalizes
    PROVE  \A m \in Nets \ {n} : "ctx" \notin ptr[m]
<1>1. "ctx" \in ptr[n] /\ holdsRef[n]
  BY ContextCurrentHeld DEF RefInv, ContextHeld
<1>2. IsFiniteSet(Holders \ {n}) /\ Cardinality(Holders \ {n}) = refCount - 1
  BY <1>1, HoldersFinite, FS_RemoveElement DEF RefInv, CountsHolders, Holders
<1>3. Cardinality(Holders \ {n}) \in Nat
  BY <1>2, FS_CardinalityType
<1>4. Cardinality(Holders \ {n}) = 0
  BY <1>2, <1>3 DEF Finalizes, RefInv, TInv, TypeCore
<1>5. Holders \ {n} = {}
  BY <1>2, <1>4, FS_EmptySet
<1>. QED
  BY <1>5 DEF RefInv, ContextHeld, Holders

\* Steps that leave ACL and every context field alone are stutters of
\* AclRuntime.
LEMMA QuietRefines ==
    ASSUME UNCHANGED <<rtInit, ptr>>
    PROVE  [AR!Next]_AR!arVars
BY DEF AR!arVars, DeviceUsers

LEMMA RuntimeInitRefines ==
    ASSUME RefInv, NEW n \in Nets, RuntimeInit(n)
    PROVE  [AR!Next]_AR!arVars
<1>1. UNCHANGED ptr
  BY Zenon DEF RuntimeInit
<1>2. rtInit' = rtInit \/ (~rtInit /\ rtInit' = TRUE)
  BY DEF RuntimeInit, RuntimeInitOutcomes, RefInv, TInv, TypeCore
<1>3. CASE rtInit' = rtInit
  BY <1>1, <1>3, QuietRefines
<1>4. CASE ~rtInit /\ rtInit' = TRUE
  <2>1. AR!Start
    BY <1>1, <1>4 DEF AR!Start, DeviceUsers
  <2>. QED
    BY <2>1 DEF AR!Next
<1>. QED
  BY <1>2, <1>3, <1>4

LEMMA InitRestRefines ==
    ASSUME RefInv, NEW n \in Nets, InitRest(n)
    PROVE  [AR!Next]_AR!arVars
<1> PICK k \in 1..NoFailure : (rtInit \/ k = 1) /\ ptr' = [ptr EXCEPT ![n] = Acquired(k)]
  BY DEF InitRest
<1>1. UNCHANGED rtInit /\ ptr[n] = {}
  BY DEF InitRest, RefInv, UnstartedEmpty
<1>2. \A m \in Nets \ {n} : ptr'[m] = ptr[m]
  BY DEF RefInv, TInv, TypeCore
<1>3. CASE "ctx" \in Acquired(k)
  <2>1. rtInit
    BY <1>3, AcquiredFacts
  <2>2. n \notin DeviceUsers /\ DeviceUsers' = DeviceUsers \cup {n}
    BY <1>1, <1>2, <1>3 DEF DeviceUsers, RefInv, TInv, TypeCore
  <2>3. AR!Join(n)
    BY <1>1, <2>1, <2>2 DEF AR!Join
  <2>. QED
    BY <2>3 DEF AR!Next
<1>4. CASE "ctx" \notin Acquired(k)
  <2>1. DeviceUsers' = DeviceUsers
    BY <1>1, <1>2, <1>4 DEF DeviceUsers, RefInv, TInv, TypeCore
  <2>. QED
    BY <1>1, <2>1 DEF AR!arVars
<1>. QED
  BY <1>3, <1>4

\* DeInit past the context check: the instance leaves, and ACL goes down
\* only with the last holder of a context.
LEMMA TearDownRefines ==
    ASSUME NullContextFails, RefInv, NEW n \in Nets, ContextCurrent(n), TearDown(n)
    PROVE  [AR!Next]_AR!arVars
<1>1. /\ ptr' = [ptr EXCEPT ![n] = @ \ {"ctx", "stream", "desc", "mem", "weight"}]
      /\ rtInit' = (rtInit /\ ~Finalizes)
  BY DEF TearDown
<1>2. "ctx" \in ptr[n]
  BY ContextCurrentHeld
<1>3. DeviceUsers' = DeviceUsers \ {n} /\ n \in DeviceUsers
  BY <1>1, <1>2 DEF DeviceUsers, RefInv, TInv, TypeCore
<1>4. Finalizes => DeviceUsers \ {n} = {}
  BY LastHolderFinalizes DEF DeviceUsers
<1>5. rtInit \in BOOLEAN
  BY DEF RefInv, TInv, TypeCore
<1>6. AR!Leave(n)
  BY <1>1, <1>3, <1>4, <1>5 DEF AR!Leave
<1>. QED
  BY <1>6 DEF AR!Next

LEMMA StepRefines ==
    ASSUME NullContextFails
    PROVE  RefInv /\ [Next]_vars => [AR!Next]_AR!arVars
<1> SUFFICES ASSUME RefInv, [Next]_vars PROVE [AR!Next]_AR!arVars
  OBVIOUS
<1>1. ASSUME NEW n \in Nets, RuntimeInit(n) PROVE [AR!Next]_AR!arVars
  BY <1>1, RuntimeInitRefines
<1>2. ASSUME NEW n \in Nets, InitRest(n) PROVE [AR!Next]_AR!arVars
  BY <1>2, InitRestRefines
<1>3. ASSUME NEW n \in Nets, NEW b \in Batches, Reshape(n, b) PROVE [AR!Next]_AR!arVars
  BY <1>3, QuietRefines DEF Reshape, FailsSettingContext, runtimeVars
<1>4. ASSUME NEW n \in Nets, Forward(n) PROVE [AR!Next]_AR!arVars
  BY <1>4, QuietRefines DEF Forward, FailsSettingContext, runtimeVars
<1>5. ASSUME NEW n \in Nets, SetForwardMemory(n) PROVE [AR!Next]_AR!arVars
  BY <1>5, QuietRefines DEF SetForwardMemory, runtimeVars
<1>6. ASSUME NEW n \in Nets, NEW to \in {"deinited", "gone"}, DeInitCall(n, to)
      PROVE  [AR!Next]_AR!arVars
  <2>1. CASE FailsSettingContext(n)
    BY <2>1, QuietRefines DEF FailsSettingContext, runtimeVars
  <2>2. CASE ContextCurrent(n) /\ TearDown(n)
    BY <2>2, TearDownRefines
  <2>. QED
    BY <1>6, <2>1, <2>2 DEF DeInitCall
<1>7. CASE UNCHANGED vars
  BY <1>7, QuietRefines DEF vars, runtimeVars, netVars
<1>. QED
  BY <1>1, <1>2, <1>3, <1>4, <1>5, <1>6, <1>7 DEF Next, DeInit, Destroy

\* When ACL rejects a null context, AtlasNetwork and the shared runtime
\* implement AclRuntime: ACL is up whenever an instance holds a context, and
\* no DeInit or destructor finalizes ACL while another instance holds one.
THEOREM ImplementsAclRuntimeHolds ==
    ASSUME NullContextFails
    PROVE  Spec => ImplementsAclRuntime
<1>1. Init => AR!Init
  BY DEF Init, AR!Init, DeviceUsers
<1>2. Init => RefInv
  BY InitRefInv
<1>3. RefInv /\ [Next]_vars => RefInv'
  BY NextRefInv
<1>4. RefInv /\ [Next]_vars => [AR!Next]_AR!arVars
  BY StepRefines
<1>. QED
  BY <1>1, <1>2, <1>3, <1>4, PTL DEF Spec, ImplementsAclRuntime, AR!Spec
=============================================================================
