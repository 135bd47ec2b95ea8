------------------------ MODULE DirectXLayerAccProofs ------------------------
(***************************************************************************)
(* Proofs about DirectXLayerAcc for every layer: every list of inputs and  *)
(* outputs and every constant table.                                       *)
(*                                                                         *)
(* The invariant DXInv strengthens the two invariants the run checks.      *)
(* ResolvedBeforeForward alone is not inductive: Forward keeps the         *)
(* descriptors, so what must hold is that every descriptor is supported    *)
(* as soon as a Reshape has succeeded (Resolved), and Resolved rests on    *)
(* CheckBlob resolving every blob when it rejects none.                    *)
(***************************************************************************)
EXTENDS DirectXLayerAcc, SequenceTheorems, WellFoundedInduction, TLAPS

\* Every descriptor is supported after a successful Reshape.
Resolved ==
    phase \in {"reshaped", "forwarded"} => \A b \in Blobs : dtype[b] \in SupportedTypes

DXInv == TypeOK /\ Resolved

-----------------------------------------------------------------------------
(* Lemmas about the operators.                                             *)

\* CheckBlob's visiting order is a sequence that lists every blob.
LEMMA CheckOrderCovers ==
    /\ CheckOrder \in Seq(Blobs)
    /\ \A b \in Blobs : \E k \in 1..Len(CheckOrder) : CheckOrder[k] = b
<1>1. InputSeq \in Seq(Blobs) /\ OutputSeq \in Seq(Blobs)
  BY SeqAssumption, SeqMonotonic DEF Blobs
<1>2. /\ CheckOrder \in Seq(Blobs)
      /\ Len(CheckOrder) = Len(OutputSeq) + Len(InputSeq)
      /\ \A k \in 1..Len(OutputSeq) + Len(InputSeq) :
            CheckOrder[k] = IF k <= Len(OutputSeq) THEN OutputSeq[k]
                            ELSE InputSeq[k - Len(OutputSeq)]
  BY <1>1, ConcatProperties DEF CheckOrder
<1>3. ASSUME NEW b \in Blobs PROVE \E k \in 1..Len(CheckOrder) : CheckOrder[k] = b
  <2>1. CASE b \in Outputs
    <3>1. PICK j \in 1..Len(OutputSeq) : OutputSeq[j] = b
      BY <2>1 DEF Outputs
    <3>2. QED
      BY <1>1, <1>2, <3>1
  <2>2. CASE b \in Inputs
    <3>1. PICK j \in 1..Len(InputSeq) : InputSeq[j] = b
      BY <2>2 DEF Inputs
    <3>2. Len(OutputSeq) + j \in 1..Len(CheckOrder)
      BY <1>1, <1>2
    <3>3. QED
      BY <1>1, <1>2, <3>1, <3>2
  <2>3. QED
    BY <2>1, <2>2 DEF Blobs
<1>4. QED
  BY <1>2, <1>3

\* ResolveBlobDataType yields a supported type or rejects, and keeps a
\* type that is already float or half.
LEMMA ResolveFacts ==
    ASSUME NEW t \in Types
    PROVE  /\ ResolveBlobDataType(t) \in SupportedTypes \cup {NoBlob}
           /\ t \in DeviceTypes => ResolveBlobDataType(t) = t
<1>1. SupportedTypes = {"float", "half"} /\ SupportDataType[1] = "float"
  BY DEF SupportedTypes, SupportDataType
<1>2. QED
  BY <1>1 DEF ResolveBlobDataType, DeviceTypes, Types, NoBlob

\* FirstRejected is the first position CheckBlob rejects, or one past the
\* end; every position before it resolves.
LEMMA FirstRejectedFacts ==
    ASSUME NEW dt
    PROVE  /\ FirstRejected(dt) \in 1..(Len(CheckOrder) + 1)
           /\ \A k \in 1..(FirstRejected(dt) - 1) :
                 ResolveBlobDataType(dt[CheckOrder[k]]) # NoBlob
<1> DEFINE bad == {k \in 1..Len(CheckOrder) :
                      ResolveBlobDataType(dt[CheckOrder[k]]) = NoBlob}
<1>1. Len(CheckOrder) \in Nat
  BY CheckOrderCovers
<1>2. CASE bad = {}
  BY <1>1, <1>2 DEF FirstRejected
<1>3. CASE bad # {}
  <2>1. \E k \in bad : \A j \in bad : k <= j
    <3>1. bad \subseteq Nat /\ bad # {}
      BY <1>1, <1>3
    <3>2. PICK k \in bad : \A j \in bad : ~(<<j, k>> \in OpToRel(<, Nat))
      BY <3>1, NatLessThanWellFounded, WFMin, Zenon
    <3>3. ASSUME NEW j \in bad PROVE k <= j
      <4>1. ~(<<j, k>> \in OpToRel(<, Nat))
        BY <3>2
      <4>2. j \in Nat /\ k \in Nat
        BY <3>1
      <4>3. ~(j < k)
        BY <4>1, <4>2 DEF OpToRel
      <4>4. QED
        BY <4>2, <4>3
    <3>4. QED
      BY <3>3
  <2>2. FirstRejected(dt) = CHOOSE k \in bad : \A j \in bad : k <= j
    BY <1>3 DEF FirstRejected
  <2>3. QED
    BY <2>1, <2>2, <1>1
<1>4. QED
  BY <1>2, <1>3

\* CheckBlob keeps every descriptor a type, changes one only by resolving
\* it to a supported type, and resolves every blob when it returns TNN_OK.
LEMMA CheckBlobFacts ==
    ASSUME NEW dt \in [Blobs -> Types]
    PROVE  /\ CheckBlob(dt) \in [Blobs -> Types]
           /\ \A b \in Blobs : \/ CheckBlob(dt)[b] = dt[b]
                               \/ CheckBlob(dt)[b] = ResolveBlobDataType(dt[b])
           /\ CheckBlobOk(dt) => \A b \in Blobs : CheckBlob(dt)[b] \in SupportedTypes
<1> DEFINE stop == FirstRejected(dt)
           visited == {CheckOrder[k] : k \in 1..(stop - 1)}
<1>1. CheckBlob(dt) = [b \in Blobs |-> IF b \in visited
                                       THEN ResolveBlobDataType(dt[b]) ELSE dt[b]]
  BY DEF CheckBlob
<1>2. visited \subseteq Blobs
  BY CheckOrderCovers, FirstRejectedFacts
<1>3. ASSUME NEW b \in visited PROVE ResolveBlobDataType(dt[b]) \in SupportedTypes
  <2>1. PICK k \in 1..(stop - 1) : b = CheckOrder[k]
    OBVIOUS
  <2>2. ResolveBlobDataType(dt[b]) # NoBlob
    BY <2>1, FirstRejectedFacts
  <2>3. dt[b] \in Types
    BY <1>2
  <2>4. QED
    BY <2>2, <2>3, ResolveFacts
<1>4. SupportedTypes \subseteq Types
  BY DEF SupportedTypes, SupportDataType, Types
<1>5. CheckBlob(dt) \in [Blobs -> Types]
  BY <1>1, <1>3, <1>4
<1>6. ASSUME CheckBlobOk(dt) PROVE Blobs \subseteq visited
  <2>1. stop = Len(CheckOrder) + 1
    BY <1>6, FirstRejectedFacts, CheckOrderCovers DEF CheckBlobOk
  <2>2. QED
    BY <2>1, CheckOrderCovers
<1>7. QED
  BY <1>1, <1>3, <1>5, <1>6

\* A reload that does not crash converts listed constants only, each of
\* them to a cached float or half blob, and keeps every descriptor a type.
LEMMA ReloadFacts ==
    ASSUME TypeOK, NEW onlyDiffer \in BOOLEAN, ~ReloadCrashes(onlyDiffer),
           NEW dt \in [Blobs -> Types]
    PROVE  /\ Reloaded(onlyDiffer) \subseteq Inputs \cap Consts
           /\ \A i \in Reloaded(onlyDiffer) : cache[i] \in DeviceTypes
           /\ ReloadedTypes(dt, onlyDiffer) \in [Blobs -> Types]
<1>1. Reloaded(onlyDiffer) \subseteq Inputs \cap Consts
  BY DEF Reloaded
<1>2. \A i \in Reloaded(onlyDiffer) : cache[i] \in DeviceTypes
  BY <1>1 DEF ReloadCrashes, TypeOK
<1>3. DeviceTypes \subseteq Types
  BY DEF DeviceTypes, Types
<1>4. QED
  BY <1>1, <1>2, <1>3, ConstAssumption DEF ReloadedTypes, Blobs

-----------------------------------------------------------------------------
(* DXInv is inductive: one lemma per action.                               *)

LEMMA InitDXInv == Init => DXInv
BY DEF Init, DXInv, TypeOK, Resolved, Phases, Statuses

LEMMA AccInitDXInv ==
    ASSUME DXInv, AccInit
    PROVE  DXInv'
<1>1. TypeOK
  BY DEF DXInv
<1>2. PICK isDirectX \in BOOLEAN, high \in BOOLEAN :
        IF ~isDirectX
        THEN /\ phase' = "initFailed"
             /\ status' = "nullParam"
             /\ UNCHANGED <<dtype, cache, bound>>
        ELSE IF ReloadCrashes(FALSE)
             THEN /\ phase' = "crashed"
                  /\ dtype' = Downgraded(dtype, high)
                  /\ UNCHANGED <<cache, bound, status>>
             ELSE /\ phase' = "initialized"
                  /\ dtype' = ReloadedTypes(Downgraded(dtype, high), FALSE)
                  /\ bound' = bound \cup Reloaded(FALSE)
                  /\ status' = "ok"
                  /\ UNCHANGED cache
  BY DEF AccInit
<1>3. Downgraded(dtype, high) \in [Blobs -> Types]
  BY <1>1 DEF Downgraded, TypeOK, Types
<1>4. CASE ~isDirectX
  BY <1>1, <1>2, <1>4 DEF DXInv, TypeOK, Resolved, Phases, Statuses
<1>5. CASE isDirectX /\ ReloadCrashes(FALSE)
  BY <1>1, <1>2, <1>3, <1>5 DEF DXInv, TypeOK, Resolved, Phases
<1>6. CASE isDirectX /\ ~ReloadCrashes(FALSE)
  <2>1. /\ Reloaded(FALSE) \subseteq Inputs \cap Consts
        /\ \A i \in Reloaded(FALSE) : cache[i] \in DeviceTypes
        /\ dtype' \in [Blobs -> Types]
    BY <1>1, <1>2, <1>3, <1>6, ReloadFacts
  <2>2. bound' = bound \cup Reloaded(FALSE) /\ phase' = "initialized" /\ cache' = cache
    BY <1>1, <1>2, <1>6
  <2>4. QED
    BY <1>1, <1>2, <1>6, <2>1, <2>2
       DEF DXInv, TypeOK, Resolved, Phases, Statuses
<1>7. QED
  BY <1>4, <1>5, <1>6

LEMMA ReshapeDXInv ==
    ASSUME DXInv, Reshape
    PROVE  DXInv'
<1>1. /\ TypeOK
      /\ phase \in {"initialized", "reshaped", "forwarded"}
      /\ dtype' = CheckBlob(dtype)
      /\ phase' \in {"initialized", "reshaped"}
      /\ status' \in Statuses
      /\ (phase' = "reshaped" => CheckBlobOk(dtype))
      /\ UNCHANGED <<cache, bound>>
  BY DEF DXInv, Reshape, Statuses
<1>2. dtype \in [Blobs -> Types]
  BY <1>1 DEF TypeOK
<1>3. TypeOK'
  BY <1>1, <1>2, CheckBlobFacts DEF TypeOK, Phases
<1>4. Resolved'
  BY <1>1, <1>2, CheckBlobFacts DEF Resolved
<1>6. QED
  BY <1>1, <1>3, <1>4 DEF DXInv

LEMMA ForwardDXInv ==
    ASSUME DXInv, Forward
    PROVE  DXInv'
BY DEF DXInv, Forward, TypeOK, Resolved, Phases, Statuses

LEMMA ReloadConstantsDXInv ==
    ASSUME DXInv, ReloadConstants
    PROVE  DXInv'
<1>1. /\ TypeOK
      /\ phase \in {"initialized", "reshaped", "forwarded"}
      /\ UNCHANGED cache
  BY DEF DXInv, ReloadConstants
<1>2. CASE ReloadCrashes(TRUE)
  BY <1>1, <1>2 DEF ReloadConstants, DXInv, TypeOK, Resolved, Phases
<1>3. CASE ~ReloadCrashes(TRUE)
  <2>1. /\ phase' = "initialized"
        /\ dtype' = ReloadedTypes(dtype, TRUE)
        /\ bound' = bound \cup Reloaded(TRUE)
        /\ status' = "ok"
    BY <1>3 DEF ReloadConstants
  <2>2. /\ Reloaded(TRUE) \subseteq Inputs \cap Consts
        /\ \A i \in Reloaded(TRUE) : cache[i] \in DeviceTypes
        /\ dtype' \in [Blobs -> Types]
    BY <1>1, <1>3, <2>1, ReloadFacts DEF TypeOK
  <2>4. QED
    BY <1>1, <2>1, <2>2
       DEF DXInv, TypeOK, Resolved, Phases, Statuses
<1>4. QED
  BY <1>2, <1>3

LEMMA NextDXInv == DXInv /\ [Next]_vars => DXInv'
<1> SUFFICES ASSUME DXInv, [Next]_vars PROVE DXInv'
  OBVIOUS
<1>1. CASE AccInit
  BY <1>1, AccInitDXInv
<1>2. CASE Reshape
  BY <1>2, ReshapeDXInv
<1>3. CASE Forward
  BY <1>3, ForwardDXInv
<1>4. CASE ReloadConstants
  BY <1>4, ReloadConstantsDXInv
<1>5. CASE UNCHANGED vars
  BY <1>5 DEF vars, DXInv, TypeOK, Resolved
<1>6. QED
  BY <1>1, <1>2, <1>3, <1>4, <1>5 DEF Next

-----------------------------------------------------------------------------
(* Theorems.                                                               *)

\* DXInv holds in every reachable state.
LEMMA DXInvariant == Spec => []DXInv
BY InitDXInv, NextDXInv, PTL DEF Spec

\* Every descriptor of the layer is always one of the five data types, the
\* cache holds converted blobs or nothing, and only listed constant inputs
\* are ever rebound (Init, Reshape, Forward, ReloadConstantBlobs).
THEOREM TypeCorrect == Spec => []TypeOK
BY DXInvariant, PTL DEF DXInv

\* spec.md 3: no blob reaches Forward with an unresolved AUTO or an
\* unsupported type, whatever Init's precision change, a reload's rebinding
\* and CheckBlob's early return did before.
THEOREM ResolvedBeforeForwardHolds == Spec => []ResolvedBeforeForward
<1>1. DXInv => ResolvedBeforeForward
  BY DEF DXInv, Resolved, ResolvedBeforeForward
<1>2. QED
  BY <1>1, DXInvariant, PTL

=============================================================================
