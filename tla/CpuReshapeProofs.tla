------------------------- MODULE CpuReshapeProofs --------------------------
(***************************************************************************)
(* Proofs about the CPU Reshape layer model (CpuReshapeLayerAcc).          *)
(*                                                                         *)
(* TypeOK is inductive.  What it needs are lemmas about the operators:     *)
(* DimsReshape (DimsFunctionUtils::Reshape) returns non-negative dims      *)
(* whenever it succeeds, also when it infers the -1 entry, and every       *)
(* rewriting step of the stored shape keeps it an int vector.              *)
(*                                                                         *)
(* Prod is a recursive function defined in a LET; its fixpoint is shown to *)
(* exist (ProdPrefixExists, ProdFix) by a least-counterexample argument on *)
(* Nat, so no induction rule with an operator parameter is needed.         *)
(***************************************************************************)
EXTENDS CpuReshapeLayerAcc, SequenceTheorems, WellFoundedInduction, TLAPS

\* Every non-empty set of naturals has a least element.
LEMMA LeastNat ==
    ASSUME NEW S \in SUBSET Nat, S # {}
    PROVE  \E k \in S : \A j \in S : k <= j
<1>1. PICK k \in S : \A j \in S : ~(<<j, k>> \in OpToRel(<, Nat))
  BY NatLessThanWellFounded, WFMin, Zenon
<1>2. ASSUME NEW j \in S PROVE k <= j
  <2>1. ~(<<j, k>> \in OpToRel(<, Nat))
    BY <1>1
  <2>2. ~(j < k)
    BY <2>1 DEF OpToRel
  <2>3. QED
    BY <2>2
<1>3. QED
  BY <1>2

\* One unfolding of the prefix-product function in the definition of Prod.
ProdStep(d, p) == [i \in 0..Len(d) |-> IF i = 0 THEN 1 ELSE p[i - 1] * d[i]]

\* Prod reads the last entry of the function its LET defines.
LEMMA ProdIsChoose ==
    ASSUME NEW d
    PROVE  Prod(d) = (CHOOSE p : p = ProdStep(d, p))[Len(d)]
BY DEF Prod, ProdStep

\* The prefix products of d up to n exist.
ProdPrefix(d, n) ==
    \E f \in [0..n -> Int] : f[0] = 1 /\ \A i \in 1..n : f[i] = f[i - 1] * d[i]

\* Prefix products exist for every prefix length, by a least counterexample.
LEMMA ProdPrefixExists ==
    ASSUME NEW d \in Seq(Int), NEW n \in 0..Len(d)
    PROVE  ProdPrefix(d, n)
<1> DEFINE bad == {m \in 0..Len(d) : ~ProdPrefix(d, m)}
<1> SUFFICES bad = {}
  OBVIOUS
<1>1. SUFFICES ASSUME bad # {} PROVE FALSE
  OBVIOUS
<1>2. PICK k \in bad : \A j \in bad : k <= j
  <2>1. bad \in SUBSET Nat
    OBVIOUS
  <2>2. QED
    BY <1>1, <2>1, LeastNat
<1>3. ProdPrefix(d, 0)
  <2> DEFINE f0 == [i \in 0..0 |-> 1]
  <2>1. f0 \in [0..0 -> Int] /\ f0[0] = 1 /\ \A i \in 1..0 : f0[i] = f0[i - 1] * d[i]
    OBVIOUS
  <2>2. QED
    BY <2>1, Zenon DEF ProdPrefix
<1>4. k # 0
  BY <1>2, <1>3
<1>5. ProdPrefix(d, k - 1)
  BY <1>2, <1>4
<1>6. PICK f \in [0..(k - 1) -> Int] : f[0] = 1 /\ \A i \in 1..(k - 1) : f[i] = f[i - 1] * d[i]
  BY <1>5 DEF ProdPrefix
<1> DEFINE g == [i \in 0..k |-> IF i < k THEN f[i] ELSE f[k - 1] * d[k]]
<1>7. g \in [0..k -> Int]
  BY <1>4, <1>6
<1>8. g[0] = 1 /\ \A i \in 1..k : g[i] = g[i - 1] * d[i]
  BY <1>4, <1>6
<1>9. ProdPrefix(d, k)
  BY <1>7, <1>8 DEF ProdPrefix
<1>10. QED
  BY <1>2, <1>9

\* The function the recursive definition of Prod names exists, so Prod
\* unfolds.
LEMMA ProdFix ==
    ASSUME NEW d \in Seq(Int)
    PROVE  LET P == CHOOSE p : p = ProdStep(d, p)
           IN  P = ProdStep(d, P)
<1>1. ProdPrefix(d, Len(d))
  BY ProdPrefixExists
<1>2. PICK f \in [0..Len(d) -> Int] : f[0] = 1 /\ \A i \in 1..Len(d) : f[i] = f[i - 1] * d[i]
  BY <1>1 DEF ProdPrefix
<1>3. f = ProdStep(d, f)
  BY <1>2 DEF ProdStep
<1>4. \E p : p = ProdStep(d, p)
  BY <1>3
<1>5. QED
  BY <1>4

\* The prefix products Prod is read from.
PP(d) == CHOOSE p : p = ProdStep(d, p)

\* The recursion equations of Prod.
LEMMA ProdUnfold ==
    ASSUME NEW d \in Seq(Int)
    PROVE  /\ PP(d) = ProdStep(d, PP(d))
           /\ Prod(d) = PP(d)[Len(d)]
           /\ PP(d)[0] = 1
           /\ \A i \in 1..Len(d) : PP(d)[i] = PP(d)[i - 1] * d[i]
<1>1. PP(d) = ProdStep(d, PP(d))
  BY ProdFix DEF PP
<1>2. Prod(d) = PP(d)[Len(d)]
  BY ProdIsChoose DEF PP
<1>3. PP(d)[0] = ProdStep(d, PP(d))[0]
  BY <1>1
<1>4. ASSUME NEW i \in 1..Len(d) PROVE PP(d)[i] = ProdStep(d, PP(d))[i]
  BY <1>1
<1>5. Len(d) \in Nat
  BY LenProperties
<1>6. PP(d)[0] = 1
  BY <1>3, <1>5 DEF ProdStep
<1>7. ASSUME NEW i \in 1..Len(d) PROVE PP(d)[i] = PP(d)[i - 1] * d[i]
  <2>1. i \in 0..Len(d) /\ i # 0
    BY <1>5
  <2>2. QED
    BY <1>4, <2>1 DEF ProdStep
<1>8. QED
  BY <1>1, <1>2, <1>6, <1>7

\* A product of members of a set that holds 1 and is closed under
\* multiplication is a member, and so is every prefix product.
LEMMA ProdIn ==
    ASSUME NEW S \in SUBSET Int, 1 \in S, \A a, b \in S : a * b \in S,
           NEW d \in Seq(S)
    PROVE  /\ \A i \in 0..Len(d) : PP(d)[i] \in S
           /\ Prod(d) \in S
<1>0. d \in Seq(Int) /\ \A i \in 1..Len(d) : d[i] \in S
  BY SeqMonotonic, ElementOfSeq
<1>1. \A i \in 0..Len(d) : PP(d)[i] \in S
  <2> DEFINE bad == {i \in 0..Len(d) : PP(d)[i] \notin S}
  <2> SUFFICES bad = {}
    OBVIOUS
  <2>1. SUFFICES ASSUME bad # {} PROVE FALSE
    OBVIOUS
  <2>2. PICK k \in bad : \A j \in bad : k <= j
    <3>1. bad \in SUBSET Nat
      OBVIOUS
    <3>2. QED
      BY <2>1, <3>1, LeastNat
  <2>3. k # 0
    BY <2>2, <1>0, ProdUnfold
  <2>4. PP(d)[k - 1] \in S /\ d[k] \in S
    BY <2>2, <2>3
  <2>5. PP(d)[k] = PP(d)[k - 1] * d[k]
    BY <2>2, <2>3, <1>0, ProdUnfold
  <2>6. QED
    BY <2>2, <2>4, <2>5
<1>2. Len(d) \in 0..Len(d) /\ Prod(d) = PP(d)[Len(d)]
  BY <1>0, LenProperties, ProdUnfold
<1>3. QED
  BY <1>1, <1>2

\* The quotient DimsReshape infers for the -1 entry is a natural.
LEMMA DivNat ==
    ASSUME NEW a \in Nat, NEW b \in Nat \ {0}
    PROVE  a \div b \in Nat
BY SMT

\* Element counts of non-negative dims are non-negative ...
LEMMA ProdNat ==
    ASSUME NEW d \in Seq(Nat) PROVE Prod(d) \in Nat
<1>1. Nat \in SUBSET Int /\ 1 \in Nat /\ \A a, b \in Nat : a * b \in Nat
  OBVIOUS
<1>2. QED
  BY <1>1, ProdIn

\* ... and of positive dims positive.
LEMMA ProdPos ==
    ASSUME NEW d \in Seq(Nat \ {0}) PROVE Prod(d) \in Nat \ {0}
<1>1. Nat \ {0} \in SUBSET Int /\ 1 \in Nat \ {0} /\ \A a, b \in Nat \ {0} : a * b \in Nat \ {0}
  OBVIOUS
<1>2. QED
  BY <1>1, ProdIn

\* A successful DimsReshape gives non-negative dims, also when it infers
\* the -1 entry from the element counts.
LEMMA DimsReshapeType ==
    ASSUME NEW in \in Seq(Nat), NEW shape \in Seq(Int),
           DimsReshape(in, shape) # <<>>
    PROVE  DimsReshape(in, shape) \in Seq(Nat)
<1> DEFINE fixed == [i \in 1..Len(shape) |->
                        IF shape[i] = 0 THEN (IF i <= Len(in) THEN in[i] ELSE -2)
                        ELSE IF shape[i] = -1 THEN 1 ELSE shape[i]]
           inferred == {i \in 1..Len(shape) : shape[i] = -1}
           rest == Prod(fixed)
           r == DimsReshape(in, shape)
<1>1. r = IF \E i \in 1..Len(shape) : fixed[i] < 0 \/ fixed[i] = 0 THEN <<>>
          ELSE IF Cardinality(inferred) > 1 THEN <<>>
          ELSE IF inferred = {}
               THEN IF rest = Prod(in) THEN fixed ELSE <<>>
          ELSE IF Prod(in) % rest # 0 THEN <<>>
          ELSE LET j == CHOOSE j \in inferred : TRUE
               IN [fixed EXCEPT ![j] = Prod(in) \div rest]
  BY DEF DimsReshape
<1>2. ~\E i \in 1..Len(shape) : fixed[i] < 0 \/ fixed[i] = 0
  BY <1>1
<1>3. fixed \in Seq(Nat \ {0}) /\ fixed \in Seq(Int) /\ Len(fixed) = Len(shape)
  <2>1. Len(shape) \in Nat /\ Len(in) \in Nat
    BY LenProperties
  <2>2. \A i \in 1..Len(shape) : shape[i] \in Int
    BY ElementOfSeq
  <2>3. \A i \in 1..Len(in) : in[i] \in Nat
    BY ElementOfSeq
  <2>4. fixed \in [1..Len(shape) -> Int]
    BY <2>1, <2>2, <2>3
  <2>5. fixed \in [1..Len(shape) -> Nat \ {0}]
    BY <2>4, <1>2
  <2>6. fixed \in Seq(Nat \ {0})
    BY <2>1, <2>5
  <2>7. fixed \in Seq(Int)
    BY <2>1, <2>4
  <2>8. QED
    BY <2>1, <2>6, <2>7
<1>4. rest \in Nat \ {0}
  BY <1>3, ProdPos
<1>5. Prod(in) \in Nat
  BY ProdNat
<1>6. CASE inferred = {}
  <2>1. r = fixed
    BY <1>1, <1>2, <1>6
  <2>2. QED
    BY <2>1, <1>3, SeqMonotonic
<1>7. CASE inferred # {}
  <2> DEFINE j == CHOOSE j \in inferred : TRUE
             q == Prod(in) \div rest
  <2>1. r = [fixed EXCEPT ![j] = q]
    BY <1>1, <1>2, <1>7
  <2>2. j \in 1..Len(fixed) /\ fixed[j] = 1
    BY <1>7, <1>3
  <2>3. q \in Nat
    <3> HIDE DEF rest
    <3>1. QED
      BY <1>4, <1>5, DivNat
  <2>5. r \in Seq(Nat)
    <3>1. fixed \in Seq(Nat)
      BY <1>3, SeqMonotonic
    <3>2. QED
      BY <3>1, <2>1, <2>2, <2>3, ExceptSeq
  <2>6. QED
    BY <2>5
<1>8. QED
  BY <1>6, <1>7

\* The reset-0 step keeps an int vector an int vector.
LEMMA ResetZeroType ==
    ASSUME NEW shape \in Seq(Int), NEW in, NEW out
    PROVE  ResetZero(shape, in, out) \in Seq(Int)
<1>1. Len(shape) \in Nat /\ \A i \in 1..Len(shape) : shape[i] \in Int
  BY LenProperties, ElementOfSeq
<1>2. QED
  BY <1>1 DEF ResetZero

\* So does writing -1 at some positions.
LEMMA MinusOneAtType ==
    ASSUME NEW shape \in Seq(Int), NEW idx
    PROVE  MinusOneAt(shape, idx) \in Seq(Int)
<1>1. Len(shape) \in Nat /\ DOMAIN shape = 1..Len(shape)
      /\ \A i \in 1..Len(shape) : shape[i] \in Int
  BY LenProperties, ElementOfSeq
<1>2. QED
  BY <1>1 DEF MinusOneAt

\* And so does the reset -1 step.
LEMMA ResetMinusOneType ==
    ASSUME NEW shape \in Seq(Int)
    PROVE  ResetMinusOne(shape) \in Seq(Int)
BY MinusOneAtType DEF ResetMinusOne

\* The stored shape stays an int vector through the rewriting.
LEMMA AdjustShapeType ==
    ASSUME NEW in, NEW out \in Seq(Nat), NEW st \in Seq(Int), NEW two,
           NEW curr
    PROVE  AdjustShape(in, out, st, two, curr) \in Seq(Int)
<1> DEFINE s0 == ResetZero(st, in, out)
           diff == DiffIndices(curr, s0)
           rebuilt == two /\ curr # s0 /\ Cardinality(diff) = 1
           s1 == IF rebuilt THEN MinusOneAt(out, diff) ELSE s0
           st1 == IF rebuilt THEN s1 ELSE st
           s2 == ResetMinusOne(s1)
<1>1. s0 \in Seq(Int)
  BY ResetZeroType
<1>2. out \in Seq(Int)
  BY SeqMonotonic
<1>3. s1 \in Seq(Int)
  BY <1>1, <1>2, MinusOneAtType
<1>4. s2 \in Seq(Int) /\ st1 \in Seq(Int)
  BY <1>3, ResetMinusOneType
<1>5. AdjustShape(in, out, st, two, curr) \in {st, s2, st1}
  BY DEF AdjustShape
<1>6. QED
  BY <1>4, <1>5

-----------------------------------------------------------------------------
(* TypeOK is inductive: one lemma per action.                              *)

\* GetBytesSize returns a natural.
LEMMA BytesSizeNat ==
    ASSUME NEW t PROVE BytesSize(t) \in Nat
BY DEF BytesSize

\* The initial states are typed.
LEMMA InitTypeOK == Init => TypeOK
<1> SUFFICES ASSUME Init PROVE TypeOK
  OBVIOUS
<1>1. ModelShape(graph) \in Seq(Int)
  BY DimsAssumption DEF Init
<1>2. QED
  BY <1>1, LenProperties DEF Init, TypeOK

\* InferRuntimeOutputShape keeps TypeOK, in each of its three outcomes.
LEMMA InferTypeOK ==
    ASSUME TypeOK, NEW b \in Batches, InferRuntimeOutputShape(b)
    PROVE  TypeOK'
<1> DEFINE in == InputOf(graph, b)
           data == DataOf(graph, b)
           two == HasShapeInput(graph)
           st == ShapeToAdjust(stored, data, two)
           out == IF two THEN DimsReshape(in, data) ELSE DimsReshape(in, stored)
<1>1. in \in Seq(Nat) /\ data \in Seq(Int) /\ stored \in Seq(Int)
  BY DimsAssumption DEF TypeOK
<1>2. st \in Seq(Int) /\ Len(data) \in Nat
  BY <1>1, LenProperties DEF ShapeToAdjust
<1>3. out # <<>> => out \in Seq(Nat)
  BY <1>1, DimsReshapeType
<1>4. /\ seen' = seen \cup {b} /\ inDims' = in /\ copied' = 0 /\ fwd' = "none"
      /\ UNCHANGED <<graph, shapeInt32, reshapeType, dtype>>
  BY DEF InferRuntimeOutputShape
<1>5. CASE two /\ ~shapeInt32
  <2>1. status' = "paramErr" /\ UNCHANGED <<stored, numAxes, outDims>>
    BY <1>5 DEF InferRuntimeOutputShape
  <2>2. QED
    BY <1>1, <1>4, <2>1 DEF TypeOK
<1>6. CASE ~(two /\ ~shapeInt32) /\ out = <<>>
  <2>1. /\ status' = "reshapeErr" /\ stored' = st /\ UNCHANGED outDims
        /\ numAxes' = IF two THEN Len(data) ELSE numAxes
    BY <1>6 DEF InferRuntimeOutputShape
  <2>2. QED
    BY <1>1, <1>2, <1>4, <2>1 DEF TypeOK
<1>7. CASE ~(two /\ ~shapeInt32) /\ out # <<>>
  <2>1. /\ status' = "ok" /\ outDims' = out
        /\ numAxes' = IF two THEN Len(data) ELSE numAxes
        /\ stored' = AdjustShape(in, out, st, two, data)
    BY <1>7 DEF InferRuntimeOutputShape
  <2>2. stored' \in Seq(Int)
    BY <2>1, <1>2, <1>3, <1>7, AdjustShapeType
  <2>3. QED
    BY <1>1, <1>2, <1>3, <1>4, <1>7, <2>1, <2>2 DEF TypeOK
<1>8. QED
  BY <1>5, <1>6, <1>7

\* Forward keeps TypeOK: it copies CopyBytes(inDims, dtype) bytes or none.
LEMMA ForwardTypeOK ==
    ASSUME TypeOK, Forward
    PROVE  TypeOK'
<1>1. CopyBytes(inDims, dtype) \in Nat
  <2>1. Prod(inDims) \in Nat /\ BytesSize(dtype) \in Nat
    BY ProdNat, BytesSizeNat DEF TypeOK
  <2>2. QED
    BY <2>1 DEF CopyBytes
<1>2. /\ copied' \in {0, CopyBytes(inDims, dtype)}
      /\ fwd' \in {"none", "ok", "modelErr"}
      /\ UNCHANGED <<graph, shapeInt32, stored, numAxes, inDims, outDims, status,
                     seen, reshapeType, dtype>>
  BY DEF Forward
<1>3. QED
  BY <1>1, <1>2 DEF TypeOK

\* Type correctness, for every graph, batch set, input dims, shape data
\* and model-file shape: the stored layer_param->shape stays an int vector
\* through every rewriting of InferRuntimeOutputShape (reset 0, rebuild,
\* reset -1), the output dims DimsFunctionUtils::Reshape infers stay
\* non-negative, and Forward's copy size is a natural.
THEOREM TypeCorrect == Spec => []TypeOK
<1>1. TypeOK /\ [Next]_vars => TypeOK'
  <2> SUFFICES ASSUME TypeOK, [Next]_vars PROVE TypeOK'
    OBVIOUS
  <2>1. CASE Forward
    BY <2>1, ForwardTypeOK
  <2>2. CASE \E b \in Batches : InferRuntimeOutputShape(b)
    BY <2>2, InferTypeOK
  <2>3. CASE UNCHANGED vars
    BY <2>3 DEF TypeOK, vars
  <2>4. QED
    BY <2>1, <2>2, <2>3 DEF Next
<1>2. QED
  BY <1>1, InitTypeOK, PTL DEF Spec
=============================================================================
