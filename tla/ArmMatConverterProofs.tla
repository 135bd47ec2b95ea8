----------------------- MODULE ArmMatConverterProofs -----------------------
(***************************************************************************)
(* Proofs about ArmMatConverter for every set of source Mats, destination  *)
(* extents and crop parameters.                                            *)
(*                                                                         *)
(* Every operation is one step from the idle state and leaves it, so the  *)
(* invariants rest on what the idle state holds: a fresh destination and  *)
(* no status (IdleFresh).  The byte moves of Copy and Crop are sets of     *)
(* pairs of naturals, which keeps the destination buffer typed.            *)
(***************************************************************************)
EXTENDS ArmMatConverter, TLAPS

Ops == {"none", "copy", "resize", "crop", "warp", "cvt", "resizeAndPaste", "concat"}
Statuses == {"none", "ok", "nullParam", "paramErr", "invalidInput"}

\* Before any call the destination is as allocated and nothing was returned.
IdleFresh == Idle => dstBuf = Fresh(dst) /\ status = "none" /\ ~oob

ArmInv == TypeOK /\ IdleFresh

-----------------------------------------------------------------------------
(* Lemmas about the operators.                                             *)

\* Naturals are closed under the arithmetic of buffer offsets.  Cited with
\* Zenon, which instantiates it without the nonlinear arithmetic the SMT
\* solver does not always finish.
LEMMA NatClosure ==
    /\ \A a, b \in Nat : a * b \in Nat /\ a + b \in Nat /\ a \div 2 \in Nat
    /\ {1, 2, 3, 4} \subseteq Nat
    /\ Nat \subseteq Int
OBVIOUS

\* A Mat of the model has natural extents and a natural buffer size.
LEMMA MatNat ==
    ASSUME NEW m, m.type \in MatTypes, m.n \in Nat, m.h \in Nat, m.w \in Nat
    PROVE  /\ Channels(m.type) \in {1, 3, 4}
           /\ ElemSize(m.type) \in {1, 4}
           /\ MatBytes(m) \in Nat
BY DEF Channels, ElemSize, MatBytes, ElemCount

\* Moving pairs of naturals into a buffer of naturals and Junk keeps it so.
LEMMA MovedType ==
    ASSUME NEW D, NEW buf \in [D -> {Junk} \cup Nat], NEW moves \in SUBSET (Int \X Nat)
    PROVE  Moved(buf, moves) \in [D -> {Junk} \cup Nat]
<1> SUFFICES ASSUME NEW o \in D, \E mv \in moves : mv[1] = o
             PROVE  (CHOOSE mv \in moves : mv[1] = o)[2] \in Nat
  BY DEF Moved
<1>1. (CHOOSE mv \in moves : mv[1] = o) \in moves
  OBVIOUS
<1>2. QED
  BY <1>1

\* MatMemcpy2D from and to natural offsets moves pairs of naturals.
LEMMA MemcpyNat ==
    ASSUME NEW s0 \in Nat, NEW d0 \in Nat, NEW width \in Int, NEW height \in Int,
           NEW sStride \in Nat, NEW dStride \in Nat
    PROVE  MatMemcpy2D(s0, d0, width, height, sStride, dStride) \subseteq Nat \X Nat
BY DEF MatMemcpy2D

\* The moves of a crop are pairs of naturals.
LEMMA CropMovesNat ==
    ASSUME NEW s, s.n \in Nat, s.h \in Nat, s.w \in Nat,
           NEW d, d.n \in Nat, d.h \in Nat, d.w \in Nat,
           NEW p, p.x \in Nat, p.y \in Nat, p.width \in Nat, p.height \in Nat,
           NEW c \in {1, 3, 4}
    PROVE  /\ CropPacked(s, d, p, c) \subseteq Nat \X Nat
           /\ CropYUV420sp(s, d, p) \subseteq Nat \X Nat
<1>1. s.n \in Nat /\ s.h \in Nat /\ s.w \in Nat
  OBVIOUS
<1>2. ASSUME NEW b \in 0..(s.n - 1)
      PROVE  MatMemcpy2D(b * s.h * s.w * c + (p.x + p.y * s.w) * c,
                         b * d.h * d.w * c,
                         p.width * c, p.height, s.w * c, d.w * c) \subseteq Nat \X Nat
  <2>1. b \in Nat
    BY <1>1
  <2>2. b * s.h * s.w * c + (p.x + p.y * s.w) * c \in Nat
    BY <1>1, <2>1, NatClosure, Zenon
  <2>3. b * d.h * d.w * c \in Nat
    BY <2>1, NatClosure, Zenon
  <2>4. s.w * c \in Nat /\ d.w * c \in Nat /\ p.width * c \in Nat /\ p.height \in Int
    BY <1>1, NatClosure, Zenon
  <2>5. QED
    BY <2>2, <2>3, <2>4, NatClosure, MemcpyNat, Zenon
<1>3. ASSUME NEW b \in 0..(s.n - 1)
      PROVE  /\ MatMemcpy2D((b * s.h * s.w * 3) \div 2 + p.x + p.y * s.w,
                            (b * d.h * d.w * 3) \div 2,
                            p.width, p.height, s.w, d.w) \subseteq Nat \X Nat
             /\ MatMemcpy2D((b * s.h * s.w * 3) \div 2 + s.w * s.h + p.x + (p.y * s.w) \div 2,
                            (b * d.h * d.w * 3) \div 2 + d.w * d.h,
                            p.width, p.height \div 2, s.w, d.w) \subseteq Nat \X Nat
  <2>1. b \in Nat
    BY <1>1
  <2>2. (b * s.h * s.w * 3) \div 2 + p.x + p.y * s.w \in Nat
    BY <1>1, <2>1, NatClosure, Zenon
  <2>3. (b * d.h * d.w * 3) \div 2 \in Nat
    BY <2>1, NatClosure, Zenon
  <2>4. (b * s.h * s.w * 3) \div 2 + s.w * s.h + p.x + (p.y * s.w) \div 2 \in Nat
    BY <1>1, <2>1, NatClosure, Zenon
  <2>5. (b * d.h * d.w * 3) \div 2 + d.w * d.h \in Nat
    BY <2>1, NatClosure, Zenon
  <2>6. p.height \div 2 \in Int /\ p.width \in Int /\ p.height \in Int
    OBVIOUS
  <2>7. QED
    BY <1>1, <2>2, <2>3, <2>4, <2>5, <2>6, NatClosure, MemcpyNat, Zenon
<1>4. QED
  BY <1>2, <1>3 DEF CropPacked, CropYUV420sp

\* The bytes Copy moves are pairs of naturals.
LEMMA CopyMovesNat ==
    ASSUME NEW bytes \in Int
    PROVE  {<<i, i>> : i \in 0..(bytes - 1)} \subseteq Int \X Nat
OBVIOUS

-----------------------------------------------------------------------------
(* ArmInv is inductive.  Every call leaves the idle state, so the three    *)
(* ways a call ends are proved once and each operation is reduced to them. *)

\* The destination's extents are naturals, as DstShapes gives them.
LEMMA DstNat ==
    ASSUME TypeOK
    PROVE  dst.n \in Nat /\ dst.h \in Nat /\ dst.w \in Nat /\ dst.type = src.type
BY MatsAssumption DEF TypeOK

LEMMA SrcNat ==
    ASSUME TypeOK
    PROVE  /\ src.n \in Nat /\ src.h \in Nat /\ src.w \in Nat
           /\ src.type \in MatTypes /\ src.data \in BOOLEAN
BY MatsAssumption DEF TypeOK

LEMMA InitArmInv == Init => ArmInv
<1> SUFFICES ASSUME Init PROVE ArmInv
  OBVIOUS
<1>1. src \in SrcMats
  BY DEF Init
<1>2. PICK sh \in DstShapes, dev \in {src.dev, "other"} :
        dst = [type |-> src.type, n |-> sh.n, h |-> sh.h, w |-> sh.w, data |-> TRUE, dev |-> dev]
  BY DEF Init
<1>3. [n |-> dst.n, h |-> dst.h, w |-> dst.w] = sh
  BY <1>2, MatsAssumption
<1>4. dstBuf = Fresh(dst)
  BY DEF Init, Fresh
<1>5. QED
  BY <1>1, <1>2, <1>3, <1>4 DEF Init, ArmInv, TypeOK, IdleFresh, Idle, Fresh, Junk

LEMMA RejectArmInv ==
    ASSUME ArmInv, NEW c, c.op \in Ops \ {"none"}, NEW st \in Statuses, Reject(c, st)
    PROVE  ArmInv'
BY DEF ArmInv, TypeOK, IdleFresh, Idle, Reject, Ops, Statuses

LEMMA RunKernelArmInv ==
    ASSUME ArmInv, NEW c, c.op \in Ops \ {"none"}, NEW k, RunKernel(c, k)
    PROVE  ArmInv'
BY DEF ArmInv, TypeOK, IdleFresh, Idle, RunKernel, Ops

LEMMA RunMovesArmInv ==
    ASSUME ArmInv, NEW c, c.op \in Ops \ {"none"}, NEW k,
           NEW moves \in SUBSET (Int \X Nat), RunMoves(c, k, moves)
    PROVE  ArmInv'
<1>1. dstBuf' \in [0..(MatBytes(dst) - 1) -> {Junk} \cup Nat]
  BY MovedType DEF ArmInv, TypeOK, RunMoves
<1>2. oob' \in BOOLEAN
  BY Zenon DEF RunMoves, OutOfBounds
<1>3. QED
  BY <1>1, <1>2 DEF ArmInv, TypeOK, IdleFresh, Idle, RunMoves, Ops

LEMMA CopyArmInv ==
    ASSUME ArmInv, Copy
    PROVE  ArmInv'
<1> DEFINE c == [op |-> "copy"]
           chk == CheckMatConverterParams(src, dst, FALSE)
           moves == {<<i, i>> : i \in 0..(ElemCount(src) * ElemSize(src.type) - 1)}
<1>1. c.op \in Ops \ {"none"} /\ chk \in Statuses /\ "paramErr" \in Statuses
  BY DEF Ops, Statuses, CheckMatConverterParams
<1>2. moves \in SUBSET (Int \X Nat)
  <2>1. ElemCount(src) * ElemSize(src.type) \in Int
    BY SrcNat, MatNat DEF ArmInv, MatBytes
  <2>2. QED
    BY <2>1, CopyMovesNat
<1>3. \/ Reject(c, chk)
      \/ Reject(c, "paramErr")
      \/ RunMoves(c, K(<<"memcpy">>, ImageTypes \cup {"NCHW_FLOAT"}), moves)
  BY DEF Copy
<1>4. QED
  BY <1>1, <1>2, <1>3, RejectArmInv, RunKernelArmInv, RunMovesArmInv

LEMMA ResizeArmInv ==
    ASSUME ArmInv, Resize
    PROVE  ArmInv'
<1> PICK interp \in Interps :
       LET c == [op |-> "resize", interp |-> interp]
           chk == CheckMatConverterParams(src, dst, TRUE)
       IN /\ Idle
          /\ IF chk # "ok" THEN Reject(c, chk)
             ELSE IF dst.w = 0 \/ dst.h = 0 THEN Reject(c, "invalidInput")
             ELSE IF src.type \notin ImageTypes THEN Reject(c, "paramErr")
             ELSE IF interp \notin {"linear", "nearest"} THEN Reject(c, "paramErr")
             ELSE RunKernel(c, K(<<"Resize", interp, ResizeFamily(src.type)>>,
                                 FamilyTypes(ResizeFamily(src.type))))
  BY DEF Resize
<1>1. /\ [op |-> "resize", interp |-> interp].op \in Ops \ {"none"}
      /\ CheckMatConverterParams(src, dst, TRUE) \in Statuses
      /\ {"invalidInput", "paramErr"} \subseteq Statuses
  BY DEF Ops, Statuses, CheckMatConverterParams
<1>2. QED
  BY <1>1, RejectArmInv, RunKernelArmInv, Zenon

LEMMA WarpAffineArmInv ==
    ASSUME ArmInv, WarpAffine
    PROVE  ArmInv'
<1> PICK interp \in Interps, border \in Borders :
       LET c == [op |-> "warp", interp |-> interp, border |-> border]
           chk == CheckMatConverterParams(src, dst, TRUE)
       IN /\ Idle
          /\ IF chk # "ok" THEN Reject(c, chk)
             ELSE IF dst.w = 0 \/ dst.h = 0 THEN Reject(c, "invalidInput")
             ELSE IF src.type \notin ImageTypes THEN Reject(c, "paramErr")
             ELSE IF interp # "linear" \/ border # "constant" THEN Reject(c, "paramErr")
             ELSE RunKernel(c, K(<<"WarpAffineBilinear", ResizeFamily(src.type)>>,
                                 FamilyTypes(ResizeFamily(src.type))))
  BY DEF WarpAffine
<1>1. /\ [op |-> "warp", interp |-> interp, border |-> border].op \in Ops \ {"none"}
      /\ CheckMatConverterParams(src, dst, TRUE) \in Statuses
      /\ {"invalidInput", "paramErr"} \subseteq Statuses
  BY DEF Ops, Statuses, CheckMatConverterParams
<1>2. QED
  BY <1>1, RejectArmInv, RunKernelArmInv, Zenon

LEMMA CvtColorArmInv ==
    ASSUME ArmInv, CvtColor
    PROVE  ArmInv'
<1> PICK ty \in ColorConversions :
       LET c == [op |-> "cvt", type |-> ty]
           chk == CheckMatConverterParams(src, dst, TRUE)
       IN /\ Idle
          /\ IF chk # "ok" THEN Reject(c, chk)
             ELSE IF ty = "other" THEN Reject(c, "paramErr")
             ELSE RunKernel(c, CvtKernel(ty))
  BY DEF CvtColor
<1>1. /\ [op |-> "cvt", type |-> ty].op \in Ops \ {"none"}
      /\ CheckMatConverterParams(src, dst, TRUE) \in Statuses
      /\ "paramErr" \in Statuses
  BY DEF Ops, Statuses, CheckMatConverterParams
<1>2. QED
  BY <1>1, RejectArmInv, RunKernelArmInv, Zenon

LEMMA CropArmInv ==
    ASSUME ArmInv, Crop
    PROVE  ArmInv'
<1> PICK x \in Coords, y \in Coords, width \in Extents, height \in Extents :
       LET p == [x |-> x, y |-> y, width |-> width, height |-> height]
           c == [op |-> "crop", x |-> x, y |-> y, width |-> width, height |-> height]
           chk == CheckMatConverterParams(src, dst, TRUE)
       IN /\ Idle
          /\ IF chk # "ok" THEN Reject(c, chk)
             ELSE IF src.type \in {"NGRAY", "N8UC3", "N8UC4"}
             THEN RunMoves(c, K(<<"crop">>, {src.type}), CropPacked(src, dst, p, Channels(src.type)))
             ELSE IF src.type \in {"NNV21", "NNV12"}
             THEN IF ~CropAligned(p)
                  THEN Reject(c, "paramErr")
                  ELSE RunMoves(c, K(<<"crop">>, {"NNV21", "NNV12"}), CropYUV420sp(src, dst, p))
             ELSE Reject(c, "paramErr")
  BY DEF Crop
<1> DEFINE p == [x |-> x, y |-> y, width |-> width, height |-> height]
           c == [op |-> "crop", x |-> x, y |-> y, width |-> width, height |-> height]
<1>1. /\ c.op \in Ops \ {"none"}
      /\ CheckMatConverterParams(src, dst, TRUE) \in Statuses
      /\ "paramErr" \in Statuses
  BY DEF Ops, Statuses, CheckMatConverterParams
<1>2. /\ CropPacked(src, dst, p, Channels(src.type)) \in SUBSET (Int \X Nat)
      /\ CropYUV420sp(src, dst, p) \in SUBSET (Int \X Nat)
  <2>1. p.x \in Nat /\ p.y \in Nat /\ p.width \in Nat /\ p.height \in Nat
    BY MatsAssumption
  <2>2. /\ src.n \in Nat /\ src.h \in Nat /\ src.w \in Nat
        /\ dst.n \in Nat /\ dst.h \in Nat /\ dst.w \in Nat
        /\ Channels(src.type) \in {1, 3, 4}
    BY SrcNat, DstNat, MatNat DEF ArmInv
  <2>3. /\ CropPacked(src, dst, p, Channels(src.type)) \subseteq Nat \X Nat
        /\ CropYUV420sp(src, dst, p) \subseteq Nat \X Nat
    BY <2>1, <2>2, CropMovesNat
  <2>4. QED
    BY <2>3
<1>3. QED
  BY <1>1, <1>2, RejectArmInv, RunMovesArmInv, Zenon

LEMMA NextArmInv == ArmInv /\ [Next]_vars => ArmInv'
<1> SUFFICES ASSUME ArmInv, [Next]_vars PROVE ArmInv'
  OBVIOUS
<1>1. CASE Copy
  BY <1>1, CopyArmInv
<1>2. CASE Resize
  BY <1>2, ResizeArmInv
<1>3. CASE Crop
  BY <1>3, CropArmInv
<1>4. CASE WarpAffine
  BY <1>4, WarpAffineArmInv
<1>5. CASE CvtColor
  BY <1>5, CvtColorArmInv
<1>6. CASE ResizeAndPaste \/ ConcatMatWithBatch
  <2>1. /\ [op |-> "resizeAndPaste"].op \in Ops \ {"none"}
        /\ [op |-> "concat"].op \in Ops \ {"none"}
        /\ "paramErr" \in Statuses
    BY DEF Ops, Statuses
  <2>2. QED
    BY <1>6, <2>1, RejectArmInv DEF ResizeAndPaste, ConcatMatWithBatch
<1>7. CASE UNCHANGED vars
  BY <1>7 DEF vars, ArmInv, TypeOK, IdleFresh, Idle, Fresh
<1>8. QED
  BY <1>1, <1>2, <1>3, <1>4, <1>5, <1>6, <1>7 DEF Next

-----------------------------------------------------------------------------
(* Theorems.                                                               *)

LEMMA ArmInvariant == Spec => []ArmInv
BY InitArmInv, NextArmInv, PTL DEF Spec

\* Every call of every operation leaves the destination buffer a buffer of
\* the destination's size holding source offsets or Junk, and returns one
\* of the codes the ARM converter returns.
THEOREM TypeCorrect == Spec => []TypeOK
BY ArmInvariant, PTL DEF ArmInv

=============================================================================
