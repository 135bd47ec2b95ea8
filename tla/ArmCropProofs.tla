---------------------------- MODULE ArmCropProofs ----------------------------
(***************************************************************************)
(* CallMatchesReference of ArmMatConverter, for every set of source Mats,  *)
(* destination extents and crop parameters.                                *)
(*                                                                         *)
(* Copy and Crop write sets of byte moves.  The proof shows that the set   *)
(* the kernel computes from strides and offsets (MatMemcpy2D in            *)
(* CropPacked and CropYUV420sp) is the reference set stated on pixels      *)
(* (RefCrop), and that every move of it lies in both buffers when the      *)
(* rectangle fits.  The invariant it needs is ArmInv: every call starts    *)
(* from the idle state, whose destination is fresh.                        *)
(*                                                                         *)
(* NV21/NV12 batches are laid out by the code at b * h * w * 3 / 2, which  *)
(* is b times the size of one image only when h * w is even.  A 4:2:0     *)
(* image has half-resolution chroma planes (spec.md 4.4), so its luma      *)
(* extents are even; the theorem assumes that of the NV21/NV12 Mats of    *)
(* the instance (SubsampledEven) and of nothing else.                      *)
(***************************************************************************)
EXTENDS ArmMatConverterProofs

\* Every NV21/NV12 source, and every destination extent it may be copied
\* into, holds an even number of luma bytes per image.
SubsampledEven ==
    \A s \in SrcMats, d \in DstShapes :
       s.type \in Subsampled => (s.h * s.w) % 2 = 0 /\ (d.h * d.w) % 2 = 0

-----------------------------------------------------------------------------
(* Offset arithmetic.                                                      *)

LEMMA MulMono ==
    ASSUME NEW a \in Nat, NEW b \in Nat, NEW c \in Nat, a <= b
    PROVE  a * c <= b * c
OBVIOUS

LEMMA Flat ==
    ASSUME NEW N \in Nat, NEW C \in Nat, NEW b \in 0..(N - 1), NEW x \in 0..(C - 1)
    PROVE  b * C + x \in 0..(N * C - 1)
<1>1. b * C <= (N - 1) * C
  BY MulMono
<1>2. (N - 1) * C = N * C - C
  OBVIOUS
<1>3. QED
  BY <1>1, <1>2

LEMMA Split ==
    ASSUME NEW c \in {1, 3, 4}, NEW wd \in Nat, NEW cc \in 0..(wd * c - 1)
    PROVE  \E col \in 0..(wd - 1), k \in 0..(c - 1) : cc = col * c + k
<1> DEFINE col == cc \div c
           k == cc % c
<1>1. col \in 0..(wd - 1) /\ k \in 0..(c - 1) /\ cc = col * c + k
  <2>1. CASE c = 1
    BY <2>1
  <2>2. CASE c = 3
    BY <2>2
  <2>3. CASE c = 4
    BY <2>3
  <2>4. QED BY <2>1, <2>2, <2>3
<1>2. QED
  BY <1>1, Zenon

LEMMA PackedDst ==
    ASSUME NEW B \in Int, NEW r \in Int, NEW dw \in Int, NEW c \in Int, NEW col \in Int, NEW k \in Int
    PROVE  B + r * (dw * c) + (col * c + k) = B + (r * dw + col) * c + k
OBVIOUS

LEMMA PackedSrc ==
    ASSUME NEW B \in Int, NEW r \in Int, NEW sw \in Int, NEW c \in Int, NEW col \in Int,
           NEW k \in Int, NEW x \in Int, NEW y \in Int
    PROVE  B + (x + y * sw) * c + r * (sw * c) + (col * c + k) = B + ((y + r) * sw + x + col) * c + k
OBVIOUS

LEMMA PackedSets ==
    ASSUME NEW s, NEW d, NEW p, NEW c \in {1, 3, 4},
           s.n \in Nat, s.h \in Nat, s.w \in Nat, d.h \in Nat, d.w \in Nat,
           p.x \in Nat, p.y \in Nat, p.width \in Nat, p.height \in Nat
    PROVE  CropPacked(s, d, p, c) = RefCropPacked(s, d, p, c)
<1>0. c \in Nat
  OBVIOUS
<1>1. ASSUME NEW e \in CropPacked(s, d, p, c) PROVE e \in RefCropPacked(s, d, p, c)
  <2>1. PICK b \in 0..(s.n - 1) :
           e \in MatMemcpy2D(b * s.h * s.w * c + (p.x + p.y * s.w) * c, b * d.h * d.w * c,
                             p.width * c, p.height, s.w * c, d.w * c)
    BY Zenon DEF CropPacked
  <2>2. PICK r \in 0..(p.height - 1), cc \in 0..(p.width * c - 1) :
          e = <<b * d.h * d.w * c + r * (d.w * c) + cc,
                b * s.h * s.w * c + (p.x + p.y * s.w) * c + r * (s.w * c) + cc>>
    BY <2>1, SMT DEF MatMemcpy2D
  <2>3. PICK col \in 0..(p.width - 1), k \in 0..(c - 1) : cc = col * c + k
    BY Split
  <2>4. b * d.h * d.w * c \in Int /\ b * s.h * s.w * c \in Int
    BY <1>0
  <2>5. b * d.h * d.w * c + r * (d.w * c) + cc = b * d.h * d.w * c + (r * d.w + col) * c + k
    BY <2>3, <2>4, <1>0, PackedDst
  <2>6. b * s.h * s.w * c + (p.x + p.y * s.w) * c + r * (s.w * c) + cc
          = b * s.h * s.w * c + ((p.y + r) * s.w + p.x + col) * c + k
    BY <2>3, <2>4, <1>0, PackedSrc
  <2>7. QED
    BY <2>2, <2>5, <2>6, SMT DEF RefCropPacked
<1>2. ASSUME NEW e \in RefCropPacked(s, d, p, c) PROVE e \in CropPacked(s, d, p, c)
  <2>0. e \in RefCropPacked(s, d, p, c)
    OBVIOUS
  <2> DEFINE dOff(bb, r, col, k) == bb * d.h * d.w * c + (r * d.w + col) * c + k
             sOff(bb, r, col, k) == bb * s.h * s.w * c + ((p.y + r) * s.w + p.x + col) * c + k
  <2>a. PICK b \in 0..(s.n - 1) :
           e \in {<<dOff(b, r, col, k), sOff(b, r, col, k)>> :
                     r \in 0..(p.height - 1), col \in 0..(p.width - 1), k \in 0..(c - 1)}
    BY <2>0 DEF RefCropPacked
  \* The offsets stay opaque while the witnesses are picked.
  <2> HIDE DEF dOff, sOff
  <2>1. PICK r \in 0..(p.height - 1), col \in 0..(p.width - 1), k \in 0..(c - 1) :
          e = <<dOff(b, r, col, k), sOff(b, r, col, k)>>
    BY <2>a
  <2> USE DEF dOff, sOff
  <2>2. col * c + k \in 0..(p.width * c - 1)
    BY <1>0, Flat
  <2>3. b * d.h * d.w * c \in Int /\ b * s.h * s.w * c \in Int
    BY <1>0
  <2>4. b * d.h * d.w * c + r * (d.w * c) + (col * c + k) = b * d.h * d.w * c + (r * d.w + col) * c + k
    BY <2>3, <1>0, PackedDst
  <2>5. b * s.h * s.w * c + (p.x + p.y * s.w) * c + r * (s.w * c) + (col * c + k)
          = b * s.h * s.w * c + ((p.y + r) * s.w + p.x + col) * c + k
    BY <2>3, <1>0, PackedSrc
  <2>6. e \in MatMemcpy2D(b * s.h * s.w * c + (p.x + p.y * s.w) * c, b * d.h * d.w * c,
                          p.width * c, p.height, s.w * c, d.w * c)
    BY <2>1, <2>2, <2>4, <2>5, SMT DEF MatMemcpy2D
  <2>7. QED
    BY <2>6, Zenon DEF CropPacked
<1>3. QED
  BY <1>1, <1>2, Zenon

LEMMA HalfBatch ==
    ASSUME NEW b \in Nat, NEW h \in Nat, NEW w \in Nat, (h * w) % 2 = 0
    PROVE  (b * h * w * 3) \div 2 = b * ((h * w * 3) \div 2)
<1>1. PICK m \in Nat : h * w = 2 * m
  <2>1. (h * w) \div 2 \in Nat /\ h * w = 2 * ((h * w) \div 2)
    OBVIOUS
  <2>2. QED BY <2>1
<1>2. b * h * w * 3 = 2 * (b * m * 3) /\ h * w * 3 = 2 * (m * 3)
  BY <1>1
<1>3. b * m * 3 \in Nat /\ m * 3 \in Nat
  OBVIOUS
<1>4. \A q \in Nat : (2 * q) \div 2 = q
  OBVIOUS
<1>5. (b * h * w * 3) \div 2 = b * m * 3 /\ (h * w * 3) \div 2 = m * 3
  BY <1>2, <1>3, <1>4
<1>6. QED
  BY <1>5

LEMMA HalfRow ==
    ASSUME NEW y \in Nat, NEW w \in Nat, y % 2 = 0
    PROVE  (y * w) \div 2 = (y \div 2) * w
<1>1. PICK m \in Nat : y = 2 * m
  OBVIOUS
<1>2. y * w = 2 * (m * w) /\ m * w \in Nat /\ y \div 2 = m
  BY <1>1
<1>3. \A q \in Nat : (2 * q) \div 2 = q
  OBVIOUS
<1>4. QED
  BY <1>2, <1>3

LEMMA YUVSets ==
    ASSUME NEW s, NEW d, NEW p,
           s.n \in Nat, s.h \in Nat, s.w \in Nat, d.h \in Nat, d.w \in Nat,
           p.x \in Nat, p.y \in Nat, p.width \in Nat, p.height \in Nat,
           (s.h * s.w) % 2 = 0, (d.h * d.w) % 2 = 0, p.y % 2 = 0
    PROVE  CropYUV420sp(s, d, p) = RefCropYUV(s, d, p)
<1>1. \A b \in Nat : /\ (b * s.h * s.w * 3) \div 2 = b * PlaneBytes(s)
                     /\ (b * d.h * d.w * 3) \div 2 = b * PlaneBytes(d)
  <2> SUFFICES ASSUME NEW b \in Nat
               PROVE  /\ (b * s.h * s.w * 3) \div 2 = b * PlaneBytes(s)
                      /\ (b * d.h * d.w * 3) \div 2 = b * PlaneBytes(d)
    OBVIOUS
  <2>1. (b * s.h * s.w * 3) \div 2 = b * ((s.h * s.w * 3) \div 2)
    BY HalfBatch
  <2>2. (b * d.h * d.w * 3) \div 2 = b * ((d.h * d.w * 3) \div 2)
    BY HalfBatch
  <2>3. QED
    BY <2>1, <2>2 DEF PlaneBytes
<1>2. (p.y * s.w) \div 2 = (p.y \div 2) * s.w
  BY HalfRow
<1>3. ASSUME NEW e \in CropYUV420sp(s, d, p) PROVE e \in RefCropYUV(s, d, p)
  <2>0. e \in CropYUV420sp(s, d, p)
    OBVIOUS
  <2>1. PICK b \in 0..(s.n - 1) :
          e \in MatMemcpy2D((b * s.h * s.w * 3) \div 2 + p.x + p.y * s.w,
                            (b * d.h * d.w * 3) \div 2,
                            p.width, p.height, s.w, d.w)
                \cup
                MatMemcpy2D((b * s.h * s.w * 3) \div 2 + s.w * s.h + p.x + (p.y * s.w) \div 2,
                            (b * d.h * d.w * 3) \div 2 + d.w * d.h,
                            p.width, p.height \div 2, s.w, d.w)
    BY <2>0 DEF CropYUV420sp
  <2>2. (b * s.h * s.w * 3) \div 2 = b * PlaneBytes(s) /\ (b * d.h * d.w * 3) \div 2 = b * PlaneBytes(d)
    BY <1>1
  <2>3. b * PlaneBytes(s) \in Int /\ b * PlaneBytes(d) \in Int
    BY DEF PlaneBytes
  <2>4. CASE e \in MatMemcpy2D((b * s.h * s.w * 3) \div 2 + p.x + p.y * s.w,
                               (b * d.h * d.w * 3) \div 2,
                               p.width, p.height, s.w, d.w)
    <3>1. PICK r \in 0..(p.height - 1), col \in 0..(p.width - 1) :
            e = <<b * PlaneBytes(d) + r * d.w + col,
                  b * PlaneBytes(s) + p.x + p.y * s.w + r * s.w + col>>
      BY <2>4, <2>2 DEF MatMemcpy2D
    <3>2. b * PlaneBytes(s) + p.x + p.y * s.w + r * s.w + col = b * PlaneBytes(s) + (p.y + r) * s.w + p.x + col
      BY <2>3
    <3>3. QED
      BY <3>1, <3>2 DEF RefCropYUV
  <2>5. CASE e \in MatMemcpy2D((b * s.h * s.w * 3) \div 2 + s.w * s.h + p.x + (p.y * s.w) \div 2,
                               (b * d.h * d.w * 3) \div 2 + d.w * d.h,
                               p.width, p.height \div 2, s.w, d.w)
    <3>1. PICK r \in 0..(p.height \div 2 - 1), col \in 0..(p.width - 1) :
            e = <<b * PlaneBytes(d) + d.w * d.h + r * d.w + col,
                  b * PlaneBytes(s) + s.w * s.h + p.x + (p.y \div 2) * s.w + r * s.w + col>>
      BY <2>5, <2>2, <1>2 DEF MatMemcpy2D
    <3>2. b * PlaneBytes(s) + s.w * s.h + p.x + (p.y \div 2) * s.w + r * s.w + col
            = b * PlaneBytes(s) + s.w * s.h + (p.y \div 2 + r) * s.w + p.x + col
      BY <2>3
    <3>3. QED
      BY <3>1, <3>2 DEF RefCropYUV
  <2>6. QED
    BY <2>1, <2>4, <2>5
<1>4. ASSUME NEW e \in RefCropYUV(s, d, p) PROVE e \in CropYUV420sp(s, d, p)
  <2>0. e \in RefCropYUV(s, d, p)
    OBVIOUS
  <2>1. CASE \E b \in 0..(s.n - 1), r \in 0..(p.height - 1), col \in 0..(p.width - 1) :
               e = <<b * PlaneBytes(d) + r * d.w + col, b * PlaneBytes(s) + (p.y + r) * s.w + p.x + col>>
    <3>1. PICK b \in 0..(s.n - 1), r \in 0..(p.height - 1), col \in 0..(p.width - 1) :
               e = <<b * PlaneBytes(d) + r * d.w + col, b * PlaneBytes(s) + (p.y + r) * s.w + p.x + col>>
      BY <2>1
    <3>2. (b * s.h * s.w * 3) \div 2 = b * PlaneBytes(s) /\ (b * d.h * d.w * 3) \div 2 = b * PlaneBytes(d)
      BY <1>1
    <3>3. b * PlaneBytes(s) \in Int /\ b * PlaneBytes(d) \in Int
      BY DEF PlaneBytes
    <3>4. e \in MatMemcpy2D((b * s.h * s.w * 3) \div 2 + p.x + p.y * s.w,
                            (b * d.h * d.w * 3) \div 2,
                            p.width, p.height, s.w, d.w)
      BY <3>1, <3>2, <3>3 DEF MatMemcpy2D
    <3>5. QED
      BY <3>4 DEF CropYUV420sp
  <2>2. CASE \E b \in 0..(s.n - 1), r \in 0..(p.height \div 2 - 1), col \in 0..(p.width - 1) :
               e = <<b * PlaneBytes(d) + d.w * d.h + r * d.w + col,
                     b * PlaneBytes(s) + s.w * s.h + (p.y \div 2 + r) * s.w + p.x + col>>
    <3>1. PICK b \in 0..(s.n - 1), r \in 0..(p.height \div 2 - 1), col \in 0..(p.width - 1) :
               e = <<b * PlaneBytes(d) + d.w * d.h + r * d.w + col,
                     b * PlaneBytes(s) + s.w * s.h + (p.y \div 2 + r) * s.w + p.x + col>>
      BY <2>2
    <3>2. (b * s.h * s.w * 3) \div 2 = b * PlaneBytes(s) /\ (b * d.h * d.w * 3) \div 2 = b * PlaneBytes(d)
      BY <1>1
    <3>3. b * PlaneBytes(s) \in Int /\ b * PlaneBytes(d) \in Int
      BY DEF PlaneBytes
    <3>4. e \in MatMemcpy2D((b * s.h * s.w * 3) \div 2 + s.w * s.h + p.x + (p.y * s.w) \div 2,
                            (b * d.h * d.w * 3) \div 2 + d.w * d.h,
                            p.width, p.height \div 2, s.w, d.w)
      BY <3>1, <3>2, <3>3, <1>2 DEF MatMemcpy2D
    <3>5. QED
      BY <3>4 DEF CropYUV420sp
  <2>3. QED
    BY <2>0, <2>1, <2>2 DEF RefCropYUV
<1>5. QED
  BY <1>3, <1>4

LEMMA PixelInMat ==
    ASSUME NEW B \in Nat, NEW C \in Nat, NEW H \in Nat, NEW W \in Nat,
           NEW b \in 0..(B - 1), NEW i \in 0..(H - 1), NEW j \in 0..(W - 1),
           NEW k \in 0..(C - 1)
    PROVE  b * H * W * C + (i * W + j) * C + k \in 0..(B * C * H * W - 1)
<1>1. i * W + j \in 0..(H * W - 1)
  BY Flat
<1>2. (i * W + j) * C + k \in 0..(H * W * C - 1)
  BY <1>1, Flat
<1>3. H * W * C \in Nat
  OBVIOUS
<1>4. b * (H * W * C) + ((i * W + j) * C + k) \in 0..(B * (H * W * C) - 1)
  BY <1>2, <1>3, Flat
<1>5. b * (H * W * C) = b * H * W * C /\ B * (H * W * C) = B * C * H * W
  OBVIOUS
<1>6. QED
  BY <1>4, <1>5

\* An even plane of H x W luma bytes: its image holds 3 * (H * W) / 2 bytes.
LEMMA EvenPlane ==
    ASSUME NEW H \in Nat, NEW W \in Nat, (H * W) % 2 = 0
    PROVE  /\ (H * W * 3) \div 2 = H * W + (H * W) \div 2
           /\ (H \div 2) * W <= (H * W) \div 2
           /\ (H * W * 3) \div 2 <= 3 * H * W
<1>1. PICK m \in Nat : H * W = 2 * m
  <2>1. (H * W) \div 2 \in Nat /\ H * W = 2 * ((H * W) \div 2)
    OBVIOUS
  <2>2. QED BY <2>1
<1>2. (H * W * 3) \div 2 = 3 * m /\ (H * W) \div 2 = m
  <2>1. H * W * 3 = 2 * (3 * m)
    BY <1>1
  <2>2. QED BY <1>1, <2>1
<1>3. (H \div 2) * 2 <= H /\ H \div 2 \in Nat
  OBVIOUS
<1>4. (H \div 2) * 2 * W <= H * W
  BY <1>3, MulMono
<1>5. (H \div 2) * W <= m
  BY <1>1, <1>3, <1>4
<1>6. QED
  BY <1>1, <1>2, <1>5

\* Image b of a batch of N NV21/NV12 images of H x W pixels.
LEMMA InYUVBatch ==
    ASSUME NEW N \in Nat, NEW H \in Nat, NEW W \in Nat, (H * W) % 2 = 0,
           NEW b \in 0..(N - 1), NEW o \in 0..(PlaneBytes([h |-> H, w |-> W]) - 1)
    PROVE  b * PlaneBytes([h |-> H, w |-> W]) + o \in 0..(N * 3 * H * W - 1)
<1> DEFINE P == (H * W * 3) \div 2
<1>1. PlaneBytes([h |-> H, w |-> W]) = P
  BY DEF PlaneBytes
<1>2. P \in Nat /\ P <= 3 * H * W
  BY EvenPlane
<1>3. b * P + o \in 0..(N * P - 1)
  BY <1>1, <1>2, Flat
<1>4. N * P <= N * (3 * H * W)
  BY <1>2, MulMono
<1>5. QED
  BY <1>1, <1>3, <1>4

\* Every pixel of a packed crop that fits lies inside both Mats.
LEMMA PackedInBounds ==
    ASSUME NEW s, NEW d, NEW p, NEW c \in {1, 3, 4},
           s.n \in Nat, s.h \in Nat, s.w \in Nat, d.n \in Nat, d.h \in Nat, d.w \in Nat,
           p.x \in Nat, p.y \in Nat, p.width \in Nat, p.height \in Nat,
           CropFits(s, d, p),
           NEW mv \in RefCropPacked(s, d, p, c)
    PROVE  mv[1] \in 0..(d.n * c * d.h * d.w - 1) /\ mv[2] \in 0..(s.n * c * s.h * s.w - 1)
<1>0. mv \in RefCropPacked(s, d, p, c) /\ c \in Nat
  OBVIOUS
<1> DEFINE dOff(bb, r, col, k) == bb * d.h * d.w * c + (r * d.w + col) * c + k
           sOff(bb, r, col, k) == bb * s.h * s.w * c + ((p.y + r) * s.w + p.x + col) * c + k
<1>1. PICK b \in 0..(s.n - 1) :
        mv \in {<<dOff(b, r, col, k), sOff(b, r, col, k)>> :
                   r \in 0..(p.height - 1), col \in 0..(p.width - 1), k \in 0..(c - 1)}
  BY <1>0 DEF RefCropPacked
\* The offsets stay opaque while the witnesses are picked.
<1> HIDE DEF dOff, sOff
<1>2. PICK r \in 0..(p.height - 1), col \in 0..(p.width - 1), k \in 0..(c - 1) :
        mv = <<dOff(b, r, col, k), sOff(b, r, col, k)>>
  BY <1>1
<1> USE DEF dOff, sOff
<1>3. b \in 0..(d.n - 1) /\ r \in 0..(d.h - 1) /\ col \in 0..(d.w - 1)
  BY DEF CropFits
<1>4. p.y + r \in 0..(s.h - 1) /\ p.x + col \in 0..(s.w - 1)
  BY DEF CropFits
<1>5. b * d.h * d.w * c + (r * d.w + col) * c + k \in 0..(d.n * c * d.h * d.w - 1)
  BY <1>0, <1>3, PixelInMat
<1>6. b * s.h * s.w * c + ((p.y + r) * s.w + (p.x + col)) * c + k \in 0..(s.n * c * s.h * s.w - 1)
  BY <1>0, <1>4, PixelInMat
<1>7. QED
  BY <1>2, <1>5, <1>6

\* Every pixel of an NV21/NV12 crop that fits, of even origin row and
\* height, between even-sized images, lies inside both Mats.
LEMMA YUVInBounds ==
    ASSUME NEW s, NEW d, NEW p,
           s.n \in Nat, s.h \in Nat, s.w \in Nat, d.n \in Nat, d.h \in Nat, d.w \in Nat,
           p.x \in Nat, p.y \in Nat, p.width \in Nat, p.height \in Nat,
           (s.h * s.w) % 2 = 0, (d.h * d.w) % 2 = 0, p.y % 2 = 0, p.height % 2 = 0,
           CropFits(s, d, p),
           NEW mv \in RefCropYUV(s, d, p)
    PROVE  mv[1] \in 0..(d.n * 3 * d.h * d.w - 1) /\ mv[2] \in 0..(s.n * 3 * s.h * s.w - 1)
<1>0. mv \in RefCropYUV(s, d, p)
  OBVIOUS
<1>a. PlaneBytes(s) = PlaneBytes([h |-> s.h, w |-> s.w])
      /\ PlaneBytes(d) = PlaneBytes([h |-> d.h, w |-> d.w])
  BY DEF PlaneBytes
<1>b. /\ PlaneBytes(s) = s.h * s.w + (s.h * s.w) \div 2 /\ (s.h \div 2) * s.w <= (s.h * s.w) \div 2
      /\ PlaneBytes(d) = d.h * d.w + (d.h * d.w) \div 2 /\ (d.h \div 2) * d.w <= (d.h * d.w) \div 2
  BY EvenPlane DEF PlaneBytes
<1>1. CASE \E b \in 0..(s.n - 1), r \in 0..(p.height - 1), col \in 0..(p.width - 1) :
             mv = <<b * PlaneBytes(d) + r * d.w + col, b * PlaneBytes(s) + (p.y + r) * s.w + p.x + col>>
  <2>1. PICK b \in 0..(s.n - 1), r \in 0..(p.height - 1), col \in 0..(p.width - 1) :
             mv = <<b * PlaneBytes(d) + r * d.w + col, b * PlaneBytes(s) + (p.y + r) * s.w + p.x + col>>
    BY <1>1
  <2>a. r \in 0..(d.h - 1) /\ col \in 0..(d.w - 1) /\ b \in 0..(d.n - 1)
        /\ p.y + r \in 0..(s.h - 1) /\ p.x + col \in 0..(s.w - 1)
    BY DEF CropFits
  <2>b. r * d.w + col \in 0..(d.h * d.w - 1)
    BY <2>a, Flat
  <2>c. (p.y + r) * s.w + (p.x + col) \in 0..(s.h * s.w - 1)
    BY <2>a, Flat
  <2>2. r * d.w + col \in 0..(d.h * d.w - 1) /\ (p.y + r) * s.w + (p.x + col) \in 0..(s.h * s.w - 1)
    BY <2>b, <2>c
  <2>3. b \in 0..(d.n - 1)
    BY <2>a
  <2>4. r * d.w + col \in 0..(PlaneBytes([h |-> d.h, w |-> d.w]) - 1)
        /\ (p.y + r) * s.w + (p.x + col) \in 0..(PlaneBytes([h |-> s.h, w |-> s.w]) - 1)
    BY <2>2, <1>a, <1>b
  <2>5. b * PlaneBytes(d) + (r * d.w + col) \in 0..(d.n * 3 * d.h * d.w - 1)
    BY <2>3, <2>4, <1>a, InYUVBatch
  <2>6. b * PlaneBytes(s) + ((p.y + r) * s.w + (p.x + col)) \in 0..(s.n * 3 * s.h * s.w - 1)
    BY <2>4, <1>a, InYUVBatch
  <2>e. b * PlaneBytes(d) \in Int /\ b * PlaneBytes(s) \in Int
    BY DEF PlaneBytes
  <2>f. mv[1] = b * PlaneBytes(d) + (r * d.w + col)
        /\ mv[2] = b * PlaneBytes(s) + ((p.y + r) * s.w + (p.x + col))
    BY <2>1, <2>e
  <2>7. QED
    BY <2>f, <2>5, <2>6
<1>2. CASE \E b \in 0..(s.n - 1), r \in 0..(p.height \div 2 - 1), col \in 0..(p.width - 1) :
             mv = <<b * PlaneBytes(d) + d.w * d.h + r * d.w + col,
                    b * PlaneBytes(s) + s.w * s.h + (p.y \div 2 + r) * s.w + p.x + col>>
  <2>1. PICK b \in 0..(s.n - 1), r \in 0..(p.height \div 2 - 1), col \in 0..(p.width - 1) :
             mv = <<b * PlaneBytes(d) + d.w * d.h + r * d.w + col,
                    b * PlaneBytes(s) + s.w * s.h + (p.y \div 2 + r) * s.w + p.x + col>>
    BY <1>2
  <2>2. r \in 0..(d.h \div 2 - 1) /\ p.y \div 2 + r \in 0..(s.h \div 2 - 1) /\ b \in 0..(d.n - 1)
    BY DEF CropFits
  <2>3. d.h \div 2 \in Nat /\ s.h \div 2 \in Nat
    OBVIOUS
  <2>a. col \in 0..(d.w - 1) /\ p.x + col \in 0..(s.w - 1)
    BY DEF CropFits
  <2>b. r * d.w + col \in 0..((d.h \div 2) * d.w - 1)
    BY <2>2, <2>3, <2>a, Flat
  <2>c. (p.y \div 2 + r) * s.w + (p.x + col) \in 0..((s.h \div 2) * s.w - 1)
    BY <2>2, <2>3, <2>a, Flat
  <2>d. d.w * d.h = d.h * d.w /\ s.w * s.h = s.h * s.w
    OBVIOUS
  <2>g. (d.h * d.w) \div 2 \in Nat /\ (s.h * s.w) \div 2 \in Nat /\ d.h * d.w \in Nat /\ s.h * s.w \in Nat
    OBVIOUS
  <2>h. d.w * d.h + (r * d.w + col) \in 0..(PlaneBytes([h |-> d.h, w |-> d.w]) - 1)
    BY <2>b, <2>d, <2>g, <1>a, <1>b
  <2>i. s.w * s.h + ((p.y \div 2 + r) * s.w + (p.x + col)) \in 0..(PlaneBytes([h |-> s.h, w |-> s.w]) - 1)
    BY <2>c, <2>d, <2>g, <1>a, <1>b
  <2>5. d.w * d.h + (r * d.w + col) \in 0..(PlaneBytes([h |-> d.h, w |-> d.w]) - 1)
        /\ s.w * s.h + ((p.y \div 2 + r) * s.w + (p.x + col)) \in 0..(PlaneBytes([h |-> s.h, w |-> s.w]) - 1)
    BY <2>h, <2>i
  <2>6. b * PlaneBytes(d) + (d.w * d.h + (r * d.w + col)) \in 0..(d.n * 3 * d.h * d.w - 1)
    BY <2>2, <2>5, <1>a, InYUVBatch
  <2>7. b * PlaneBytes(s) + (s.w * s.h + ((p.y \div 2 + r) * s.w + (p.x + col))) \in 0..(s.n * 3 * s.h * s.w - 1)
    BY <2>5, <1>a, InYUVBatch
  <2>e. b * PlaneBytes(d) \in Int /\ b * PlaneBytes(s) \in Int
    BY <1>b, <2>g
  <2>j. mv[1] = b * PlaneBytes(d) + d.w * d.h + r * d.w + col
        /\ mv[2] = b * PlaneBytes(s) + s.w * s.h + (p.y \div 2 + r) * s.w + p.x + col
    BY <2>1
  <2>k. (p.y \div 2 + r) * s.w \in Int /\ d.w * d.h \in Int /\ s.w * s.h \in Int /\ r * d.w \in Int
    BY <2>3
  <2>f. mv[1] = b * PlaneBytes(d) + (d.w * d.h + (r * d.w + col))
        /\ mv[2] = b * PlaneBytes(s) + (s.w * s.h + ((p.y \div 2 + r) * s.w + (p.x + col)))
    BY <2>j, <2>e, <2>k
  <2>8. QED
    BY <2>f, <2>6, <2>7
<1>3. QED
  BY <1>0, <1>1, <1>2 DEF RefCropYUV
-----------------------------------------------------------------------------
(* The bytes a call moves, against the reference.                          *)

\* An image Mat holds one byte per channel of every pixel.
LEMMA ImageBytes ==
    ASSUME NEW m, m.type \in ImageTypes, m.n \in Nat, m.h \in Nat, m.w \in Nat
    PROVE  /\ MatBytes(m) = m.n * Channels(m.type) * m.h * m.w
           /\ m.type \in Subsampled => Channels(m.type) = 3
           /\ m.type \in {"NGRAY", "N8UC3", "N8UC4"} => Channels(m.type) \in {1, 3, 4}
BY DEF MatBytes, ElemCount, ElemSize, ImageTypes, Subsampled, Channels

\* An even natural is one that Odd rejects.
LEMMA NotOdd ==
    ASSUME NEW v \in Nat, ~Odd(v)
    PROVE  v % 2 = 0
BY DEF Odd

\* The source and destination a call works on, with natural extents.
LEMMA CallExtents ==
    ASSUME ArmInv
    PROVE  /\ src.n \in Nat /\ src.h \in Nat /\ src.w \in Nat
           /\ dst.n \in Nat /\ dst.h \in Nat /\ dst.w \in Nat
           /\ dst.type = src.type /\ src.type \in MatTypes
BY SrcNat, DstNat DEF ArmInv

\* Under SubsampledEven the Mats of an NV21/NV12 call have an even number
\* of luma bytes per image.
LEMMA EvenMats ==
    ASSUME SubsampledEven, ArmInv, src.type \in Subsampled
    PROVE  (src.h * src.w) % 2 = 0 /\ (dst.h * dst.w) % 2 = 0
<1>1. src \in SrcMats /\ [n |-> dst.n, h |-> dst.h, w |-> dst.w] \in DstShapes
  BY DEF ArmInv, TypeOK
<1>2. QED
  BY <1>1 DEF SubsampledEven

\* A Copy that returns ok moves source byte i to destination byte i for
\* every byte of the source, and all of them fit when the destination is
\* at least as large.
LEMMA CopyMatchesReference ==
    ASSUME ArmInv, Copy
    PROVE  CallMatchesReference'
<1> DEFINE c == [op |-> "copy"]
           chk == CheckMatConverterParams(src, dst, FALSE)
           moves == {<<i, i>> : i \in 0..(ElemCount(src) * ElemSize(src.type) - 1)}
<1>1. dstBuf = Fresh(dst) /\ call' = c /\ src' = src /\ dst' = dst
  BY Zenon DEF Copy, ArmInv, IdleFresh, Reject, RunMoves
<1>2. CASE chk = "ok" /\ src.type \in ImageTypes \cup {"NCHW_FLOAT"}
  <2>1. RunMoves(c, K(<<"memcpy">>, ImageTypes \cup {"NCHW_FLOAT"}), moves)
    BY <1>2 DEF Copy
  <2>2. moves = {<<i, i>> : i \in 0..(MatBytes(src) - 1)}
    BY DEF MatBytes
  <2>3. MatBytes(src) \in Nat /\ MatBytes(dst) \in Nat
    BY CallExtents, MatNat
  <2>4. MatBytes(src) <= MatBytes(dst) => ~OutOfBounds(moves, src, dst)
    BY <2>2, <2>3 DEF OutOfBounds
  <2>5. status' = "ok" /\ dstBuf' = Moved(Fresh(dst), moves) /\ oob' = OutOfBounds(moves, src, dst)
    BY <1>1, <2>1 DEF RunMoves
  <2>6. QED
    BY <1>1, <2>2, <2>4, <2>5 DEF CallMatchesReference
<1>3. CASE chk # "ok"
  <2>1. status' # "ok"
    BY <1>3 DEF Copy, Reject
  <2>2. QED
    BY <2>1 DEF CallMatchesReference
<1>4. CASE chk = "ok" /\ src.type \notin ImageTypes \cup {"NCHW_FLOAT"}
  <2>1. status' # "ok"
    BY <1>4 DEF Copy, Reject
  <2>2. QED
    BY <2>1 DEF CallMatchesReference
<1>5. QED
  BY <1>2, <1>3, <1>4

\* A Crop that returns ok, with a rectangle that fits, moves exactly the
\* reference pixels and none outside the two buffers.
LEMMA CropMatchesReference ==
    ASSUME SubsampledEven, ArmInv, Crop
    PROVE  CallMatchesReference'
<1> PICK x \in Coords, y \in Coords, width \in Extents, height \in Extents :
       LET p == [x |-> x, y |-> y, width |-> width, height |-> height]
           c == [op |-> "crop", x |-> x, y |-> y, width |-> width, height |-> height]
           chk == CheckMatConverterParams(src, dst, TRUE)
       IN /\ Idle
          /\ IF chk # "ok" THEN Reject(c, chk)
             ELSE IF src.type \in {"NGRAY", "N8UC3", "N8UC4"}
             THEN RunMoves(c, K(<<"crop">>, {src.type}), CropPacked(src, dst, p, Channels(src.type)))
             ELSE IF src.type \in {"NNV21", "NNV12"}
             THEN IF ~CropAligned(p)
                  THEN Reject(c, "paramErr")
                  ELSE RunMoves(c, K(<<"crop">>, {"NNV21", "NNV12"}), CropYUV420sp(src, dst, p))
             ELSE Reject(c, "paramErr")
  BY DEF Crop
<1> DEFINE p == [x |-> x, y |-> y, width |-> width, height |-> height]
           c == [op |-> "crop", x |-> x, y |-> y, width |-> width, height |-> height]
           chk == CheckMatConverterParams(src, dst, TRUE)
<1>0. /\ dstBuf = Fresh(dst) /\ call' = c /\ CropParams(call') = p /\ src' = src /\ dst' = dst
      /\ p.x \in Nat /\ p.y \in Nat /\ p.width \in Nat /\ p.height \in Nat
  <2>1. dstBuf = Fresh(dst)
    BY DEF ArmInv, IdleFresh
  <2>2. call' = c /\ src' = src /\ dst' = dst
    BY Zenon DEF Reject, RunMoves
  <2>3. QED
    BY <2>1, <2>2, MatsAssumption DEF CropParams
<1>e. /\ src.n \in Nat /\ src.h \in Nat /\ src.w \in Nat
      /\ dst.n \in Nat /\ dst.h \in Nat /\ dst.w \in Nat
      /\ dst.type = src.type /\ src.type \in MatTypes
  BY CallExtents
\* The reference is what the kernel moves, and it fits.
<1>1. SUFFICES ASSUME status' = "ok", CropFits(src, dst, p)
               PROVE  ~oob' /\ dstBuf' = Moved(Fresh(dst), RefCrop(src, dst, p))
  BY <1>0 DEF CallMatchesReference
<1>2. chk = "ok"
  BY <1>1 DEF Reject
<1>3. CASE src.type \in {"NGRAY", "N8UC3", "N8UC4"}
  <2> DEFINE ch == Channels(src.type)
  <2>1. RunMoves(c, K(<<"crop">>, {src.type}), CropPacked(src, dst, p, ch))
    BY <1>2, <1>3
  <2>2. ch \in {1, 3, 4} /\ src.type \notin Subsampled /\ src.type \in ImageTypes
    BY <1>3, <1>e, ImageBytes DEF Subsampled, ImageTypes
  <2>3. RefCrop(src, dst, p) = CropPacked(src, dst, p, ch)
    BY <2>2, <1>0, <1>e, PackedSets DEF RefCrop
  <2>4. MatBytes(src) = src.n * ch * src.h * src.w /\ MatBytes(dst) = dst.n * ch * dst.h * dst.w
    BY <2>2, <1>e, ImageBytes
  <2>5. ~OutOfBounds(RefCrop(src, dst, p), src, dst)
    BY <2>2, <2>3, <2>4, <1>0, <1>e, <1>1, PackedSets, PackedInBounds DEF OutOfBounds
  <2>6. QED
    BY <2>1, <2>3, <2>5, <1>0 DEF RunMoves
<1>4. CASE src.type \in {"NNV21", "NNV12"}
  <2>1. CropAligned(p)
    BY <1>1, <1>2, <1>4 DEF Reject
  <2>2. RunMoves(c, K(<<"crop">>, {"NNV21", "NNV12"}), CropYUV420sp(src, dst, p))
    BY <1>2, <1>4, <2>1
  <2>3. src.type \in Subsampled /\ src.type \in ImageTypes /\ dst.type \in ImageTypes
    BY <1>4, <1>e DEF Subsampled, ImageTypes
  <2>4. (src.h * src.w) % 2 = 0 /\ (dst.h * dst.w) % 2 = 0
    BY <2>3, EvenMats
  <2>5. p.y % 2 = 0 /\ p.height % 2 = 0
    BY <2>1, <1>0, NotOdd DEF CropAligned
  <2>6. RefCrop(src, dst, p) = CropYUV420sp(src, dst, p)
    BY <2>3, <2>4, <2>5, <1>0, <1>e, YUVSets DEF RefCrop
  <2>7. MatBytes(src) = src.n * 3 * src.h * src.w /\ MatBytes(dst) = dst.n * 3 * dst.h * dst.w
    BY <2>3, <1>e, ImageBytes
  <2>8. ~OutOfBounds(RefCrop(src, dst, p), src, dst)
    BY <2>3, <2>4, <2>5, <2>6, <2>7, <1>0, <1>e, <1>1, YUVInBounds DEF OutOfBounds, RefCrop
  <2>9. QED
    BY <2>2, <2>6, <2>8, <1>0 DEF RunMoves
<1>5. CASE src.type \notin {"NGRAY", "N8UC3", "N8UC4", "NNV21", "NNV12"}
  BY <1>1, <1>2, <1>5 DEF Reject
<1>6. QED
  BY <1>3, <1>4, <1>5

\* The reference invariant: ArmInv, and a call that returned ok moved what
\* the reference says.
ArmRefInv == ArmInv /\ CallMatchesReference

LEMMA NextCallMatchesReference ==
    ASSUME SubsampledEven, ArmInv, CallMatchesReference, [Next]_vars
    PROVE  CallMatchesReference'
<1>1. CASE Copy
  BY <1>1, CopyMatchesReference
<1>2. CASE Crop
  BY <1>2, CropMatchesReference
<1>3. CASE Resize
  <2>1. \E interp \in Interps : call' = [op |-> "resize", interp |-> interp]
    BY <1>3, Zenon DEF Resize, Reject, RunKernel
  <2>2. QED
    BY <2>1 DEF CallMatchesReference
<1>4. CASE WarpAffine
  <2>1. \E interp \in Interps, border \in Borders :
           call' = [op |-> "warp", interp |-> interp, border |-> border]
    BY <1>4, Zenon DEF WarpAffine, Reject, RunKernel
  <2>2. QED
    BY <2>1 DEF CallMatchesReference
<1>5. CASE CvtColor
  <2>1. \E ty \in ColorConversions : call' = [op |-> "cvt", type |-> ty]
    BY <1>5, Zenon DEF CvtColor, Reject, RunKernel
  <2>2. QED
    BY <2>1 DEF CallMatchesReference
<1>6. CASE ResizeAndPaste \/ ConcatMatWithBatch
  BY <1>6 DEF ResizeAndPaste, ConcatMatWithBatch, Reject, CallMatchesReference
<1>7. CASE UNCHANGED vars
  BY <1>7 DEF vars, CallMatchesReference, Fresh, CropParams
<1>8. QED
  BY <1>1, <1>2, <1>3, <1>4, <1>5, <1>6, <1>7 DEF Next

-----------------------------------------------------------------------------
(* Theorem.                                                                *)

\* spec.md 8, Copy round-trip and crop: on every instance whose NV21/NV12
\* images have an even number of luma bytes, a Copy into a destination
\* with room leaves it byte-identical to the source, and a Crop whose
\* rectangle fits moves exactly the pixels of the rectangle (luma and
\* chroma for NV21/NV12) and touches no byte outside the two buffers.
THEOREM CallMatchesReferenceHolds ==
    ASSUME SubsampledEven
    PROVE  Spec => []CallMatchesReference
<1>1. Init => CallMatchesReference
  BY DEF Init, CallMatchesReference
<1>2. ArmRefInv /\ [Next]_vars => ArmRefInv'
  BY NextArmInv, NextCallMatchesReference DEF ArmRefInv
<1>3. Init => ArmRefInv
  BY <1>1, InitArmInv DEF ArmRefInv
<1>4. QED
  BY <1>2, <1>3, PTL DEF Spec, ArmRefInv

=============================================================================
