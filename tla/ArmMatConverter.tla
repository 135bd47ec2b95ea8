--------------------------- MODULE ArmMatConverter ---------------------------
(***************************************************************************)
(* The ARM image-conversion kernels, ArmMatConverterAcc in                 *)
(* src/source/tnn/device/arm/arm_mat_converter.cc.                         *)
(*                                                                         *)
(* One call of one operation on a source Mat and a destination Mat.  The   *)
(* parameter checks and the dispatch on the source's pixel type are        *)
(* modelled as the code makes them.  Copy and Crop are modelled down to    *)
(* the bytes they move: the source byte at offset i holds i, and the       *)
(* destination buffer records, at each offset, the source offset copied    *)
(* there.  The pixel arithmetic of resize, warp and colour conversion is   *)
(* left out: the model records which kernel runs.                          *)
(***************************************************************************)
EXTENDS Integers, FiniteSets

CONSTANTS
    SrcMats,     \* source Mats: [type, n, h, w, data, dev]
    DstShapes,   \* destination extents: [n, h, w]
    Coords,      \* values tried for crop origins
    Extents      \* values tried for crop widths and heights

MatTypes == {"NGRAY", "N8UC3", "N8UC4", "NNV21", "NNV12", "NCHW_FLOAT", "NC_INT32"}
Interps == {"linear", "nearest", "cubic"}
Borders == {"constant", "reflect"}
ColorConversions ==
    {"NV12TOBGR", "NV21TOBGR", "NV12TOBGRA", "NV21TOBGRA", "BGRTOGRAY", "BGRATOGRAY", "other"}

ASSUME MatsAssumption ==
    /\ SrcMats \subseteq [type : MatTypes, n : Nat, h : Nat, w : Nat, data : BOOLEAN, dev : STRING]
    /\ DstShapes \subseteq [n : Nat, h : Nat, w : Nat]
    /\ Coords \subseteq Nat /\ Extents \subseteq Nat

\* Destination content never written by a call.
Junk == -1

NoKernel == [fn |-> <<"none">>, accepts |-> {}]

VARIABLES
    src,      \* the source Mat
    dst,      \* the destination Mat (same type and device as the source)
    dstBuf,   \* destination bytes: offset -> source offset copied there, or Junk
    call,     \* the operation called and its parameters
    kernel,   \* the kernel the call ran, with the pixel types it reads
    oob,      \* a byte outside a Mat's buffer was read or written
    status    \* Status returned: none, ok, nullParam, paramErr, invalidInput

vars == <<src, dst, dstBuf, call, kernel, oob, status>>

-----------------------------------------------------------------------------
(* Mats.                                                                   *)

\* Channels in dims[1] for each pixel type.
Channels(t) == IF t = "NGRAY" THEN 1 ELSE IF t = "N8UC4" THEN 4 ELSE 3

ElemSize(t) == IF t \in {"NCHW_FLOAT", "NC_INT32"} THEN 4 ELSE 1

\* DimsVectorUtils::Count of <<n, c, h, w>>.
ElemCount(m) == m.n * Channels(m.type) * m.h * m.w

\* A Mat's buffer holds Count(dims) elements.
MatBytes(m) == ElemCount(m) * ElemSize(m.type)

-----------------------------------------------------------------------------
(* Byte moves: sets of <<dst offset, src offset>> pairs.                   *)

\* MatMemcpy2D: height rows of width bytes, each side with its own stride.
MatMemcpy2D(s0, d0, width, height, sStride, dStride) ==
    {<<d0 + r * dStride + c, s0 + r * sStride + c>> : r \in 0..(height - 1), c \in 0..(width - 1)}

\* Crop of a packed type with c bytes per pixel (NGRAY, N8UC3, N8UC4).
CropPacked(s, d, p, c) ==
    UNION {MatMemcpy2D(b * s.h * s.w * c + (p.x + p.y * s.w) * c,
                       b * d.h * d.w * c,
                       p.width * c, p.height, s.w * c, d.w * c) : b \in 0..(s.n - 1)}

\* Faulty variant: the chroma origin takes a full luma row per crop row.
CropYUV420spChromaRow(s, d, p) ==
    UNION {MatMemcpy2D((b * s.h * s.w * 3) \div 2 + p.x + p.y * s.w,
                       (b * d.h * d.w * 3) \div 2,
                       p.width, p.height, s.w, d.w)
           \cup
           MatMemcpy2D((b * s.h * s.w * 3) \div 2 + s.w * s.h + p.x + p.y * s.w,
                       (b * d.h * d.w * 3) \div 2 + d.w * d.h,
                       p.width, p.height \div 2, s.w, d.w) : b \in 0..(s.n - 1)}

\* Crop of NV21/NV12: the luma rows, then the interleaved chroma rows.
CropYUV420sp(s, d, p) ==
    UNION {MatMemcpy2D((b * s.h * s.w * 3) \div 2 + p.x + p.y * s.w,
                       (b * d.h * d.w * 3) \div 2,
                       p.width, p.height, s.w, d.w)
           \cup
           MatMemcpy2D((b * s.h * s.w * 3) \div 2 + s.w * s.h + p.x + (p.y * s.w) \div 2,
                       (b * d.h * d.w * 3) \div 2 + d.w * d.h,
                       p.width, p.height \div 2, s.w, d.w) : b \in 0..(s.n - 1)}

Odd(v) == v % 2 = 1

\* NV21/NV12 crop parameters must all be even.
CropAligned(p) == ~(Odd(p.x) \/ Odd(p.y) \/ Odd(p.width) \/ Odd(p.height))

\* The buffer after the moves; a move outside either buffer is dropped
\* here and recorded by OutOfBounds.
Moved(buf, moves) ==
    [o \in DOMAIN buf |->
        IF \E mv \in moves : mv[1] = o THEN (CHOOSE mv \in moves : mv[1] = o)[2] ELSE buf[o]]

OutOfBounds(moves, s, d) ==
    \E mv \in moves : mv[1] \notin 0..(MatBytes(d) - 1) \/ mv[2] \notin 0..(MatBytes(s) - 1)

-----------------------------------------------------------------------------
(* Parameter checks and kernels.                                           *)

\* CheckMatConverterParams: both Mats hold data and, when asked, live on
\* the same device.
CheckMatConverterParams(s, d, sameDevice) ==
    IF ~s.data THEN "nullParam"
    ELSE IF sameDevice /\ s.dev # d.dev THEN "paramErr"
    ELSE "ok"

K(fn, accepts) == [fn |-> fn, accepts |-> accepts]

\* The kernel family for each pixel type that Resize and WarpAffine serve.
ResizeFamily(t) ==
    IF t = "NGRAY" THEN "C1" ELSE IF t = "N8UC3" THEN "C3"
    ELSE IF t = "N8UC4" THEN "C4" ELSE "YUV420sp"

FamilyTypes(f) ==
    IF f = "C1" THEN {"NGRAY"} ELSE IF f = "C3" THEN {"N8UC3"}
    ELSE IF f = "C4" THEN {"N8UC4"} ELSE {"NNV21", "NNV12"}

ImageTypes == {"NGRAY", "N8UC3", "N8UC4", "NNV21", "NNV12"}

\* CvtColor's kernel for each conversion type.
CvtKernel(ty) ==
    IF ty \in {"NV12TOBGR", "NV12TOBGRA"} THEN K(<<ty>>, {"NNV12"})
    ELSE IF ty \in {"NV21TOBGR", "NV21TOBGRA"} THEN K(<<ty>>, {"NNV21"})
    ELSE IF ty = "BGRTOGRAY" THEN K(<<ty>>, {"N8UC3"})
    ELSE K(<<ty>>, {"N8UC4"})

-----------------------------------------------------------------------------
(* Operations.  Each call is one step from an idle state.                  *)

Init ==
    /\ src \in SrcMats
    /\ \E s \in DstShapes, dev \in {src.dev, "other"} :
          dst = [type |-> src.type, n |-> s.n, h |-> s.h, w |-> s.w, data |-> TRUE, dev |-> dev]
    /\ dstBuf = [o \in 0..(MatBytes(dst) - 1) |-> Junk]
    /\ call = [op |-> "none"]
    /\ kernel = NoKernel
    /\ oob = FALSE
    /\ status = "none"

Idle == call.op = "none"

\* A call that returns early: nothing is written.
Reject(c, st) ==
    /\ call' = c /\ status' = st /\ kernel' = NoKernel
    /\ UNCHANGED <<src, dst, dstBuf, oob>>

\* A call that runs a kernel whose bytes the model does not track.
RunKernel(c, k) ==
    /\ call' = c /\ status' = "ok" /\ kernel' = k
    /\ UNCHANGED <<src, dst, dstBuf, oob>>

\* A call that moves bytes.
RunMoves(c, k, moves) ==
    /\ call' = c /\ status' = "ok" /\ kernel' = k
    /\ dstBuf' = Moved(dstBuf, moves)
    /\ oob' = OutOfBounds(moves, src, dst)
    /\ UNCHANGED <<src, dst>>

Copy ==
    LET c == [op |-> "copy"]
        chk == CheckMatConverterParams(src, dst, FALSE)
        bytes == ElemCount(src) * ElemSize(src.type)
        moves == {<<i, i>> : i \in 0..(bytes - 1)}
    IN /\ Idle
       /\ IF chk # "ok" THEN Reject(c, chk)
          ELSE IF src.type \in ImageTypes \cup {"NCHW_FLOAT"}
          THEN RunMoves(c, K(<<"memcpy">>, ImageTypes \cup {"NCHW_FLOAT"}), moves)
          ELSE Reject(c, "paramErr")

Resize ==
    \E interp \in Interps :
       LET c == [op |-> "resize", interp |-> interp]
           chk == CheckMatConverterParams(src, dst, TRUE)
       IN /\ Idle
          /\ IF chk # "ok" THEN Reject(c, chk)
             ELSE IF dst.w = 0 \/ dst.h = 0 THEN Reject(c, "invalidInput")
             ELSE IF src.type \notin ImageTypes THEN Reject(c, "paramErr")
             ELSE IF interp \notin {"linear", "nearest"} THEN Reject(c, "paramErr")
             ELSE RunKernel(c, K(<<"Resize", interp, ResizeFamily(src.type)>>,
                                 FamilyTypes(ResizeFamily(src.type))))

Crop ==
    \E x, y \in Coords, width, height \in Extents :
       LET p == [x |-> x, y |-> y, width |-> width, height |-> height]
           c == [op |-> "crop", x |-> x, y |-> y, width |-> width, height |-> height]
           chk == CheckMatConverterParams(src, dst, TRUE)
       IN /\ Idle
          /\ IF chk # "ok" THEN Reject(c, chk)
             ELSE IF src.type \in {"NGRAY", "N8UC3", "N8UC4"}
             THEN RunMoves(c, K(<<"crop">>, {src.type}), CropPacked(src, dst, p, Channels(src.type)))
             ELSE IF src.type \in {"NNV21", "NNV12"}
             THEN IF ~CropAligned(p)
                  THEN Reject(c, "paramErr")
                  ELSE RunMoves(c, K(<<"crop">>, {"NNV21", "NNV12"}), CropYUV420sp(src, dst, p))
             ELSE Reject(c, "paramErr")

WarpAffine ==
    \E interp \in Interps, border \in Borders :
       LET c == [op |-> "warp", interp |-> interp, border |-> border]
           chk == CheckMatConverterParams(src, dst, TRUE)
       IN /\ Idle
          /\ IF chk # "ok" THEN Reject(c, chk)
             ELSE IF dst.w = 0 \/ dst.h = 0 THEN Reject(c, "invalidInput")
             ELSE IF src.type \notin ImageTypes THEN Reject(c, "paramErr")
             ELSE IF interp # "linear" \/ border # "constant" THEN Reject(c, "paramErr")
             ELSE RunKernel(c, K(<<"WarpAffineBilinear", ResizeFamily(src.type)>>,
                                 FamilyTypes(ResizeFamily(src.type))))

CvtColor ==
    \E ty \in ColorConversions :
       LET c == [op |-> "cvt", type |-> ty]
           chk == CheckMatConverterParams(src, dst, TRUE)
       IN /\ Idle
          /\ IF chk # "ok" THEN Reject(c, chk)
             ELSE IF ty = "other" THEN Reject(c, "paramErr")
             ELSE RunKernel(c, CvtKernel(ty))

\* Faulty variant: the device-level "not supported" code instead of a
\* parameter error.
ResizeAndPasteNotSupported == Idle /\ Reject([op |-> "resizeAndPaste"], "notSupported")

\* Not implemented on ARM: a parameter error before anything is read.
ResizeAndPaste == Idle /\ Reject([op |-> "resizeAndPaste"], "paramErr")

ConcatMatWithBatch == Idle /\ Reject([op |-> "concat"], "paramErr")

Next == Copy \/ Resize \/ Crop \/ WarpAffine \/ CvtColor \/ ResizeAndPaste \/ ConcatMatWithBatch

Spec == Init /\ [][Next]_vars

-----------------------------------------------------------------------------
(* References and properties.                                              *)

Subsampled == {"NNV21", "NNV12"}

CropParams(c) == [x |-> c.x, y |-> c.y, width |-> c.width, height |-> c.height]

\* The crop rectangle lies inside the source, and the destination has room
\* for it in every image of the batch.
CropFits(s, d, p) ==
    /\ p.x + p.width <= s.w /\ p.y + p.height <= s.h
    /\ p.width <= d.w /\ p.height <= d.h /\ s.n <= d.n

\* Bytes of one 4:2:0 image: the luma plane and half as much chroma.
PlaneBytes(m) == (m.h * m.w * 3) \div 2

\* The crop stated on pixels, for a packed type of ch bytes per pixel:
\* byte k of pixel (r, col) of image b of the result is byte k of pixel
\* (y + r, x + col) of image b of the source.
RefCropPacked(s, d, p, ch) ==
    UNION {{<<b * d.h * d.w * ch + (r * d.w + col) * ch + k,
              b * s.h * s.w * ch + ((p.y + r) * s.w + p.x + col) * ch + k>> :
               r \in 0..(p.height - 1), col \in 0..(p.width - 1), k \in 0..(ch - 1)} :
           b \in 0..(s.n - 1)}

\* The same for NV21/NV12: a 4:2:0 image is its luma plane followed by one
\* interleaved chroma row for every two luma rows.
RefCropYUV(s, d, p) ==
    {<<b * PlaneBytes(d) + r * d.w + col, b * PlaneBytes(s) + (p.y + r) * s.w + p.x + col>> :
        b \in 0..(s.n - 1), r \in 0..(p.height - 1), col \in 0..(p.width - 1)}
    \cup
    {<<b * PlaneBytes(d) + d.w * d.h + r * d.w + col,
       b * PlaneBytes(s) + s.w * s.h + (p.y \div 2 + r) * s.w + p.x + col>> :
        b \in 0..(s.n - 1), r \in 0..(p.height \div 2 - 1), col \in 0..(p.width - 1)}

\* The crop a Crop call should perform.
RefCrop(s, d, p) ==
    IF s.type \in Subsampled THEN RefCropYUV(s, d, p) ELSE RefCropPacked(s, d, p, Channels(s.type))

Fresh(d) == [o \in 0..(MatBytes(d) - 1) |-> Junk]

\* Every variable has its type.
TypeOK ==
    /\ src \in SrcMats
    /\ dst.type = src.type /\ [n |-> dst.n, h |-> dst.h, w |-> dst.w] \in DstShapes
    /\ dstBuf \in [0..(MatBytes(dst) - 1) -> {Junk} \cup Nat]
    /\ call.op \in {"none", "copy", "resize", "crop", "warp", "cvt", "resizeAndPaste", "concat"}
    /\ oob \in BOOLEAN
    /\ status \in {"none", "ok", "nullParam", "paramErr", "invalidInput"}

\* spec.md 8, Copy round-trip and crop: a Copy into a destination with room
\* for the source leaves the destination byte-identical to the source; a
\* Crop whose rectangle fits leaves in the destination exactly the pixels
\* of the rectangle, luma and chroma for NV21/NV12, and nothing else; and
\* neither touches a byte outside the two buffers.
CallMatchesReference ==
    status = "ok" =>
       /\ call.op = "copy" /\ MatBytes(src) <= MatBytes(dst) =>
             ~oob /\ dstBuf = Moved(Fresh(dst), {<<i, i>> : i \in 0..(MatBytes(src) - 1)})
       /\ call.op = "crop" /\ CropFits(src, dst, CropParams(call)) =>
             ~oob /\ dstBuf = Moved(Fresh(dst), RefCrop(src, dst, CropParams(call)))

\* spec.md 4.4 and 6: a call branches on the source's pixel type, and a
\* combination the device does not implement fails with a parameter error;
\* no kernel runs on a source of a pixel type it does not read.
DispatchMatchesSource == kernel # NoKernel => src.type \in kernel.accepts

=============================================================================
