-------------------------- MODULE MCArmMatConverter --------------------------
(* Small instances of the ARM image-conversion kernels for TLC.            *)
EXTENDS ArmMatConverter

\* Every pixel type, one or two images of 2 x 4 or 4 x 4 pixels, with or without data.
MCSrcMats ==
    [type : MatTypes, n : {1, 2}, h : {2, 4}, w : {4}, data : BOOLEAN, dev : {"arm"}]

\* A destination as large as the source, a smaller one and an empty one.
MCDstShapes ==
    {[n |-> 2, h |-> 2, w |-> 4], [n |-> 1, h |-> 2, w |-> 2], [n |-> 1, h |-> 2, w |-> 0]}

\* Destinations with room for every source, for the bounds run.
MCLargeDst == {[n |-> 2, h |-> 2, w |-> 4]}

MCCoords == 0..2
MCExtents == 1..2
=============================================================================
