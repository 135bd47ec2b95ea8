------------------------- MODULE MCCpuCumsumLayerAcc -------------------------
(* Small instances of the cumulative-sum layer for TLC.                    *)
EXTENDS CpuCumsumLayerAcc

\* Every rank-3 shape with extents 1..3 except those over 12 elements.
MCShapes3 == {d \in [1..3 -> 1..3] : Count(d) <= 12}

\* Every axis valid for rank 3, negative ones included.
MCParamAxes == -3..2

\* Rank-2 and rank-3 shapes, for a graph whose reshapes change the rank.
MCShapesMixed == {<<2, 2>>, <<2, 1, 2>>, <<1, 2, 2>>}

\* The axis a model exported from ONNX gives for "the last dimension".
MCLastAxis == {-1}
=============================================================================
