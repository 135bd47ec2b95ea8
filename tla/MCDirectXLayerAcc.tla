------------------------- MODULE MCDirectXLayerAcc -------------------------
(* A layer with three inputs and one output for TLC: a plain input, an     *)
(* int32 constant, a flagged constant and an unflagged one.                *)
EXTENDS DirectXLayerAcc

CONSTANTS i1, i2, i3, i4, o1

MCInputSeq == <<i1, i2, i3, i4>>
MCOutputSeq == <<o1>>
MCConsts == {i2, i3, i4}
MCInt32Consts == {i2}
MCFlagged == {i3}

\* The same table with every constant int32: ReloadConstantBlobs keeps all
\* of them on the CPU and converts none, so Init and reloads return.
MCInt32ConstsAll == MCConsts

=============================================================================
