------------------------ MODULE MCCpuReshapeLayerAcc ------------------------
(* Small graphs around one Reshape layer, for TLC.                         *)
EXTENDS CpuReshapeLayerAcc

\* torch:   input [4, b, 6], shape data [-1, 2b, 3] (the code comment's case)
\* seq:     input [b, 4, 6], shape data [b, -1, 3]
\* flatten: input [b, 2, 3], shape data [b, 6]
\* square:  input [b, 2, b], shape data [b*b, 2]: two dims follow the batch
\* single:  input [b, 2, 3], shape [0, -1] from the model file
MCInputOf(g, b) ==
    CASE g = "torch" -> <<4, b, 6>>
      [] g = "seq" -> <<b, 4, 6>>
      [] g = "square" -> <<b, 2, b>>
      [] OTHER -> <<b, 2, 3>>

MCDataOf(g, b) ==
    CASE g = "torch" -> <<-1, 2 * b, 3>>
      [] g = "seq" -> <<b, -1, 3>>
      [] g = "flatten" -> <<b, 6>>
      [] g = "square" -> <<b * b, 2>>
      [] OTHER -> <<>>

MCHasShapeInput(g) == g # "single"

MCModelShape(g) == IF g = "single" THEN <<0, -1>> ELSE <<>>
=============================================================================
