--------------------------- MODULE MCAtlasNetwork ---------------------------
(* Small instances of AtlasNetwork for TLC.                                *)
EXTENDS AtlasNetwork, TLC

CONSTANTS n1, n2

MCNets == {n1, n2}

\* Instances are interchangeable model values.
MCSymmetry == Permutations(MCNets)

=============================================================================
