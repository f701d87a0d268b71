--------------------------- MODULE MCNoiseHandshake ---------------------------
(* NoiseHandshake with two calls that a node may have suspended together.    *)
EXTENDS NoiseHandshake, TLC

CONSTANTS k1, k2

MCSlot == {k1, k2}
MCSymmetry == Permutations(MCSlot)
=============================================================================
