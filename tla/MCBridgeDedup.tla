--------------------------- MODULE MCBridgeDedup ---------------------------
(* The dedup filter with named pairs and feeders, which are alike.         *)
EXTENDS BridgeDedup, TLC
CONSTANTS a, b, c, f, g
Symmetry == Permutations(Pairs) \cup Permutations(Feeders)
=============================================================================
