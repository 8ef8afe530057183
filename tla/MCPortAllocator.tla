--------------------------- MODULE MCPortAllocator ---------------------------
(* Three wrappers over a range of four ports.                              *)
EXTENDS PortAllocator, TLC

CONSTANTS w1, w2, w3

WrapperDef == {w1, w2, w3}

Symmetric == Permutations(WrapperDef)

=============================================================================
