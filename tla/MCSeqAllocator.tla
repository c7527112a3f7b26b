--------------------------- MODULE MCSeqAllocator ---------------------------
(* Model-checking instance of SeqAllocator: the 0xFFFF0000 threshold is   *)
(* scaled down so that the wrap zone is reached within a handful of calls *)
(* and crossed more than once.                                            *)
EXTENDS SeqAllocator, TLC

CONSTANTS a1, a2, a3

MCAllocators == {a1, a2, a3}
MCAllocatorsTwo == {a1, a2}

MCSymmetry == Permutations(MCAllocators)
=============================================================================
