------------------------ MODULE MCKernelObjectCache ------------------------
(* An instance of KernelObjectCache for TLC. Calls and contents are         *)
(* interchangeable.                                                         *)
EXTENDS KernelObjectCache, TLC

Symmetry == Permutations(Calls) \cup Permutations(Contents)
=============================================================================
