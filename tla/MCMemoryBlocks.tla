--------------------------- MODULE MCMemoryBlocks ---------------------------
(* Instances of MemoryBlocks for TLC.  Blocks, variables and threads are     *)
(* interchangeable: nothing in the specification orders them.                *)
EXTENDS MemoryBlocks, TLC

Symmetry == Permutations(Block) \cup Permutations(Var) \cup Permutations(Thread)
=============================================================================
