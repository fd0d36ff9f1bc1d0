----------------------------- MODULE MCRefCount -----------------------------
(* RefCount with the fields of two kinds of holder: variables and two fields *)
(* per block.                                                                *)
EXTENDS RefCount, TLC

CONSTANT Var

MCField == {"meta", "data"}
MCSlot  == Var \cup (Block \X MCField)
MCOwner == [s \in MCSlot |-> IF s \in Var THEN NULL ELSE s[1]]

Symmetry == Permutations(Block) \cup Permutations(Var) \cup Permutations(Thread)
=============================================================================
