-------------------------- MODULE MCCKernelBuilder --------------------------
(* Small instances of CKernelBuilder for TLC. *)
EXTENDS CKernelBuilder, TLC

\* No definition tells one builder from another.
BuilderSymmetry == Permutations(Builders)
=============================================================================
