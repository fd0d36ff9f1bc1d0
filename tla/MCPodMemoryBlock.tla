-------------------------- MODULE MCPodMemoryBlock --------------------------
(* Instances of PodMemoryBlock for TLC: an address space of a few bytes.     *)
EXTENDS PodMemoryBlock

MCBases == {8, 24, 44}
MCTop   == 70
=============================================================================
