----------------------------- MODULE Allocator -----------------------------
(***************************************************************************)
(* What a memory block with a POD allocator API promises its user          *)
(* (memory_block_pod_allocator_api in memory_block.hpp): a sequence of     *)
(* byte buffers that nobody else's calls ever change.                      *)
(***************************************************************************)
EXTENDS Integers, Sequences

CONSTANT ZeroInit    \* are new bytes zero (zeroinit_memory_block)?

VARIABLE objs        \* objs[i]: the bytes of the i-th buffer handed out

Zero == 0

Init == objs = <<>>

OthersKept(I) == \A i \in DOMAIN objs \ I : objs'[i] = objs[i]

\* The bytes of buffer i from the n-th on are fresh.
Fresh(i, n) == ZeroInit => \A k \in DOMAIN objs'[i] : k > n => objs'[i][k] = Zero

Allocate ==
    /\ Len(objs') = Len(objs) + 1
    /\ OthersKept({})
    /\ Fresh(Len(objs'), 0)

Resize(i) ==
    /\ Len(objs') = Len(objs)
    /\ OthersKept({i})
    /\ \A k \in DOMAIN objs[i] \cap DOMAIN objs'[i] : objs'[i][k] = objs[i][k]
    /\ Fresh(i, Len(objs[i]))

Write(i) ==
    /\ Len(objs') = Len(objs)
    /\ OthersKept({i})
    /\ Len(objs'[i]) = Len(objs[i])

Reset == objs' = <<>>

Next == Allocate \/ Reset \/ \E i \in DOMAIN objs : Resize(i) \/ Write(i)

Spec == Init /\ [][Next]_objs
=============================================================================
