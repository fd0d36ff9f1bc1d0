--------------------------- MODULE PodMemoryBlock ---------------------------
(***************************************************************************)
(* The growing blocks strings, bytes and var dims keep their data in:      *)
(* pod_memory_block.cpp and, with ZeroInit, zeroinit_memory_block.cpp,     *)
(* which differ only in the bytes a call clears.                           *)
(*                                                                         *)
(* Memory is handed out from the current chunk; when it is used up a new   *)
(* one is malloc'ed and the rest of the old one is lost.  A user holds     *)
(* pointer pairs: the ranges.  Addresses are integers, 0 the null pointer. *)
(***************************************************************************)
EXTENDS Integers, Sequences, SequencesExt

CONSTANTS
    Bases,            \* where malloc may place a chunk
    Top,              \* no chunk reaches past this address
    Sizes, Aligns,    \* what users ask for
    InitialCapacity,  \* initial_capacity_bytes
    MaxRanges,        \* bound on the ranges alive at the same time
    MinTotal,         \* bound on how low failed allocations take the total
    ZeroInit,         \* zeroinit_memory_block or pod_memory_block?
    MallocMayFail,
    ResetAfterFailure \* is reset called on a block whose last malloc failed?

ASSUME PodMemoryBlockAssumption ==
    /\ Bases \subseteq Nat \ {0} /\ Top \in Nat
    /\ Sizes \subseteq Nat /\ Aligns \subseteq Nat \ {0}
    /\ \A base \in Bases, a \in Aligns : base % a = 0
    /\ InitialCapacity \in Nat /\ MaxRanges \in Nat /\ MinTotal \in Int
    /\ {ZeroInit, MallocMayFail, ResetAfterFailure} \subseteq BOOLEAN

VARIABLES
    begin, current, end,   \* m_memory_begin, m_memory_current, m_memory_end
    total,                 \* m_total_allocated_capacity
    handles,               \* m_memory_handles: the chunks, with their capacities
    ranges,                \* the pointer pairs held by users, in order of allocation
    mem                    \* the bytes of the address space

vars == <<begin, current, end, total, handles, ranges, mem>>

NULL == 0
Zero == 0
Junk == -1      \* any byte, not known to be zero: what a byte no range owns holds

Alive == handles # <<>>
Larger(a, b) == IF a > b THEN a ELSE b
\* Mutant: allocate hands out memory without aligning it.
AlignUpNothing(x, a) == x

AlignUp(x, a) == x + ((a - (x % a)) % a)

AllJunk == [a \in 0..Top |-> Junk]
Fill(b, e, v) == [a \in 0..Top |-> IF b <= a /\ a < e THEN v ELSE mem[a]]

\* malloc: memory of cap bytes that no other chunk touches; chunks are never
\* adjacent, the system keeps its own data between them.
Malloc(base, cap) ==
    /\ base \in Bases /\ base + cap <= Top
    /\ \A i \in DOMAIN handles :
          base + cap < handles[i].base \/ handles[i].base + handles[i].cap < base

\* append_memory, when malloc succeeds and when it fails.
AppendMemory(base, cap) ==
    /\ Malloc(base, cap)
    /\ handles' = Append(handles, [base |-> base, cap |-> cap])
    /\ begin' = base
    /\ end' = base + cap

AppendMemoryFails ==
    /\ MallocMayFail
    /\ begin' = NULL
    /\ UNCHANGED <<current, end, handles, ranges, mem>>

Init ==
    /\ begin = NULL /\ current = NULL /\ end = NULL
    /\ total = 0
    /\ handles = <<>> /\ ranges = <<>>
    /\ mem = AllJunk

-----------------------------------------------------------------------------
\* make_pod_memory_block.
Make ==
    /\ ~Alive
    /\ \E base \in Bases : AppendMemory(base, InitialCapacity) /\ current' = base
    /\ total' = InitialCapacity
    /\ UNCHANGED <<ranges, mem>>

\* Mutant: allocate returns memory zeroinit_memory_block should have cleared.
HandOutUncleared(b, size, align) ==
    /\ current' = b + size
    /\ ranges' = Append(ranges, [b |-> b, e |-> b + size, align |-> align])
    /\ UNCHANGED mem

\* The range [b, b + size) is handed out: current moves past it.
HandOut(b, size, align) ==
    /\ current' = b + size
    /\ ranges' = Append(ranges, [b |-> b, e |-> b + size, align |-> align])
    /\ mem' = IF ZeroInit THEN Fill(b, b + size, Zero) ELSE mem

AllocateFits(size, align) ==
    LET b == AlignUp(current, align) IN
    /\ Alive /\ Len(ranges) < MaxRanges
    /\ b + size <= end
    /\ HandOut(b, size, align)
    /\ UNCHANGED <<begin, end, total, handles>>

AllocateGrows(size, align) ==
    LET used == total - (end - current)
        cap == Larger(used, size)
    IN  /\ Alive /\ Len(ranges) < MaxRanges
        /\ AlignUp(current, align) + size > end
        /\ \E base \in Bases :
              /\ AppendMemory(base, cap)
              /\ HandOut(base, size, align)
        /\ total' = used + cap

AllocateFails(size, align) ==
    /\ Alive /\ Len(ranges) < MaxRanges
    /\ AlignUp(current, align) + size > end
    /\ AppendMemoryFails
    /\ total' = total - (end - current)
    /\ total' >= MinTotal

\* Mutant: resize in place forgets to move current.
ResizeInPlaceStale(i, size) ==
    LET r == ranges[i] IN
    /\ r.e = current /\ r.b + size <= end
    /\ ranges' = [ranges EXCEPT ![i].e = r.b + size]
    /\ UNCHANGED <<begin, current, end, total, handles, mem>>

\* resize throws, changing nothing, when the range does not end at current.
ResizeInPlace(i, size) ==
    LET r == ranges[i] IN
    /\ r.e = current /\ r.b + size <= end
    /\ current' = r.b + size
    /\ ranges' = [ranges EXCEPT ![i].e = r.b + size]
    /\ mem' = CASE r.b + size < r.e -> Fill(r.b + size, r.e, Junk)
                [] ZeroInit -> Fill(r.e, r.b + size, Zero)
                [] OTHER -> mem
    /\ UNCHANGED <<begin, end, total, handles>>

\* Mutant: resize moves a range but not what is in it.
ResizeMovesEmpty(i, size) ==
    LET cap == Larger(total, size) IN
    /\ ranges[i].e = current /\ ranges[i].b + size > end
    /\ \E base \in Bases :
          /\ AppendMemory(base, cap)
          /\ current' = base + size
          /\ ranges' = [ranges EXCEPT ![i].b = base, ![i].e = base + size]
    /\ total' = total + cap - (ranges[i].e - ranges[i].b)
    /\ UNCHANGED mem

ResizeMoves(i, size) ==
    LET r == ranges[i]
        old == r.e - r.b
        cap == Larger(total, size)
    IN  /\ r.e = current /\ r.b + size > end
        /\ \E base \in Bases :
              /\ AppendMemory(base, cap)
              /\ current' = base + size
              /\ ranges' = [ranges EXCEPT ![i].b = base, ![i].e = base + size]
              /\ mem' = [a \in 0..Top |->
                            CASE base <= a /\ a < base + old -> mem[r.b + (a - base)]
                              [] base + old <= a /\ a < base + size /\ ZeroInit -> Zero
                              [] r.b <= a /\ a < r.e -> Junk
                              [] OTHER -> mem[a]]
        /\ total' = total + cap - old

ResizeFails(i, size) ==
    /\ ranges[i].e = current /\ ranges[i].b + size > end
    /\ AppendMemoryFails
    /\ UNCHANGED total

Finalize ==
    /\ Alive
    /\ total' = IF current < end THEN total - (end - current) ELSE total
    /\ begin' = NULL /\ current' = NULL /\ end' = NULL
    /\ UNCHANGED <<handles, ranges, mem>>

\* reset: all chunks but the last are freed, the ranges are given up.
AfterFailure == begin = NULL /\ end # NULL
Reset ==
    /\ Alive
    /\ AfterFailure => ResetAfterFailure
    /\ handles' = <<Last(handles)>>
    /\ current' = begin
    /\ total' = end - begin
    /\ ranges' = <<>>
    /\ mem' = AllJunk
    /\ UNCHANGED <<begin, end>>

\* free_pod_memory_block.
Free ==
    /\ Alive
    /\ begin' = NULL /\ current' = NULL /\ end' = NULL
    /\ total' = 0 /\ handles' = <<>> /\ ranges' = <<>>
    /\ mem' = AllJunk

\* The user fills a range it holds.
Write(i) ==
    /\ mem' = Fill(ranges[i].b, ranges[i].e, i)
    /\ UNCHANGED <<begin, current, end, total, handles, ranges>>

Next ==
    \/ Make \/ Finalize \/ Reset \/ Free
    \/ \E size \in Sizes, align \in Aligns :
          AllocateFits(size, align) \/ AllocateGrows(size, align) \/ AllocateFails(size, align)
    \/ \E i \in DOMAIN ranges :
          \/ Write(i)
          \/ \E size \in Sizes :
                ResizeInPlace(i, size) \/ ResizeMoves(i, size) \/ ResizeFails(i, size)

Spec == Init /\ [][Next]_vars

-----------------------------------------------------------------------------
Nonempty(r) == r.b < r.e
Inside(r, c) == c.base <= r.b /\ r.e <= c.base + c.cap

\* allocate and resize hand out memory that is the block's: every range that
\* is not empty lies in one chunk that has not been freed.
RangesInChunks ==
    \A i \in DOMAIN ranges : Nonempty(ranges[i]) =>
        \E k \in DOMAIN handles : Inside(ranges[i], handles[k])

\* Two users never share a byte, whatever was resized, trimmed or moved.
RangesDisjoint ==
    \A i, j \in DOMAIN ranges :
        i # j /\ Nonempty(ranges[i]) /\ Nonempty(ranges[j])
            => ranges[i].e <= ranges[j].b \/ ranges[j].e <= ranges[i].b

\* Memory handed out is the block's and one user's only, through allocations,
\* resizes that move or fail, and mallocs that fail (pod_memory_block.cpp:74-129).
OwnedAndUnshared == RangesInChunks /\ RangesDisjoint

\* A range keeps the alignment it was asked for, also when resize moves it.
RangesAligned == \A i \in DOMAIN ranges : ranges[i].b % ranges[i].align = 0

\* What the users see is the abstract allocator: no call for one range ever
\* changes the bytes of another, resize keeps the bytes, new bytes are zero.
A == INSTANCE Allocator WITH
        objs <- [i \in DOMAIN ranges |->
                    [k \in 1..(ranges[i].e - ranges[i].b) |-> mem[ranges[i].b + k - 1]]]
RefinesAllocator == A!Spec
=============================================================================
