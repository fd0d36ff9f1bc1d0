------------------------ MODULE PodMemoryBlockProofs ------------------------
(***************************************************************************)
(* The memory pod_memory_block and zeroinit_memory_block hand out is their *)
(* own and nobody else's, and behaves as Allocator says, for any address   *)
(* space, sizes and alignments, as long as nobody calls reset on a block   *)
(* whose last malloc failed; it is aligned even then.                      *)
(***************************************************************************)
EXTENDS PodMemoryBlock, SequenceTheorems, TLAPS

Shapes ==
    /\ begin \in Nat /\ current \in Nat /\ end \in Nat /\ total \in Int
    /\ handles \in Seq([base : Bases, cap : Nat])
    /\ ranges \in Seq([b : Nat, e : Nat, align : Aligns])

(* Chunks do not touch.                                                      *)
Apart(c, d) == c.base + c.cap < d.base \/ d.base + d.cap < c.base
ChunksApart == \A i, j \in DOMAIN handles : i # j => Apart(handles[i], handles[j])

(* The three pointers describe the last chunk, or nothing.                   *)
PointersInLast ==
    \/ begin = NULL /\ current = NULL /\ end = NULL
    \/ /\ handles # <<>>
       /\ handles[Len(handles)].base <= current /\ current <= end
       /\ end = handles[Len(handles)].base + handles[Len(handles)].cap
       /\ begin \in {NULL, handles[Len(handles)].base}

(* No range reaches into what is still free of the current chunk.            *)
FreePartIsFree ==
    \A i \in DOMAIN ranges : Nonempty(ranges[i]) => ranges[i].e <= current \/ end <= ranges[i].b

PInv ==
    /\ Shapes /\ ChunksApart /\ PointersInLast /\ FreePartIsFree
    /\ RangesInChunks /\ RangesDisjoint

LEMMA RangeShape ==
    ASSUME Shapes, NEW i \in DOMAIN ranges
    PROVE  /\ ranges[i] \in [b : Nat, e : Nat, align : Aligns]
           /\ ranges[i].b \in Nat /\ ranges[i].e \in Nat
  <1>1. ranges \in Seq([b : Nat, e : Nat, align : Aligns]) /\ i \in 1..Len(ranges)
    BY LenProperties DEF Shapes
  <1>2. ranges[i] \in [b : Nat, e : Nat, align : Aligns]
    BY <1>1, ElementOfSeq
  <1> QED
    BY <1>2

LEMMA ChunkShape ==
    ASSUME Shapes, NEW i \in DOMAIN handles
    PROVE  handles[i].base \in Nat \ {0} /\ handles[i].cap \in Nat
  <1>1. handles \in Seq([base : Bases, cap : Nat]) /\ i \in 1..Len(handles)
    BY LenProperties DEF Shapes
  <1>2. handles[i] \in [base : Bases, cap : Nat]
    BY <1>1, ElementOfSeq
  <1> QED
    BY <1>2, PodMemoryBlockAssumption

(* AlignUp moves an address up, never down.                                  *)
LEMMA AlignUpGrows ==
    ASSUME NEW x \in Nat, NEW a \in Nat \ {0}
    PROVE  AlignUp(x, a) \in Nat /\ AlignUp(x, a) >= x
  BY DEF AlignUp

LEMMA InitPInv == Init => PInv
  BY DEF Init, PInv, Shapes, ChunksApart, PointersInLast, FreePartIsFree,
         RangesInChunks, RangesDisjoint, NULL

(* A new chunk is apart from the memory of every range.                      *)
LEMMA NewChunk ==
    ASSUME PInv, NEW base, NEW cap \in Nat, AppendMemory(base, cap)
    PROVE  /\ handles' \in Seq([base : Bases, cap : Nat])
           /\ Len(handles') = Len(handles) + 1
           /\ handles'[Len(handles) + 1] = [base |-> base, cap |-> cap]
           /\ \A i \in DOMAIN handles : i \in DOMAIN handles' /\ handles'[i] = handles[i]
           /\ ChunksApart'
           /\ base \in Nat \ {0} /\ begin' = base /\ end' = base + cap
           /\ \A i \in DOMAIN ranges : Nonempty(ranges[i]) =>
                  ranges[i].e < base \/ base + cap < ranges[i].b
  <1> DEFINE c == [base |-> base, cap |-> cap]
             n == Len(handles)
  <1> USE DEF AppendMemory, Malloc
  <1>1. base \in Bases /\ base \in Nat \ {0} /\ c \in [base : Bases, cap : Nat]
    BY PodMemoryBlockAssumption
  <1>2. handles \in Seq([base : Bases, cap : Nat]) /\ n \in Nat /\ DOMAIN handles = 1..n
    BY DEF PInv, Shapes
  <1>3. handles' = Append(handles, c)
    OBVIOUS
  <1>4. /\ handles' \in Seq([base : Bases, cap : Nat])
        /\ Len(handles') = n + 1 /\ DOMAIN handles' = 1..(n + 1)
        /\ handles'[n + 1] = c
        /\ \A i \in DOMAIN handles : i \in DOMAIN handles' /\ handles'[i] = handles[i]
    BY <1>1, <1>2, <1>3
  <1>5. \A i \in DOMAIN handles : Apart(handles[i], c)
    BY <1>1, <1>2 DEF Apart
  <1>6. ChunksApart'
    <2> SUFFICES ASSUME NEW i \in DOMAIN handles', NEW j \in DOMAIN handles', i # j
                 PROVE  Apart(handles'[i], handles'[j])
      BY DEF ChunksApart, Apart
    <2>1. i \in DOMAIN handles \/ i = n + 1
      BY <1>2, <1>4
    <2>2. j \in DOMAIN handles \/ j = n + 1
      BY <1>2, <1>4
    <2> QED
      BY <1>4, <1>5, <2>1, <2>2 DEF PInv, ChunksApart, Apart
  <1>7. ASSUME NEW i \in DOMAIN ranges, Nonempty(ranges[i])
        PROVE  ranges[i].e < base \/ base + cap < ranges[i].b
    <2>1. ranges[i].b \in Nat /\ ranges[i].e \in Nat
      BY RangeShape DEF PInv
    <2>2. PICK k \in DOMAIN handles :
              handles[k].base <= ranges[i].b /\ ranges[i].e <= handles[k].base + handles[k].cap
      BY <1>7 DEF PInv, RangesInChunks, Inside, Nonempty
    <2>3. handles[k].base \in Nat /\ handles[k].cap \in Nat
      BY ChunkShape DEF PInv
    <2> QED
      BY <1>1, <1>5, <2>1, <2>2, <2>3 DEF Apart
  <1> QED
    BY <1>1, <1>4, <1>6, <1>7

(* The k-th range is new or has changed, to [b, e); the others are as before. *)
OnlyRangeChanged(k, b, e) ==
    /\ ranges' \in Seq([b : Nat, e : Nat, align : Aligns])
    /\ k \in DOMAIN ranges' /\ ranges'[k].b = b /\ ranges'[k].e = e
    /\ \A i \in DOMAIN ranges' \ {k} : i \in DOMAIN ranges /\ ranges'[i] = ranges[i]

LEMMA OneRangePlaced ==
    ASSUME RangesDisjoint, NEW k, NEW b, NEW e, OnlyRangeChanged(k, b, e),
           \A i \in DOMAIN ranges \ {k} : Nonempty(ranges[i]) /\ b < e =>
               ranges[i].e <= b \/ e <= ranges[i].b
    PROVE  RangesDisjoint'
  <1> SUFFICES ASSUME NEW i \in DOMAIN ranges', NEW j \in DOMAIN ranges', i # j,
                      ranges'[i].b < ranges'[i].e, ranges'[j].b < ranges'[j].e
               PROVE  ranges'[i].e <= ranges'[j].b \/ ranges'[j].e <= ranges'[i].b
    BY DEF RangesDisjoint, Nonempty
  <1> USE DEF OnlyRangeChanged, Nonempty
  <1>1. CASE i = k
    BY <1>1
  <1>2. CASE j = k
    BY <1>2
  <1>3. CASE i # k /\ j # k
    BY <1>3 DEF RangesDisjoint
  <1> QED
    BY <1>1, <1>2, <1>3

(* ranges after allocate appended one.                                       *)
LEMMA RangeAppended ==
    ASSUME Shapes, NEW b \in Nat, NEW e \in Nat, NEW a \in Aligns,
           ranges' = Append(ranges, [b |-> b, e |-> e, align |-> a])
    PROVE  OnlyRangeChanged(Len(ranges) + 1, b, e)
  <1> DEFINE r == [b |-> b, e |-> e, align |-> a]
  <1>1. /\ ranges \in Seq([b : Nat, e : Nat, align : Aligns])
        /\ Len(ranges) \in Nat /\ DOMAIN ranges = 1..Len(ranges)
    BY DEF Shapes
  <1>2. r \in [b : Nat, e : Nat, align : Aligns] /\ r.b = b /\ r.e = e
    OBVIOUS
  <1> HIDE DEF r
  <1>3. /\ ranges' \in Seq([b : Nat, e : Nat, align : Aligns])
        /\ DOMAIN ranges' = 1..(Len(ranges) + 1)
        /\ \A i \in DOMAIN ranges : ranges'[i] = ranges[i]
        /\ ranges'[Len(ranges) + 1] = r
    BY <1>1, <1>2 DEF r
  <1> QED
    BY <1>1, <1>2, <1>3 DEF OnlyRangeChanged
-----------------------------------------------------------------------------
(* The current chunk, when there is one, is the last, and holds every        *)
(* address from its base to end.                                             *)
LEMMA CurrentChunk ==
    ASSUME PInv, NEW b \in Nat, NEW e \in Nat, end # NULL,
           handles[Len(handles)].base <= b, e <= end
    PROVE  \E k \in DOMAIN handles :
              handles[k].base <= b /\ e <= handles[k].base + handles[k].cap
  <1>1. /\ handles # <<>> /\ handles \in Seq([base : Bases, cap : Nat])
        /\ end = handles[Len(handles)].base + handles[Len(handles)].cap
    BY DEF PInv, PointersInLast, Shapes
  <1>2. Len(handles) \in DOMAIN handles
    BY <1>1, EmptySeq, LenProperties
  <1> QED
    BY <1>1, <1>2

(* The range that ends at current lies in the current chunk.                 *)
LEMMA LatestInLast ==
    ASSUME PInv, NEW i \in DOMAIN ranges, ranges[i].e = current, end # NULL,
           Nonempty(ranges[i])
    PROVE  handles[Len(handles)].base <= ranges[i].b
  <1> DEFINE n == Len(handles)
  <1>1. /\ n \in DOMAIN handles
        /\ handles[n].base <= current /\ current <= handles[n].base + handles[n].cap
    <2>1. handles # <<>> /\ handles \in Seq([base : Bases, cap : Nat])
      BY DEF PInv, PointersInLast, Shapes
    <2>2. n \in DOMAIN handles
      BY <2>1, EmptySeq, LenProperties
    <2> QED
      BY <2>2 DEF PInv, PointersInLast
  <1>2. PICK k \in DOMAIN handles :
            handles[k].base <= ranges[i].b /\ ranges[i].e <= handles[k].base + handles[k].cap
    BY DEF PInv, RangesInChunks, Inside
  <1>3. /\ handles[k].base \in Nat /\ handles[k].cap \in Nat
        /\ handles[n].base \in Nat /\ handles[n].cap \in Nat
        /\ ranges[i].b \in Nat /\ ranges[i].e \in Nat
    BY <1>1, ChunkShape, RangeShape DEF PInv
  <1>4. k # n => Apart(handles[k], handles[n])
    BY <1>1 DEF PInv, ChunksApart
  <1>5. k = n
    BY <1>1, <1>2, <1>3, <1>4 DEF Apart, Nonempty
  <1> QED
    BY <1>2, <1>5

LEMMA MakeStep ==
    ASSUME PInv, Make
    PROVE  PInv'
  <1>1. PICK base \in Bases : AppendMemory(base, InitialCapacity) /\ current' = base
    BY DEF Make
  <1>2. /\ handles = <<>> /\ Len(handles) = 0 /\ ranges' = ranges
        /\ total' = InitialCapacity
    BY DEF Make, Alive
  <1>3. /\ handles' \in Seq([base : Bases, cap : Nat]) /\ Len(handles') = 1
        /\ handles'[1] = [base |-> base, cap |-> InitialCapacity]
        /\ ChunksApart'
        /\ base \in Nat \ {0} /\ begin' = base /\ end' = base + InitialCapacity
    <2>1. InitialCapacity \in Nat
      BY PodMemoryBlockAssumption
    <2> HIDE DEF PInv
    <2>2. /\ handles' \in Seq([base : Bases, cap : Nat]) /\ Len(handles') = Len(handles) + 1
          /\ handles'[Len(handles) + 1] = [base |-> base, cap |-> InitialCapacity]
          /\ ChunksApart'
          /\ base \in Nat \ {0} /\ begin' = base /\ end' = base + InitialCapacity
      BY <1>1, <2>1, NewChunk, Zenon
    <2> QED
      BY <1>2, <2>2
  <1>4. \A i \in DOMAIN ranges : ~Nonempty(ranges[i])
    BY <1>2 DEF PInv, RangesInChunks, Inside
  <1>5. Shapes'
    BY <1>1, <1>2, <1>3, PodMemoryBlockAssumption DEF PInv, Shapes
  <1>6. PointersInLast'
    BY <1>1, <1>3, PodMemoryBlockAssumption DEF PointersInLast
  <1>7. FreePartIsFree' /\ RangesInChunks' /\ RangesDisjoint'
    BY <1>2, <1>4 DEF FreePartIsFree, RangesInChunks, RangesDisjoint, Nonempty
  <1> QED
    BY <1>3, <1>5, <1>6, <1>7 DEF PInv

LEMMA AllocateFitsStep ==
    ASSUME PInv, NEW size \in Sizes, NEW align \in Aligns, AllocateFits(size, align)
    PROVE  PInv'
  <1> DEFINE b == AlignUp(current, align)
             r == [b |-> b, e |-> b + size, align |-> align]
             k == Len(ranges) + 1
  <1>1. /\ size \in Nat /\ align \in Nat \ {0} /\ current \in Nat /\ end \in Nat
        /\ b \in Nat /\ b >= current
    BY AlignUpGrows, PodMemoryBlockAssumption DEF PInv, Shapes
  <1>2. /\ b + size <= end /\ current' = b + size /\ ranges' = Append(ranges, r)
        /\ begin' = begin /\ end' = end /\ handles' = handles /\ total' = total
    BY DEF AllocateFits, HandOut
  <1> HIDE DEF b
  <1>3. OnlyRangeChanged(k, b, b + size)
    BY <1>1, <1>2, RangeAppended DEF PInv
  <1>4. /\ ranges' \in Seq([b : Nat, e : Nat, align : Aligns])
        /\ k \in DOMAIN ranges' /\ ranges'[k].b = b /\ ranges'[k].e = b + size
        /\ \A i \in DOMAIN ranges' \ {k} : i \in DOMAIN ranges /\ ranges'[i] = ranges[i]
    BY <1>3 DEF OnlyRangeChanged
  <1>5. Shapes'
    BY <1>1, <1>2, <1>4 DEF PInv, Shapes
  <1>6. ChunksApart'
    BY <1>2 DEF PInv, ChunksApart, Apart
  <1>7. PointersInLast'
    <2>1. CASE end = NULL
      BY <1>1, <1>2, <2>1 DEF PInv, PointersInLast, NULL
    <2>2. CASE end # NULL
      <3>1. handles # <<>> /\ handles[Len(handles)].base \in Nat
        <4>1. handles # <<>> /\ handles \in Seq([base : Bases, cap : Nat])
          BY <2>2 DEF PInv, PointersInLast, Shapes
        <4>2. Len(handles) \in DOMAIN handles
          BY <4>1, EmptySeq, LenProperties
        <4> QED
          BY <4>1, <4>2, ChunkShape DEF PInv
      <3> QED
        BY <1>1, <1>2, <2>2, <3>1 DEF PInv, PointersInLast
    <2> QED
      BY <2>1, <2>2
  <1>8. ASSUME NEW i \in DOMAIN ranges, Nonempty(ranges[i])
        PROVE  ranges[i].e <= b \/ b + size <= ranges[i].b
    BY <1>1, <1>2, <1>8, RangeShape DEF PInv, FreePartIsFree
  <1>9. FreePartIsFree'
    <2> SUFFICES ASSUME NEW i \in DOMAIN ranges', Nonempty(ranges'[i])
                 PROVE  ranges'[i].e <= current' \/ end' <= ranges'[i].b
      BY DEF FreePartIsFree, Nonempty
    <2>1. CASE i = k
      BY <1>1, <1>2, <1>4, <2>1
    <2>2. CASE i # k
      <3>1. i \in DOMAIN ranges /\ ranges'[i] = ranges[i] /\ ranges[i].e \in Nat
        BY <1>4, <2>2, RangeShape DEF PInv
      <3>2. ranges[i].e <= current \/ end <= ranges[i].b
        BY <3>1 DEF PInv, FreePartIsFree
      <3> QED
        BY <1>1, <1>2, <3>1, <3>2
    <2> QED
      BY <2>1, <2>2
  <1>10. RangesInChunks'
    <2> SUFFICES ASSUME NEW i \in DOMAIN ranges', Nonempty(ranges'[i])
                 PROVE  \E m \in DOMAIN handles' : Inside(ranges'[i], handles'[m])
      BY DEF RangesInChunks, Nonempty, Inside
    <2>1. CASE i = k
      <3>1. end # NULL /\ handles # <<>> /\ handles[Len(handles)].base <= current
        BY <1>1, <1>2, <1>4, <2>1 DEF PInv, PointersInLast, Nonempty, NULL
      <3>2. handles[Len(handles)].base \in Nat
        <4>1. handles \in Seq([base : Bases, cap : Nat])
          BY DEF PInv, Shapes
        <4>2. Len(handles) \in DOMAIN handles
          BY <3>1, <4>1, EmptySeq, LenProperties
        <4> QED
          BY <4>2, ChunkShape DEF PInv
      <3>3. handles[Len(handles)].base <= b
        BY <1>1, <3>1, <3>2
      <3>4. b + size \in Nat
        BY <1>1
      <3>5. \E m \in DOMAIN handles :
                handles[m].base <= b /\ b + size <= handles[m].base + handles[m].cap
        BY <1>1, <1>2, <3>1, <3>3, <3>4, CurrentChunk
      <3> QED
        BY <1>2, <1>4, <2>1, <3>5 DEF Inside
    <2>2. CASE i # k
      BY <1>2, <1>4, <2>2 DEF PInv, RangesInChunks, Inside, Nonempty
    <2> QED
      BY <2>1, <2>2
  <1>11. RangesDisjoint'
    BY <1>3, <1>8, OneRangePlaced DEF PInv
  <1> QED
    BY <1>5, <1>6, <1>7, <1>9, <1>10, <1>11 DEF PInv

(* allocate and resize when they need a new chunk: the k-th range is at its  *)
(* start, the others are where they were.                                    *)
LEMMA PlacedInNewChunk ==
    ASSUME PInv, NEW base, NEW cap \in Nat, NEW size \in Nat, size <= cap,
           AppendMemory(base, cap), current' = base + size, total' \in Int,
           NEW k, OnlyRangeChanged(k, base, base + size)
    PROVE  PInv'
  <1> DEFINE n == Len(handles) + 1
  <1>1. /\ handles' \in Seq([base : Bases, cap : Nat])
        /\ Len(handles') = n /\ handles'[n] = [base |-> base, cap |-> cap]
        /\ \A i \in DOMAIN handles : i \in DOMAIN handles' /\ handles'[i] = handles[i]
        /\ ChunksApart'
        /\ base \in Nat \ {0} /\ begin' = base /\ end' = base + cap
        /\ \A i \in DOMAIN ranges : Nonempty(ranges[i]) =>
               ranges[i].e < base \/ base + cap < ranges[i].b
    <2> HIDE DEF PInv
    <2> QED
      BY NewChunk, Zenon
  <1>2. n \in DOMAIN handles' /\ handles' # <<>>
    BY <1>1, EmptySeq, LenProperties DEF PInv, Shapes
  <1>3. Shapes'
    <2>1. begin' \in Nat /\ current' \in Nat /\ end' \in Nat
      <3>1. base \in Nat /\ begin' = base /\ end' = base + cap
        BY <1>1
      <3> QED
        BY <3>1
    <2>2. handles' \in Seq([base : Bases, cap : Nat])
      BY <1>1
    <2> QED
      BY <2>1, <2>2 DEF Shapes, OnlyRangeChanged
  <1>4. PointersInLast'
    <2>1. handles'[Len(handles')].base = base /\ handles'[Len(handles')].cap = cap
      BY <1>1
    <2>2. base <= base + size /\ base + size <= base + cap
      BY <1>1
    <2> QED
      BY <1>1, <1>2, <2>1, <2>2 DEF PointersInLast
  <1>5. ASSUME NEW i \in DOMAIN ranges', i # k, ranges'[i].b < ranges'[i].e
        PROVE  /\ i \in DOMAIN ranges /\ ranges'[i] = ranges[i] /\ Nonempty(ranges[i])
               /\ ranges[i].b \in Nat /\ ranges[i].e \in Nat
               /\ ranges[i].e < base \/ base + cap < ranges[i].b
    BY <1>1, <1>5, RangeShape DEF PInv, Nonempty, OnlyRangeChanged
  <1>6. FreePartIsFree'
    <2> SUFFICES ASSUME NEW i \in DOMAIN ranges', ranges'[i].b < ranges'[i].e
                 PROVE  ranges'[i].e <= current' \/ end' <= ranges'[i].b
      BY DEF FreePartIsFree, Nonempty
    <2>1. CASE i = k
      BY <1>1, <2>1 DEF OnlyRangeChanged
    <2>2. CASE i # k
      <3>1. /\ ranges'[i] = ranges[i] /\ ranges[i].b \in Nat /\ ranges[i].e \in Nat
            /\ ranges[i].e < base \/ base + cap < ranges[i].b
        BY <1>5, <2>2
      <3>2. base \in Nat /\ end' = base + cap
        BY <1>1
      <3> QED
        BY <3>1, <3>2
    <2> QED
      BY <2>1, <2>2
  <1>7. RangesInChunks'
    <2> SUFFICES ASSUME NEW i \in DOMAIN ranges', ranges'[i].b < ranges'[i].e
                 PROVE  \E m \in DOMAIN handles' : Inside(ranges'[i], handles'[m])
      BY DEF RangesInChunks, Nonempty, Inside
    <2>1. CASE i = k
      <3>1. handles'[n].base = base /\ handles'[n].cap = cap /\ base \in Nat
        BY <1>1
      <3>2. ranges'[i].b = base /\ ranges'[i].e = base + size
        BY <2>1 DEF OnlyRangeChanged
      <3>3. base <= base /\ base + size <= base + cap
        BY <3>1
      <3> QED
        BY <1>2, <3>1, <3>2, <3>3 DEF Inside
    <2>2. CASE i # k
      <3>1. i \in DOMAIN ranges /\ ranges'[i] = ranges[i] /\ Nonempty(ranges[i])
        BY <1>5, <2>2
      <3>2. PICK m \in DOMAIN handles : Inside(ranges[i], handles[m])
        BY <3>1 DEF PInv, RangesInChunks
      <3> QED
        BY <1>1, <3>1, <3>2 DEF Inside
    <2> QED
      BY <2>1, <2>2
  <1>8. RangesDisjoint'
    <2>1. ASSUME NEW i \in DOMAIN ranges \ {k}, Nonempty(ranges[i])
          PROVE  ranges[i].e <= base \/ base + size <= ranges[i].b
      BY <1>1, <2>1, RangeShape DEF PInv
    <2> QED
      BY <2>1, OneRangePlaced DEF PInv
  <1> QED
    BY <1>1, <1>3, <1>4, <1>6, <1>7, <1>8 DEF PInv

LEMMA AllocateGrowsStep ==
    ASSUME PInv, NEW size \in Sizes, NEW align \in Aligns, AllocateGrows(size, align)
    PROVE  PInv'
  <1> DEFINE used == total - (end - current)
             cap == Larger(used, size)
             k == Len(ranges) + 1
  <1>1. PICK base \in Bases : AppendMemory(base, cap) /\ HandOut(base, size, align)
    BY DEF AllocateGrows
  <1>2. /\ size \in Nat /\ used \in Int /\ cap \in Nat /\ size <= cap /\ base \in Nat
    BY PodMemoryBlockAssumption DEF PInv, Shapes, Larger
  <1>3. total' \in Int
    BY <1>2 DEF AllocateGrows
  <1>4. current' = base + size
    BY <1>1 DEF HandOut
  <1>5. OnlyRangeChanged(k, base, base + size)
    <2>1. ranges' = Append(ranges, [b |-> base, e |-> base + size, align |-> align])
      BY <1>1 DEF HandOut
    <2> QED
      BY <1>2, <2>1, RangeAppended DEF PInv
  <1> HIDE DEF cap, used, k, PInv
  <1> QED
    BY <1>1, <1>2, <1>3, <1>4, <1>5, PlacedInNewChunk

(* What a call whose malloc failed leaves behind: the same memory, none of   *)
(* it to hand out but what current..end still says.                          *)
LEMMA PointersStep ==
    ASSUME PInv, UNCHANGED <<handles, ranges>>, total' \in Int,
           \/ begin' = NULL /\ UNCHANGED <<current, end>>
           \/ begin' = NULL /\ current' = NULL /\ end' = NULL
    PROVE  PInv'
  <1>1. Shapes'
    BY DEF PInv, Shapes, NULL
  <1>2. ChunksApart' /\ RangesInChunks' /\ RangesDisjoint'
    BY DEF PInv, ChunksApart, Apart, RangesInChunks, RangesDisjoint, Nonempty, Inside
  <1>3. PointersInLast'
    BY DEF PInv, PointersInLast
  <1>4. FreePartIsFree'
    BY RangeShape DEF PInv, FreePartIsFree, Nonempty, NULL
  <1> QED
    BY <1>1, <1>2, <1>3, <1>4 DEF PInv

LEMMA AllocateFailsStep ==
    ASSUME PInv, NEW size, NEW align, AllocateFails(size, align)
    PROVE  PInv'
  <1>1. total' \in Int
    BY DEF AllocateFails, PInv, Shapes
  <1>2. UNCHANGED <<handles, ranges, current, end>> /\ begin' = NULL
    BY DEF AllocateFails, AppendMemoryFails
  <1> QED
    BY <1>1, <1>2, PointersStep

LEMMA ResizeFailsStep ==
    ASSUME PInv, NEW i, NEW size, ResizeFails(i, size)
    PROVE  PInv'
  <1>1. total' \in Int
    BY DEF ResizeFails, PInv, Shapes
  <1>2. UNCHANGED <<handles, ranges, current, end>> /\ begin' = NULL
    BY DEF ResizeFails, AppendMemoryFails
  <1> QED
    BY <1>1, <1>2, PointersStep

LEMMA FinalizeStep == ASSUME PInv, Finalize PROVE PInv'
  <1>1. total' \in Int
    BY DEF Finalize, PInv, Shapes
  <1>2. UNCHANGED <<handles, ranges>> /\ begin' = NULL /\ current' = NULL /\ end' = NULL
    BY DEF Finalize
  <1> QED
    BY <1>1, <1>2, PointersStep

(* One element of a sequence replaced.                                       *)
LEMMA ElementReplaced ==
    ASSUME NEW S, NEW s \in Seq(S), NEW i \in DOMAIN s, NEW r \in S
    PROVE  /\ [s EXCEPT ![i] = r] \in Seq(S)
           /\ DOMAIN [s EXCEPT ![i] = r] = DOMAIN s
           /\ [s EXCEPT ![i] = r][i] = r
           /\ \A j \in DOMAIN s \ {i} : [s EXCEPT ![i] = r][j] = s[j]
  <1>1. i \in 1..Len(s) /\ DOMAIN s = 1..Len(s)
    BY LenProperties
  <1>2. [s EXCEPT ![i] = r] \in Seq(S)
    BY <1>1, ExceptSeq
  <1> QED
    BY <1>2

(* The ranges after resize changed the i-th.                                 *)
LEMMA RangeResized ==
    ASSUME Shapes, NEW i \in DOMAIN ranges, NEW r \in [b : Nat, e : Nat, align : Aligns],
           ranges' = [ranges EXCEPT ![i] = r]
    PROVE  OnlyRangeChanged(i, r.b, r.e)
  <1> DEFINE R == [b : Nat, e : Nat, align : Aligns]
  <1>1. ranges \in Seq(R) /\ r \in R
    BY DEF Shapes
  <1> HIDE DEF R
  <1>2. /\ ranges' \in Seq(R) /\ DOMAIN ranges' = DOMAIN ranges /\ ranges'[i] = r
        /\ \A j \in DOMAIN ranges \ {i} : ranges'[j] = ranges[j]
    BY <1>1, ElementReplaced
  <1> QED
    BY <1>2 DEF R, OnlyRangeChanged

(* The same, for the pair of pointers resize writes.                         *)
LEMMA PointersWritten ==
    ASSUME Shapes, NEW i \in DOMAIN ranges, NEW b \in Nat, NEW e \in Nat,
           \/ ranges' = [ranges EXCEPT ![i].b = b, ![i].e = e]
           \/ b = ranges[i].b /\ ranges' = [ranges EXCEPT ![i].e = e]
    PROVE  OnlyRangeChanged(i, b, e) /\ ranges'[i].align = ranges[i].align
  <1> DEFINE r == [b |-> b, e |-> e, align |-> ranges[i].align]
  <1>1. ranges[i] \in [b : Nat, e : Nat, align : Aligns]
    BY RangeShape
  <1>2. r \in [b : Nat, e : Nat, align : Aligns]
    BY <1>1
  <1>3. ranges' = [ranges EXCEPT ![i] = r]
    BY <1>1
  <1>4. ranges'[i].align = ranges[i].align
    BY <1>3 DEF Shapes
  <1> QED
    BY <1>2, <1>3, <1>4, RangeResized

LEMMA ResizeMovesStep ==
    ASSUME PInv, NEW i \in DOMAIN ranges, NEW size \in Sizes, ResizeMoves(i, size)
    PROVE  PInv'
  <1> DEFINE cap == Larger(total, size)
  <1>1. PICK base \in Bases :
            /\ AppendMemory(base, cap) /\ current' = base + size
            /\ ranges' = [ranges EXCEPT ![i].b = base, ![i].e = base + size]
    BY DEF ResizeMoves
  <1>2. size \in Nat /\ cap \in Nat /\ size <= cap /\ base \in Nat /\ base + size \in Nat
    BY PodMemoryBlockAssumption DEF PInv, Shapes, Larger
  <1>3. total' \in Int
    <2>1. ranges[i].b \in Nat /\ ranges[i].e \in Nat /\ total \in Int
      BY RangeShape DEF PInv, Shapes
    <2>2. total' = total + cap - (ranges[i].e - ranges[i].b)
      BY DEF ResizeMoves
    <2> QED
      BY <1>2, <2>1, <2>2
  <1>4. OnlyRangeChanged(i, base, base + size)
    BY <1>1, <1>2, PointersWritten DEF PInv
  <1>5. AppendMemory(base, cap) /\ current' = base + size
    BY <1>1
  <1> HIDE DEF cap, PInv
  <1> QED
    BY <1>2, <1>3, <1>4, <1>5, PlacedInNewChunk

LEMMA ResizeInPlaceStep ==
    ASSUME PInv, NEW i \in DOMAIN ranges, NEW size \in Sizes, ResizeInPlace(i, size)
    PROVE  PInv'
  <1> DEFINE b == ranges[i].b
             e == b + size
  <1>1. /\ size \in Nat /\ b \in Nat /\ e \in Nat /\ b <= e
        /\ current \in Nat /\ end \in Nat /\ ranges[i].e = current /\ e <= end
    <2>1. size \in Nat
      BY PodMemoryBlockAssumption
    <2>2. b \in Nat
      BY RangeShape DEF PInv
    <2>3. current \in Nat /\ end \in Nat
      BY DEF PInv, Shapes
    <2>4. ranges[i].e = current /\ e <= end
      BY DEF ResizeInPlace
    <2> QED
      BY <2>1, <2>2, <2>3, <2>4
  <1>2. /\ ranges' = [ranges EXCEPT ![i].e = e] /\ current' = e
        /\ begin' = begin /\ end' = end /\ total' = total /\ handles' = handles
    BY DEF ResizeInPlace
  <1>3. OnlyRangeChanged(i, b, e)
    BY <1>1, <1>2, PointersWritten DEF PInv
  <1> HIDE DEF e
  <1>4. end # NULL => /\ handles # <<>> /\ handles[Len(handles)].base \in Nat
                      /\ handles[Len(handles)].base <= b
    <2> SUFFICES ASSUME end # NULL
                 PROVE  /\ handles # <<>> /\ handles[Len(handles)].base \in Nat
                        /\ handles[Len(handles)].base <= b
      OBVIOUS
    <2>1. /\ handles # <<>> /\ handles \in Seq([base : Bases, cap : Nat])
          /\ handles[Len(handles)].base <= current
      BY DEF PInv, PointersInLast, Shapes
    <2>2. Len(handles) \in DOMAIN handles
      BY <2>1, EmptySeq, LenProperties
    <2>3. handles[Len(handles)].base \in Nat
      BY <2>2, ChunkShape DEF PInv
    <2>4. CASE b < current
      BY <1>1, <2>1, <2>3, <2>4, LatestInLast DEF Nonempty
    <2>5. CASE ~(b < current)
      BY <1>1, <2>1, <2>3, <2>5
    <2> QED
      BY <2>4, <2>5
  <1>5. Shapes'
    BY <1>1, <1>2, <1>3 DEF PInv, Shapes, OnlyRangeChanged
  <1>6. ChunksApart'
    BY <1>2 DEF PInv, ChunksApart, Apart
  <1>7. PointersInLast'
    <2>1. CASE end = NULL
      BY <1>1, <1>2, <2>1 DEF PInv, PointersInLast, NULL
    <2>2. CASE end # NULL
      BY <1>1, <1>2, <1>4, <2>2 DEF PInv, PointersInLast
    <2> QED
      BY <2>1, <2>2
  <1>8. ASSUME NEW j \in DOMAIN ranges \ {i}, Nonempty(ranges[j])
        PROVE  /\ ranges[j].e <= e \/ end <= ranges[j].b
               /\ b < e => ranges[j].e <= b \/ e <= ranges[j].b
    <2>1. ranges[j].b \in Nat /\ ranges[j].e \in Nat /\ ranges[j].b < ranges[j].e
      BY <1>8, RangeShape DEF PInv, Nonempty
    <2>2. ranges[j].e <= current \/ end <= ranges[j].b
      BY <1>8 DEF PInv, FreePartIsFree
    <2>3. b < current => ranges[j].e <= b \/ current <= ranges[j].b
      BY <1>1, <1>8 DEF PInv, RangesDisjoint, Nonempty
    <2> QED
      BY <1>1, <2>1, <2>2, <2>3
  <1>9. FreePartIsFree'
    <2> SUFFICES ASSUME NEW j \in DOMAIN ranges', ranges'[j].b < ranges'[j].e
                 PROVE  ranges'[j].e <= current' \/ end' <= ranges'[j].b
      BY DEF FreePartIsFree, Nonempty
    <2>1. CASE j = i
      BY <1>1, <1>2, <1>3, <2>1 DEF OnlyRangeChanged
    <2>2. CASE j # i
      BY <1>2, <1>3, <1>8, <2>2 DEF OnlyRangeChanged, Nonempty
    <2> QED
      BY <2>1, <2>2
  <1>10. RangesInChunks'
    <2> SUFFICES ASSUME NEW j \in DOMAIN ranges', ranges'[j].b < ranges'[j].e
                 PROVE  \E m \in DOMAIN handles' : Inside(ranges'[j], handles'[m])
      BY DEF RangesInChunks, Nonempty, Inside
    <2>1. CASE j = i
      <3>1. ranges'[j].b = b /\ ranges'[j].e = e
        BY <1>3, <2>1 DEF OnlyRangeChanged
      <3>2. end # NULL
        BY <1>1, <3>1 DEF NULL
      <3>3. \E m \in DOMAIN handles :
                handles[m].base <= b /\ e <= handles[m].base + handles[m].cap
        BY <1>1, <1>4, <3>2, CurrentChunk
      <3> QED
        BY <1>2, <3>1, <3>3 DEF Inside
    <2>2. CASE j # i
      BY <1>2, <1>3, <2>2 DEF PInv, RangesInChunks, Inside, Nonempty, OnlyRangeChanged
    <2> QED
      BY <2>1, <2>2
  <1>11. RangesDisjoint'
    BY <1>3, <1>8, OneRangePlaced DEF PInv
  <1> QED
    BY <1>5, <1>6, <1>7, <1>9, <1>10, <1>11 DEF PInv

LEMMA ResetStep ==
    ASSUME PInv, ~ResetAfterFailure, Reset
    PROVE  PInv'
  <1> DEFINE h == handles[Len(handles)]
  <1>1. /\ handles' = <<h>> /\ ranges' = <<>> /\ current' = begin
        /\ begin' = begin /\ end' = end /\ total' = end - begin
    BY DEF Reset, Last
  <1>2. handles # <<>> /\ (begin # NULL \/ end = NULL)
    BY DEF Reset, Alive, AfterFailure
  <1>3. h \in [base : Bases, cap : Nat]
    <2>1. handles \in Seq([base : Bases, cap : Nat])
      BY DEF PInv, Shapes
    <2>2. Len(handles) \in 1..Len(handles)
      BY <1>2, <2>1, EmptySeq, LenProperties
    <2> QED
      BY <2>1, <2>2, ElementOfSeq
  <1>4. h.base \in Nat \ {0} /\ h.cap \in Nat
    BY <1>3, PodMemoryBlockAssumption
  <1> HIDE DEF h
  <1>5. Len(handles') = 1 /\ handles'[1] = h /\ handles' # <<>> /\ DOMAIN handles' = 1..1
    BY <1>1, <1>3
  <1>6. Shapes'
    <2>1. handles' \in Seq([base : Bases, cap : Nat])
      BY <1>1, <1>3
    <2> QED
      BY <1>1, <2>1 DEF PInv, Shapes
  <1>7. ChunksApart'
    BY <1>5 DEF ChunksApart
  <1>8. PointersInLast'
    <2>1. \/ begin = NULL /\ current = NULL /\ end = NULL
          \/ end = h.base + h.cap /\ begin = h.base
      BY <1>2, <1>4 DEF PInv, PointersInLast, NULL, h
    <2> QED
      BY <1>1, <1>4, <1>5, <2>1 DEF PointersInLast
  <1>9. FreePartIsFree' /\ RangesInChunks' /\ RangesDisjoint'
    BY <1>1 DEF FreePartIsFree, RangesInChunks, RangesDisjoint
  <1> QED
    BY <1>6, <1>7, <1>8, <1>9 DEF PInv

LEMMA FreeStep == ASSUME PInv, Free PROVE PInv'
  BY DEF Free, PInv, Shapes, ChunksApart, PointersInLast, FreePartIsFree,
         RangesInChunks, RangesDisjoint, NULL

(* Writing a range's bytes, or nothing at all.                               *)
LEMMA PointersUnchanged ==
    ASSUME PInv, UNCHANGED <<begin, current, end, total, handles, ranges>>
    PROVE  PInv'
  BY DEF PInv, Shapes, ChunksApart, Apart, PointersInLast, FreePartIsFree,
         RangesInChunks, RangesDisjoint, Nonempty, Inside

LEMMA Inductive == ASSUME ~ResetAfterFailure, PInv, [Next]_vars PROVE PInv'
  <1>1. CASE Make
    BY <1>1, MakeStep
  <1>2. CASE Finalize
    BY <1>2, FinalizeStep
  <1>3. CASE Reset
    BY <1>3, ResetStep
  <1>4. CASE Free
    BY <1>4, FreeStep
  <1>5. ASSUME NEW size \in Sizes, NEW align \in Aligns,
               \/ AllocateFits(size, align) \/ AllocateGrows(size, align)
               \/ AllocateFails(size, align)
        PROVE  PInv'
    BY <1>5, AllocateFitsStep, AllocateGrowsStep, AllocateFailsStep
  <1>6. ASSUME NEW i \in DOMAIN ranges, NEW size \in Sizes,
               ResizeInPlace(i, size) \/ ResizeMoves(i, size) \/ ResizeFails(i, size)
        PROVE  PInv'
    BY <1>6, ResizeInPlaceStep, ResizeMovesStep, ResizeFailsStep
  <1>7. ASSUME NEW i \in DOMAIN ranges, Write(i) PROVE PInv'
    BY <1>7, PointersUnchanged DEF Write
  <1>8. CASE UNCHANGED vars
    BY <1>8, PointersUnchanged DEF vars
  <1> QED
    BY <1>1, <1>2, <1>3, <1>4, <1>5, <1>6, <1>7, <1>8 DEF Next

(* allocate and resize (pod_memory_block.cpp:74-129, zeroinit_memory_block.  *)
(* cpp:74-140) hand out memory of chunks the block still owns, and never the *)
(* same byte to two users, unless reset is called after a failed malloc.     *)
THEOREM MemoryIsOwnedAndUnshared ==
    ASSUME ~ResetAfterFailure
    PROVE  Spec => []OwnedAndUnshared
  <1>1. Init => PInv
    BY InitPInv
  <1>2. PInv /\ [Next]_vars => PInv'
    BY Inductive
  <1>3. PInv => OwnedAndUnshared
    BY DEF PInv, OwnedAndUnshared
  <1> QED
    BY <1>1, <1>2, <1>3, PTL DEF Spec
-----------------------------------------------------------------------------
(* Alignment.                                                                *)

LEMMA AlignUpAligns == ASSUME NEW x \in Nat, NEW a \in Nat \ {0} PROVE AlignUp(x, a) % a = 0
  <1> DEFINE q == x \div a
             r == x % a
  <1>1. q \in Int /\ r \in 0..(a - 1) /\ x = (a * q) + r
    OBVIOUS
  <1> HIDE DEF q, r
  <1>2. CASE r = 0
    <2>1. (a - r) % a = 0
      BY <1>2
    <2>2. AlignUp(x, a) = x
      BY <2>1 DEF AlignUp, r
    <2> QED
      BY <1>2, <2>2 DEF r
  <1>3. CASE r # 0
    <2>1. a - r \in 0..(a - 1)
      BY <1>1, <1>3
    <2>2. (a - r) % a = a - r
      BY <2>1
    <2>3. AlignUp(x, a) = x + (a - r)
      BY <2>2 DEF AlignUp, r
    <2>4. x + (a - r) = (a * q) + a
      BY <1>1
    <2>5. (a * q) + a = a * (q + 1) /\ q + 1 \in Int
      BY <1>1
    <2> QED
      BY <2>3, <2>4, <2>5
  <1> QED
    BY <1>2, <1>3

(* The k-th range is new or has changed, and begins at an aligned address.   *)
LEMMA OneRangeAligned ==
    ASSUME Shapes, RangesAligned, NEW k, NEW b, NEW e, OnlyRangeChanged(k, b, e),
           b % ranges'[k].align = 0
    PROVE  RangesAligned'
  BY DEF RangesAligned, OnlyRangeChanged

LEMMA ChunkAppended ==
    ASSUME Shapes, NEW base, NEW cap \in Nat, AppendMemory(base, cap)
    PROVE  /\ base \in Bases /\ base \in Nat \ {0}
           /\ handles' \in Seq([base : Bases, cap : Nat])
           /\ begin' \in Nat /\ end' \in Nat
  <1>1. base \in Bases /\ base \in Nat \ {0} /\ begin' = base /\ end' = base + cap
    BY PodMemoryBlockAssumption DEF AppendMemory, Malloc
  <1>2. [base |-> base, cap |-> cap] \in [base : Bases, cap : Nat]
    BY <1>1
  <1>3. handles' = Append(handles, [base |-> base, cap |-> cap])
    BY DEF AppendMemory
  <1>4. handles \in Seq([base : Bases, cap : Nat])
    BY DEF Shapes
  <1>5. handles' \in Seq([base : Bases, cap : Nat])
    BY <1>2, <1>3, <1>4, AppendProperties
  <1> QED
    BY <1>1, <1>5

LEMMA AllocateAligned ==
    ASSUME Shapes, RangesAligned, NEW size \in Sizes, NEW align \in Aligns,
           AllocateFits(size, align) \/ AllocateGrows(size, align)
    PROVE  (Shapes /\ RangesAligned)'
  <1> DEFINE n == Len(ranges) + 1
  <1>1. /\ size \in Nat /\ align \in Nat \ {0}
        /\ current \in Nat /\ end \in Nat /\ total \in Int
    BY PodMemoryBlockAssumption DEF Shapes
  <1>2. ASSUME NEW b \in Nat, b % align = 0, HandOut(b, size, align)
        PROVE  /\ ranges' \in Seq([b : Nat, e : Nat, align : Aligns]) /\ RangesAligned'
               /\ current' \in Nat
    <2>1. ranges' = Append(ranges, [b |-> b, e |-> b + size, align |-> align])
          /\ b + size \in Nat /\ current' = b + size
      BY <1>1, <1>2 DEF HandOut
    <2>2. OnlyRangeChanged(n, b, b + size)
      BY <2>1, RangeAppended
    <2>3. ranges'[n].align = align
      BY <2>1 DEF Shapes
    <2> QED
      BY <1>2, <2>1, <2>2, <2>3, OneRangeAligned DEF OnlyRangeChanged
  <1>3. CASE AllocateFits(size, align)
    <2> DEFINE b == AlignUp(current, align)
    <2>1. b \in Nat /\ b % align = 0
      BY <1>1, AlignUpGrows, AlignUpAligns
    <2>2. HandOut(b, size, align) /\ UNCHANGED <<begin, end, total, handles>>
      BY <1>3 DEF AllocateFits
    <2> HIDE DEF b
    <2>3. ranges' \in Seq([b : Nat, e : Nat, align : Aligns]) /\ RangesAligned' /\ current' \in Nat
      BY <1>2, <2>1, <2>2
    <2> QED
      BY <2>2, <2>3 DEF Shapes
  <1>4. CASE AllocateGrows(size, align)
    <2> DEFINE used == total - (end - current)
               cap == Larger(used, size)
    <2>1. PICK base \in Bases : AppendMemory(base, cap) /\ HandOut(base, size, align)
      BY <1>4 DEF AllocateGrows
    <2>2. cap \in Nat
      BY <1>1 DEF Larger
    <2>3. total' = used + cap
      BY <1>4 DEF AllocateGrows
    <2>4. total' \in Int
      BY <1>1, <2>2, <2>3
    <2> HIDE DEF cap
    <2>5. /\ handles' \in Seq([base : Bases, cap : Nat])
          /\ begin' \in Nat /\ end' \in Nat /\ base \in Nat
      BY <2>1, <2>2, ChunkAppended
    <2>6. base % align = 0
      BY PodMemoryBlockAssumption
    <2>7. ranges' \in Seq([b : Nat, e : Nat, align : Aligns]) /\ RangesAligned' /\ current' \in Nat
      BY <1>2, <2>1, <2>5, <2>6
    <2> QED
      BY <2>4, <2>5, <2>7 DEF Shapes
  <1> QED
    BY <1>3, <1>4

LEMMA ResizeAligned ==
    ASSUME Shapes, RangesAligned, NEW i \in DOMAIN ranges, NEW size \in Sizes,
           ResizeInPlace(i, size) \/ ResizeMoves(i, size)
    PROVE  (Shapes /\ RangesAligned)'
  <1>1. /\ size \in Nat /\ ranges[i].b \in Nat /\ ranges[i].e \in Nat
        /\ ranges[i].align \in Aligns /\ total \in Int
        /\ ranges[i].b % ranges[i].align = 0
    BY RangeShape, PodMemoryBlockAssumption DEF Shapes, RangesAligned
  <1>2. ranges \in Seq([b : Nat, e : Nat, align : Aligns])
    BY DEF Shapes
  <1>3. CASE ResizeInPlace(i, size)
    <2> DEFINE b == ranges[i].b
               e == b + size
    <2>1. ranges' = [ranges EXCEPT ![i].e = e] /\ e \in Nat
      BY <1>1, <1>3 DEF ResizeInPlace
    <2>2. OnlyRangeChanged(i, b, e) /\ ranges'[i].align = ranges[i].align
      BY <1>1, <2>1, PointersWritten
    <2>3. RangesAligned'
      BY <1>1, <2>2, OneRangeAligned
    <2> QED
      BY <1>3, <2>1, <2>2, <2>3 DEF Shapes, ResizeInPlace, OnlyRangeChanged
  <1>4. CASE ResizeMoves(i, size)
    <2> DEFINE cap == Larger(total, size)
    <2>1. PICK base \in Bases :
              /\ AppendMemory(base, cap) /\ current' = base + size
              /\ ranges' = [ranges EXCEPT ![i].b = base, ![i].e = base + size]
      BY <1>4 DEF ResizeMoves
    <2>2. cap \in Nat
      BY <1>1 DEF Larger
    <2>3. total' = total + cap - (ranges[i].e - ranges[i].b)
      BY <1>4 DEF ResizeMoves
    <2> HIDE DEF cap
    <2>4. /\ handles' \in Seq([base : Bases, cap : Nat])
          /\ begin' \in Nat /\ end' \in Nat /\ base \in Nat
      BY <2>1, <2>2, ChunkAppended
    <2>5. OnlyRangeChanged(i, base, base + size) /\ ranges'[i].align = ranges[i].align
      <3>1. base + size \in Nat
        BY <1>1, <2>4
      <3> QED
        BY <2>1, <2>4, <3>1, PointersWritten
    <2>6. RangesAligned'
      BY <1>1, <2>5, OneRangeAligned, PodMemoryBlockAssumption
    <2>7. total' \in Int
      BY <1>1, <2>2, <2>3
    <2> QED
      BY <1>1, <2>1, <2>4, <2>5, <2>6, <2>7 DEF Shapes, OnlyRangeChanged
  <1> QED
    BY <1>3, <1>4

LEMMA AlignedStep == ASSUME Shapes, RangesAligned, [Next]_vars PROVE (Shapes /\ RangesAligned)'
  <1>1. CASE Make
    <2>1. PICK base \in Bases : AppendMemory(base, InitialCapacity) /\ current' = base
      BY <1>1 DEF Make
    <2>2. InitialCapacity \in Nat
      BY PodMemoryBlockAssumption
    <2>3. /\ base \in Nat /\ begin' \in Nat /\ end' \in Nat
          /\ handles' \in Seq([base : Bases, cap : Nat])
      BY <2>1, <2>2, ChunkAppended
    <2> QED
      BY <1>1, <2>1, <2>2, <2>3 DEF Make, Shapes, RangesAligned
  <1>2. CASE Finalize
    BY <1>2 DEF Finalize, Shapes, RangesAligned, NULL
  <1>3. CASE Reset
    <2>1. handles # <<>> /\ handles \in Seq([base : Bases, cap : Nat])
      BY <1>3 DEF Reset, Alive, Shapes
    <2>2. Len(handles) \in 1..Len(handles)
      BY <2>1, EmptySeq, LenProperties
    <2>3. Last(handles) \in [base : Bases, cap : Nat]
      BY <2>1, <2>2, ElementOfSeq DEF Last
    <2>4. <<Last(handles)>> \in Seq([base : Bases, cap : Nat])
      BY <2>3
    <2> QED
      BY <1>3, <2>4 DEF Reset, Shapes, RangesAligned
  <1>4. CASE Free
    BY <1>4 DEF Free, Shapes, RangesAligned, NULL
  <1>5. ASSUME NEW size \in Sizes, NEW align \in Aligns, AllocateFails(size, align)
        PROVE  (Shapes /\ RangesAligned)'
    BY <1>5 DEF AllocateFails, AppendMemoryFails, Shapes, RangesAligned, NULL
  <1>6. ASSUME NEW i \in DOMAIN ranges, NEW size \in Sizes, ResizeFails(i, size)
        PROVE  (Shapes /\ RangesAligned)'
    BY <1>6 DEF ResizeFails, AppendMemoryFails, Shapes, RangesAligned, NULL
  <1>7. CASE UNCHANGED <<begin, current, end, total, handles, ranges>>
    BY <1>7 DEF Shapes, RangesAligned
  <1>8. ASSUME NEW i \in DOMAIN ranges, Write(i)
        PROVE  UNCHANGED <<begin, current, end, total, handles, ranges>>
    BY <1>8 DEF Write
  <1>9. CASE UNCHANGED vars
    BY <1>7, <1>9 DEF vars
  <1> QED
    BY <1>1, <1>2, <1>3, <1>4, <1>5, <1>6, <1>7, <1>8, <1>9,
       AllocateAligned, ResizeAligned DEF Next

(* inc_to_alignment in allocate, and the new chunk's start in resize, keep   *)
(* each range aligned as it was asked for, reset after a failed malloc or no *)
(* (pod_memory_block.cpp:74-129).                                            *)
THEOREM MemoryIsAligned == Spec => []RangesAligned
  <1>1. Init => Shapes /\ RangesAligned
    BY DEF Init, Shapes, RangesAligned, NULL
  <1>2. Shapes /\ RangesAligned /\ [Next]_vars => (Shapes /\ RangesAligned)'
    BY AlignedStep
  <1> QED
    BY <1>1, <1>2, PTL DEF Spec
-----------------------------------------------------------------------------
(* What the users see is Allocator.                                          *)

(* The bytes of the i-th range, as Allocator sees them.                      *)
Bytes(i) == [k \in 1..(ranges[i].e - ranges[i].b) |-> mem[ranges[i].b + k - 1]]

(* The chunks lie in the address space.                                      *)
InMemory == \A k \in DOMAIN handles : handles[k].base + handles[k].cap <= Top

LEMMA RangeInMemory ==
    PInv /\ InMemory =>
        \A i \in DOMAIN ranges : \A k \in 1..(ranges[i].e - ranges[i].b) :
            /\ ranges[i].b + k - 1 \in 0..Top
            /\ ranges[i].b <= ranges[i].b + k - 1 /\ ranges[i].b + k - 1 < ranges[i].e
  <1> SUFFICES ASSUME PInv, InMemory, NEW i \in DOMAIN ranges,
                      NEW k \in 1..(ranges[i].e - ranges[i].b)
               PROVE  /\ ranges[i].b + k - 1 \in 0..Top
                      /\ ranges[i].b <= ranges[i].b + k - 1
                      /\ ranges[i].b + k - 1 < ranges[i].e
    OBVIOUS
  <1>1. ranges[i].b \in Nat /\ ranges[i].e \in Nat
    BY RangeShape DEF PInv
  <1>2. Nonempty(ranges[i])
    BY <1>1 DEF Nonempty
  <1>3. PICK m \in DOMAIN handles :
            handles[m].base <= ranges[i].b /\ ranges[i].e <= handles[m].base + handles[m].cap
    BY <1>2 DEF PInv, RangesInChunks, Inside
  <1>4. handles[m].base \in Nat /\ handles[m].cap \in Nat /\ Top \in Nat
    BY ChunkShape, PodMemoryBlockAssumption DEF PInv
  <1> QED
    BY <1>1, <1>2, <1>3, <1>4 DEF InMemory

(* A range keeps its bytes when its pointers stay and the bytes between them. *)
LEMMA SameBytes ==
    ASSUME PInv, InMemory, NEW i \in DOMAIN ranges, ranges'[i] = ranges[i],
           \A a \in 0..Top : ranges[i].b <= a /\ a < ranges[i].e => mem'[a] = mem[a]
    PROVE  Bytes(i)' = Bytes(i)
  <1>1. \A k \in 1..(ranges[i].e - ranges[i].b) :
            mem'[ranges[i].b + k - 1] = mem[ranges[i].b + k - 1]
    BY RangeInMemory
  <1> QED
    BY <1>1 DEF Bytes

-----------------------------------------------------------------------------
(* The actions of Allocator, in terms of ranges and bytes.                   *)
Objects == [i \in DOMAIN ranges |-> Bytes(i)]

LEMMA LenOfBytes ==
    ASSUME NEW b \in Nat, NEW e \in Nat, NEW f
    PROVE  Len([k \in 1..(e - b) |-> f[b + k - 1]]) = IF b <= e THEN e - b ELSE 0
  <1>1. ASSUME NEW n \in Nat PROVE Len([k \in 1..n |-> f[b + k - 1]]) = n
    OBVIOUS
  <1>2. CASE b <= e
    BY <1>2
  <1>3. CASE ~(b <= e)
    <2>1. 1..(e - b) = 1..0
      BY <1>3
    <2>2. [k \in 1..(e - b) |-> f[b + k - 1]] = [k \in 1..0 |-> f[b + k - 1]]
      BY <2>1, Zenon
    <2>3. Len([k \in 1..0 |-> f[b + k - 1]]) = 0
      BY <1>1
    <2> QED
      BY <1>3, <2>2, <2>3, Zenon
  <1> QED
    BY <1>2, <1>3

LEMMA IsAllocate ==
    ASSUME Shapes, Shapes', NEW n, n = Len(ranges'), n = Len(ranges) + 1,
           \A i \in DOMAIN ranges : Bytes(i)' = Bytes(i),
           ZeroInit => \A k \in DOMAIN Bytes(n)' : Bytes(n)'[k] = Zero
    PROVE  A!Allocate
  <1>1. /\ DOMAIN ranges = 1..Len(ranges) /\ Len(ranges) \in Nat
        /\ DOMAIN ranges' = 1..n /\ n \in Nat
    BY LenProperties DEF Shapes
  <1>2. /\ DOMAIN Objects = 1..Len(ranges) /\ DOMAIN Objects' = 1..n
        /\ Len(Objects) = Len(ranges) /\ Len(Objects') = n
    BY <1>1 DEF Objects
  <1>3. /\ \A i \in DOMAIN ranges : Objects[i] = Bytes(i)
        /\ \A i \in DOMAIN ranges' : Objects'[i] = Bytes(i)'
    BY DEF Objects
  <1>4. Len(Objects') = Len(Objects) + 1 /\ \A i \in DOMAIN Objects : Objects'[i] = Objects[i]
    BY <1>1, <1>2, <1>3
  <1>5. ZeroInit => \A k \in DOMAIN Objects'[Len(Objects')] : Objects'[Len(Objects')][k] = Zero
    <2>1. n \in DOMAIN ranges'
      BY <1>1
    <2> QED
      BY <1>2, <1>3, <2>1
  <1> QED
    BY <1>4, <1>5, Zenon DEF A!Allocate, A!OthersKept, A!Fresh, Objects, Bytes, A!Zero, Zero

(* The i-th range changed, the others are as they were.                      *)
LEMMA IsResize ==
    ASSUME Shapes, Shapes', NEW i \in DOMAIN ranges, Len(ranges') = Len(ranges),
           \A j \in DOMAIN ranges \ {i} : Bytes(j)' = Bytes(j),
           \A k \in DOMAIN Bytes(i) \cap DOMAIN Bytes(i)' : Bytes(i)'[k] = Bytes(i)[k],
           ZeroInit => \A k \in DOMAIN Bytes(i)' : k > Len(Bytes(i)) => Bytes(i)'[k] = Zero
    PROVE  A!Resize(i) /\ i \in DOMAIN Objects
  <1>1. /\ DOMAIN ranges = 1..Len(ranges) /\ Len(ranges) \in Nat
        /\ DOMAIN ranges' = 1..Len(ranges)
    BY LenProperties DEF Shapes
  <1>2. /\ DOMAIN Objects = 1..Len(ranges) /\ DOMAIN Objects' = 1..Len(ranges)
        /\ Len(Objects) = Len(ranges) /\ Len(Objects') = Len(ranges)
    BY <1>1 DEF Objects
  <1>3. /\ \A j \in DOMAIN ranges : Objects[j] = Bytes(j)
        /\ \A j \in DOMAIN ranges' : Objects'[j] = Bytes(j)'
    BY DEF Objects
  <1>4. Len(Objects') = Len(Objects) /\ \A j \in DOMAIN Objects \ {i} : Objects'[j] = Objects[j]
    BY <1>1, <1>2, <1>3
  <1>5. /\ \A k \in DOMAIN Objects[i] \cap DOMAIN Objects'[i] : Objects'[i][k] = Objects[i][k]
        /\ ZeroInit => \A k \in DOMAIN Objects'[i] : k > Len(Objects[i]) => Objects'[i][k] = Zero
    BY <1>1, <1>3, Zenon
  <1>6. i \in DOMAIN Objects
    BY <1>1, <1>2
  <1> QED
    BY <1>4, <1>5, <1>6, Zenon DEF A!Resize, A!OthersKept, A!Fresh, Objects, Bytes, A!Zero, Zero

LEMMA IsWrite ==
    ASSUME Shapes, UNCHANGED ranges, NEW i \in DOMAIN ranges,
           \A j \in DOMAIN ranges \ {i} : Bytes(j)' = Bytes(j)
    PROVE  A!Write(i) /\ i \in DOMAIN Objects
  <1>1. DOMAIN ranges = 1..Len(ranges) /\ Len(ranges) \in Nat
    BY LenProperties DEF Shapes
  <1>2. /\ DOMAIN Objects = 1..Len(ranges) /\ DOMAIN Objects' = 1..Len(ranges)
        /\ Len(Objects) = Len(ranges) /\ Len(Objects') = Len(ranges)
    BY <1>1 DEF Objects
  <1>3. /\ \A j \in DOMAIN ranges : Objects[j] = Bytes(j)
        /\ \A j \in DOMAIN ranges : Objects'[j] = Bytes(j)'
    BY DEF Objects
  <1>4. Len(Objects') = Len(Objects) /\ \A j \in DOMAIN Objects \ {i} : Objects'[j] = Objects[j]
    BY <1>1, <1>2, <1>3
  <1>5. Len(Objects'[i]) = Len(Objects[i])
    <2>1. ranges[i].b \in Nat /\ ranges[i].e \in Nat
      BY RangeShape
    <2> DEFINE n == IF ranges[i].b <= ranges[i].e THEN ranges[i].e - ranges[i].b ELSE 0
    <2>2. Len([k \in 1..(ranges[i].e - ranges[i].b) |-> mem[ranges[i].b + k - 1]]) = n
      BY <2>1, LenOfBytes
    <2>3. Len([k \in 1..(ranges[i].e - ranges[i].b) |-> mem'[ranges[i].b + k - 1]]) = n
      BY <2>1, LenOfBytes
    <2>4. Len(Bytes(i)) = Len(Bytes(i)')
      BY <2>2, <2>3 DEF Bytes
    <2> QED
      BY <1>3, <2>4
  <1>6. i \in DOMAIN Objects
    BY <1>1, <1>2
  <1> QED
    BY <1>4, <1>5, <1>6, Zenon DEF A!Write, A!OthersKept, Objects, Bytes

-----------------------------------------------------------------------------
(* What each operation is to the user of the block.                          *)

(* No range ends before it begins.                                           *)
Ordered == \A i \in DOMAIN ranges : ranges[i].b <= ranges[i].e
RInv == PInv /\ InMemory /\ Ordered

(* Two addresses in ranges that do not overlap differ.                       *)
LEMMA Elsewhere ==
    RangesDisjoint /\ Shapes =>
        \A i, j \in DOMAIN ranges : \A a \in Int :
            i # j /\ ranges[i].b <= a /\ a < ranges[i].e
                => ~(ranges[j].b <= a /\ a < ranges[j].e)
  <1> SUFFICES ASSUME RangesDisjoint, Shapes, NEW i \in DOMAIN ranges, NEW j \in DOMAIN ranges,
                      NEW a \in Int, i # j, ranges[i].b <= a, a < ranges[i].e,
                      ranges[j].b <= a, a < ranges[j].e
               PROVE  FALSE
    OBVIOUS
  <1>1. /\ ranges[i].b \in Nat /\ ranges[i].e \in Nat
        /\ ranges[j].b \in Nat /\ ranges[j].e \in Nat
    BY RangeShape
  <1>2. Nonempty(ranges[i]) /\ Nonempty(ranges[j])
    BY <1>1 DEF Nonempty
  <1> QED
    BY <1>1, <1>2 DEF RangesDisjoint

LEMMA ElsewhereAfter ==
    ASSUME PInv'
    PROVE  \A i, j \in DOMAIN ranges' : \A a \in Int :
               i # j /\ ranges'[i].b <= a /\ a < ranges'[i].e
                   => ~(ranges'[j].b <= a /\ a < ranges'[j].e)
  <1>1. RangesDisjoint' /\ Shapes'
    BY DEF PInv
  <1>2. (RangesDisjoint /\ Shapes =>
            \A i, j \in DOMAIN ranges : \A a \in Int :
                i # j /\ ranges[i].b <= a /\ a < ranges[i].e
                    => ~(ranges[j].b <= a /\ a < ranges[j].e))'
    BY Elsewhere, PTL
  <1> QED
    BY <1>1, <1>2

LEMMA RangeInMemoryAfter ==
    ASSUME RInv'
    PROVE  \A i \in DOMAIN ranges' : \A k \in 1..(ranges'[i].e - ranges'[i].b) :
               /\ ranges'[i].b + k - 1 \in 0..Top
               /\ ranges'[i].b <= ranges'[i].b + k - 1 /\ ranges'[i].b + k - 1 < ranges'[i].e
  <1>1. PInv' /\ InMemory'
    BY DEF RInv
  <1>2. (PInv /\ InMemory =>
            \A i \in DOMAIN ranges : \A k \in 1..(ranges[i].e - ranges[i].b) :
                /\ ranges[i].b + k - 1 \in 0..Top
                /\ ranges[i].b <= ranges[i].b + k - 1 /\ ranges[i].b + k - 1 < ranges[i].e)'
    BY RangeInMemory, PTL
  <1> QED
    BY <1>1, <1>2

LEMMA HandOutIsAllocate ==
    ASSUME RInv, RInv', NEW b \in Nat, NEW size \in Nat, NEW align \in Aligns,
           HandOut(b, size, align), NEW n, n = Len(ranges) + 1
    PROVE  A!Allocate
  <1> DEFINE r == [b |-> b, e |-> b + size, align |-> align]
  <1>1. /\ ranges \in Seq([b : Nat, e : Nat, align : Aligns])
        /\ Len(ranges) \in Nat /\ DOMAIN ranges = 1..Len(ranges)
    BY LenProperties DEF RInv, PInv, Shapes
  <1>2. ranges' = Append(ranges, r) /\ r \in [b : Nat, e : Nat, align : Aligns]
    BY DEF HandOut
  <1>3. /\ Len(ranges') = n /\ DOMAIN ranges' = 1..n /\ n \in DOMAIN ranges'
        /\ ranges'[n] = r /\ \A i \in DOMAIN ranges : ranges'[i] = ranges[i]
    BY <1>1, <1>2
  <1>4. PInv'
    BY DEF RInv
  <1>5. ASSUME NEW i \in DOMAIN ranges PROVE Bytes(i)' = Bytes(i)
    <2>1. i \in DOMAIN ranges' /\ i # n /\ ranges'[i] = ranges[i]
      BY <1>1, <1>3
    <2>2. ASSUME NEW a \in 0..Top, ranges[i].b <= a, a < ranges[i].e
          PROVE  mem'[a] = mem[a]
      <3>1. ~(b <= a /\ a < b + size)
        BY <1>3, <1>4, ElsewhereAfter, <2>1, <2>2
      <3> QED
        BY <3>1, <2>2 DEF HandOut, Fill
    <2> QED
      BY <2>1, <2>2, SameBytes DEF RInv
  <1>6. ASSUME ZeroInit, NEW k \in DOMAIN Bytes(n)' PROVE Bytes(n)'[k] = Zero
    <2>1. /\ Bytes(n)' = [h \in 1..(ranges'[n].e - ranges'[n].b) |-> mem'[ranges'[n].b + h - 1]]
          /\ k \in 1..(ranges'[n].e - ranges'[n].b)
      BY <1>3, <1>6 DEF Bytes
    <2>2. b + k - 1 \in 0..Top /\ b <= b + k - 1 /\ b + k - 1 < b + size
      <3>1. ranges'[n].b = b /\ ranges'[n].e = b + size
        BY <1>3
      <3>2. /\ ranges'[n].b + k - 1 \in 0..Top
            /\ ranges'[n].b <= ranges'[n].b + k - 1 /\ ranges'[n].b + k - 1 < ranges'[n].e
        BY <1>3, <2>1, RangeInMemoryAfter
      <3> QED
        BY <3>1, <3>2
    <2> QED
      BY <1>3, <1>6, <2>1, <2>2 DEF HandOut, Fill
  <1> QED
    BY <1>3, <1>5, <1>6, IsAllocate DEF RInv, PInv

LEMMA WriteIsWrite ==
    ASSUME RInv, NEW i \in DOMAIN ranges, Write(i)
    PROVE  A!Write(i) /\ i \in DOMAIN Objects
  <1>1. ASSUME NEW j \in DOMAIN ranges \ {i} PROVE Bytes(j)' = Bytes(j)
    <2>1. ASSUME NEW a \in 0..Top, ranges[j].b <= a, a < ranges[j].e
          PROVE  mem'[a] = mem[a]
      <3>1. ~(ranges[i].b <= a /\ a < ranges[i].e)
        BY <2>1, Elsewhere DEF RInv, PInv
      <3> QED
        BY <3>1 DEF Write, Fill
    <2>2. ranges'[j] = ranges[j]
      BY DEF Write
    <2> QED
      BY <2>1, <2>2, SameBytes DEF RInv
  <1> QED
    BY <1>1, IsWrite DEF Write, RInv, PInv

-----------------------------------------------------------------------------
LEMMA ResizeInPlaceIsResize ==
    ASSUME RInv, RInv', NEW i \in DOMAIN ranges, NEW size \in Sizes, ResizeInPlace(i, size)
    PROVE  A!Resize(i) /\ i \in DOMAIN Objects
  <1> DEFINE b == ranges[i].b
             e == ranges[i].e
             f == ranges[i].b + size
  <1>1. b \in Nat /\ e \in Nat /\ size \in Nat /\ f \in Nat
    BY RangeShape, PodMemoryBlockAssumption DEF RInv, PInv
  <1>2. /\ ranges' = [ranges EXCEPT ![i].e = f]
        /\ mem' = CASE f < e -> Fill(f, e, Junk)
                    [] ZeroInit -> Fill(e, f, Zero)
                    [] OTHER -> mem
    BY DEF ResizeInPlace
  <1>3. /\ Len(ranges') = Len(ranges) /\ DOMAIN ranges' = DOMAIN ranges
        /\ ranges'[i].b = b /\ ranges'[i].e = f
        /\ \A j \in DOMAIN ranges \ {i} : ranges'[j] = ranges[j]
    <2>1. ranges \in Seq([b : Nat, e : Nat, align : Aligns])
      BY DEF RInv, PInv, Shapes
    <2> HIDE DEF f
    <2>2. ranges[i] \in [b : Nat, e : Nat, align : Aligns]
      BY RangeShape DEF RInv, PInv
    <2> QED
      BY <1>2, <2>1, <2>2
  <1>4. PInv' /\ PInv /\ Shapes /\ Shapes' /\ RangesDisjoint
    BY DEF RInv, PInv
  <1>5. \A a \in 0..Top : mem'[a] # mem[a] => (f <= a /\ a < e) \/ (ZeroInit /\ e <= a /\ a < f)
    BY <1>2 DEF Fill
  <1>6. ASSUME NEW j \in DOMAIN ranges \ {i} PROVE Bytes(j)' = Bytes(j)
    <2>1. ASSUME NEW a \in 0..Top, ranges[j].b <= a, a < ranges[j].e
          PROVE  mem'[a] = mem[a]
      <3>1. ~(b <= a /\ a < e)
        BY <1>4, <2>1, Elsewhere
      <3>2. ~(ranges'[i].b <= a /\ a < ranges'[i].e)
        BY <1>3, <1>4, <2>1, ElsewhereAfter
      <3>3. b <= e
        BY DEF RInv, Ordered
      <3>4. ~(b <= a /\ a < f)
        BY <1>3, <3>2
      <3> HIDE DEF f
      <3>5. b <= f
        BY <1>1 DEF f
      <3> QED
        BY <1>1, <1>5, <3>1, <3>3, <3>4, <3>5
    <2> QED
      BY <1>3, <2>1, SameBytes DEF RInv
  <1>7. ASSUME NEW k \in DOMAIN Bytes(i) \cap DOMAIN Bytes(i)'
        PROVE  Bytes(i)'[k] = Bytes(i)[k]
    <2>1. k \in 1..(e - b) /\ k \in 1..(ranges'[i].e - ranges'[i].b)
      BY <1>7 DEF Bytes
    <2>2. /\ Bytes(i)[k] = mem[b + k - 1]
          /\ Bytes(i)'[k] = mem'[ranges'[i].b + k - 1]
      BY <2>1 DEF Bytes
    <2>3. b + k - 1 \in 0..Top /\ b + k - 1 < e /\ b + k - 1 < f
      <3>1. b + k - 1 \in 0..Top /\ b + k - 1 < e
        BY <2>1, RangeInMemory DEF RInv
      <3>2. k \in 1..(f - b)
        BY <2>1, <1>3
      <3> QED
        BY <3>1, <3>2, <1>1
    <2>4. mem'[b + k - 1] = mem[b + k - 1]
      BY <1>1, <1>5, <2>3
    <2> QED
      BY <1>3, <2>2, <2>4
  <1>8. ASSUME ZeroInit, NEW k \in DOMAIN Bytes(i)', k > Len(Bytes(i))
        PROVE  Bytes(i)'[k] = Zero
    <2>1. k \in 1..(ranges'[i].e - ranges'[i].b)
      BY <1>8 DEF Bytes
    <2>2. Bytes(i)'[k] = mem'[ranges'[i].b + k - 1]
      BY <2>1 DEF Bytes
    <2>3. /\ ranges'[i].b + k - 1 \in 0..Top
          /\ ranges'[i].b + k - 1 < ranges'[i].e
      BY <1>3, <2>1, RangeInMemoryAfter
    <2>4. Len(Bytes(i)) = IF b <= e THEN e - b ELSE 0
      BY <1>1, LenOfBytes DEF Bytes
    <2>5. b + k - 1 \in 0..Top /\ b + k - 1 < f /\ b + k - 1 >= e
      BY <1>1, <1>3, <1>8, <2>1, <2>3, <2>4
    <2>6. mem'[b + k - 1] = Zero
      BY <1>1, <1>2, <1>8, <2>5 DEF Fill
    <2> QED
      BY <1>3, <2>2, <2>6
  <1> QED
    BY <1>3, <1>4, <1>6, <1>7, <1>8, IsResize

LEMMA ResizeMovesIsResize ==
    ASSUME RInv, RInv', NEW i \in DOMAIN ranges, NEW size \in Sizes, ResizeMoves(i, size)
    PROVE  A!Resize(i) /\ i \in DOMAIN Objects
  <1> DEFINE b == ranges[i].b
             e == ranges[i].e
             old == e - b
             cap == Larger(total, size)
  <1>1. b \in Nat /\ e \in Nat /\ size \in Nat /\ total \in Int /\ cap \in Nat /\ size <= cap
    <2>1. b \in Nat /\ e \in Nat /\ size \in Nat
      BY RangeShape, PodMemoryBlockAssumption DEF RInv, PInv
    <2>2. total \in Int
      BY DEF RInv, PInv, Shapes
    <2> QED
      BY <2>1, <2>2 DEF Larger
  <1>2. PICK base \in Bases :
            /\ AppendMemory(base, cap)
            /\ ranges' = [ranges EXCEPT ![i].b = base, ![i].e = base + size]
            /\ mem' = [a \in 0..Top |->
                          CASE base <= a /\ a < base + old -> mem[b + (a - base)]
                            [] base + old <= a /\ a < base + size /\ ZeroInit -> Zero
                            [] b <= a /\ a < e -> Junk
                            [] OTHER -> mem[a]]
    BY DEF ResizeMoves
  <1>3. /\ base \in Nat
        /\ \A j \in DOMAIN ranges : Nonempty(ranges[j]) =>
               ranges[j].e < base \/ base + cap < ranges[j].b
    <2> HIDE DEF cap
    <2> QED
      BY <1>1, <1>2, NewChunk DEF RInv
  <1>4. PInv' /\ PInv /\ Shapes /\ Shapes' /\ RangesDisjoint
    BY DEF RInv, PInv
  <1>5. old <= size
    <2>1. e = current /\ b + size > end
      BY DEF ResizeMoves
    <2>2. \/ current = 0 /\ end = 0
          \/ current <= end
      BY <1>4 DEF PInv, PointersInLast, NULL
    <2>3. current \in Nat /\ end \in Nat
      BY <1>4 DEF Shapes
    <2> QED
      BY <1>1, <2>1, <2>2, <2>3
  <1>6. 0 <= old
    BY <1>1 DEF RInv, Ordered
  <1>7. ASSUME NEW a \in Int, base <= a, a < base + size PROVE ~(b <= a /\ a < e)
    <2>1. a < base + cap
      BY <1>1, <1>3, <1>7
    <2>2. SUFFICES ASSUME b <= a, a < e PROVE FALSE
      OBVIOUS
    <2>3. Nonempty(ranges[i])
      BY <1>1, <2>2 DEF Nonempty
    <2>4. e < base \/ base + cap < b
      BY <1>3, <2>3
    <2> HIDE DEF cap, b, e
    <2> QED
      BY <1>1, <1>3, <1>7, <2>1, <2>2, <2>4
  <1>8. /\ Len(ranges') = Len(ranges) /\ DOMAIN ranges' = DOMAIN ranges
        /\ ranges'[i].b = base /\ ranges'[i].e = base + size
        /\ \A j \in DOMAIN ranges \ {i} : ranges'[j] = ranges[j]
    <2>1. ranges \in Seq([b : Nat, e : Nat, align : Aligns])
      BY <1>4 DEF Shapes
    <2>2. ranges[i] \in [b : Nat, e : Nat, align : Aligns]
      BY <1>4, RangeShape
    <2>3. base \in Nat /\ base + size \in Nat
      BY <1>1, <1>3
    <2>4. DOMAIN ranges' = DOMAIN ranges /\ Len(ranges') = Len(ranges)
      BY <1>2, <2>1
    <2>5. \A j \in DOMAIN ranges \ {i} : ranges'[j] = ranges[j]
      BY <1>2, <2>1
    <2>6. ranges'[i] = [ranges[i] EXCEPT !.b = base, !.e = base + size]
      BY <1>2, <2>1
    <2> QED
      BY <2>2, <2>3, <2>4, <2>5, <2>6
  <1> HIDE DEF cap
  <1>9. ASSUME NEW j \in DOMAIN ranges \ {i} PROVE Bytes(j)' = Bytes(j)
    <2>1. ASSUME NEW a \in 0..Top, ranges[j].b <= a, a < ranges[j].e
          PROVE  mem'[a] = mem[a]
      <3>1. ~(b <= a /\ a < e)
        BY <1>4, <2>1, Elsewhere
      <3>2. ranges[j].e < base \/ base + cap < ranges[j].b
        <4>1. ranges[j].b \in Nat /\ ranges[j].e \in Nat
          BY <1>4, RangeShape
        <4>2. Nonempty(ranges[j])
          BY <4>1, <2>1 DEF Nonempty
        <4> QED
          BY <4>2, <1>3
      <3>3. ranges[j].b \in Nat /\ ranges[j].e \in Nat
        BY <1>4, RangeShape
      <3>4. ~(base <= a /\ a < base + cap)
        BY <2>1, <3>2, <3>3, <1>1, <1>3
      <3>5. ~(base <= a /\ a < base + old) /\ ~(base + old <= a /\ a < base + size)
        BY <2>1, <3>4, <1>1, <1>3, <1>5, <1>6
      <3> QED
        BY <1>2, <3>1, <3>5, <2>1
    <2> QED
      BY <1>8, <2>1, SameBytes DEF RInv
  <1>10. ASSUME NEW k \in DOMAIN Bytes(i) \cap DOMAIN Bytes(i)'
        PROVE  Bytes(i)'[k] = Bytes(i)[k]
    <2>1. k \in 1..(e - b) /\ k \in 1..(ranges'[i].e - ranges'[i].b)
      BY <1>10 DEF Bytes
    <2>2. /\ Bytes(i)[k] = mem[b + k - 1]
          /\ Bytes(i)'[k] = mem'[ranges'[i].b + k - 1]
      BY <2>1 DEF Bytes
    <2>3. base + k - 1 \in 0..Top
      BY <2>1, <1>8, RangeInMemoryAfter
    <2>4. base <= base + k - 1 /\ base + k - 1 < base + old /\ b + ((base + k - 1) - base) = b + k - 1
      BY <1>1, <1>3, <2>1
    <2>5. ASSUME NEW x \in 0..Top, x = base + k - 1 PROVE mem'[x] = mem[b + (x - base)]
      <3>1. base <= x /\ x < base + old /\ x < base + size
        BY <1>1, <1>3, <1>5, <2>4, <2>5
      <3>2. ~(b <= x /\ x < e)
        BY <1>7, <3>1, <2>5
      <3>3. ~(base + old <= x)
        BY <1>1, <1>3, <3>1, <2>5
      <3> QED
        BY <1>2, <3>1, <3>2, <3>3, <2>5
    <2>6. mem'[base + k - 1] = mem[b + k - 1]
      BY <2>3, <2>4, <2>5
    <2> QED
      BY <1>8, <2>2, <2>6
  <1>11. ASSUME ZeroInit, NEW k \in DOMAIN Bytes(i)', k > Len(Bytes(i))
        PROVE  Bytes(i)'[k] = Zero
    <2>1. k \in 1..(ranges'[i].e - ranges'[i].b)
      BY <1>11 DEF Bytes
    <2>2. Bytes(i)'[k] = mem'[ranges'[i].b + k - 1]
      BY <2>1 DEF Bytes
    <2>3. base + k - 1 \in 0..Top
      BY <2>1, <1>8, RangeInMemoryAfter
    <2>4. Len(Bytes(i)) = IF b <= e THEN e - b ELSE 0
      BY <1>1, LenOfBytes DEF Bytes
    <2>5. base + k - 1 < base + size /\ base + k - 1 >= base + old
      BY <1>1, <1>3, <1>8, <1>11, <2>1, <2>4
    <2>6. ASSUME NEW x \in 0..Top, x = base + k - 1 PROVE mem'[x] = Zero
      <3>1. base + old <= x /\ x < base + size
        BY <1>1, <1>3, <2>5, <2>6
      <3>2. base <= x /\ ~(x < base + old)
        BY <1>1, <1>3, <1>6, <3>1, <2>6
      <3>3. ~(b <= x /\ x < e)
        BY <1>7, <3>1, <3>2, <2>6
      <3> QED
        BY <1>2, <1>11, <3>1, <3>2, <3>3, <2>6
    <2>7. mem'[base + k - 1] = Zero
      BY <2>3, <2>6
    <2> QED
      BY <1>8, <2>2, <2>7
  <1> QED
    BY <1>4, <1>8, <1>9, <1>10, <1>11, IsResize

-----------------------------------------------------------------------------
LEMMA ChunkInMemory ==
    ASSUME PInv, InMemory, NEW base, NEW cap \in Nat, AppendMemory(base, cap)
    PROVE  InMemory'
  <1>1. base + cap <= Top /\ handles' = Append(handles, [base |-> base, cap |-> cap])
    BY DEF AppendMemory, Malloc
  <1>2. handles \in Seq([base : Bases, cap : Nat])
    BY DEF PInv, Shapes
  <1> QED
    BY <1>1, <1>2 DEF InMemory

LEMMA OneRangeOrdered ==
    ASSUME Shapes, Ordered, NEW k, NEW b \in Nat, NEW e \in Nat, b <= e, OnlyRangeChanged(k, b, e)
    PROVE  Ordered'
  BY DEF Ordered, OnlyRangeChanged

LEMMA HandOutOrdered ==
    ASSUME Shapes, Ordered, NEW b \in Nat, NEW size \in Nat, NEW align \in Aligns,
           HandOut(b, size, align)
    PROVE  Ordered'
  <1>1. ranges' = Append(ranges, [b |-> b, e |-> b + size, align |-> align]) /\ b + size \in Nat
    BY DEF HandOut
  <1>2. OnlyRangeChanged(Len(ranges) + 1, b, b + size)
    BY <1>1, RangeAppended
  <1> QED
    BY <1>1, <1>2, OneRangeOrdered

LEMMA AllocateFitsRefines ==
    ASSUME RInv, PInv', NEW size \in Sizes, NEW align \in Aligns, AllocateFits(size, align)
    PROVE  RInv' /\ A!Allocate
  <1> DEFINE b == AlignUp(current, align)
  <1>1. size \in Nat /\ b \in Nat
    BY AlignUpGrows, PodMemoryBlockAssumption DEF RInv, PInv, Shapes
  <1>2. HandOut(b, size, align) /\ UNCHANGED handles
    BY DEF AllocateFits
  <1> HIDE DEF b
  <1>3. RInv'
    BY <1>1, <1>2, HandOutOrdered DEF RInv, PInv, InMemory
  <1> QED
    BY <1>1, <1>2, <1>3, HandOutIsAllocate

LEMMA AllocateGrowsRefines ==
    ASSUME RInv, PInv', NEW size \in Sizes, NEW align \in Aligns, AllocateGrows(size, align)
    PROVE  RInv' /\ A!Allocate
  <1> DEFINE cap == Larger(total - (end - current), size)
  <1>1. PICK base \in Bases : AppendMemory(base, cap) /\ HandOut(base, size, align)
    BY DEF AllocateGrows
  <1>2. size \in Nat /\ base \in Nat /\ cap \in Nat
    BY PodMemoryBlockAssumption DEF RInv, PInv, Shapes, Larger
  <1> HIDE DEF cap
  <1>3. InMemory'
    BY <1>1, <1>2, ChunkInMemory DEF RInv
  <1>4. Ordered'
    BY <1>1, <1>2, HandOutOrdered DEF RInv, PInv
  <1>5. RInv'
    BY <1>3, <1>4 DEF RInv
  <1> QED
    BY <1>1, <1>2, <1>5, HandOutIsAllocate

LEMMA ResizeInPlaceRefines ==
    ASSUME RInv, PInv', NEW i \in DOMAIN ranges, NEW size \in Sizes, ResizeInPlace(i, size)
    PROVE  RInv' /\ A!Resize(i) /\ i \in DOMAIN Objects
  <1> DEFINE b == ranges[i].b
             e == b + size
  <1>1. Shapes /\ b \in Nat /\ e \in Nat /\ b <= e
    BY RangeShape, PodMemoryBlockAssumption DEF RInv, PInv
  <1>2. OnlyRangeChanged(i, b, e)
    BY <1>1, PointersWritten DEF ResizeInPlace
  <1>3. Ordered'
    BY <1>1, <1>2, OneRangeOrdered DEF RInv
  <1>4. RInv'
    BY <1>3 DEF RInv, InMemory, ResizeInPlace
  <1> QED
    BY <1>4, ResizeInPlaceIsResize

LEMMA ResizeMovesRefines ==
    ASSUME RInv, PInv', NEW i \in DOMAIN ranges, NEW size \in Sizes, ResizeMoves(i, size)
    PROVE  RInv' /\ A!Resize(i) /\ i \in DOMAIN Objects
  <1> DEFINE cap == Larger(total, size)
  <1>1. PICK base \in Bases :
            /\ AppendMemory(base, cap)
            /\ ranges' = [ranges EXCEPT ![i].b = base, ![i].e = base + size]
    BY DEF ResizeMoves
  <1>2. /\ Shapes /\ size \in Nat /\ base \in Nat /\ cap \in Nat
        /\ base + size \in Nat /\ base <= base + size
    BY PodMemoryBlockAssumption DEF RInv, PInv, Shapes, Larger
  <1> HIDE DEF cap
  <1>3. OnlyRangeChanged(i, base, base + size)
    BY <1>1, <1>2, PointersWritten
  <1>4. Ordered' /\ InMemory'
    BY <1>1, <1>2, <1>3, OneRangeOrdered, ChunkInMemory DEF RInv
  <1>5. RInv'
    BY <1>4 DEF RInv
  <1> QED
    BY <1>5, ResizeMovesIsResize

LEMMA ResetRefines ==
    ASSUME RInv, PInv', Reset \/ Free
    PROVE  RInv' /\ A!Reset
  <1>1. ranges' = <<>>
    BY DEF Reset, Free
  <1>2. Ordered'
    BY <1>1 DEF Ordered
  <1>3. InMemory'
    <2>1. CASE Free
      BY <2>1 DEF Free, InMemory
    <2>2. CASE Reset
      <3>1. handles # <<>> /\ handles \in Seq([base : Bases, cap : Nat])
        BY <2>2 DEF Reset, Alive, RInv, PInv, Shapes
      <3>2. Len(handles) \in DOMAIN handles
        BY <3>1, EmptySeq, LenProperties
      <3>3. handles' = <<handles[Len(handles)]>>
        BY <2>2 DEF Reset, Last
      <3> QED
        BY <3>2, <3>3 DEF InMemory, RInv
    <2> QED
      BY <2>1, <2>2
  <1>4. A!Reset
    BY <1>1 DEF A!Reset
  <1> QED
    BY <1>2, <1>3, <1>4 DEF RInv

(* Making the block, finalizing it and what fails hand nothing out.          *)
LEMMA NothingHandedOut ==
    ASSUME RInv, PInv',
           \/ Make \/ Finalize \/ UNCHANGED vars
           \/ \E size \in Sizes, align \in Aligns : AllocateFails(size, align)
           \/ \E i \in DOMAIN ranges, size \in Sizes : ResizeFails(i, size)
    PROVE  RInv' /\ UNCHANGED <<ranges, mem>>
  <1>1. UNCHANGED <<ranges, mem>>
    BY DEF Make, Finalize, vars, AllocateFails, ResizeFails, AppendMemoryFails
  <1>2. CASE Make
    <2>1. PICK base \in Bases : AppendMemory(base, InitialCapacity)
      BY <1>2 DEF Make
    <2>2. InMemory'
      BY <2>1, ChunkInMemory, PodMemoryBlockAssumption DEF RInv
    <2> QED
      BY <1>1, <2>2 DEF RInv, Ordered
  <1>3. CASE UNCHANGED handles
    BY <1>1, <1>3 DEF RInv, Ordered, InMemory
  <1> QED
    BY <1>1, <1>2, <1>3 DEF Finalize, vars, AllocateFails, ResizeFails, AppendMemoryFails

LEMMA StepRefines ==
    ASSUME ~ResetAfterFailure, RInv, [Next]_vars
    PROVE  RInv' /\ [A!Next]_Objects
  <1>1. PInv'
    BY Inductive DEF RInv
  <1>2. ASSUME NEW size \in Sizes, NEW align \in Aligns,
               AllocateFits(size, align) \/ AllocateGrows(size, align)
        PROVE  RInv' /\ [A!Next]_Objects
    <2>1. RInv' /\ A!Allocate
      BY <1>1, <1>2, AllocateFitsRefines, AllocateGrowsRefines
    <2> QED
      BY <2>1 DEF A!Next
  <1>3. ASSUME NEW i \in DOMAIN ranges, NEW size \in Sizes,
               ResizeInPlace(i, size) \/ ResizeMoves(i, size)
        PROVE  RInv' /\ [A!Next]_Objects
    <2>1. RInv' /\ A!Resize(i) /\ i \in DOMAIN Objects
      BY <1>1, <1>3, ResizeInPlaceRefines, ResizeMovesRefines
    <2> QED
      BY <2>1, Zenon DEF A!Next, Objects, Bytes
  <1>4. ASSUME NEW i \in DOMAIN ranges, Write(i)
        PROVE  RInv' /\ [A!Next]_Objects
    <2>1. RInv'
      BY <1>1, <1>4 DEF RInv, InMemory, Ordered, Write
    <2>2. A!Write(i) /\ i \in DOMAIN Objects
      BY <1>4, WriteIsWrite
    <2> QED
      BY <2>1, <2>2, Zenon DEF A!Next, Objects, Bytes
  <1>5. CASE Reset \/ Free
    BY <1>1, <1>5, ResetRefines DEF A!Next
  <1>6. ASSUME \/ Make \/ Finalize \/ UNCHANGED vars
               \/ \E size \in Sizes, align \in Aligns : AllocateFails(size, align)
               \/ \E i \in DOMAIN ranges, size \in Sizes : ResizeFails(i, size)
        PROVE  RInv' /\ [A!Next]_Objects
    <2>1. RInv' /\ UNCHANGED <<ranges, mem>>
      BY <1>1, <1>6, NothingHandedOut
    <2> QED
      BY <2>1 DEF Objects, Bytes
  <1> QED
    BY <1>2, <1>3, <1>4, <1>5, <1>6 DEF Next

(* To its users a pod_memory_block or zeroinit_memory_block is the allocator *)
(* memory_block.hpp promises: no call for one range changes the bytes of     *)
(* another, resize keeps the bytes (pod_memory_block.cpp:95-129), and new    *)
(* bytes of a zeroinit block are zero (zeroinit_memory_block.cpp:74-140).    *)
THEOREM RefinesAllocatorSpec ==
    ASSUME ~ResetAfterFailure
    PROVE  Spec => RefinesAllocator
  <1>1. Init => RInv /\ A!Init
    BY InitPInv DEF Init, RInv, InMemory, Ordered, A!Init
  <1>2. RInv /\ [Next]_vars => RInv' /\ [A!Next]_Objects
    BY StepRefines
  <1> QED
    BY <1>1, <1>2, PTL DEF Spec, RefinesAllocator, A!Spec, Objects, Bytes
=============================================================================
