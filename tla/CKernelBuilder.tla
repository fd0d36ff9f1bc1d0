--------------------------- MODULE CKernelBuilder ---------------------------
(***************************************************************************)
(* ckernel_builder (include/dynd/kernels/ckernel_builder.hpp): one growing *)
(* buffer in which a tree of kernels is laid out by the instantiate        *)
(* functions, each of which places its own kernel, places its children     *)
(* behind it and records where they are.  Growing moves the buffer, and    *)
(* with it every kernel, so a pointer to a kernel must be taken again      *)
(* after anything that may have grown it; and an exception may leave the   *)
(* tree at any stage to the destructor of its root.                        *)
(*                                                                         *)
(* Offsets and sizes are in words of 8 bytes, the alignment of a kernel.   *)
(* Memory is a map from offsets to the kernels constructed there; what is  *)
(* not in the map is zero up to the builder's "clean" word and arbitrary   *)
(* beyond it.                                                              *)
(***************************************************************************)
EXTENDS Integers, FiniteSets, Sequences, SequencesExt

CONSTANTS Builders,      \* the builder objects
          Kinds,         \* the kernel families that may be instantiated
          MaxKernels,    \* bound: kernels alive at once
          SecondKinds    \* bound: the kinds built while another builder holds a tree

ASSUME BuilderAssumption ==
    /\ IsFiniteSet(Builders)
    /\ Kinds \subseteq {"leaf", "elwise", "tuple", "option", "srcexpr", "dstexpr"}
    /\ SecondKinds \subseteq Kinds
    /\ MaxKernels \in Nat \ {0}

VARIABLES bld,       \* m_data, m_capacity and the zeroed extent of each builder
          mem,       \* what each block of memory holds
          phase,     \* what has become of the tree in each builder
          stack,     \* their frames, the innermost last
          off,       \* ckb_offset, threaded through the calls
          alive,     \* the kernels constructed and not destroyed
          again,     \* some kernel was destroyed that was not alive
          wild       \* the kinds whose destructor read unzeroed memory last time

vars == <<bld, mem, phase, stack, off, alive, again, wild>>

Prefix == 2                  \* sizeof(ckernel_prefix): function and destructor
StaticWords == 16            \* m_static_data

Size == [leaf |-> 2, elwise |-> 5, tuple |-> 5, option |-> 4,
         srcexpr |-> 9, dstexpr |-> 9]

BufferWords == 1             \* buffer_data_size of a single value

\* The kinds whose destructor destroys, unconditionally, what lies right
\* behind the kernel, and how many further children each kind records.
HasHead == {"elwise", "option"}
Recorded == [leaf |-> 0, elwise |-> 0, tuple |-> 2, option |-> 2,
             srcexpr |-> 2, dstexpr |-> 2]

\* The statements of each kind's instantiate function that touch the builder.
Program ==
  [leaf    |-> <<"make">>,
   elwise  |-> <<"make", "call">>,
   tuple   |-> <<"make", "field", "call", "field", "call">>,
   option  |-> <<"make", "call", "field", "call", "field", "call">>,
   srcexpr |-> <<"make", "first", "call", "buffer", "call">>,
   dstexpr |-> <<"make", "first", "call", "buffer", "call">>]

Static(b) == <<"static", b>>
Heap(n) == <<"heap", n>>
NULL == <<"null", 0>>

HeapBlocks == {Heap(n) : n \in 1 .. MaxKernels + 2}
Blocks == {Static(b) : b \in Builders} \cup HeapBlocks
Ids == 1 .. MaxKernels

Nothing == [o \in {} |-> 0]  \* memory holding no kernel

\* Memory in which kernel k has been placed at offset o.
Placed(m, o, k) == [q \in DOMAIN m \cup {o} |-> IF q = o THEN k ELSE m[q]]

Cur == CHOOSE b \in Builders : phase[b] = "building"
Top == Last(stack)   \* the innermost frame
Statement(f) == Program[f.kind][f.at]
Running(s) == stack # <<>> /\ Top.at <= Len(Program[Top.kind]) /\ Statement(Top) = s
Children(k) == Recorded[k.kind]

\* A block of memory nobody refers to; with MaxKernels kernels there is one left.
Fresh ==
    LET unused == {x \in HeapBlocks : /\ \A b \in Builders : bld[b].data # x
                                      /\ \A i \in DOMAIN stack : stack[i].self # x}
    IN  IF unused = {} THEN {} ELSE {CHOOSE x \in unused : TRUE}

\* The next position of the innermost frame, its kernel pointer being p.
Advanced(p) == [stack EXCEPT ![Len(stack)].at = @ + 1, ![Len(stack)].self = p]

-----------------------------------------------------------------------------
(* reserve, and the destruction of a tree. *)

\* What may be left of a builder and of memory by reserve(n) when it does not
\* fail.  realloc may extend a block of the heap where it is.
AfterReserve(b, n) ==
    LET s     == bld[b]
        grown == (s.cap * 3) \div 2
        cap   == IF n < grown THEN grown ELSE n
        To(d) == [bld |-> [bld EXCEPT ![b] =
                              [data |-> d, cap |-> cap,
                               clean |-> IF s.clean = s.cap THEN cap ELSE s.clean]],
                  mem |-> IF d = s.data THEN mem
                          ELSE [mem EXCEPT ![d] = mem[s.data],
                                           ![s.data] = IF s.data = Static(b) THEN @ ELSE Nothing]]
    IN  IF s.cap >= n THEN {[bld |-> bld, mem |-> mem]}
        ELSE {To(d) : d \in Fresh \cup (IF s.data = Static(b) THEN {} ELSE {s.data})}

\* Mutant: make reserves the old offset instead of the incremented one.
WantedBeforeIncrement ==
    IF Running("make") THEN off
    ELSE IF Running("field") THEN off + Prefix
    ELSE IF Running("buffer") THEN off + BufferWords + Prefix
    ELSE 0

\* The capacity the innermost frame is about to reserve, 0 if none.
Wanted ==
    IF Running("make") THEN off + Size[Top.kind]
    ELSE IF Running("field") THEN off + Prefix
    ELSE IF Running("buffer") THEN off + BufferWords + Prefix
    ELSE 0

\* Where the i-th child a kernel records is, if it has recorded it.
Kid(o, k, i) == IF i <= Children(k) /\ k.kids[i] # 0 THEN <<o + k.kids[i]>> ELSE <<>>

\* The offsets a kernel's destructor hands to destroy, in order.
Slots(o, k) ==
    (IF k.kind \in HasHead THEN <<o + Size[k.kind]>> ELSE <<>>) \o Kid(o, k, 1) \o Kid(o, k, 2)

\* The kernels destroyed by destroying what lies at offset 0, in order.
Destroyed(m) ==
    LET destroy[o \in Nat] ==
            IF o \notin DOMAIN m THEN <<>>
            ELSE LET slots == Slots(o, m[o])
                 IN  FlattenSeq([i \in DOMAIN slots |-> destroy[slots[i]]]) \o <<m[o].id>>
    IN  destroy[0]

\* The kinds of the kernels numbered ids whose destructors read the destructor
\* of a child from memory nobody zeroed.
WildReads(m, ids, clean) ==
    LET wanders(o) == \E s \in ToSet(Slots(o, m[o])) : s \notin DOMAIN m /\ s + Prefix > clean
    IN  {m[o].kind : o \in {o \in DOMAIN m : m[o].id \in ids /\ wanders(o)}}

\* base_ckernel_builder::destroy.
Destroy(b) ==
    LET m == mem[bld[b].data]
    IN  IF bld[b].data = NULL THEN UNCHANGED <<alive, again, wild>>
        ELSE LET ids == Destroyed(m)
             IN  /\ alive' = alive \ ToSet(ids)
                 /\ again' = (again \/ ~ToSet(ids) \subseteq alive \/ ~IsInjective(ids))
                 /\ wild' = WildReads(m, ToSet(ids), bld[b].clean)

\* The memory after destroy's free, and after init's memset.
Freed(b) == IF bld[b].data \in HeapBlocks THEN [mem EXCEPT ![bld[b].data] = Nothing] ELSE mem

Initialised(b) == [bld EXCEPT ![b] = [data |-> Static(b), cap |-> StaticWords, clean |-> StaticWords]]

-----------------------------------------------------------------------------
(* The life of a builder. *)

NewBuilder(b) ==
    /\ phase[b] = "none"
    /\ bld' = Initialised(b)
    /\ mem' = [mem EXCEPT ![Static(b)] = Nothing]
    /\ phase' = [phase EXCEPT ![b] = "open"]
    /\ UNCHANGED <<stack, off, alive, again, wild>>

\* ~base_ckernel_builder, of a builder that goes out of scope or is deleted.
DeleteBuilder(b) ==
    /\ phase[b] \in {"open", "built", "failed"}
    /\ Destroy(b)
    /\ bld' = [bld EXCEPT ![b] = [data |-> NULL, cap |-> 0, clean |-> 0]]
    /\ mem' = [Freed(b) EXCEPT ![Static(b)] = Nothing]
    /\ phase' = [phase EXCEPT ![b] = "none"]
    /\ UNCHANGED <<stack, off>>

Reset(b) ==
    /\ phase[b] \in {"built", "failed"}
    /\ Destroy(b)
    /\ bld' = Initialised(b)
    /\ mem' = [Freed(b) EXCEPT ![Static(b)] = Nothing]
    /\ phase' = [phase EXCEPT ![b] = "open"]
    /\ UNCHANGED <<stack, off>>

\* Mutant: swap forgets to give the other builder back its own static buffer.
SwapSharesHeap(a, b) ==
    /\ a # b
    /\ {phase[a], phase[b]} \subseteq {"open", "built"}
    /\ bld' = [bld EXCEPT ![a] = IF bld[b].data = Static(b) THEN @ ELSE bld[b],
                          ![b] = IF bld[a].data = Static(a) THEN @ ELSE bld[a]]
    /\ mem' = [mem EXCEPT ![Static(a)] = IF bld[b].data = Static(b) THEN mem[Static(b)] ELSE @,
                          ![Static(b)] = IF bld[a].data = Static(a) THEN mem[Static(a)] ELSE @]
    /\ phase' = [phase EXCEPT ![a] = phase[b], ![b] = phase[a]]
    /\ UNCHANGED <<stack, off, alive, again, wild>>

\* ckernel_builder::swap: a static buffer stays where it is and its contents
\* are copied, a buffer on the heap changes hands.
Swap(a, b) ==
    LET Moved(s, from, to) == IF s.data = Static(from) THEN [s EXCEPT !.data = Static(to)] ELSE s
    IN  /\ a # b
        /\ {phase[a], phase[b]} \subseteq {"open", "built"}
        /\ bld' = [bld EXCEPT ![a] = Moved(bld[b], b, a), ![b] = Moved(bld[a], a, b)]
        /\ mem' = [mem EXCEPT ![Static(a)] = IF bld[b].data = Static(b) THEN mem[Static(b)] ELSE @,
                              ![Static(b)] = IF bld[a].data = Static(a) THEN mem[Static(a)] ELSE @]
        /\ phase' = [phase EXCEPT ![a] = phase[b], ![b] = phase[a]]
        /\ UNCHANGED <<stack, off, alive, again, wild>>

-----------------------------------------------------------------------------
(* The statements of the instantiate functions. *)

Offered == IF \E b \in Builders : phase[b] \in {"built", "failed"} THEN SecondKinds ELSE Kinds

\* What a frame may ask for next: the availability tests of an option are
\* leaves, the first half of an expression is a leaf or one more expression of
\* the source, anything else is an assignment of any kind.
Callees(f) ==
    {k \in Offered :
        /\ f.kind = "option" /\ f.at < 6 => k = "leaf"
        /\ f.kind \in {"srcexpr", "dstexpr"} /\ f.at = 3 => k \in {"leaf", "srcexpr"}}

Frame(k, root) == [kind |-> k, root |-> root, at |-> 1, self |-> NULL]

Instantiate(b, k) ==
    /\ stack = <<>> /\ phase[b] = "open" /\ k \in Offered
    /\ phase' = [phase EXCEPT ![b] = "building"]
    /\ off' = 0
    /\ stack' = <<Frame(k, 0)>>
    /\ UNCHANGED <<bld, mem, alive, again, wild>>

\* base_kernel::make and alloc_ck: advance the offset, reserve, construct.
Make ==
    /\ Running("make") /\ alive # Ids
    /\ \E r \in AfterReserve(Cur, Wanted) :
        LET data == r.bld[Cur].data
            id == CHOOSE x \in Ids \ alive : TRUE
            k == [kind |-> Top.kind, kids |-> [i \in 1 .. Recorded[Top.kind] |-> 0], id |-> id]
        IN  /\ bld' = r.bld
            /\ mem' = [r.mem EXCEPT ![data] = Placed(@, Top.root, k)]
            /\ alive' = alive \cup {id}
            /\ stack' = Advanced(data)
    /\ off' = off + Size[Top.kind]
    /\ UNCHANGED <<phase, again, wild>>

\* The kernel of the innermost frame, at block d, records that its next child
\* lies at offset o; what is written to memory freed since is lost.
Record(m, d, o) ==
    LET i == CHOOSE j \in 1 .. Recorded[Top.kind] :
                /\ m[d][Top.root].kids[j] = 0
                /\ \A h \in 1 .. j - 1 : m[d][Top.root].kids[h] # 0
    IN  IF Top.root \in DOMAIN m[d] THEN [m EXCEPT ![d][Top.root].kids[i] = o - Top.root]
        ELSE m

\* e->first_kernel_offset = ckb_offset - root_ckb_offset.
RecordFirst ==
    /\ Running("first")
    /\ mem' = Record(mem, Top.self, off)
    /\ stack' = Advanced(Top.self)
    /\ UNCHANGED <<bld, phase, off, alive, again, wild>>

\* Mutant: the field is recorded through the pointer taken before the reserve.
RecordFieldThroughOldPointer ==
    /\ Running("field")
    /\ \E r \in AfterReserve(Cur, Wanted) :
        /\ bld' = r.bld
        /\ mem' = Record(r.mem, Top.self, off)
        /\ stack' = Advanced(Top.self)
    /\ UNCHANGED <<phase, off, alive, again, wild>>

\* reserve(ckb_offset + sizeof(ckernel_prefix)); self = get_at(root); record.
RecordField ==
    /\ Running("field")
    /\ \E r \in AfterReserve(Cur, Wanted) :
        /\ bld' = r.bld
        /\ mem' = Record(r.mem, r.bld[Cur].data, off)
        /\ stack' = Advanced(r.bld[Cur].data)
    /\ UNCHANGED <<phase, off, alive, again, wild>>

\* Mutant: the pointer to the kernel is not taken again after the buffer is reserved.
RecordBufferKeepsPointer ==
    /\ Running("buffer")
    /\ \E r \in AfterReserve(Cur, Wanted) :
        /\ bld' = r.bld
        /\ mem' = Record(r.mem, r.bld[Cur].data, off + BufferWords)
        /\ stack' = Advanced(Top.self)
    /\ off' = off + BufferWords
    /\ UNCHANGED <<phase, alive, again, wild>>

\* The same behind the buffer that lies between the two children.
RecordBuffer ==
    /\ Running("buffer")
    /\ \E r \in AfterReserve(Cur, Wanted) :
        /\ bld' = r.bld
        /\ mem' = Record(r.mem, r.bld[Cur].data, off + BufferWords)
        /\ stack' = Advanced(r.bld[Cur].data)
    /\ off' = off + BufferWords
    /\ UNCHANGED <<phase, alive, again, wild>>

\* The instantiate function of the next child is called ...
Call(k) ==
    /\ Running("call") /\ k \in Callees(Top)
    /\ stack' = Append(Advanced(Top.self), Frame(k, off))
    /\ UNCHANGED <<bld, mem, phase, off, alive, again, wild>>

\* ... and returns the offset behind what it built.
Return ==
    /\ stack # <<>> /\ Top.at > Len(Program[Top.kind])
    /\ stack' = Front(stack)
    /\ IF Len(stack) = 1 THEN phase' = [phase EXCEPT ![Cur] = "built"] /\ off' = 0
                         ELSE UNCHANGED <<phase, off>>
    /\ UNCHANGED <<bld, mem, alive, again, wild>>

\* A type, broadcast or request error before the kernel is placed, or an
\* allocation of the kernel's own members that fails once it is.
Throw ==
    /\ \/ Running("make")
       \/ stack # <<>> /\ Top.at = 2 /\ Top.kind \in {"tuple", "srcexpr", "dstexpr"}
    /\ stack' = <<>> /\ off' = 0
    /\ phase' = [phase EXCEPT ![Cur] = "failed"]
    /\ UNCHANGED <<bld, mem, alive, again, wild>>

\* reserve finds no memory: it destroys the tree, forgets the buffer, throws.
ReserveFails ==
    /\ stack # <<>> /\ Wanted > bld[Cur].cap
    /\ Destroy(Cur)
    /\ mem' = Freed(Cur)
    /\ bld' = [bld EXCEPT ![Cur].data = NULL]
    /\ stack' = <<>> /\ off' = 0
    /\ phase' = [phase EXCEPT ![Cur] = "failed"]

-----------------------------------------------------------------------------
Init ==
    /\ bld = [b \in Builders |-> [data |-> NULL, cap |-> 0, clean |-> 0]]
    /\ mem = [x \in Blocks |-> Nothing]
    /\ phase = [b \in Builders |-> "none"]
    /\ stack = <<>> /\ off = 0
    /\ alive = {} /\ again = FALSE /\ wild = {}

Next ==
    \/ \E b \in Builders : NewBuilder(b) \/ DeleteBuilder(b) \/ Reset(b)
    \/ \E a, b \in Builders : Swap(a, b)
    \/ \E b \in Builders, k \in Kinds : Instantiate(b, k)
    \/ \E k \in Kinds : Call(k)
    \/ Make \/ RecordFirst \/ RecordField \/ RecordBuffer
    \/ Return \/ Throw \/ ReserveFails

Spec == Init /\ [][Next]_vars
-----------------------------------------------------------------------------
(* Properties. *)

Live(b) == bld[b].data # NULL
Memory(b) == mem[bld[b].data]

\* The words a kernel uses: its own and the buffer before its second child.
Words(o, k) == (o .. o + Size[k.kind] - 1)
    \cup (IF k.kind \in {"srcexpr", "dstexpr"} /\ k.kids[2] # 0
          THEN o + k.kids[2] - BufferWords .. o + k.kids[2] - 1 ELSE {})

\* The destructor of a tuple reads no memory but what reserve has zeroed, with
\* a child recorded and not yet constructed: each is reserved beforehand.
FieldsReserved == "tuple" \notin wild

\* No kernel, and no buffer of one, overlaps another or the end of the memory:
\* the offsets threaded through the instantiate functions and the capacities
\* they reserve agree, at every stage and after every move of the buffer, and
\* whatever is abandoned half built (make_tuple_unary_op_ckernel,
\* buffered_kernel_extra::init).
KernelsFit ==
    /\ FieldsReserved
    /\ \A b \in {x \in Builders : Live(x)} : \A o \in DOMAIN Memory(b) :
        /\ Words(o, Memory(b)[o]) \subseteq 0 .. bld[b].cap - 1
        /\ \A q \in DOMAIN Memory(b) \ {o} : Words(o, Memory(b)[o]) \cap Words(q, Memory(b)[q]) = {}

\* A finished kernel can be called: each place where it looks for a child
\* holds a kernel, and that kernel is the child of no other.
TreeComplete ==
    \A b \in {x \in Builders : phase[x] = "built"} :
        LET m == Memory(b)
            Calls == {c \in (DOMAIN m) \X (1 .. 3) : c[2] <= Len(Slots(c[1], m[c[1]]))}
            Callee(c) == Slots(c[1], m[c[1]])[c[2]]
        IN  /\ \A o \in DOMAIN m : Len(Slots(o, m[o])) =
                    Recorded[m[o].kind] + (IF m[o].kind \in HasHead THEN 1 ELSE 0)
            /\ {Callee(c) : c \in Calls} = DOMAIN m \ {0}
            /\ \A c, d \in Calls : Callee(c) = Callee(d) => c = d

\* A kernel is destroyed once: while it is alive exactly one builder holds it,
\* so that a tree abandoned at any stage by an exception, a failed reserve, a
\* reset or a swap is destroyed whole, and no part of it twice.
DestroyedOnce ==
    /\ ~again
    /\ alive = UNION {{Memory(b)[o].id : o \in DOMAIN Memory(b)} : b \in {x \in Builders : Live(x)}}
    /\ \A a, b \in {x \in Builders : Live(x)} : \A o \in DOMAIN Memory(a), q \in DOMAIN Memory(b) :
        Memory(a)[o].id = Memory(b)[q].id => a = b /\ o = q

\* No instantiate function uses the pointer to its kernel after something it
\* called has moved the kernel away.  What it wrote before the move may still
\* be read where it was if that is the builder's own array.
NoDanglingUse ==
    LET Writes == Running("first")
        Reads == \/ Running("call") /\ Top.kind \in {"srcexpr", "dstexpr"}
                 \/ Running("buffer") /\ Top.kind = "dstexpr"
    IN  /\ Writes => Top.self = bld[Cur].data
        /\ Reads => Top.self \in {bld[Cur].data, Static(Cur)}

=============================================================================
