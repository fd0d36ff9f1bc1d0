---------------------------- MODULE MemoryBlocks ----------------------------
(***************************************************************************)
(* Reference-counted memory blocks and the nd::array built on them.        *)
(*                                                                         *)
(* A memory block starts with an atomic use count and a type               *)
(* (memory_block.hpp).  References to it are held by memory_block_ptr      *)
(* variables and by fields of other blocks: an array block refers to the   *)
(* block that owns its data (m_data_reference) and, through the blockrefs  *)
(* in its arrmeta, to the blocks that hold its variable-sized data.  Both  *)
(* kinds of holder are "slots" here.  One step of a thread is at most one  *)
(* atomic change of a use count; the rest of the operation waits in        *)
(* todo[t], and the blocks thread t is in the middle of freeing are the    *)
(* stack dying[t].                                                         *)
(*                                                                         *)
(* Variables of different threads are different C++ objects: sharing one   *)
(* memory_block_ptr object between threads without a lock is outside the   *)
(* code's contract and outside the model.  Sharing the blocks is inside.   *)
(***************************************************************************)
EXTENDS Integers, Sequences, FiniteSets

CONSTANTS
    Thread,        \* the threads using the library
    Var,           \* the memory_block_ptr / nd::array variables of one thread
    Block,         \* the memory blocks that can exist at the same time
    NULL,          \* the null pointer
    Features,      \* the groups of array operations a configuration enables
    SelfAssign     \* does a program copy-assign a variable to itself (x = x):
                   \* "never", only when its block is "shared", or "any" time

Field == {"meta1", "meta2", "data"}

(***************************************************************************)
(* What the arrmeta of a type holds: "fixed" no blockref (builtin or fixed *)
(* dims of builtin), "string", "bytes" and "var" one blockref, "varstring" *)
(* (var dim of string) two, "pointer" one, "tuple" (of two pointers) and   *)
(* "groupby" (a struct of two pointers) two.                               *)
(***************************************************************************)
BufferType == {"fixed", "string", "bytes", "var", "varstring"}

Handle == Thread \X Var
Slot   == Handle \cup (Block \X Field)

ASSUME MemoryBlocksAssumption ==
    /\ IsFiniteSet(Thread) /\ IsFiniteSet(Var) /\ IsFiniteSet(Block)
    /\ Thread \cap Block = {} /\ NULL \notin Block
    /\ SelfAssign \in {"never", "shared", "any"}

VARIABLES
    life,    \* life[b]: "free" (not allocated), "live", or "dying" (being freed)
    kind,    \* kind[b]: the m_type of the block: "array", "pod", "zeroinit", "external"
    count,   \* count[b]: the m_use_count of the block
    ref,     \* ref[s]: the block slot s refers to
    typ,     \* typ[b]: the dynd type of an array block
    flags,   \* flags[b]: the access flags of an array block: "read", "write", "immutable"
    dying,   \* dying[t]: the stack of blocks thread t is freeing
    todo     \* todo[t]: the rest of the operation thread t is executing

vars == <<life, kind, count, ref, typ, flags, dying, todo>>

(***************************************************************************)
(* The elementary steps an operation is made of.                           *)
(***************************************************************************)
Share(s, h, f) == [op |-> "share", slot |-> s, from |-> h, field |-> f]
Stale(s, b)    == [op |-> "stale", slot |-> s, block |-> b]
Steal(s, h)    == [op |-> "steal", slot |-> s, from |-> h]
Drop(s)        == [op |-> "drop",  slot |-> s]
Fresh(s, k, h) == [op |-> "fresh", slot |-> s, kind |-> k, owner |-> h]
CopyFlags(b, h) == [op |-> "copyflags", block |-> b, from |-> h]
SetFlags(b, F)  == [op |-> "setflags",  block |-> b, val |-> F]
CheckRead(h, x) == [op |-> "checkread", from |-> h, owner |-> x]

Free == {b \in Block : life[b] = "free"}
Live == {b \in Block : life[b] = "live"}
Idle(t) == dying[t] = <<>> /\ todo[t] = <<>>

(* The block a field of the array held by h leads to: the field's own      *)
(* reference if it has one, otherwise the array block itself, because the  *)
(* data is then embedded in it (embedded_reference in the code).           *)
Reached(h, f) ==
    LET a == ref[h]
    IN  IF a = NULL \/ f = "self" THEN a
        ELSE IF ref[<<a, f>>] = NULL THEN a ELSE ref[<<a, f>>]

(***************************************************************************)
(* memory_block_incref and memory_block_decref on the block a slot refers  *)
(* to.  When the count reaches zero memory_block_free runs in the same     *)
(* thread: the block goes on top of the thread's stack.                    *)
(***************************************************************************)
\* Mutant: the pointer is stored and the increment forgotten.
AcquireNoIncref(s, b) ==
    /\ ref' = [ref EXCEPT ![s] = b]
    /\ UNCHANGED count

Acquire(s, b) ==
    /\ ref' = [ref EXCEPT ![s] = b]
    /\ count' = IF b = NULL THEN count ELSE [count EXCEPT ![b] = @ + 1]

Release(t, s) ==
    LET b == ref[s]
    IN  /\ ref' = [ref EXCEPT ![s] = NULL]
        /\ IF b = NULL
           THEN UNCHANGED <<count, life, dying>>
           ELSE /\ count' = [count EXCEPT ![b] = @ - 1]
                /\ IF count[b] = 1
                   THEN /\ life' = [life EXCEPT ![b] = "dying"]
                        /\ dying' = [dying EXCEPT ![t] = Append(@, b)]
                   ELSE UNCHANGED <<life, dying>>

(* A new block n of kind k held by slot s, with use count 1.               *)
Allocate(s, n, k) ==
    /\ life' = [life EXCEPT ![n] = "live"]
    /\ kind' = [kind EXCEPT ![n] = k]
    /\ count' = [count EXCEPT ![n] = 1]
    /\ ref' = [ref EXCEPT ![s] = n]

Init ==
    /\ life = [b \in Block |-> "free"]
    /\ kind = [b \in Block |-> "pod"]
    /\ count = [b \in Block |-> 0]
    /\ ref = [s \in Slot |-> NULL]
    /\ typ = [b \in Block |-> "fixed"]
    /\ flags = [b \in Block |-> {}]
    /\ dying = [t \in Thread |-> <<>>]
    /\ todo = [t \in Thread |-> <<>>]

-----------------------------------------------------------------------------
(***************************************************************************)
(* memory_block_ptr.                                                       *)
(***************************************************************************)

\* make_pod_memory_block, make_external_memory_block: a block of its own.
MakeBlock(t, x, k) ==
    /\ Idle(t) /\ ref[x] = NULL /\ k # "array"
    /\ \E n \in Free : Allocate(x, n, k)
    /\ UNCHANGED <<typ, flags, dying, todo>>

CopyConstruct(t, x, y) ==
    /\ Idle(t) /\ ref[x] = NULL /\ ref[y] # NULL
    /\ Acquire(x, ref[y])
    /\ UNCHANGED <<life, kind, typ, flags, dying, todo>>

\* The move constructor, also used to hand an array over to thread u.
MoveConstruct(t, u, x, y) ==
    /\ Idle(t) /\ Idle(u) /\ ref[x] = NULL /\ ref[y] # NULL
    /\ ref' = [ref EXCEPT ![x] = ref[y], ![y] = NULL]
    /\ UNCHANGED <<life, kind, count, typ, flags, dying, todo>>

Destruct(t, x) ==
    /\ Idle(t) /\ ref[x] # NULL
    /\ Release(t, x)
    /\ UNCHANGED <<kind, typ, flags, todo>>

\* operator=(const memory_block_ptr&): the old block is released first, then
\* rhs.m_memblock is read and its block acquired.  When rhs is the variable
\* itself, what is read is the pointer that has just been released.
CopyAssign(t, x, y) ==
    /\ Idle(t)
    /\ x = y => \/ SelfAssign = "any"
                \/ SelfAssign = "shared" /\ ref[x] # NULL /\ count[ref[x]] > 1
    /\ Release(t, x)
    /\ todo' = [todo EXCEPT ![t] =
                   IF ref[y] = NULL THEN <<>>
                   ELSE IF x = y THEN <<Stale(x, ref[x])>>
                   ELSE <<Share(x, y, "self")>>]
    /\ UNCHANGED <<kind, typ, flags>>

\* operator=(memory_block_ptr&&).
MoveAssign(t, x, y) ==
    /\ Idle(t)
    /\ Release(t, x)
    /\ todo' = [todo EXCEPT ![t] = <<Steal(x, y)>>]
    /\ UNCHANGED <<kind, typ, flags>>

Swap(t, x, y) ==
    /\ Idle(t) /\ ref[x] # ref[y]
    /\ ref' = [ref EXCEPT ![x] = ref[y], ![y] = ref[x]]
    /\ UNCHANGED <<life, kind, count, typ, flags, dying, todo>>

-----------------------------------------------------------------------------
(***************************************************************************)
(* Creating arrays.  BeginArray makes the array block and leaves the rest  *)
(* of the construction in todo.                                            *)
(***************************************************************************)
HoldsArray(h) == ref[h] # NULL /\ kind[ref[h]] = "array"
TypeOf(h)  == typ[ref[h]]
FlagsOf(h) == flags[ref[h]]

BeginArray(t, x, n, tp, F, rest) ==
    /\ Idle(t) /\ ref[x] = NULL /\ n \in Free
    /\ Allocate(x, n, "array")
    /\ typ' = [typ EXCEPT ![n] = tp]
    /\ flags' = [flags EXCEPT ![n] = F]
    /\ todo' = [todo EXCEPT ![t] = rest]
    /\ UNCHANGED dying

\* Mutant: embedded data recorded as a reference of the array to itself.
BuffersSelfReference(n, tp, x) == <<Share(<<n, "data">>, x, "self")>>

\* The blockrefs arrmeta_default_construct allocates for a type, in order; a
\* var dim of strings keeps its elements in a zero-initialized block.
Buffers(n, tp, x) ==
    CASE tp \in {"string", "bytes", "var"} -> <<Fresh(<<n, "meta1">>, "pod", x)>>
      [] tp = "varstring" -> <<Fresh(<<n, "meta1">>, "zeroinit", x), Fresh(<<n, "meta2">>, "pod", x)>>
      [] OTHER -> <<>>

\* nd::empty and the other creators with data embedded in the array block.
Empty(t, x, tp) ==
    \E n \in Free :
        BeginArray(t, x, n, tp, {"read", "write"}, Buffers(n, tp, x))

\* make_pod_array, make_bytes_array: data copied in, read-only for ever.
MakePodArray(t, x) ==
    \E n \in Free : BeginArray(t, x, n, "fixed", {"read", "immutable"}, <<>>)

\* make_strided_array_from_data: the data belongs to another block.
FromData(t, x, y, F) ==
    /\ ref[y] # NULL /\ kind[ref[y]] # "array"
    /\ \E n \in Free :
        BeginArray(t, x, n, "fixed", F, <<Share(<<n, "data">>, y, "self")>>)

\* What copying the arrmeta of a type copies, blockref by blockref.
CopyMeta(n, tp, y) ==
    CASE tp \in {"string", "bytes", "var", "pointer"} -> <<Share(<<n, "meta1">>, y, "meta1")>>
      [] tp \in {"varstring", "tuple", "groupby"} ->
             <<Share(<<n, "meta1">>, y, "meta1"), Share(<<n, "meta2">>, y, "meta2")>>
      [] OTHER -> <<>>

\* at_array with slices that keep the type, shallow_copy_array_memory_block,
\* view_concrete: a second array on the same data, with the same flags.
View(t, x, y) ==
    /\ HoldsArray(y)
    /\ \E n \in Free :
        BeginArray(t, x, n, TypeOf(y), {},
            <<Share(<<n, "data">>, y, "data")>> \o CopyMeta(n, TypeOf(y), y)
            \o <<CopyFlags(n, y)>>)

\* at_array when apply_linear_index throws (index out of bounds, unsupported
\* slice): the result is destroyed with what was filled in so far.
ViewThrows(t, x, y) ==
    /\ HoldsArray(y)
    /\ \E n \in Free :
        BeginArray(t, x, n, TypeOf(y), {}, <<Share(<<n, "data">>, y, "data"), Drop(x)>>)

\* at_array / view_concrete through a leading var dimension: the reference to
\* the array's data is exchanged for one to the var dimension's buffer.
IndexVar(t, x, y) ==
    /\ HoldsArray(y) /\ TypeOf(y) \in {"var", "varstring"}
    /\ \E n \in Free :
        BeginArray(t, x, n, IF TypeOf(y) = "var" THEN "fixed" ELSE "string", {},
            <<Share(<<n, "data">>, y, "data"), Drop(<<n, "data">>),
              Share(<<n, "data">>, y, "meta1")>>
            \o (IF TypeOf(y) = "var" THEN <<>> ELSE <<Share(<<n, "meta1">>, y, "meta2")>>)
            \o <<CopyFlags(n, y)>>)

\* view_as_bytes: a bytes array whose blockref is the block that owns the bytes.
ViewAsBytes(t, x, y) ==
    /\ HoldsArray(y) /\ TypeOf(y) \in {"fixed", "string", "var", "pointer"}
    /\ \E n \in Free :
        BeginArray(t, x, n, "bytes", FlagsOf(y),
            <<Share(<<n, "meta1">>, y, IF TypeOf(y) = "fixed" THEN "data" ELSE "meta1")>>)

\* view_from_bytes: the bytes array's blockref becomes the data reference.
ViewFromBytes(t, x, y) ==
    /\ HoldsArray(y) /\ TypeOf(y) = "bytes"
    /\ \E n \in Free :
        BeginArray(t, x, n, "fixed", FlagsOf(y),
            <<Share(<<n, "data">>, y, IF ref[<<ref[y], "meta1">>] # NULL THEN "meta1" ELSE "data")>>)

\* combine_into_tuple: pointers to the data of two arrays, and the flags both have.
CombineIntoTuple(t, x, y, z) ==
    /\ HoldsArray(y) /\ HoldsArray(z) /\ TypeOf(y) = "fixed" /\ TypeOf(z) = "fixed"
    /\ \E n \in Free :
        BeginArray(t, x, n, "tuple", FlagsOf(y) \cap FlagsOf(z),
            <<Share(<<n, "meta1">>, y, "data"), Share(<<n, "meta2">>, z, "data")>>)

\* at_array on a tuple with one index: a view of the i-th pointer.
TupleField(t, x, y, f) ==
    /\ HoldsArray(y) /\ TypeOf(y) = "tuple"
    /\ \E n \in Free :
        BeginArray(t, x, n, "pointer", {},
            <<Share(<<n, "data">>, y, "data"), Share(<<n, "meta1">>, y, f),
              CopyFlags(n, y)>>)

\* array_function_dereference: an array on the pointer's target.
Dereference(t, x, y) ==
    /\ HoldsArray(y) /\ TypeOf(y) = "pointer"
    /\ \E n \in Free :
        BeginArray(t, x, n, "fixed", {},
            <<Share(<<n, "data">>, y, "meta1"), CopyFlags(n, y)>>)

\* nd::groupby: read-only, and immutable when both inputs are.
GroupBy(t, x, y, z) ==
    /\ HoldsArray(y) /\ HoldsArray(z) /\ TypeOf(y) = "fixed" /\ TypeOf(z) = "fixed"
    /\ \E n \in Free :
        BeginArray(t, x, n, "groupby",
            {"read"} \cup (FlagsOf(y) \cap FlagsOf(z) \cap {"immutable"}),
            <<Share(<<n, "meta1">>, y, "data"), Share(<<n, "meta2">>, z, "data")>>)

-----------------------------------------------------------------------------
(***************************************************************************)
(* Evaluation and immutability.                                            *)
(***************************************************************************)
\* Mutant: eval_copy hands out the immutable original with the new flags.
EvalCopyShares(t, x, y, F) ==
    /\ Idle(t) /\ ref[x] = NULL /\ HoldsArray(y)
    /\ Acquire(x, ref[y])
    /\ todo' = [todo EXCEPT ![t] = <<SetFlags(ref[y], F)>>]
    /\ UNCHANGED <<life, kind, typ, flags, dying>>

IsExpression(tp) == tp = "groupby"
CanonicalType(tp) == IF tp = "groupby" THEN "var" ELSE tp

\* A new array with the canonical type, filled by val_assign, then flagged.
EvalInto(t, x, y, F) ==
    LET tp == CanonicalType(TypeOf(y))
    IN  \E n \in Free :
            BeginArray(t, x, n, tp, {"read", "write"},
                Buffers(n, tp, x) \o <<CheckRead(y, x), SetFlags(n, F)>>)

Eval(t, x, y) ==
    /\ HoldsArray(y) /\ TypeOf(y) \in BufferType \cup {"groupby"}
    /\ IF IsExpression(TypeOf(y))
       THEN EvalInto(t, x, y, {"read", "write"})
       ELSE CopyConstruct(t, x, y)

EvalImmutable(t, x, y) ==
    /\ HoldsArray(y) /\ TypeOf(y) \in BufferType \cup {"groupby"}
    /\ IF "immutable" \in FlagsOf(y) /\ ~IsExpression(TypeOf(y))
       THEN CopyConstruct(t, x, y)
       ELSE EvalInto(t, x, y, {"read", "immutable"})

\* eval_copy: no flags asked for means the default, read alone adds immutable.
EvalCopy(t, x, y, F) ==
    /\ HoldsArray(y) /\ TypeOf(y) \in BufferType \cup {"groupby"}
    /\ EvalInto(t, x, y,
          CASE F = {} -> {"read", "write"}
            [] F = {"read"} -> {"read", "immutable"}
            [] OTHER -> F)

\* Mutant: only the kind of the buffer is looked at, not who else uses it.
OwnsBufferShared(a, f, K) ==
    ref[<<a, f>>] # NULL => kind[ref[<<a, f>>]] \in K

\* is_unique_data_owner.  A var dim's buffer may be any growing block, a
\* string's only a POD block; types that do not override base_type's answer TRUE.
OwnsBuffer(a, f, K) ==
    ref[<<a, f>>] # NULL => count[ref[<<a, f>>]] = 1 /\ kind[ref[<<a, f>>]] \in K

IsUniqueDataOwner(a) ==
    /\ typ[a] \in {"string", "bytes"} => OwnsBuffer(a, "meta1", {"pod"})
    /\ typ[a] \in {"var", "varstring"} => OwnsBuffer(a, "meta1", {"pod", "zeroinit"})
    /\ typ[a] = "varstring" => OwnsBuffer(a, "meta2", {"pod"})

\* Mutant: the use counts of the array and its data are not looked at.
FlagAsImmutableUnchecked(t, x) ==
    LET a == ref[x]
    IN  /\ Idle(t) /\ HoldsArray(x) /\ typ[a] \notin {"pointer", "tuple"}
        /\ IsUniqueDataOwner(a)
        /\ flags' = [flags EXCEPT ![a] = (@ \ {"write"}) \cup {"immutable"}]
        /\ UNCHANGED <<life, kind, count, ref, typ, dying, todo>>

\* flag_as_immutable.  Pointers are left out: is_unique_data_owner of
\* pointer_type dereferences a byte of the arrmeta, so the call cannot return.
FlagAsImmutable(t, x) ==
    LET a == ref[x]
        d == ref[<<a, "data">>]
    IN  /\ Idle(t) /\ HoldsArray(x) /\ typ[a] \notin {"pointer", "tuple"}
        /\ "immutable" \notin flags[a]
        /\ count[a] = 1
        /\ d # NULL => count[d] = 1 /\ kind[d] = "pod"
        /\ IsUniqueDataOwner(a)
        /\ flags' = [flags EXCEPT ![a] = (@ \ {"write"}) \cup {"immutable"}]
        /\ UNCHANGED <<life, kind, count, ref, typ, dying, todo>>

-----------------------------------------------------------------------------
(***************************************************************************)
(* Carrying an operation on.  memory_block_free of the block on top of the *)
(* stack comes before anything else the thread does.                       *)
(***************************************************************************)

\* free_array_memory_block: the arrmeta's references, then the data's, then
\* the memory; the other kinds hold no reference.
FreeBlock(t) ==
    /\ dying[t] # <<>>
    /\ LET b == dying[t][Len(dying[t])]
       IN  \/ \E f \in Field :
                /\ ref[<<b, f>>] # NULL
                /\ f = "meta2" => ref[<<b, "meta1">>] = NULL
                /\ f = "data"  => ref[<<b, "meta1">>] = NULL /\ ref[<<b, "meta2">>] = NULL
                /\ Release(t, <<b, f>>)
                /\ UNCHANGED <<kind, typ, flags, todo>>
           \/ /\ \A f \in Field : ref[<<b, f>>] = NULL
              /\ life' = [life EXCEPT ![b] = "free"]
              /\ dying' = [dying EXCEPT ![t] = SubSeq(@, 1, Len(@) - 1)]
              /\ typ' = [typ EXCEPT ![b] = "fixed"]
              /\ kind' = [kind EXCEPT ![b] = "pod"]
              /\ flags' = [flags EXCEPT ![b] = {}]
              /\ UNCHANGED <<count, ref, todo>>

Running(t, o) == dying[t] = <<>> /\ todo[t] # <<>> /\ Head(todo[t]).op = o
PopTodo(t) == todo' = [todo EXCEPT ![t] = Tail(@)]

DoShare(t) ==
    /\ Running(t, "share")
    /\ Acquire(Head(todo[t]).slot, Reached(Head(todo[t]).from, Head(todo[t]).field))
    /\ PopTodo(t)
    /\ UNCHANGED <<life, kind, typ, flags, dying>>

DoStale(t) ==
    /\ Running(t, "stale")
    /\ Acquire(Head(todo[t]).slot, Head(todo[t]).block)
    /\ PopTodo(t)
    /\ UNCHANGED <<life, kind, typ, flags, dying>>

DoSteal(t) ==
    /\ Running(t, "steal")
    /\ LET h == Head(todo[t]).from IN
       ref' = [[ref EXCEPT ![Head(todo[t]).slot] = ref[h]] EXCEPT ![h] = NULL]
    /\ PopTodo(t)
    /\ UNCHANGED <<life, kind, count, typ, flags, dying>>

DoDrop(t) ==
    /\ Running(t, "drop")
    /\ Release(t, Head(todo[t]).slot)
    /\ PopTodo(t)
    /\ UNCHANGED <<kind, typ, flags>>

DoFresh(t) ==
    /\ Running(t, "fresh")
    /\ \E n \in Free : Allocate(Head(todo[t]).slot, n, Head(todo[t]).kind)
    /\ PopTodo(t)
    /\ UNCHANGED <<typ, flags, dying>>

\* Mutant: the allocation is tried again for as long as it fails.
DoFreshRetries(t) == Running(t, "fresh") /\ UNCHANGED vars

\* malloc fails inside arrmeta_default_construct: the half-made array is
\* destroyed while the exception propagates.
DoFreshFails(t) ==
    /\ Running(t, "fresh")
    /\ todo' = [todo EXCEPT ![t] = <<Drop(Head(@).owner)>>]
    /\ UNCHANGED <<life, kind, count, ref, typ, flags, dying>>

DoCopyFlags(t) ==
    /\ Running(t, "copyflags")
    /\ flags' = [flags EXCEPT ![Head(todo[t]).block] = FlagsOf(Head(todo[t]).from)]
    /\ PopTodo(t)
    /\ UNCHANGED <<life, kind, count, ref, typ, dying>>

DoSetFlags(t) ==
    /\ Running(t, "setflags")
    /\ flags' = [flags EXCEPT ![Head(todo[t]).block] = Head(todo[t]).val]
    /\ PopTodo(t)
    /\ UNCHANGED <<life, kind, count, ref, typ, dying>>

\* val_assign verifies that its source is readable, and throws otherwise.
DoCheckRead(t) ==
    /\ Running(t, "checkread")
    /\ todo' = [todo EXCEPT ![t] =
                   IF "read" \in FlagsOf(Head(@).from) THEN Tail(@)
                   ELSE <<Drop(Head(@).owner)>>]
    /\ UNCHANGED <<life, kind, count, ref, typ, flags, dying>>

Continue(t) ==
    \/ FreeBlock(t)
    \/ DoShare(t) \/ DoStale(t) \/ DoSteal(t) \/ DoDrop(t)
    \/ DoFresh(t) \/ DoFreshFails(t)
    \/ DoCopyFlags(t) \/ DoSetFlags(t) \/ DoCheckRead(t)

PointerStep(t, x, y) ==
    \/ CopyConstruct(t, x, y) \/ CopyAssign(t, x, y)
    \/ MoveAssign(t, x, y) \/ Swap(t, x, y)

ArrayStep(t, x, y) ==
    \/ "view"  \in Features /\ (View(t, x, y) \/ ViewThrows(t, x, y))
    \/ "index" \in Features /\ IndexVar(t, x, y)
    \/ "data"  \in Features /\ \E F \in {{"read"}, {"read", "write"}} : FromData(t, x, y, F)
    \/ "bytes" \in Features /\ (ViewAsBytes(t, x, y) \/ ViewFromBytes(t, x, y))
    \/ "tuple" \in Features /\ ( \/ \E f \in {"meta1", "meta2"} : TupleField(t, x, y, f)
                                 \/ Dereference(t, x, y))
    \/ "eval"  \in Features /\ ( \/ Eval(t, x, y) \/ EvalImmutable(t, x, y)
                                 \/ \E F \in {{}, {"read"}, {"write"}} : EvalCopy(t, x, y, F))

Operation(t) ==
    \E v \in Var :
        LET x == <<t, v>> IN
        \/ Destruct(t, x)
        \/ FlagAsImmutable(t, x)
        \/ "data" \in Features /\ \E k \in {"pod", "external"} : MakeBlock(t, x, k)
        \/ \E tp \in BufferType : tp \in Features /\ Empty(t, x, tp)
        \/ "podarray" \in Features /\ MakePodArray(t, x)
        \/ \E u \in Thread, w \in Var : MoveConstruct(t, u, <<u, w>>, x)
        \/ \E w \in Var : PointerStep(t, x, <<t, w>>) \/ ArrayStep(t, x, <<t, w>>)
        \/ \E w, z \in Var :
              \/ "tuple" \in Features /\ CombineIntoTuple(t, x, <<t, w>>, <<t, z>>)
              \/ "groupby" \in Features /\ GroupBy(t, x, <<t, w>>, <<t, z>>)

Next == \E t \in Thread : Operation(t) \/ Continue(t)

Spec == Init /\ [][Next]_vars

\* A thread that has begun an operation runs to its end.
FairSpec == Spec /\ \A t \in Thread : WF_vars(Continue(t))
-----------------------------------------------------------------------------
(***************************************************************************)
(* Properties.  RC is the contract of reference counting alone: what kinds *)
(* of blocks there are, and which operation a step belongs to, forgotten.  *)
(***************************************************************************)
SlotOwner == [s \in Slot |-> IF s \in Handle THEN NULL ELSE s[1]]
RC == INSTANCE RefCount WITH Owner <- SlotOwner

\* Every micro-step of every array operation is one legal use of
\* memory_block_incref, memory_block_decref or memory_block_free: never a copy
\* of a reference that is not held, a field of a dead array filled in, or an
\* array given back while its fields still hold references.
RefinesRefCount == RC!Spec

\* No variable and no field of an array ever refers to a block that is being
\* freed or has been: memory_block_decref frees only what nobody can reach.
NoDangling == RC!NoDangling

\* Reference counting reclaims everything: no set of live blocks is kept alive
\* by references of its own blocks (or blocks being freed) alone.
NoIsland ==
    \A S \in (SUBSET Live) \ {{}} :
        \E s \in Slot : ref[s] \in S /\ s \notin S \X Field

\* The blocks whose contents an array gives access to.
Storage(a) ==
    {IF ref[<<a, "data">>] = NULL THEN a ELSE ref[<<a, "data">>]}
    \cup ({ref[<<a, "meta1">>], ref[<<a, "meta2">>]} \ {NULL})
LiveArrays == {b \in Live : kind[b] = "array"}

\* immutable_access_flag (array.hpp): "If an array will not be written to by
\* anyone else either".  Nobody holds a writable array on the storage of an
\* immutable one.
NotWrittenByOthers(a) ==
    \A b \in LiveArrays :
        "write" \in flags[b] => Storage(a) \cap Storage(b) = {}
ImmutableNotWritable ==
    \A a \in LiveArrays : "immutable" \in flags[a] => NotWrittenByOthers(a)

\* The same, for every array but one of groupby type, whose
\* is_unique_data_owner is the base class's.
ImmutableBuffersNotWritable ==
    \A a \in LiveArrays :
        "immutable" \in flags[a] /\ typ[a] # "groupby" => NotWrittenByOthers(a)

\* An array that has become immutable is so until it is freed.
ImmutableForever ==
    [][\A b \in Block :
          "immutable" \in flags[b] /\ life'[b] = "live" => flags'[b] = flags[b]]_vars

\* Every operation of every thread ends, the freeing of every block whose count
\* reached zero included.
OperationsEnd == \A t \in Thread : []<>Idle(t)
=============================================================================
