------------------------------ MODULE RefCount ------------------------------
(***************************************************************************)
(* What intrusive reference counting promises, whatever holds the          *)
(* references: the contract of memory_block_incref, memory_block_decref,   *)
(* memory_block_free and memory_block_ptr (memory_block.hpp).              *)
(*                                                                         *)
(* A slot is a place that can hold a reference: a variable, or a field of  *)
(* a block.  A step is one atomic change of one use count (or none).  The  *)
(* count is kept by the code, slot by slot; that it equals the number of   *)
(* references is the claim.  MemoryBlocks implements this specification.   *)
(***************************************************************************)
EXTENDS Integers, Sequences, FiniteSets

CONSTANTS
    Thread,
    Block,
    Slot,
    NULL,
    Owner      \* Owner[s]: the block slot s is a field of, NULL for a variable

ASSUME RefCountAssumption ==
    /\ IsFiniteSet(Slot)
    /\ NULL \notin Block
    /\ Owner \in [Slot -> Block \cup {NULL}]

VARIABLES
    life,    \* life[b]: "free", "live", or "dying" (memory_block_free is running)
    count,   \* count[b]: m_use_count
    ref,     \* ref[s]: the block slot s refers to
    dying    \* dying[t]: the blocks thread t is freeing, innermost last

vars == <<life, count, ref, dying>>

Init ==
    /\ life = [b \in Block |-> "free"]
    /\ count = [b \in Block |-> 0]
    /\ ref = [s \in Slot |-> NULL]
    /\ dying = [t \in Thread |-> <<>>]

\* A slot that can be given a reference: a variable or a field of a live block.
Usable(s) == ref[s] = NULL /\ (Owner[s] # NULL => life[Owner[s]] = "live")

\* A block is made with use count 1, held by s.
New(s, b) ==
    /\ Usable(s) /\ life[b] = "free"
    /\ life' = [life EXCEPT ![b] = "live"]
    /\ count' = [count EXCEPT ![b] = 1]
    /\ ref' = [ref EXCEPT ![s] = b]
    /\ UNCHANGED dying

\* Mutant: the increment is forgotten.
CopyNoIncref(s, r) ==
    /\ Usable(s) /\ ref[r] # NULL
    /\ ref' = [ref EXCEPT ![s] = ref[r]]
    /\ UNCHANGED <<life, count, dying>>

\* A reference is copied: memory_block_incref on what slot r refers to.
Copy(s, r) ==
    /\ Usable(s) /\ ref[r] # NULL
    /\ ref' = [ref EXCEPT ![s] = ref[r]]
    /\ count' = [count EXCEPT ![ref[r]] = @ + 1]
    /\ UNCHANGED <<life, dying>>

\* A reference changes slots, or two slots exchange theirs; no count changes.
Exchange(s, r) ==
    /\ Owner[s] = NULL /\ Owner[r] = NULL
    /\ ref' = [ref EXCEPT ![s] = ref[r], ![r] = ref[s]]
    /\ UNCHANGED <<life, count, dying>>

\* Mutant: the count is compared before it is decremented.
DropFreesEarly(t, s) ==
    /\ ref[s] # NULL
    /\ ref' = [ref EXCEPT ![s] = NULL]
    /\ count' = [count EXCEPT ![ref[s]] = @ - 1]
    /\ life' = [life EXCEPT ![ref[s]] = "dying"]
    /\ dying' = [dying EXCEPT ![t] = Append(@, ref[s])]

\* memory_block_decref: the thread that takes the count to zero frees the block.
Drop(t, s) ==
    /\ ref[s] # NULL
    /\ ref' = [ref EXCEPT ![s] = NULL]
    /\ count' = [count EXCEPT ![ref[s]] = @ - 1]
    /\ IF count'[ref[s]] = 0
       THEN /\ life' = [life EXCEPT ![ref[s]] = "dying"]
            /\ dying' = [dying EXCEPT ![t] = Append(@, ref[s])]
       ELSE UNCHANGED <<life, dying>>

\* The end of memory_block_free: the fields have been released, the memory goes.
Free(t) ==
    /\ dying[t] # <<>>
    /\ LET b == dying[t][Len(dying[t])]
       IN  /\ \A s \in Slot : Owner[s] = b => ref[s] = NULL
           /\ life' = [life EXCEPT ![b] = "free"]
    /\ dying' = [dying EXCEPT ![t] = SubSeq(@, 1, Len(@) - 1)]
    /\ UNCHANGED <<count, ref>>

Next ==
    \/ \E s \in Slot, b \in Block : New(s, b)
    \/ \E s, r \in Slot : Copy(s, r) \/ Exchange(s, r)
    \/ \E t \in Thread : Free(t) \/ \E s \in Slot : Drop(t, s)

Spec == Init /\ [][Next]_vars

-----------------------------------------------------------------------------
TypeOK ==
    /\ life \in [Block -> {"free", "live", "dying"}]
    /\ count \in [Block -> Nat]
    /\ ref \in [Slot -> Block \cup {NULL}]
    /\ dying \in [Thread -> Seq(Block)]

\* The use count of a block is the number of references to it, after every
\* single increment and decrement (memory_block_incref, memory_block_decref).
Referrers(b) == {s \in Slot : ref[s] = b}
RefcountExact == \A b \in Block : count[b] = Cardinality(Referrers(b))

\* No slot refers to a block that is being freed or has been: decref frees
\* only what nothing refers to any more.
NoDangling == \A s \in Slot : ref[s] # NULL => life[ref[s]] = "live"

\* A live block is referred to: a block never lingers once its count is zero.
NoneLingers == \A b \in Block : life[b] = "live" => count[b] > 0

\* memory_block_free runs once for a block, in one thread.
OnStacksAreDying ==
    \A t \in Thread : \A i \in DOMAIN dying[t] : life[dying[t][i]] = "dying"
OnOneStackOnce ==
    \A t, u \in Thread : \A i \in DOMAIN dying[t], j \in DOMAIN dying[u] :
        dying[t][i] = dying[u][j] => t = u /\ i = j
FreedOnce == OnStacksAreDying /\ OnOneStackOnce

\* memory_block_free leaves no reference behind in the memory it gives back.
FreedHoldNothing ==
    \A s \in Slot : Owner[s] # NULL /\ life[Owner[s]] = "free" => ref[s] = NULL

\* The inductive invariant: the parts hold together, not one by one.
IInv ==
    /\ TypeOK
    /\ RefcountExact
    /\ \A b \in Block : life[b] = "live" <=> count[b] > 0
    /\ FreedOnce
    /\ FreedHoldNothing
=============================================================================
