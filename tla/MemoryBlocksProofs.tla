------------------------- MODULE MemoryBlocksProofs -------------------------
(***************************************************************************)
(* Every micro-step of every operation on memory blocks and arrays is one  *)
(* legal use of a reference count, for any numbers of threads, variables   *)
(* and blocks and any operations; and an immutable array stays immutable.  *)
(***************************************************************************)
EXTENDS MemoryBlocks, FiniteSetTheorems, SequenceTheorems, TLAPS

(* The proofs about reference counting, for the slots of this module.        *)
P == INSTANCE RefCountProofs WITH Owner <- SlotOwner

(* The variables of thread t.                                                *)
Own(t) == {t} \X Var
Fields == Block \X Field

(* The steps that can wait in todo[t].                                       *)
Item(t) ==
    [op : {"share"}, slot : Own(t) \cup Fields, from : Own(t), field : Field \cup {"self"}]
    \cup [op : {"stale"}, slot : Own(t), block : Block]
    \cup [op : {"steal"}, slot : Own(t), from : Own(t)]
    \cup [op : {"drop"}, slot : Own(t) \cup Fields]
    \cup [op : {"fresh"}, slot : Fields, kind : {"pod", "zeroinit"}, owner : Own(t)]
    \cup [op : {"copyflags"}, block : Block, from : Own(t)]
    \cup [op : {"setflags"}, block : Block, val : SUBSET {"read", "write", "immutable"}]
    \cup [op : {"checkread"}, from : Own(t), owner : Own(t)]

Writes(o)  == o.op \in {"share", "stale", "steal", "fresh"}
OnSlot(o)  == Writes(o) \/ o.op = "drop"
OnField(o) == OnSlot(o) /\ o.slot \in Fields
OnFlags(o) == o.op \in {"copyflags", "setflags"}

(* The array a step of its construction works on.                            *)
OnArray(o) == OnField(o) \/ OnFlags(o)
ArrayOf(o) == IF OnFlags(o) THEN o.block ELSE o.slot[1]

(* One variable of t, and nothing else, refers to n.                         *)
Alone(t, n) == \E x \in Own(t) : \A s \in Slot : ref[s] = n <=> s = x

OneThread == \A t, u \in Thread : t = u

(* An array under construction is its thread's alone.                        *)
ArraysAlone(t) ==
    \A i \in DOMAIN todo[t] : OnArray(todo[t][i]) => Alone(t, ArrayOf(todo[t][i]))

(* No array is made of references to itself.                                 *)
FromOthers(t) ==
    \A i, j \in DOMAIN todo[t] :
        todo[t][i].op = "share" /\ OnArray(todo[t][j])
            => ref[todo[t][i].from] # ArrayOf(todo[t][j])

(* Variables and flags are written last.                                     *)
LastOfAll(t) ==
    \A i \in DOMAIN todo[t] :
        OnFlags(todo[t][i]) \/ (OnSlot(todo[t][i]) /\ todo[t][i].slot \in Own(t))
            => i = Len(todo[t])

(* A slot that will be written is empty, or will be when its turn comes.     *)
EmptyInTime(t) ==
    \A i \in DOMAIN todo[t] : Writes(todo[t][i]) =>
        \/ i > 1 /\ todo[t][i - 1].op = "drop" /\ todo[t][i - 1].slot = todo[t][i].slot
        \/ /\ ref[todo[t][i].slot] = NULL
           /\ \A j \in 1..(i - 1) :
                 Writes(todo[t][j]) => todo[t][j].slot # todo[t][i].slot

(* A pointer read from the variable assigned to itself is still good.        *)
StaleIsLive(t) ==
    \A i \in DOMAIN todo[t] : todo[t][i].op = "stale" =>
        /\ OneThread /\ Len(todo[t]) = 1 /\ dying[t] = <<>> /\ life[todo[t][i].block] = "live"

(* An array that will be given its flags is not immutable yet.               *)
NotYetImmutable(t) ==
    \A i \in DOMAIN todo[t] :
        OnFlags(todo[t][i]) => "immutable" \notin flags[todo[t][i].block]

TodoOK(t) ==
    /\ todo[t] \in Seq(Item(t))
    /\ ArraysAlone(t) /\ FromOthers(t) /\ LastOfAll(t)
    /\ EmptyInTime(t) /\ StaleIsLive(t) /\ NotYetImmutable(t)

FreeHasNoFlags == \A b \in Block : life[b] = "free" => flags[b] = {}

MInv ==
    /\ P!IInv
    /\ todo = [t \in Thread |-> todo[t]]
    /\ flags = [b \in Block |-> flags[b]]
    /\ FreeHasNoFlags
    /\ \A t \in Thread : TodoOK(t)

-----------------------------------------------------------------------------
(* Slots.                                                                    *)
LEMMA HandlesAreNotFields == Handle \cap Fields = {}
  BY MemoryBlocksAssumption DEF Handle, Fields

LEMMA FiniteSlots == IsFiniteSet(Slot)
  <1>1. IsFiniteSet(Handle)
    BY MemoryBlocksAssumption, FS_Product DEF Handle
  <1>2. IsFiniteSet(Field)
    <2>1. IsFiniteSet({"meta1"})
      BY FS_Singleton
    <2>2. IsFiniteSet({"meta1"} \cup {"meta2"})
      BY <2>1, FS_AddElement
    <2>3. IsFiniteSet(({"meta1"} \cup {"meta2"}) \cup {"data"})
      BY <2>2, FS_AddElement
    <2>4. Field = ({"meta1"} \cup {"meta2"}) \cup {"data"}
      BY DEF Field
    <2> QED
      BY <2>3, <2>4
  <1>3. IsFiniteSet(Block \X Field)
    BY <1>2, MemoryBlocksAssumption, FS_Product
  <1> QED
    BY <1>1, <1>3, FS_Union DEF Slot

(* What RefCount assumes of its constants.                                   *)
LEMMA SlotsFit ==
    /\ IsFiniteSet(Slot)
    /\ NULL \notin Block
    /\ SlotOwner \in [Slot -> Block \cup {NULL}]
  BY FiniteSlots, MemoryBlocksAssumption, HandlesAreNotFields DEF SlotOwner, Slot

LEMMA SlotFacts ==
    /\ \A t \in Thread : Own(t) \subseteq Handle
    /\ \A t, u \in Thread : t # u => Own(t) \cap Own(u) = {}
    /\ Handle \subseteq Slot /\ Fields \subseteq Slot
    /\ \A x \in Handle : x \notin Fields /\ SlotOwner[x] = NULL
    /\ \A n \in Block, f \in Field :
          /\ <<n, f>> \in Slot /\ <<n, f>> \in Fields /\ <<n, f>> \notin Handle
          /\ SlotOwner[<<n, f>>] = n
    /\ \A s \in Fields : s = <<s[1], s[2]>> /\ s[1] \in Block /\ s[2] \in Field
    /\ \A s \in Slot : SlotOwner[s] # NULL => s \in Fields /\ SlotOwner[s] = s[1]
  BY HandlesAreNotFields, MemoryBlocksAssumption DEF Own, Handle, Slot, SlotOwner, Fields

LEMMA RefCountAssumed == P!RefCountAssumption
  BY SlotsFit DEF P!RefCountAssumption, IsFiniteSet, P!IsFiniteSet

LEMMA Kept == ASSUME P!IInv, [P!Next]_P!vars PROVE P!IInv'
  BY RefCountAssumed, P!IInvKept

LEMMA Live_ ==
    ASSUME P!IInv, NEW s \in Slot, ref[s] # NULL
    PROVE  ref[s] \in Block /\ life[ref[s]] = "live" /\ count[ref[s]] > 0
  BY RefCountAssumed, P!RefersToLive

LEMMA Referred ==
    ASSUME P!IInv, NEW b \in Block, life[b] = "live"
    PROVE  \E s \in Slot : ref[s] = b
  BY RefCountAssumed, P!LiveIsReferred

LEMMA Types ==
    ASSUME P!IInv
    PROVE  /\ life \in [Block -> {"free", "live", "dying"}]
           /\ count \in [Block -> Nat]
           /\ ref \in [Slot -> Block \cup {NULL}]
           /\ dying \in [Thread -> Seq(Block)]
           /\ \A n \in Block : life[n] = "free" => \A f \in Field : ref[<<n, f>>] = NULL
  BY SlotFacts, MemoryBlocksAssumption DEF P!IInv, P!TypeOK, P!FreedHoldNothing

LEMMA ItemShape ==
    ASSUME NEW t \in Thread, NEW o \in Item(t)
    PROVE  /\ o.op \in {"share", "stale", "steal", "drop", "fresh", "copyflags", "setflags", "checkread"}
           /\ o.op = "share" => /\ o.slot \in Own(t) \cup Fields /\ o.from \in Own(t)
                                /\ o.field \in Field \cup {"self"}
           /\ o.op = "stale" => o.slot \in Own(t) /\ o.block \in Block
           /\ o.op = "steal" => o.slot \in Own(t) /\ o.from \in Own(t)
           /\ o.op = "drop" => o.slot \in Own(t) \cup Fields
           /\ o.op = "fresh" => o.slot \in Fields /\ o.owner \in Own(t)
           /\ o.op = "copyflags" => o.block \in Block /\ o.from \in Own(t)
           /\ o.op = "setflags" => o.block \in Block
           /\ o.op = "checkread" => o.from \in Own(t) /\ o.owner \in Own(t)
  BY DEF Item

LEMMA ItemPlace ==
    ASSUME NEW t \in Thread, NEW o \in Item(t)
    PROVE  /\ OnArray(o) => ArrayOf(o) \in Block
           /\ OnField(o) => \E f \in Field : o.slot = <<ArrayOf(o), f>>
           /\ OnSlot(o) => o.slot \in Slot /\ (o.slot \in Own(t) \/ OnField(o))
           /\ OnSlot(o) /\ o.slot \in Own(t) => ~OnArray(o)
  <1>1. OnFlags(o) => o.block \in Block /\ ~OnSlot(o)
    BY ItemShape DEF OnFlags, OnSlot, Writes
  <1>2. OnSlot(o) => o.slot \in Own(t) \cup Fields
    BY ItemShape DEF OnSlot, Writes
  <1> QED
    BY <1>1, <1>2, SlotFacts DEF OnArray, ArrayOf, OnField

(* What a step of another thread, or the freeing of a dying block, may not   *)
(* touch of thread t's: its variables and the arrays it is making.           *)
LeavesAlone(t) ==
    /\ \A x \in Own(t) : ref'[x] = ref[x]
    /\ \A n \in Block : Alone(t, n) =>
          /\ \A f \in Field : ref'[<<n, f>>] = ref[<<n, f>>]
          /\ \A s \in Slot : ref'[s] = n => ref[s] = n
          /\ flags'[n] = flags[n]

AloneAfter(t, n) == \E x \in Own(t) : \A s \in Slot : ref'[s] = n <=> s = x

LEMMA StaysAlone ==
    ASSUME NEW t \in Thread, LeavesAlone(t), NEW n \in Block, Alone(t, n)
    PROVE  AloneAfter(t, n)
  <1>1. PICK x \in Own(t) : \A s \in Slot : ref[s] = n <=> s = x
    BY DEF Alone
  <1>2. ref'[x] = n
    BY <1>1, SlotFacts DEF LeavesAlone
  <1>3. \A s \in Slot : ref'[s] = n <=> s = x
    BY <1>1, <1>2 DEF LeavesAlone
  <1> QED
    BY <1>3 DEF AloneAfter

LEMMA Undisturbed ==
    ASSUME NEW t \in Thread, TodoOK(t), LeavesAlone(t), todo'[t] = todo[t],
           \A i \in DOMAIN todo[t] : todo[t][i].op # "stale"
    PROVE  TodoOK(t)'
  <1> DEFINE q == todo[t]
  <1>1. /\ q \in Seq(Item(t)) /\ \A i \in DOMAIN q : q[i] \in Item(t)
        /\ todo'[t] \in Seq(Item(t))
    BY ElementOfSeq, LenProperties DEF TodoOK
  <1>2. \A i \in DOMAIN q : OnArray(q[i]) => ArrayOf(q[i]) \in Block
    BY <1>1, ItemPlace
  <1>3. ArraysAlone(t)'
    <2> SUFFICES ASSUME NEW i \in DOMAIN q, OnArray(q[i]) PROVE AloneAfter(t, ArrayOf(q[i]))
      BY DEF ArraysAlone, Alone, AloneAfter
    <2> QED
      BY <1>2, StaysAlone DEF TodoOK, ArraysAlone
  <1>4. FromOthers(t)'
    <2>1. \A i \in DOMAIN q : q[i].op = "share" => ref'[q[i].from] = ref[q[i].from]
      BY <1>1, ItemShape DEF LeavesAlone
    <2> QED
      BY <2>1 DEF TodoOK, FromOthers
  <1>5. LastOfAll(t)'
    BY DEF TodoOK, LastOfAll
  <1>6. EmptyInTime(t)'
    <2>1. ASSUME NEW i \in DOMAIN q, Writes(q[i]) PROVE ref'[q[i].slot] = ref[q[i].slot]
      <3>1. q[i] \in Item(t) /\ OnSlot(q[i])
        BY <1>1, <2>1 DEF OnSlot
      <3>2. CASE q[i].slot \in Own(t)
        BY <3>2 DEF LeavesAlone
      <3>3. CASE OnField(q[i])
        <4>1. Alone(t, ArrayOf(q[i]))
          BY <3>3 DEF TodoOK, ArraysAlone, OnArray
        <4>2. PICK f \in Field : q[i].slot = <<ArrayOf(q[i]), f>>
          BY <3>1, <3>3, ItemPlace
        <4>3. ArrayOf(q[i]) \in Block
          BY <1>2, <3>3 DEF OnArray
        <4> QED
          BY <4>1, <4>2, <4>3 DEF LeavesAlone
      <3> QED
        BY <3>1, <3>2, <3>3, ItemPlace
    <2> QED
      BY <2>1 DEF TodoOK, EmptyInTime
  <1>7. StaleIsLive(t)'
    BY DEF StaleIsLive
  <1>8. NotYetImmutable(t)'
    <2> SUFFICES ASSUME NEW i \in DOMAIN q, OnFlags(q[i])
                 PROVE  "immutable" \notin flags'[q[i].block]
      BY DEF NotYetImmutable
    <2>1. Alone(t, q[i].block) /\ q[i].block \in Block
      BY <1>2 DEF TodoOK, ArraysAlone, OnArray, ArrayOf
    <2> QED
      BY <2>1 DEF TodoOK, NotYetImmutable, LeavesAlone
  <1> QED
    BY <1>1, <1>3, <1>4, <1>5, <1>6, <1>7, <1>8 DEF TodoOK

-----------------------------------------------------------------------------
(* A thread goes on with its operation.                                      *)
LEMMA NothingLeft ==
    ASSUME NEW t \in Thread, todo'[t] = <<>>
    PROVE  TodoOK(t)'
  <1>1. todo'[t] \in Seq(Item(t)) /\ DOMAIN todo'[t] = {}
    OBVIOUS
  <1> QED
    BY <1>1 DEF TodoOK, ArraysAlone, FromOthers, LastOfAll, EmptyInTime, StaleIsLive,
                NotYetImmutable

LEMMA FirstItem ==
    ASSUME NEW t \in Thread, todo[t] \in Seq(Item(t)), todo[t] # <<>>
    PROVE  /\ Head(todo[t]) = todo[t][1] /\ todo[t][1] \in Item(t) /\ 1 \in DOMAIN todo[t]
           /\ Len(todo[t]) \in Nat \ {0} /\ DOMAIN todo[t] = 1..Len(todo[t])
           /\ Tail(todo[t]) \in Seq(Item(t)) /\ Len(Tail(todo[t])) = Len(todo[t]) - 1
           /\ DOMAIN Tail(todo[t]) = 1..(Len(todo[t]) - 1)
           /\ \A i \in 1..(Len(todo[t]) - 1) : Tail(todo[t])[i] = todo[t][i + 1]
           /\ \A i \in DOMAIN todo[t] : todo[t][i] \in Item(t)
  OBVIOUS

LEMMA LastDone ==
    ASSUME NEW t \in Thread, TodoOK(t), todo[t] # <<>>, todo'[t] = Tail(todo[t]),
           OnFlags(todo[t][1]) \/ (OnSlot(todo[t][1]) /\ todo[t][1].slot \in Own(t))
    PROVE  TodoOK(t)'
  <1>1. Len(todo[t]) = 1
    BY FirstItem DEF TodoOK, LastOfAll
  <1>2. Tail(todo[t]) = <<>>
    BY <1>1, FirstItem, EmptySeq DEF TodoOK
  <1> QED
    BY <1>2, NothingLeft

LEMMA FieldDone ==
    ASSUME NEW t \in Thread, TodoOK(t), todo[t] # <<>>, todo'[t] = Tail(todo[t]),
           flags' = flags,
           \A s \in Slot : ref'[s] # ref[s] =>
               /\ OnField(todo[t][1]) /\ s = todo[t][1].slot
               /\ \A i \in DOMAIN todo[t] :
                     OnArray(todo[t][i]) => ref'[s] # ArrayOf(todo[t][i]),
           todo[t][1].op = "drop" => ref'[todo[t][1].slot] = NULL
    PROVE  TodoOK(t)'
  <1> DEFINE q == todo[t]
             n == Len(q) - 1
  <1>1. /\ q[1] \in Item(t) /\ 1 \in DOMAIN q /\ n \in Nat
        /\ todo'[t] \in Seq(Item(t)) /\ DOMAIN todo'[t] = 1..n /\ Len(todo'[t]) = n
        /\ \A i \in 1..n : todo'[t][i] = q[i + 1] /\ i + 1 \in DOMAIN q /\ i + 1 # 1
        /\ \A i \in DOMAIN q : q[i] \in Item(t)
    BY FirstItem DEF TodoOK
  <1>2. \A x \in Own(t) : ref'[x] = ref[x]
    <2>1. \A x \in Own(t) : x \in Slot /\ x \notin Fields
      BY SlotFacts
    <2> QED
      BY <2>1 DEF OnField
  <1>3. \A i \in DOMAIN q : OnArray(q[i]) => AloneAfter(t, ArrayOf(q[i]))
    <2> SUFFICES ASSUME NEW i \in DOMAIN q, OnArray(q[i]) PROVE AloneAfter(t, ArrayOf(q[i]))
      OBVIOUS
    <2>1. PICK x \in Own(t) : \A s \in Slot : ref[s] = ArrayOf(q[i]) <=> s = x
      BY DEF TodoOK, ArraysAlone, Alone
    <2>2. ref'[x] = ArrayOf(q[i])
      BY <1>2, <2>1, SlotFacts
    <2>3. \A s \in Slot : ref'[s] = ArrayOf(q[i]) <=> s = x
      BY <2>1, <2>2
    <2> QED
      BY <2>3 DEF AloneAfter
  <1>4. ArraysAlone(t)'
    <2> SUFFICES ASSUME NEW i \in 1..n, OnArray(todo'[t][i]) PROVE AloneAfter(t, ArrayOf(todo'[t][i]))
      BY <1>1 DEF ArraysAlone, Alone, AloneAfter
    <2> QED
      BY <1>1, <1>3
  <1>5. FromOthers(t)'
    <2> SUFFICES ASSUME NEW i \in 1..n, NEW j \in 1..n, todo'[t][i].op = "share",
                        OnArray(todo'[t][j])
                 PROVE  ref'[todo'[t][i].from] # ArrayOf(todo'[t][j])
      BY <1>1 DEF FromOthers
    <2>1. q[i + 1].op = "share" /\ q[i + 1].from \in Own(t)
      BY <1>1, ItemShape
    <2>2. ref[q[i + 1].from] # ArrayOf(q[j + 1])
      BY <1>1, <2>1 DEF TodoOK, FromOthers
    <2> QED
      BY <1>1, <1>2, <2>1, <2>2
  <1>6. LastOfAll(t)'
    <2> SUFFICES ASSUME NEW i \in 1..n,
                        \/ OnFlags(todo'[t][i])
                        \/ OnSlot(todo'[t][i]) /\ todo'[t][i].slot \in Own(t)
                 PROVE  i = n
      BY <1>1 DEF LastOfAll
    <2>1. i + 1 = Len(q)
      BY <1>1 DEF TodoOK, LastOfAll
    <2> QED
      BY <1>1, <2>1
  <1>7. EmptyInTime(t)'
    <2> SUFFICES ASSUME NEW i \in 1..n, Writes(todo'[t][i])
                 PROVE  \/ /\ i > 1 /\ todo'[t][i - 1].op = "drop"
                           /\ todo'[t][i - 1].slot = todo'[t][i].slot
                        \/ /\ ref'[todo'[t][i].slot] = NULL
                           /\ \A j \in 1..(i - 1) :
                                Writes(todo'[t][j]) => todo'[t][j].slot # todo'[t][i].slot
      BY <1>1 DEF EmptyInTime
    <2>1. todo'[t][i] = q[i + 1] /\ i + 1 \in DOMAIN q /\ Writes(q[i + 1]) /\ i \in Nat /\ i > 0
      BY <1>1
    <2>2. CASE q[i].op = "drop" /\ q[i].slot = q[i + 1].slot
      <3>1. CASE i > 1
        <4>1. i - 1 \in 1..n /\ todo'[t][i - 1] = q[i]
          <5>1. i - 1 \in 1..n /\ (i - 1) + 1 = i
            BY <1>1, <3>1
          <5> QED
            BY <1>1, <5>1
        <4> QED
          BY <2>1, <2>2, <3>1, <4>1
      <3>2. CASE i = 1
        <4>1. ref'[q[i + 1].slot] = NULL
          BY <2>2, <3>2
        <4> QED
          BY <2>1, <3>2, <4>1
      <3> QED
        BY <2>1, <3>1, <3>2
    <2>3. CASE ~(q[i].op = "drop" /\ q[i].slot = q[i + 1].slot)
      <3>1. /\ ref[q[i + 1].slot] = NULL
            /\ \A j \in 1..i : Writes(q[j]) => q[j].slot # q[i + 1].slot
        <4>1. (i + 1) - 1 = i
          BY <2>1
        <4> QED
          BY <2>1, <2>3, <4>1 DEF TodoOK, EmptyInTime
      <3>2. ref'[q[i + 1].slot] = NULL
        <4>1. q[i + 1].slot \in Slot
          BY <1>1, <2>1, ItemPlace DEF OnSlot
        <4>2. CASE q[i + 1].slot = q[1].slot /\ OnField(q[1])
          <5>1. ~Writes(q[1])
            BY <2>1, <3>1, <4>2
          <5>2. q[1].op = "drop"
            BY <4>2, <5>1 DEF OnField, OnSlot
          <5> QED
            BY <4>2, <5>2
        <4>3. CASE ~(q[i + 1].slot = q[1].slot /\ OnField(q[1]))
          BY <3>1, <4>1, <4>3
        <4> QED
          BY <4>2, <4>3
      <3>3. \A j \in 1..(i - 1) : Writes(todo'[t][j]) => todo'[t][j].slot # todo'[t][i].slot
        <4> SUFFICES ASSUME NEW j \in 1..(i - 1), Writes(todo'[t][j])
                     PROVE  todo'[t][j].slot # todo'[t][i].slot
          OBVIOUS
        <4>1. j \in 1..n /\ j + 1 \in 1..i
          BY <1>1, <2>1
        <4> QED
          BY <1>1, <2>1, <3>1, <4>1
      <3> QED
        BY <2>1, <3>2, <3>3
    <2> QED
      BY <2>2, <2>3
  <1>8. StaleIsLive(t)'
    <2>1. \A i \in 1..n : todo'[t][i].op # "stale"
      <3> SUFFICES ASSUME NEW i \in 1..n, q[i + 1].op = "stale" PROVE FALSE
        BY <1>1
      <3>1. Len(q) = 1
        BY <1>1 DEF TodoOK, StaleIsLive
      <3> QED
        BY <1>1, <3>1
    <2> QED
      BY <1>1, <2>1 DEF StaleIsLive
  <1>9. NotYetImmutable(t)'
    <2> SUFFICES ASSUME NEW i \in 1..n, OnFlags(todo'[t][i])
                 PROVE  "immutable" \notin flags'[todo'[t][i].block]
      BY <1>1 DEF NotYetImmutable
    <2> QED
      BY <1>1 DEF TodoOK, NotYetImmutable
  <1> QED
    BY <1>1, <1>4, <1>5, <1>6, <1>7, <1>8, <1>9 DEF TodoOK

-----------------------------------------------------------------------------
(* A step that changes slots in V, fields of blocks that are not live, or    *)
(* fields and flags of arrays that V refers to leaves thread u undisturbed,  *)
(* when no slot of V is u's.                                                 *)
LEMMA NotTheirs ==
    ASSUME MInv, NEW u \in Thread, NEW n \in Block, Alone(u, n)
    PROVE  /\ life[n] = "live"
           /\ \A s \in Slot : ref[s] = n => s \in Own(u)
  <1>1. PICK x \in Own(u) : \A s \in Slot : ref[s] = n <=> s = x
    BY DEF Alone
  <1>2. x \in Slot /\ ref[x] = n /\ n # NULL
    BY <1>1, SlotFacts, MemoryBlocksAssumption
  <1> QED
    BY <1>1, <1>2, Live_ DEF MInv

LEMMA OthersUndisturbed ==
    ASSUME MInv, NEW V \in SUBSET Handle, NEW u \in Thread, V \cap Own(u) = {},
           todo'[u] = todo[u],
           \A i \in DOMAIN todo[u] : todo[u][i].op # "stale",
           \A s \in Slot : ref'[s] # ref[s] =>
               /\ \/ s \in V
                  \/ s \in Fields /\ (life[s[1]] # "live" \/ \E x \in V : ref[x] = s[1])
               /\ \/ ref'[s] = NULL
                  \/ life[ref'[s]] # "live"
                  \/ \E r \in V \cup Fields : ref'[s] = ref[r],
           \A n \in Block : flags'[n] # flags[n] =>
               life[n] # "live" \/ \E x \in V : ref[x] = n
    PROVE  TodoOK(u)'
  <1>1. \A x \in Own(u) : x \in Slot /\ x \notin Fields /\ x \notin V
    BY SlotFacts
  <1>2. \A x \in V \cup Fields : x \in Slot /\ x \notin Own(u)
    BY <1>1, SlotFacts
  <1>3. \A x \in Own(u) : ref'[x] = ref[x]
    BY <1>1
  <1>4. ASSUME NEW n \in Block, Alone(u, n)
        PROVE  /\ \A f \in Field : ref'[<<n, f>>] = ref[<<n, f>>]
               /\ \A s \in Slot : ref'[s] = n => ref[s] = n
               /\ flags'[n] = flags[n]
    <2>1. life[n] = "live" /\ \A s \in Slot : ref[s] = n => s \in Own(u)
      BY <1>4, NotTheirs
    <2>2. \A x \in V \cup Fields : ref[x] # n
      BY <1>2, <2>1
    <2>3. flags'[n] = flags[n]
      BY <2>1, <2>2
    <2>4. ASSUME NEW f \in Field PROVE ref'[<<n, f>>] = ref[<<n, f>>]
      <3>1. <<n, f>> \in Slot /\ <<n, f>> \notin V /\ <<n, f>>[1] = n
        BY SlotFacts
      <3> QED
        BY <2>1, <2>2, <3>1
    <2>5. ASSUME NEW s \in Slot, ref'[s] = n PROVE ref[s] = n
      <3>1. n # NULL
        BY MemoryBlocksAssumption
      <3> QED
        BY <2>1, <2>2, <2>5, <3>1
    <2> QED
      BY <2>3, <2>4, <2>5
  <1>5. LeavesAlone(u)
    BY <1>3, <1>4 DEF LeavesAlone
  <1> QED
    BY <1>5, Undisturbed DEF MInv

LEMMA OnlyOneStale ==
    ASSUME MInv, NEW t \in Thread, NEW u \in Thread, t # u
    PROVE  \A i \in DOMAIN todo[u] : todo[u][i].op # "stale"
  BY DEF MInv, TodoOK, StaleIsLive, OneThread

LEMMA OtherThreads ==
    ASSUME MInv, NEW t \in Thread,
           \A u \in Thread : u # t => todo'[u] = todo[u],
           \A s \in Slot : ref'[s] # ref[s] =>
               /\ \/ s \in Own(t)
                  \/ s \in Fields /\ (life[s[1]] # "live" \/ \E x \in Own(t) : ref[x] = s[1])
               /\ \/ ref'[s] = NULL
                  \/ life[ref'[s]] # "live"
                  \/ \E r \in Own(t) \cup Fields : ref'[s] = ref[r],
           \A n \in Block : flags'[n] # flags[n] =>
               life[n] # "live" \/ \E x \in Own(t) : ref[x] = n
    PROVE  \A u \in Thread : u # t => TodoOK(u)'
  <1> SUFFICES ASSUME NEW u \in Thread, u # t PROVE TodoOK(u)'
    OBVIOUS
  <1>1. Own(t) \in SUBSET Handle /\ Own(t) \cap Own(u) = {} /\ todo'[u] = todo[u]
    BY SlotFacts
  <1>2. \A i \in DOMAIN todo[u] : todo[u][i].op # "stale"
    BY OnlyOneStale
  <1> QED
    BY <1>1, <1>2, OthersUndisturbed

-----------------------------------------------------------------------------
(* What BeginArray may leave in todo[t], for an array n with flags F that x  *)
(* is going to hold.                                                         *)
Plan(t, x, n, F, q) ==
    /\ q \in Seq(Item(t))
    /\ \A i \in DOMAIN q :
          /\ q[i].op \notin {"stale", "steal"}
          /\ Writes(q[i]) => q[i].slot \in {n} \X Field
          /\ OnArray(q[i]) => ArrayOf(q[i]) = n
          /\ OnFlags(q[i]) => i = Len(q) /\ "immutable" \notin F
          /\ q[i].op = "drop" => q[i].slot \in Fields \/ i = Len(q)
          /\ q[i].op = "share" => q[i].from # x
          /\ Writes(q[i]) =>
                \/ i > 1 /\ q[i - 1].op = "drop" /\ q[i - 1].slot = q[i].slot
                \/ \A j \in 1..(i - 1) : Writes(q[j]) => q[j].slot # q[i].slot

LEMMA NewBlock ==
    ASSUME MInv, NEW t \in Thread, NEW x \in Own(t), ref[x] = NULL, NEW n \in Free, NEW k,
           Allocate(x, n, k), UNCHANGED dying
    PROVE  /\ P!New(x, n) /\ P!IInv'
           /\ n \in Block /\ x \in Slot /\ n # NULL /\ ref'[x] = n
           /\ \A s \in Slot : s # x => ref'[s] = ref[s] /\ ref[s] # n
           /\ life[n] = "free" /\ life' = [life EXCEPT ![n] = "live"]
           /\ \A f \in Field : ref[<<n, f>>] = NULL /\ ref'[<<n, f>>] = NULL
  <1>1. /\ n \in Block /\ life[n] = "free" /\ n # NULL /\ x \in Slot /\ x \in Handle
        /\ SlotOwner[x] = NULL
    BY SlotFacts, MemoryBlocksAssumption DEF Free
  <1>2. P!New(x, n)
    BY <1>1 DEF Allocate, P!New, P!Usable
  <1>3. P!IInv'
    BY <1>1, <1>2, Kept DEF MInv, P!Next
  <1>4. \A s \in Slot : ref[s] # n
    BY <1>1, Live_ DEF MInv
  <1>5. \A f \in Field : ref[<<n, f>>] = NULL /\ <<n, f>> \in Slot /\ <<n, f>> # x
    BY <1>1, Types, SlotFacts DEF MInv
  <1> QED
    BY <1>1, <1>2, <1>3, <1>4, <1>5, Types DEF Allocate, MInv

LEMMA Begun ==
    ASSUME MInv, NEW t \in Thread, NEW x \in Own(t), NEW n, NEW tp, NEW F, NEW q,
           BeginArray(t, x, n, tp, F, q), Plan(t, x, n, F, q)
    PROVE  P!New(x, n) /\ MInv'
  <1>1. /\ n \in Free /\ ref[x] = NULL /\ Allocate(x, n, "array") /\ UNCHANGED dying
        /\ todo' = [todo EXCEPT ![t] = q] /\ flags' = [flags EXCEPT ![n] = F]
    BY DEF BeginArray
  <1>2. /\ P!New(x, n) /\ P!IInv'
        /\ n \in Block /\ x \in Slot /\ n # NULL /\ ref'[x] = n
        /\ \A s \in Slot : s # x => ref'[s] = ref[s] /\ ref[s] # n
        /\ life[n] = "free" /\ life' = [life EXCEPT ![n] = "live"]
        /\ \A f \in Field : ref[<<n, f>>] = NULL /\ ref'[<<n, f>>] = NULL
    BY <1>1, NewBlock
  <1>3. /\ todo' = [u \in Thread |-> todo'[u]] /\ todo'[t] = q
        /\ \A u \in Thread : u # t => todo'[u] = todo[u]
        /\ flags' = [b \in Block |-> flags'[b]] /\ flags'[n] = F
        /\ \A b \in Block : b # n => flags'[b] = flags[b]
    BY <1>1, <1>2 DEF MInv
  <1>4. FreeHasNoFlags'
    BY <1>2, <1>3, Types DEF MInv, FreeHasNoFlags
  <1>5. \A u \in Thread : u # t => TodoOK(u)'
    BY <1>2, <1>3, OtherThreads
  <1>6. TodoOK(t)'
    <2>1. todo'[t] \in Seq(Item(t)) /\ DOMAIN q = 1..Len(q) /\ Len(q) \in Nat
      BY <1>3, LenProperties DEF Plan
    <2>2. \A i \in DOMAIN q : q[i] \in Item(t)
      BY <2>1 DEF Plan
    <2>3. ArraysAlone(t)'
      <3>1. AloneAfter(t, n)
        BY <1>2, MemoryBlocksAssumption DEF AloneAfter
      <3> QED
        BY <1>3, <3>1 DEF ArraysAlone, Alone, AloneAfter, Plan
    <2>4. FromOthers(t)'
      <3> SUFFICES ASSUME NEW i \in DOMAIN q, NEW j \in DOMAIN q, q[i].op = "share", OnArray(q[j])
                   PROVE  ref'[q[i].from] # ArrayOf(q[j])
        BY <1>3 DEF FromOthers
      <3>1. q[i].from \in Own(t) /\ q[i].from # x /\ ArrayOf(q[j]) = n
        BY <2>2, ItemShape DEF Plan
      <3> QED
        BY <1>2, <3>1, SlotFacts
    <2>5. LastOfAll(t)'
      <3> SUFFICES ASSUME NEW i \in DOMAIN q,
                          OnFlags(q[i]) \/ (OnSlot(q[i]) /\ q[i].slot \in Own(t))
                   PROVE  i = Len(q)
        BY <1>3 DEF LastOfAll
      <3>1. Writes(q[i]) => q[i].slot \in Fields
        BY <1>2, SlotFacts DEF Plan
      <3>2. \A y \in Own(t) : y \notin Fields
        BY SlotFacts
      <3> QED
        BY <3>1, <3>2 DEF Plan, OnSlot
    <2>6. EmptyInTime(t)'
      <3>1. \A i \in DOMAIN q : Writes(q[i]) => ref'[q[i].slot] = NULL
        BY <1>2 DEF Plan
      <3> QED
        BY <1>3, <3>1 DEF EmptyInTime, Plan
    <2>7. StaleIsLive(t)'
      BY <1>3 DEF StaleIsLive, Plan
    <2>8. NotYetImmutable(t)'
      <3> SUFFICES ASSUME NEW i \in DOMAIN q, OnFlags(q[i])
                   PROVE  "immutable" \notin flags'[q[i].block]
        BY <1>3 DEF NotYetImmutable
      <3>1. q[i].block = n /\ "immutable" \notin F
        BY DEF Plan, OnArray, ArrayOf
      <3> QED
        BY <1>3, <3>1
    <2> QED
      BY <2>1, <2>3, <2>4, <2>5, <2>6, <2>7, <2>8 DEF TodoOK
  <1> QED
    BY <1>2, <1>3, <1>4, <1>5, <1>6 DEF MInv

-----------------------------------------------------------------------------
(* What each step is proved to be: one use of a reference count or none, the *)
(* invariant kept, and every immutable array left as it is.                  *)
CountsOnce == P!Next \/ UNCHANGED <<life, count, ref, dying>>
ImmutableKept ==
    \A b \in Block : "immutable" \in flags[b] /\ life'[b] = "live" => flags'[b] = flags[b]

LEMMA OneCount == ASSUME MInv, CountsOnce PROVE P!IInv'
  <1>1. [P!Next]_P!vars
    BY DEF CountsOnce, P!vars
  <1> QED
    BY <1>1, Kept DEF MInv

LEMMA Released ==
    ASSUME MInv, NEW t \in Thread, NEW s \in Slot, Release(t, s)
    PROVE  /\ CountsOnce
           /\ ref' = [ref EXCEPT ![s] = NULL] /\ ref'[s] = NULL
           /\ \A r \in Slot : r # s => ref'[r] = ref[r]
           /\ \A b \in Block : life'[b] = "free" => life[b] = "free"
  <1>1. /\ ref' = [ref EXCEPT ![s] = NULL] /\ ref'[s] = NULL
        /\ \A r \in Slot : r # s => ref'[r] = ref[r]
    BY Types DEF MInv, Release
  <1>2. CASE ref[s] = NULL
    <2>1. UNCHANGED <<life, count, ref, dying>>
      BY <1>1, <1>2, Types DEF MInv, Release
    <2> QED
      BY <1>1, <2>1 DEF CountsOnce
  <1>3. CASE ref[s] # NULL
    <2>1. ref[s] \in Block /\ count[ref[s]] \in Nat /\ life[ref[s]] = "live"
      BY <1>3, Live_, Types DEF MInv
    <2>2. /\ count' = [count EXCEPT ![ref[s]] = @ - 1]
          /\ IF count[ref[s]] = 1
             THEN /\ life' = [life EXCEPT ![ref[s]] = "dying"]
                  /\ dying' = [dying EXCEPT ![t] = Append(@, ref[s])]
             ELSE UNCHANGED <<life, dying>>
      BY <1>3 DEF Release
    <2>3. count'[ref[s]] = count[ref[s]] - 1
      BY <2>1, <2>2, Types DEF MInv
    <2>4. P!Drop(t, s)
      BY <1>1, <1>3, <2>1, <2>2, <2>3 DEF P!Drop
    <2>5. \A b \in Block : life'[b] = "free" => life[b] = "free"
      BY <2>1, <2>2, Types DEF MInv
    <2> QED
      BY <1>1, <2>4, <2>5 DEF CountsOnce, P!Next
  <1> QED
    BY <1>2, <1>3

(* The conditions of MInv that concern flags and the shape of todo.          *)
LEMMA FlagsUnchanged ==
    ASSUME MInv, flags' = flags, \A b \in Block : life'[b] = "free" => life[b] = "free"
    PROVE  /\ ImmutableKept /\ FreeHasNoFlags'
           /\ flags' = [b \in Block |-> flags'[b]]
  BY DEF ImmutableKept, MInv, FreeHasNoFlags

LEMMA TodoOf ==
    ASSUME MInv, NEW t \in Thread, NEW q, todo' = [todo EXCEPT ![t] = q]
    PROVE  /\ todo' = [u \in Thread |-> todo'[u]] /\ todo'[t] = q
           /\ \A u \in Thread : u # t => todo'[u] = todo[u]
  BY DEF MInv

LEMMA ItemDone ==
    ASSUME MInv, NEW t \in Thread, todo[t] # <<>>, PopTodo(t), flags' = flags,
           OnSlot(todo[t][1]), NEW v,
           ref' = [ref EXCEPT ![todo[t][1].slot] = v],
           \/ v = NULL
           \/ v \in Block /\ life[v] # "live"
           \/ todo[t][1].op = "share" /\ v = ref[todo[t][1].from]
           \/ \E r \in Fields : v = ref[r],
           todo[t][1].op = "drop" => v = NULL,
           \A b \in Block : life'[b] = "free" => life[b] = "free",
           CountsOnce
    PROVE  MInv' /\ ImmutableKept
  <1> DEFINE q == todo[t]
             o == todo[t][1]
  <1>1. TodoOK(t) /\ q \in Seq(Item(t))
    BY DEF MInv, TodoOK
  <1>2. /\ o \in Item(t) /\ 1 \in DOMAIN q /\ \A i \in DOMAIN q : q[i] \in Item(t)
        /\ o.slot \in Slot /\ (o.slot \in Own(t) \/ OnField(o))
        /\ OnField(o) => o.slot \in Fields /\ \E f \in Field : o.slot = <<ArrayOf(o), f>>
    BY <1>1, FirstItem, ItemPlace DEF OnField
  <1>3. /\ todo' = [u \in Thread |-> todo'[u]] /\ todo'[t] = Tail(q)
        /\ \A u \in Thread : u # t => todo'[u] = todo[u]
    BY TodoOf DEF PopTodo
  <1>4. ref'[o.slot] = v /\ \A s \in Slot : s # o.slot => ref'[s] = ref[s]
    BY <1>2, Types DEF MInv
  <1>5. o.op = "share" => o.from \in Own(t)
    BY <1>2, ItemShape
  <1>6. \A u \in Thread : u # t => TodoOK(u)'
    <2>1. OnField(o) => \E x \in Own(t) : ref[x] = o.slot[1]
      <3> SUFFICES ASSUME OnField(o) PROVE \E x \in Own(t) : ref[x] = o.slot[1]
        OBVIOUS
      <3>1. Alone(t, ArrayOf(o))
        BY <1>1, <1>2 DEF TodoOK, ArraysAlone, OnArray
      <3>2. o.slot[1] = ArrayOf(o)
        BY <1>2
      <3>3. Own(t) \subseteq Slot
        BY SlotFacts
      <3> QED
        BY <3>1, <3>2, <3>3 DEF Alone
    <2>2. \A s \in Slot : ref'[s] # ref[s] =>
              /\ s \in Own(t) \/ (s \in Fields /\ \E x \in Own(t) : ref[x] = s[1])
              /\ \/ ref'[s] = NULL
                 \/ life[ref'[s]] # "live"
                 \/ \E r \in Own(t) \cup Fields : ref'[s] = ref[r]
      BY <1>2, <1>4, <1>5, <2>1
    <2> QED
      BY <1>3, <2>2, OtherThreads
  <1>7. TodoOK(t)'
    <2>1. CASE o.slot \in Own(t)
      BY <1>1, <1>3, <2>1, LastDone
    <2>2. CASE OnField(o)
      <3>1. ASSUME NEW i \in DOMAIN q, OnArray(q[i]) PROVE v # ArrayOf(q[i])
        <4>1. ArrayOf(q[i]) \in Block /\ Alone(t, ArrayOf(q[i]))
          BY <1>1, <1>2, <3>1, ItemPlace DEF TodoOK, ArraysAlone
        <4>2. /\ life[ArrayOf(q[i])] = "live"
              /\ \A s \in Slot : ref[s] = ArrayOf(q[i]) => s \in Own(t)
          BY <4>1, NotTheirs
        <4>3. \A r \in Fields : ref[r] # ArrayOf(q[i])
          BY <4>2, SlotFacts
        <4>4. o.op = "share" => ref[o.from] # ArrayOf(q[i])
          BY <1>1, <1>2, <3>1 DEF TodoOK, FromOthers
        <4>5. ArrayOf(q[i]) # NULL
          BY <4>1, MemoryBlocksAssumption
        <4> QED
          BY <4>2, <4>3, <4>4, <4>5
      <3>2. \A s \in Slot : ref'[s] # ref[s] =>
                /\ OnField(o) /\ s = o.slot
                /\ \A i \in DOMAIN q : OnArray(q[i]) => ref'[s] # ArrayOf(q[i])
        BY <1>4, <2>2, <3>1
      <3> QED
        BY <1>1, <1>3, <1>4, <3>2, FieldDone
    <2> QED
      BY <1>2, <2>1, <2>2
  <1>8. P!IInv'
    BY OneCount
  <1> QED
    BY <1>3, <1>6, <1>7, <1>8, FlagsUnchanged DEF MInv

-----------------------------------------------------------------------------
(* The steps of Continue.                                                    *)
StepOK == CountsOnce /\ MInv' /\ ImmutableKept

LEMMA Running_ ==
    ASSUME MInv, NEW t \in Thread, NEW o, Running(t, o)
    PROVE  /\ todo[t] # <<>> /\ dying[t] = <<>> /\ Head(todo[t]) = todo[t][1]
           /\ todo[t][1].op = o /\ todo[t][1] \in Item(t)
           /\ 1 \in DOMAIN todo[t] /\ Len(todo[t]) \in Nat
           /\ TodoOK(t)
  <1>1. todo[t] \in Seq(Item(t)) /\ todo[t] # <<>> /\ TodoOK(t)
    BY DEF MInv, TodoOK, Running
  <1> QED
    BY <1>1, FirstItem DEF Running

(* A slot about to be written can be.                                        *)
LEMMA UsableSlot ==
    ASSUME MInv, NEW t \in Thread, todo[t] # <<>>, Writes(todo[t][1])
    PROVE  todo[t][1].slot \in Slot /\ P!Usable(todo[t][1].slot)
  <1> DEFINE o == todo[t][1]
  <1>1. TodoOK(t) /\ o \in Item(t) /\ 1 \in DOMAIN todo[t] /\ OnSlot(o)
    BY FirstItem DEF MInv, TodoOK, OnSlot
  <1>2. ref[o.slot] = NULL
    BY <1>1 DEF TodoOK, EmptyInTime
  <1>3. o.slot \in Slot /\ (o.slot \in Own(t) \/ OnField(o))
    BY <1>1, ItemPlace
  <1>4. CASE o.slot \in Own(t)
    BY <1>2, <1>3, <1>4, SlotFacts DEF P!Usable
  <1>5. CASE OnField(o)
    <2>1. ArrayOf(o) \in Block /\ Alone(t, ArrayOf(o))
      BY <1>1, <1>5, ItemPlace DEF TodoOK, ArraysAlone, OnArray
    <2>2. life[ArrayOf(o)] = "live"
      BY <2>1, NotTheirs
    <2>3. PICK f \in Field : o.slot = <<ArrayOf(o), f>>
      BY <1>1, <1>5, ItemPlace
    <2>4. SlotOwner[<<ArrayOf(o), f>>] = ArrayOf(o)
      BY <2>1, SlotFacts
    <2> QED
      BY <1>2, <1>3, <2>2, <2>3, <2>4 DEF P!Usable
  <1> QED
    BY <1>3, <1>4, <1>5

(* The reference Reached leads to is one that is held.                       *)
LEMMA ReachedIsHeld ==
    ASSUME MInv, NEW h \in Handle, NEW f \in Field \cup {"self"}
    PROVE  \/ Reached(h, f) = ref[h]
           \/ ref[h] \in Block /\ f \in Field /\ Reached(h, f) = ref[<<ref[h], f>>]
  <1>1. ref[h] = NULL \/ ref[h] \in Block
    BY Types, SlotFacts DEF MInv
  <1> QED
    BY <1>1 DEF Reached

LEMMA CopyIsCopy ==
    ASSUME MInv, NEW s \in Slot, P!Usable(s), NEW r \in Slot, Acquire(s, ref[r]),
           UNCHANGED <<life, dying>>
    PROVE  CountsOnce
  <1>1. CASE ref[r] = NULL
    BY <1>1, Types DEF MInv, Acquire, CountsOnce, P!Usable
  <1>2. CASE ref[r] # NULL
    BY <1>2 DEF Acquire, CountsOnce, P!Copy, P!Next
  <1> QED
    BY <1>1, <1>2

LEMMA DoShareStep == ASSUME MInv, NEW t \in Thread, DoShare(t) PROVE StepOK
  <1> DEFINE o == todo[t][1]
             v == Reached(o.from, o.field)
  <1>1. /\ todo[t] # <<>> /\ Head(todo[t]) = o /\ o.op = "share" /\ o \in Item(t)
    BY Running_ DEF DoShare
  <1>2. /\ Acquire(o.slot, v) /\ PopTodo(t) /\ UNCHANGED <<life, kind, typ, flags, dying>>
    BY <1>1 DEF DoShare
  <1>3. Writes(o) /\ OnSlot(o)
    BY <1>1 DEF Writes, OnSlot
  <1>4. o.slot \in Slot /\ P!Usable(o.slot)
    BY <1>1, <1>3, UsableSlot
  <1>5. o.from \in Handle /\ o.field \in Field \cup {"self"} /\ o.from \in Slot
    BY <1>1, ItemShape, SlotFacts
  <1>6. \/ v = ref[o.from]
        \/ \E r \in Fields : v = ref[r]
    BY <1>5, ReachedIsHeld DEF Fields
  <1>7. PICK r \in Slot : v = ref[r]
    BY <1>5, <1>6, SlotFacts
  <1> HIDE DEF v
  <1>8. CountsOnce
    BY <1>2, <1>4, <1>7, CopyIsCopy
  <1>9. ref' = [ref EXCEPT ![o.slot] = v]
    BY <1>2 DEF Acquire
  <1>10. MInv' /\ ImmutableKept
    BY <1>1, <1>2, <1>3, <1>6, <1>8, <1>9, ItemDone
  <1> QED
    BY <1>8, <1>10 DEF StepOK

LEMMA DoDropStep == ASSUME MInv, NEW t \in Thread, DoDrop(t) PROVE StepOK
  <1> DEFINE o == todo[t][1]
  <1>1. /\ todo[t] # <<>> /\ Head(todo[t]) = o /\ o.op = "drop" /\ o \in Item(t)
    BY Running_ DEF DoDrop
  <1>2. Release(t, o.slot) /\ PopTodo(t) /\ UNCHANGED <<kind, typ, flags>>
    BY <1>1 DEF DoDrop
  <1>3. OnSlot(o)
    BY <1>1 DEF OnSlot
  <1>4. o.slot \in Slot
    BY <1>1, <1>3, ItemPlace
  <1>5. /\ CountsOnce /\ ref' = [ref EXCEPT ![o.slot] = NULL]
        /\ \A b \in Block : life'[b] = "free" => life[b] = "free"
    BY <1>2, <1>4, Released
  <1>6. MInv' /\ ImmutableKept
    BY <1>1, <1>2, <1>3, <1>5, ItemDone
  <1> QED
    BY <1>5, <1>6 DEF StepOK

LEMMA DoFreshStep == ASSUME MInv, NEW t \in Thread, DoFresh(t) PROVE StepOK
  <1> DEFINE o == todo[t][1]
  <1>1. /\ todo[t] # <<>> /\ Head(todo[t]) = o /\ o.op = "fresh" /\ o \in Item(t)
    BY Running_ DEF DoFresh
  <1>2. PICK n \in Free : Allocate(o.slot, n, o.kind)
    BY <1>1 DEF DoFresh
  <1>3. PopTodo(t) /\ UNCHANGED <<typ, flags, dying>>
    BY DEF DoFresh
  <1>4. Writes(o) /\ OnSlot(o)
    BY <1>1 DEF Writes, OnSlot
  <1>5. o.slot \in Slot /\ P!Usable(o.slot)
    BY <1>1, <1>4, UsableSlot
  <1>6. n \in Block /\ life[n] = "free"
    BY DEF Free
  <1>7. P!New(o.slot, n)
    BY <1>2, <1>3, <1>5, <1>6 DEF Allocate, P!New
  <1>8. CountsOnce
    BY <1>5, <1>6, <1>7 DEF CountsOnce, P!Next
  <1>9. /\ ref' = [ref EXCEPT ![o.slot] = n]
        /\ \A b \in Block : life'[b] = "free" => life[b] = "free"
    BY <1>2, <1>6, Types DEF Allocate, MInv
  <1>10. MInv' /\ ImmutableKept
    BY <1>1, <1>3, <1>4, <1>6, <1>8, <1>9, ItemDone
  <1> QED
    BY <1>8, <1>10 DEF StepOK

(* A step that changes variables of t only, and leaves t nothing to do, or   *)
(* nothing more than what is known to be in order.                           *)
LEMMA OwnStep ==
    ASSUME MInv, NEW t \in Thread, CountsOnce, flags' = flags,
           \A s \in Slot : ref'[s] # ref[s] =>
               s \in Own(t) /\ \/ ref'[s] = NULL
                               \/ life[ref'[s]] # "live"
                               \/ \E r \in Own(t) \cup Fields : ref'[s] = ref[r],
           \A b \in Block : life'[b] = "free" => life[b] = "free",
           NEW q, todo' = [todo EXCEPT ![t] = q], TodoOK(t)'
    PROVE  StepOK
  <1>1. /\ todo' = [u \in Thread |-> todo'[u]]
        /\ \A u \in Thread : u # t => todo'[u] = todo[u]
    BY TodoOf
  <1>2. \A u \in Thread : u # t => TodoOK(u)'
    BY <1>1, OtherThreads
  <1>3. \A u \in Thread : TodoOK(u)'
    BY <1>2
  <1>4. P!IInv'
    BY OneCount
  <1>5. MInv'
    BY <1>1, <1>3, <1>4, FlagsUnchanged DEF MInv
  <1> QED
    BY <1>5, FlagsUnchanged DEF StepOK

(* The exception handler destroys the half-made array and that is all.       *)
LEMMA GivesUp ==
    ASSUME NEW t \in Thread, NEW x \in Own(t), todo'[t] = <<Drop(x)>>
    PROVE  TodoOK(t)'
  <1>1. /\ todo'[t] \in Seq(Item(t)) /\ DOMAIN todo'[t] = {1} /\ Len(todo'[t]) = 1
        /\ todo'[t][1].op = "drop" /\ todo'[t][1].slot = x
    BY DEF Drop, Item
  <1>2. x \notin Fields
    BY SlotFacts
  <1> QED
    BY <1>1, <1>2 DEF TodoOK, ArraysAlone, FromOthers, LastOfAll, EmptyInTime, StaleIsLive,
       NotYetImmutable, OnArray, OnField, OnFlags, Writes

LEMMA DoStealStep == ASSUME MInv, NEW t \in Thread, DoSteal(t) PROVE StepOK
  <1> DEFINE o == todo[t][1]
             h == o.from
  <1>1. /\ todo[t] # <<>> /\ Head(todo[t]) = o /\ o.op = "steal" /\ o \in Item(t)
        /\ TodoOK(t)
    BY Running_ DEF DoSteal
  <1>2. /\ ref' = [[ref EXCEPT ![o.slot] = ref[h]] EXCEPT ![h] = NULL]
        /\ PopTodo(t) /\ UNCHANGED <<life, kind, count, typ, flags, dying>>
    BY <1>1 DEF DoSteal
  <1>3. Writes(o) /\ OnSlot(o)
    BY <1>1 DEF Writes, OnSlot
  <1>4. ref[o.slot] = NULL
    BY <1>1, <1>3, UsableSlot DEF P!Usable
  <1>5. /\ o.slot \in Own(t) /\ h \in Own(t) /\ o.slot \in Slot /\ h \in Slot
        /\ SlotOwner[o.slot] = NULL /\ SlotOwner[h] = NULL
    BY <1>1, ItemShape, SlotFacts
  <1>6. ref' = [ref EXCEPT ![o.slot] = ref[h], ![h] = ref[o.slot]]
    BY <1>2, <1>4, <1>5, Types DEF MInv
  <1>7. CountsOnce
    BY <1>2, <1>5, <1>6 DEF CountsOnce, P!Exchange, P!Next
  <1>8. todo' = [todo EXCEPT ![t] = Tail(todo[t])]
    BY <1>2 DEF PopTodo
  <1>9. TodoOK(t)'
    <2>1. todo'[t] = Tail(todo[t])
      BY <1>8, TodoOf
    <2> QED
      BY <1>1, <1>3, <1>5, <2>1, LastDone
  <1>10. \A s \in Slot : ref'[s] # ref[s] =>
             s \in Own(t) /\ (ref'[s] = NULL \/ \E r \in Own(t) \cup Fields : ref'[s] = ref[r])
    <2>1. \A s \in Slot : ref'[s] = IF s = h THEN NULL ELSE IF s = o.slot THEN ref[h] ELSE ref[s]
      BY <1>2, <1>5, Types DEF MInv
    <2> QED
      BY <1>5, <2>1
  <1> QED
    BY <1>2, <1>7, <1>8, <1>9, <1>10, OwnStep

LEMMA DoStaleStep == ASSUME MInv, NEW t \in Thread, DoStale(t) PROVE StepOK
  <1> DEFINE o == todo[t][1]
  <1>1. /\ todo[t] # <<>> /\ Head(todo[t]) = o /\ o.op = "stale" /\ o \in Item(t)
        /\ TodoOK(t) /\ 1 \in DOMAIN todo[t]
    BY Running_ DEF DoStale
  <1>2. Acquire(o.slot, o.block) /\ PopTodo(t) /\ UNCHANGED <<life, kind, typ, flags, dying>>
    BY <1>1 DEF DoStale
  <1>3. Writes(o) /\ OnSlot(o)
    BY <1>1 DEF Writes, OnSlot
  <1>4. o.slot \in Own(t) /\ o.block \in Block
    BY <1>1, ItemShape
  <1>5. OneThread /\ life[o.block] = "live"
    BY <1>1 DEF TodoOK, StaleIsLive
  <1>6. PICK r \in Slot : ref[r] = o.block
    BY <1>4, <1>5, Referred DEF MInv
  <1>7. o.slot \in Slot /\ P!Usable(o.slot)
    BY <1>1, <1>3, UsableSlot
  <1>8. CountsOnce
    BY <1>2, <1>6, <1>7, CopyIsCopy
  <1>9. todo'[t] = Tail(todo[t]) /\ todo' = [u \in Thread |-> todo'[u]]
    BY <1>2, TodoOf DEF PopTodo
  <1>10. TodoOK(t)'
    BY <1>1, <1>3, <1>4, <1>9, LastDone
  <1>11. \A u \in Thread : TodoOK(u)'
    BY <1>5, <1>10 DEF OneThread
  <1>12. ImmutableKept /\ FreeHasNoFlags' /\ flags' = [b \in Block |-> flags'[b]]
    BY <1>2, FlagsUnchanged
  <1>13. P!IInv'
    BY <1>8, OneCount
  <1> QED
    BY <1>8, <1>9, <1>11, <1>12, <1>13 DEF StepOK, MInv

LEMMA DoFreshFailsStep == ASSUME MInv, NEW t \in Thread, DoFreshFails(t) PROVE StepOK
  <1> DEFINE o == todo[t][1]
  <1>1. /\ todo[t] # <<>> /\ Head(todo[t]) = o /\ o.op = "fresh" /\ o \in Item(t)
    BY Running_ DEF DoFreshFails
  <1>2. /\ todo' = [todo EXCEPT ![t] = <<Drop(o.owner)>>]
        /\ UNCHANGED <<life, kind, count, ref, typ, flags, dying>>
    BY <1>1 DEF DoFreshFails
  <1>3. o.owner \in Own(t) /\ todo'[t] = <<Drop(o.owner)>>
    BY <1>1, <1>2, ItemShape, TodoOf
  <1> QED
    BY <1>2, <1>3, GivesUp, OwnStep DEF CountsOnce

LEMMA DoCheckReadStep == ASSUME MInv, NEW t \in Thread, DoCheckRead(t) PROVE StepOK
  <1> DEFINE o == todo[t][1]
             q == IF "read" \in FlagsOf(o.from) THEN Tail(todo[t]) ELSE <<Drop(o.owner)>>
  <1>1. /\ todo[t] # <<>> /\ Head(todo[t]) = o /\ o.op = "checkread" /\ o \in Item(t)
        /\ TodoOK(t)
    BY Running_ DEF DoCheckRead
  <1>2. /\ todo' = [todo EXCEPT ![t] = q]
        /\ UNCHANGED <<life, kind, count, ref, typ, flags, dying>>
    BY <1>1 DEF DoCheckRead
  <1>3. o.owner \in Own(t) /\ todo'[t] = q
    BY <1>1, <1>2, ItemShape, TodoOf
  <1>4. TodoOK(t)'
    <2>1. CASE "read" \in FlagsOf(o.from)
      BY <1>1, <1>2, <1>3, <2>1, FieldDone
    <2>2. CASE "read" \notin FlagsOf(o.from)
      BY <1>3, <2>2, GivesUp
    <2> QED
      BY <2>1, <2>2
  <1> HIDE DEF q
  <1> QED
    BY <1>2, <1>4, OwnStep DEF CountsOnce

(* An array gets its final flags.                                            *)
LEMMA DoFlagsStep ==
    ASSUME MInv, NEW t \in Thread, DoCopyFlags(t) \/ DoSetFlags(t)
    PROVE  StepOK
  <1> DEFINE o == todo[t][1]
             n == o.block
  <1>1. /\ todo[t] # <<>> /\ Head(todo[t]) = o /\ OnFlags(o) /\ o \in Item(t)
        /\ TodoOK(t) /\ 1 \in DOMAIN todo[t]
    BY Running_ DEF DoCopyFlags, DoSetFlags, OnFlags
  <1>2. PICK F : flags' = [flags EXCEPT ![n] = F]
    BY <1>1 DEF DoCopyFlags, DoSetFlags
  <1>3. PopTodo(t) /\ UNCHANGED <<life, kind, count, ref, typ, dying>>
    BY DEF DoCopyFlags, DoSetFlags
  <1>4. n \in Block /\ Alone(t, n) /\ "immutable" \notin flags[n]
    <2>1. OnArray(o) /\ ArrayOf(o) = n
      BY <1>1 DEF OnArray, ArrayOf
    <2> QED
      BY <1>1, <2>1, ItemPlace DEF TodoOK, ArraysAlone, NotYetImmutable
  <1>5. life[n] = "live" /\ \E x \in Own(t) : ref[x] = n
    BY <1>4, NotTheirs, SlotFacts DEF Alone
  <1>6. /\ \A b \in Block : b # n => flags'[b] = flags[b]
        /\ flags' = [b \in Block |-> flags'[b]]
    BY <1>2 DEF MInv
  <1>7. /\ todo' = [u \in Thread |-> todo'[u]] /\ todo'[t] = Tail(todo[t])
        /\ \A u \in Thread : u # t => todo'[u] = todo[u]
    BY <1>3, TodoOf DEF PopTodo
  <1>8. \A u \in Thread : u # t => TodoOK(u)'
    BY <1>3, <1>5, <1>6, <1>7, OtherThreads
  <1>9. TodoOK(t)'
    BY <1>1, <1>7, LastDone
  <1>10. CountsOnce
    BY <1>3 DEF CountsOnce
  <1>11. FreeHasNoFlags'
    BY <1>3, <1>5, <1>6 DEF FreeHasNoFlags, MInv
  <1>12. ImmutableKept
    BY <1>4, <1>6 DEF ImmutableKept
  <1>13. P!IInv'
    BY <1>10, OneCount
  <1> QED
    BY <1>6, <1>7, <1>8, <1>9, <1>10, <1>11, <1>12, <1>13 DEF StepOK, MInv

LEMMA FreeBlockStep == ASSUME MInv, NEW t \in Thread, FreeBlock(t) PROVE StepOK
  <1> DEFINE b == dying[t][Len(dying[t])]
  <1>1. /\ dying[t] # <<>> /\ dying[t] \in Seq(Block) /\ Len(dying[t]) \in DOMAIN dying[t]
        /\ b \in Block /\ UNCHANGED <<todo>>
    <2>1. dying[t] \in Seq(Block) /\ dying[t] # <<>>
      BY Types DEF MInv, FreeBlock
    <2>2. Len(dying[t]) \in 1..Len(dying[t])
      BY <2>1, EmptySeq, LenProperties
    <2>3. b \in Block
      BY <2>1, <2>2, ElementOfSeq
    <2> QED
      BY <2>1, <2>2, <2>3, LenProperties DEF FreeBlock
  <1>2. life[b] = "dying"
    BY <1>1 DEF MInv, P!IInv, P!FreedOnce, P!OnStacksAreDying
  <1>3. \A u \in Thread : \A i \in DOMAIN todo[u] : todo[u][i].op # "stale"
    BY <1>1 DEF MInv, TodoOK, StaleIsLive, OneThread
  <1>4. ASSUME \A s \in Slot : ref'[s] # ref[s] => s \in Fields /\ s[1] = b /\ ref'[s] = NULL,
               \A n \in Block : flags'[n] # flags[n] => n = b
        PROVE  \A u \in Thread : TodoOK(u)'
    <2> SUFFICES ASSUME NEW u \in Thread PROVE TodoOK(u)'
      OBVIOUS
    <2>1. {} \in SUBSET Handle /\ {} \cap Own(u) = {} /\ todo'[u] = todo[u]
      BY <1>1
    <2>2. \A s \in Slot : ref'[s] # ref[s] =>
              /\ \/ s \in {}
                 \/ s \in Fields /\ (life[s[1]] # "live" \/ \E x \in {} : ref[x] = s[1])
              /\ \/ ref'[s] = NULL
                 \/ life[ref'[s]] # "live"
                 \/ \E r \in {} \cup Fields : ref'[s] = ref[r]
      BY <1>2, <1>4
    <2>3. \A n \in Block : flags'[n] # flags[n] => life[n] # "live" \/ \E x \in {} : ref[x] = n
      BY <1>2, <1>4
    <2> QED
      BY <1>3, <2>1, <2>2, <2>3, OthersUndisturbed
  <1>5. CASE \E f \in Field : Release(t, <<b, f>>) /\ UNCHANGED <<kind, typ, flags, todo>>
    <2>1. PICK f \in Field : Release(t, <<b, f>>) /\ UNCHANGED <<kind, typ, flags, todo>>
      BY <1>5
    <2>2. <<b, f>> \in Slot /\ <<b, f>> \in Fields /\ <<b, f>>[1] = b
      BY <1>1, SlotFacts
    <2>3. /\ CountsOnce /\ ref'[<<b, f>>] = NULL
          /\ \A r \in Slot : r # <<b, f>> => ref'[r] = ref[r]
          /\ \A n \in Block : life'[n] = "free" => life[n] = "free"
      BY <2>1, <2>2, Released
    <2>4. \A u \in Thread : TodoOK(u)'
      BY <1>4, <2>1, <2>2, <2>3
    <2>5. P!IInv'
      BY <2>3, OneCount
    <2>6. ImmutableKept /\ FreeHasNoFlags' /\ flags' = [n \in Block |-> flags'[n]]
      BY <2>1, <2>3, FlagsUnchanged
    <2> QED
      BY <1>1, <2>3, <2>4, <2>5, <2>6 DEF StepOK, MInv
  <1>6. CASE /\ \A f \in Field : ref[<<b, f>>] = NULL
             /\ life' = [life EXCEPT ![b] = "free"]
             /\ dying' = [dying EXCEPT ![t] = SubSeq(@, 1, Len(@) - 1)]
             /\ flags' = [flags EXCEPT ![b] = {}]
             /\ UNCHANGED <<count, ref, todo>>
    <2>1. \A s \in Slot : SlotOwner[s] = b => ref[s] = NULL
      <3> SUFFICES ASSUME NEW s \in Slot, SlotOwner[s] = b PROVE ref[s] = NULL
        OBVIOUS
      <3>1. b # NULL
        BY <1>1, MemoryBlocksAssumption
      <3>2. s \in Fields /\ s[1] = b /\ s = <<s[1], s[2]>> /\ s[2] \in Field
        BY <3>1, SlotFacts
      <3> QED
        BY <1>6, <3>2
    <2>2. P!Free(t)
      BY <1>1, <1>6, <2>1 DEF P!Free
    <2>3. CountsOnce
      BY <2>2 DEF CountsOnce, P!Next
    <2>4. /\ flags' = [n \in Block |-> flags'[n]] /\ flags'[b] = {}
          /\ \A n \in Block : n # b => flags'[n] = flags[n] /\ life'[n] = life[n]
          /\ life'[b] = "free"
      BY <1>1, <1>6, Types DEF MInv
    <2>5. FreeHasNoFlags'
      BY <2>4 DEF FreeHasNoFlags, MInv
    <2>6. ImmutableKept
      BY <2>4 DEF ImmutableKept
    <2>7. \A u \in Thread : TodoOK(u)'
      BY <1>4, <1>6, <2>4
    <2>8. P!IInv'
      BY <2>3, OneCount
    <2> QED
      BY <1>1, <2>3, <2>4, <2>5, <2>6, <2>7, <2>8 DEF StepOK, MInv
  <1> QED
    BY <1>5, <1>6 DEF FreeBlock

LEMMA ContinueStep == ASSUME MInv, NEW t \in Thread, Continue(t) PROVE StepOK
  BY FreeBlockStep, DoShareStep, DoStaleStep, DoStealStep, DoDropStep, DoFreshStep,
     DoFreshFailsStep, DoFlagsStep, DoCheckReadStep DEF Continue

-----------------------------------------------------------------------------
(* Plans are made of shorter ones.                                           *)
Fills(t, x, n, f, o) ==
    /\ o \in Item(t) /\ o.op \in {"share", "fresh"} /\ o.slot = <<n, f>>
    /\ o.op = "share" => o.from # x

LEMMA FillsPlace ==
    ASSUME NEW t \in Thread, NEW x, NEW n \in Block, NEW f \in Field, NEW o,
           Fills(t, x, n, f, o)
    PROVE  /\ o \in Item(t) /\ o.op \notin {"stale", "steal", "drop"}
           /\ Writes(o) /\ OnArray(o) /\ ArrayOf(o) = n /\ ~OnFlags(o)
           /\ o.slot = <<n, f>> /\ o.slot \in {n} \X Field /\ o.slot \in Fields
           /\ o.op = "share" => o.from # x
  BY DEF Fills, Writes, OnArray, OnField, OnSlot, OnFlags, ArrayOf, Fields

(* No step of q must be the last one.                                        *)
Open(q) == \A i \in DOMAIN q : ~OnFlags(q[i]) /\ (q[i].op = "drop" => q[i].slot \in Fields)

(* The fields q writes are all in G.                                         *)
WritesOnly(q, G) == \A i \in DOMAIN q : Writes(q[i]) => q[i].slot[2] \in G

LEMMA PlanNothing ==
    ASSUME NEW t \in Thread, NEW x, NEW n, NEW F, NEW G
    PROVE  Plan(t, x, n, F, <<>>) /\ Open(<<>>) /\ WritesOnly(<<>>, G)
  <1>1. <<>> \in Seq(Item(t)) /\ DOMAIN <<>> = {}
    OBVIOUS
  <1> QED
    BY <1>1 DEF Plan, Open, WritesOnly

LEMMA PlanOne ==
    ASSUME NEW t \in Thread, NEW x, NEW n \in Block, NEW F, NEW f \in Field, NEW o,
           Fills(t, x, n, f, o)
    PROVE  Plan(t, x, n, F, <<o>>) /\ Open(<<o>>) /\ WritesOnly(<<o>>, {f})
  <1>0. /\ o \in Item(t) /\ o.op \notin {"stale", "steal", "drop"}
        /\ Writes(o) /\ OnArray(o) /\ ArrayOf(o) = n /\ ~OnFlags(o)
        /\ o.slot = <<n, f>> /\ o.slot \in {n} \X Field /\ o.slot \in Fields
        /\ o.op = "share" => o.from # x
    BY FillsPlace
  <1>1. <<o>> \in Seq(Item(t)) /\ DOMAIN <<o>> = {1} /\ Len(<<o>>) = 1 /\ <<o>>[1] = o
    BY <1>0
  <1>2. Plan(t, x, n, F, <<o>>)
    BY <1>1, <1>0 DEF Plan
  <1>3. o.slot[2] = f
    BY <1>0
  <1> QED
    BY <1>1, <1>2, <1>3, <1>0 DEF Open, WritesOnly

LEMMA PlanTwo ==
    ASSUME NEW t \in Thread, NEW x, NEW n \in Block, NEW F, NEW f \in Field, NEW g \in Field,
           f # g, NEW o, NEW p, Fills(t, x, n, f, o), Fills(t, x, n, g, p)
    PROVE  Plan(t, x, n, F, <<o, p>>) /\ Open(<<o, p>>) /\ WritesOnly(<<o, p>>, {f, g})
  <1>1. /\ o \in Item(t) /\ o.op \notin {"stale", "steal", "drop"}
        /\ Writes(o) /\ OnArray(o) /\ ArrayOf(o) = n /\ ~OnFlags(o)
        /\ o.slot = <<n, f>> /\ o.slot \in {n} \X Field /\ o.slot \in Fields
        /\ o.op = "share" => o.from # x
    BY FillsPlace
  <1>2. /\ p \in Item(t) /\ p.op \notin {"stale", "steal", "drop"}
        /\ Writes(p) /\ OnArray(p) /\ ArrayOf(p) = n /\ ~OnFlags(p)
        /\ p.slot = <<n, g>> /\ p.slot \in {n} \X Field /\ p.slot \in Fields
        /\ p.op = "share" => p.from # x
    BY FillsPlace
  <1>3. /\ <<o, p>> \in Seq(Item(t)) /\ DOMAIN <<o, p>> = {1, 2} /\ Len(<<o, p>>) = 2
        /\ <<o, p>>[1] = o /\ <<o, p>>[2] = p
    BY <1>1, <1>2
  <1>4. Plan(t, x, n, F, <<o, p>>)
    BY <1>3, <1>1, <1>2 DEF Plan
  <1>5. o.slot[2] = f /\ p.slot[2] = g
    BY <1>1, <1>2
  <1> QED
    BY <1>3, <1>4, <1>5, <1>1, <1>2 DEF Open, WritesOnly

(* A field filled, emptied and filled again.                                 *)
LEMMA PlanAgain ==
    ASSUME NEW t \in Thread, NEW x, NEW n \in Block, NEW F, NEW f \in Field,
           NEW o, NEW p, Fills(t, x, n, f, o), Fills(t, x, n, f, p),
           NEW d, d = Drop(<<n, f>>)
    PROVE  Plan(t, x, n, F, <<o, d, p>>) /\ Open(<<o, d, p>>) /\ WritesOnly(<<o, d, p>>, {f})
  <1>1. /\ o \in Item(t) /\ o.op \notin {"stale", "steal", "drop"}
        /\ Writes(o) /\ OnArray(o) /\ ArrayOf(o) = n /\ ~OnFlags(o)
        /\ o.slot = <<n, f>> /\ o.slot \in {n} \X Field /\ o.slot \in Fields
        /\ o.op = "share" => o.from # x
    BY FillsPlace
  <1>2. /\ p \in Item(t) /\ p.op \notin {"stale", "steal", "drop"}
        /\ Writes(p) /\ OnArray(p) /\ ArrayOf(p) = n /\ ~OnFlags(p)
        /\ p.slot = <<n, f>> /\ p.slot \in {n} \X Field /\ p.slot \in Fields
        /\ p.op = "share" => p.from # x
    BY FillsPlace
  <1>3. /\ d \in Item(t) /\ d.op = "drop" /\ d.slot = <<n, f>> /\ d.slot \in Fields
        /\ ~Writes(d) /\ ~OnFlags(d) /\ ArrayOf(d) = n
    BY DEF Drop, Item, Fields, Writes, OnFlags, ArrayOf
  <1>4. /\ <<o, d, p>> \in Seq(Item(t)) /\ DOMAIN <<o, d, p>> = {1, 2, 3} /\ Len(<<o, d, p>>) = 3
        /\ <<o, d, p>>[1] = o /\ <<o, d, p>>[2] = d /\ <<o, d, p>>[3] = p
    BY <1>3, <1>1, <1>2
  <1>5. Plan(t, x, n, F, <<o, d, p>>)
    BY <1>3, <1>4, <1>1, <1>2 DEF Plan
  <1>6. o.slot[2] = f /\ p.slot[2] = f
    BY <1>1, <1>2
  <1> QED
    BY <1>3, <1>4, <1>5, <1>6, <1>1, <1>2 DEF Open, WritesOnly

LEMMA PlanEnd ==
    ASSUME NEW t \in Thread, NEW x \in Own(t), NEW n, NEW F, NEW o \in Item(t),
           \/ OnFlags(o) /\ o.block = n /\ "immutable" \notin F
           \/ o = Drop(x)
    PROVE  Plan(t, x, n, F, <<o>>) /\ WritesOnly(<<o>>, {})
  <1>1. <<o>> \in Seq(Item(t)) /\ DOMAIN <<o>> = {1} /\ Len(<<o>>) = 1 /\ <<o>>[1] = o
    OBVIOUS
  <1>2. /\ o.op \notin {"share", "fresh", "stale", "steal"} /\ ~Writes(o)
        /\ OnArray(o) => ArrayOf(o) = n
        /\ OnFlags(o) => "immutable" \notin F
    BY SlotFacts DEF Drop, OnFlags, Writes, OnArray, OnField, OnSlot, ArrayOf
  <1> QED
    BY <1>1, <1>2 DEF Plan, WritesOnly

LEMMA PlanCheck ==
    ASSUME NEW t \in Thread, NEW x \in Own(t), NEW n, NEW F, NEW y \in Own(t), NEW o \in Item(t),
           OnFlags(o), o.block = n, "immutable" \notin F
    PROVE  /\ Plan(t, x, n, F, <<CheckRead(y, x), o>>)
           /\ WritesOnly(<<CheckRead(y, x), o>>, {})
  <1> DEFINE c == CheckRead(y, x)
  <1>1. c \in Item(t) /\ c.op = "checkread" /\ ~Writes(c) /\ ~OnArray(c) /\ ~OnFlags(c)
    BY DEF CheckRead, Item, Writes, OnArray, OnField, OnSlot, OnFlags
  <1> HIDE DEF c
  <1>2. /\ <<c, o>> \in Seq(Item(t)) /\ DOMAIN <<c, o>> = {1, 2} /\ Len(<<c, o>>) = 2
        /\ <<c, o>>[1] = c /\ <<c, o>>[2] = o
    BY <1>1
  <1>3. o.op \in {"copyflags", "setflags"} /\ ~Writes(o) /\ ArrayOf(o) = n
    BY DEF OnFlags, Writes, ArrayOf
  <1>4. Plan(t, x, n, F, <<c, o>>) /\ WritesOnly(<<c, o>>, {})
    BY <1>1, <1>2, <1>3 DEF Plan, WritesOnly
  <1> QED
    BY <1>4 DEF c

(* One plan after another, when they fill different fields.                  *)
LEMMA PlanJoined ==
    ASSUME NEW t \in Thread, NEW x, NEW n \in Block, NEW F, NEW p, NEW q, NEW G, NEW H,
           Plan(t, x, n, F, p), Open(p), WritesOnly(p, G),
           Plan(t, x, n, F, q), WritesOnly(q, H), G \cap H = {}
    PROVE  /\ Plan(t, x, n, F, p \o q) /\ WritesOnly(p \o q, G \cup H)
           /\ Open(q) => Open(p \o q)
  <1> DEFINE r == p \o q
             l == Len(p)
             m == Len(q)
  <1>1. /\ p \in Seq(Item(t)) /\ q \in Seq(Item(t)) /\ l \in Nat /\ m \in Nat
        /\ DOMAIN p = 1..l /\ DOMAIN q = 1..m
    BY LenProperties DEF Plan
  <1>2. /\ r \in Seq(Item(t)) /\ Len(r) = l + m /\ DOMAIN r = 1..(l + m)
        /\ \A i \in 1..(l + m) : r[i] = IF i <= l THEN p[i] ELSE q[i - l]
    BY <1>1, ConcatProperties, LenProperties
  <1> HIDE DEF r, l, m
  <1>3. \A i \in 1..l : i \in DOMAIN r /\ r[i] = p[i] /\ i \in DOMAIN p
    BY <1>1, <1>2
  <1>4. \A i \in 1..m : l + i \in DOMAIN r /\ r[l + i] = q[i] /\ i \in DOMAIN q
    BY <1>1, <1>2
  <1>5. \A k \in DOMAIN r : k \in 1..l \/ \E i \in 1..m : k = l + i
    <2> SUFFICES ASSUME NEW k \in DOMAIN r, ~(k \in 1..l) PROVE \E i \in 1..m : k = l + i
      OBVIOUS
    <2>1. k - l \in 1..m /\ k = l + (k - l)
      BY <1>1, <1>2
    <2> QED
      BY <2>1
  <1>6. \A i \in DOMAIN r :
            /\ r[i].op \notin {"stale", "steal"}
            /\ Writes(r[i]) => r[i].slot \in {n} \X Field
            /\ OnArray(r[i]) => ArrayOf(r[i]) = n
            /\ r[i].op = "share" => r[i].from # x
    BY <1>3, <1>4, <1>5 DEF Plan
  <1>7. \A i \in DOMAIN r :
            /\ OnFlags(r[i]) => i = Len(r) /\ "immutable" \notin F
            /\ r[i].op = "drop" => r[i].slot \in Fields \/ i = Len(r)
    <2>1. \A i \in 1..l : ~OnFlags(r[i]) /\ (r[i].op = "drop" => r[i].slot \in Fields)
      BY <1>3 DEF Open
    <2>2. \A i \in 1..m : /\ OnFlags(q[i]) => i = m /\ "immutable" \notin F
                          /\ q[i].op = "drop" => q[i].slot \in Fields \/ i = m
      BY <1>4 DEF Plan, m
    <2> QED
      BY <1>2, <1>4, <1>5, <2>1, <2>2
  <1>8. WritesOnly(r, G \cup H)
    BY <1>3, <1>4, <1>5 DEF WritesOnly
  <1>9. ASSUME NEW k \in DOMAIN r, Writes(r[k])
        PROVE  \/ k > 1 /\ r[k - 1].op = "drop" /\ r[k - 1].slot = r[k].slot
               \/ \A j \in 1..(k - 1) : Writes(r[j]) => r[j].slot # r[k].slot
    <2>1. CASE k \in 1..l
      <3>1. \A j \in 1..(k - 1) : j \in 1..l /\ r[j] = p[j]
        BY <1>1, <1>3, <2>1
      <3>2. k > 1 => k - 1 \in 1..(k - 1)
        BY <1>1, <2>1
      <3>3. \/ k > 1 /\ p[k - 1].op = "drop" /\ p[k - 1].slot = p[k].slot
            \/ \A j \in 1..(k - 1) : Writes(p[j]) => p[j].slot # p[k].slot
        BY <1>3, <1>9, <2>1 DEF Plan
      <3>4. r[k] = p[k]
        BY <1>3, <2>1
      <3> QED
        BY <3>1, <3>2, <3>3, <3>4
    <2>2. CASE \E i \in 1..m : k = l + i
      <3>1. PICK i \in 1..m : k = l + i
        BY <2>2
      <3>2. r[k] = q[i] /\ i \in DOMAIN q /\ Writes(q[i])
        BY <1>4, <1>9, <3>1
      <3>3. q[i].slot[2] \in H
        BY <3>2 DEF WritesOnly
      <3>4. \A j \in 1..l : Writes(r[j]) => r[j].slot # q[i].slot
        BY <1>3, <3>3 DEF WritesOnly
      <3>5. CASE i > 1 /\ q[i - 1].op = "drop" /\ q[i - 1].slot = q[i].slot
        <4>1. i - 1 \in 1..m /\ l + (i - 1) = k - 1 /\ k > 1
          BY <1>1, <3>1, <3>5
        <4>2. r[k - 1] = q[i - 1]
          BY <1>4, <4>1
        <4> QED
          BY <3>2, <3>5, <4>1, <4>2
      <3>6. CASE \A j \in 1..(i - 1) : Writes(q[j]) => q[j].slot # q[i].slot
        <4> SUFFICES ASSUME NEW j \in 1..(k - 1), Writes(r[j]) PROVE r[j].slot # r[k].slot
          OBVIOUS
        <4>1. CASE j <= l
          BY <1>1, <3>1, <3>2, <3>4, <4>1
        <4>2. CASE j > l
          <5>1. j - l \in 1..(i - 1) /\ j - l \in 1..m /\ l + (j - l) = j
            BY <1>1, <3>1, <4>2
          <5>2. r[j] = q[j - l]
            BY <1>4, <5>1
          <5> QED
            BY <3>2, <3>6, <5>1, <5>2
        <4> QED
          BY <1>1, <3>1, <4>1, <4>2
      <3> QED
        BY <3>2, <3>5, <3>6 DEF Plan
    <2> QED
      BY <1>5, <2>1, <2>2
  <1>10. Plan(t, x, n, F, r)
    BY <1>2, <1>6, <1>7, <1>9 DEF Plan
  <1>11. Open(q) => Open(r)
    BY <1>3, <1>4, <1>5 DEF Open
  <1> QED
    BY <1>8, <1>10, <1>11 DEF r

-----------------------------------------------------------------------------
(* The operations that make an array.                                        *)
LEMMA Made ==
    ASSUME MInv, NEW t \in Thread, NEW x \in Own(t), NEW n, NEW tp, NEW F, NEW q,
           BeginArray(t, x, n, tp, F, q), Plan(t, x, n, F, q)
    PROVE  StepOK
  <1>1. P!New(x, n) /\ MInv'
    BY Begun
  <1>2. x \in Slot /\ n \in Block /\ life[n] = "free" /\ flags' = [flags EXCEPT ![n] = F]
    BY SlotFacts DEF BeginArray, Free
  <1>3. CountsOnce
    BY <1>1, <1>2 DEF CountsOnce, P!Next
  <1>4. ImmutableKept
    BY <1>2 DEF MInv, FreeHasNoFlags, ImmutableKept
  <1> QED
    BY <1>1, <1>3, <1>4 DEF StepOK

LEMMA ShareFills ==
    ASSUME NEW t \in Thread, NEW x, NEW n \in Block, NEW f \in Field, NEW y \in Own(t), y # x,
           NEW g \in Field \cup {"self"}
    PROVE  Fills(t, x, n, f, Share(<<n, f>>, y, g))
  <1>1. Share(<<n, f>>, y, g) \in Item(t)
    BY SlotFacts DEF Share, Item
  <1> QED
    BY <1>1 DEF Fills, Share

LEMMA FreshFills ==
    ASSUME NEW t \in Thread, NEW x \in Own(t), NEW n \in Block, NEW f \in Field,
           NEW k \in {"pod", "zeroinit"}
    PROVE  Fills(t, x, n, f, Fresh(<<n, f>>, k, x))
  <1>1. Fresh(<<n, f>>, k, x) \in Item(t)
    BY SlotFacts DEF Fresh, Item
  <1> QED
    BY <1>1 DEF Fills, Fresh

(* Two arrays are two variables, and a variable is not the empty one.        *)
LEMMA NotTheEmptyOne ==
    ASSUME NEW t \in Thread, NEW x, NEW n, NEW tp, NEW F, NEW q, BeginArray(t, x, n, tp, F, q)
    PROVE  n \in Block /\ ref[x] = NULL
  BY DEF BeginArray, Free

LEMMA MetaFields == "meta1" \in Field /\ "meta2" \in Field /\ "data" \in Field /\ "meta1" # "meta2"
  BY DEF Field

LEMMA BuffersPlan ==
    ASSUME NEW t \in Thread, NEW x \in Own(t), NEW n \in Block, NEW F, NEW tp
    PROVE  /\ Plan(t, x, n, F, Buffers(n, tp, x)) /\ Open(Buffers(n, tp, x))
           /\ WritesOnly(Buffers(n, tp, x), {"meta1", "meta2"})
  <1>1. CASE tp \in {"string", "bytes", "var"}
    <2> DEFINE o == Fresh(<<n, "meta1">>, "pod", x)
    <2>1. Fills(t, x, n, "meta1", o)
      BY MetaFields, FreshFills
    <2> HIDE DEF o
    <2>2. Plan(t, x, n, F, <<o>>) /\ Open(<<o>>) /\ WritesOnly(<<o>>, {"meta1"})
      BY <2>1, MetaFields, PlanOne
    <2>3. Buffers(n, tp, x) = <<o>>
      BY <1>1 DEF Buffers, o
    <2> QED
      BY <2>2, <2>3 DEF WritesOnly
  <1>2. CASE tp = "varstring"
    <2> DEFINE o == Fresh(<<n, "meta1">>, "zeroinit", x)
               p == Fresh(<<n, "meta2">>, "pod", x)
    <2>1. Fills(t, x, n, "meta1", o) /\ Fills(t, x, n, "meta2", p)
      BY MetaFields, FreshFills
    <2> HIDE DEF o, p
    <2>2. /\ Plan(t, x, n, F, <<o, p>>) /\ Open(<<o, p>>)
          /\ WritesOnly(<<o, p>>, {"meta1", "meta2"})
      BY <2>1, MetaFields, PlanTwo
    <2>3. Buffers(n, tp, x) = <<o, p>>
      BY <1>2 DEF Buffers, o, p
    <2> QED
      BY <2>2, <2>3
  <1>3. CASE tp \notin {"string", "bytes", "var", "varstring"}
    <2>1. Buffers(n, tp, x) = <<>>
      BY <1>3 DEF Buffers
    <2> QED
      BY <2>1, PlanNothing
  <1> QED
    BY <1>1, <1>2, <1>3

LEMMA CopyMetaPlan ==
    ASSUME NEW t \in Thread, NEW x, NEW n \in Block, NEW F, NEW tp, NEW y \in Own(t), y # x
    PROVE  /\ Plan(t, x, n, F, CopyMeta(n, tp, y)) /\ Open(CopyMeta(n, tp, y))
           /\ WritesOnly(CopyMeta(n, tp, y), {"meta1", "meta2"})
  <1> DEFINE o == Share(<<n, "meta1">>, y, "meta1")
             p == Share(<<n, "meta2">>, y, "meta2")
  <1>1. Fills(t, x, n, "meta1", o) /\ Fills(t, x, n, "meta2", p)
    BY MetaFields, ShareFills
  <1>2. CopyMeta(n, tp, y) \in {<<o>>, <<o, p>>, <<>>}
    BY DEF CopyMeta
  <1> HIDE DEF o, p
  <1>3. Plan(t, x, n, F, <<o>>) /\ Open(<<o>>) /\ WritesOnly(<<o>>, {"meta1"})
    BY <1>1, MetaFields, PlanOne
  <1>4. WritesOnly(<<o>>, {"meta1", "meta2"})
    BY <1>3 DEF WritesOnly
  <1>5. /\ Plan(t, x, n, F, <<o, p>>) /\ Open(<<o, p>>)
        /\ WritesOnly(<<o, p>>, {"meta1", "meta2"})
    BY <1>1, MetaFields, PlanTwo
  <1>6. Plan(t, x, n, F, <<>>) /\ Open(<<>>) /\ WritesOnly(<<>>, {"meta1", "meta2"})
    BY PlanNothing
  <1> QED
    BY <1>2, <1>3, <1>4, <1>5, <1>6

LEMMA EmptyStep ==
    ASSUME MInv, NEW t \in Thread, NEW x \in Own(t), NEW tp, Empty(t, x, tp)
    PROVE  StepOK
  <1>1. PICK n \in Free :
            BeginArray(t, x, n, tp, {"read", "write"}, Buffers(n, tp, x))
    BY DEF Empty
  <1> QED
    BY <1>1, BuffersPlan, Made DEF Free

LEMMA MakePodArrayStep ==
    ASSUME MInv, NEW t \in Thread, NEW x \in Own(t), MakePodArray(t, x)
    PROVE  StepOK
  BY PlanNothing, Made DEF MakePodArray

LEMMA FromDataStep ==
    ASSUME MInv, NEW t \in Thread, NEW x \in Own(t), NEW y \in Own(t), NEW F,
           FromData(t, x, y, F)
    PROVE  StepOK
  <1>1. PICK n \in Free :
            BeginArray(t, x, n, "fixed", F, <<Share(<<n, "data">>, y, "self")>>)
    BY DEF FromData
  <1>2. n \in Block /\ x # y
    BY <1>1, NotTheEmptyOne DEF FromData
  <1>3. Plan(t, x, n, F, <<Share(<<n, "data">>, y, "self")>>)
    BY <1>2, MetaFields, ShareFills, PlanOne
  <1> QED
    BY <1>1, <1>3, Made

(* The flags copied from another array.                                      *)
LEMMA CopyFlagsPlan ==
    ASSUME NEW t \in Thread, NEW x \in Own(t), NEW n \in Block, NEW y \in Own(t)
    PROVE  /\ Plan(t, x, n, {}, <<CopyFlags(n, y)>>)
           /\ WritesOnly(<<CopyFlags(n, y)>>, {})
  <1>1. /\ CopyFlags(n, y) \in Item(t) /\ OnFlags(CopyFlags(n, y))
        /\ CopyFlags(n, y).block = n
    BY DEF CopyFlags, Item, OnFlags
  <1> QED
    BY <1>1, PlanEnd

LEMMA ViewStep ==
    ASSUME MInv, NEW t \in Thread, NEW x \in Own(t), NEW y \in Own(t), View(t, x, y)
    PROVE  StepOK
  <1> DEFINE q(n) == <<Share(<<n, "data">>, y, "data")>> \o CopyMeta(n, TypeOf(y), y)
                     \o <<CopyFlags(n, y)>>
  <1>1. PICK n \in Free : BeginArray(t, x, n, TypeOf(y), {}, q(n))
    BY DEF View
  <1>2. n \in Block /\ x # y
    BY <1>1, NotTheEmptyOne DEF View, HoldsArray
  <1> DEFINE a == <<Share(<<n, "data">>, y, "data")>>
             m == CopyMeta(n, TypeOf(y), y)
             e == <<CopyFlags(n, y)>>
  <1>3. Plan(t, x, n, {}, a) /\ Open(a) /\ WritesOnly(a, {"data"})
    BY <1>2, MetaFields, ShareFills, PlanOne
  <1>4. Plan(t, x, n, {}, m) /\ Open(m) /\ WritesOnly(m, {"meta1", "meta2"})
    BY <1>2, CopyMetaPlan
  <1>5. Plan(t, x, n, {}, e) /\ WritesOnly(e, {})
    BY <1>2, CopyFlagsPlan
  <1>6. q(n) = (a \o m) \o e
    OBVIOUS
  <1> HIDE DEF a, m, e
  <1>7. /\ Plan(t, x, n, {}, a \o m) /\ Open(a \o m)
        /\ WritesOnly(a \o m, {"data"} \cup {"meta1", "meta2"})
    <2>1. {"data"} \cap {"meta1", "meta2"} = {}
      OBVIOUS
    <2> QED
      BY <1>2, <1>3, <1>4, <2>1, PlanJoined
  <1>8. Plan(t, x, n, {}, (a \o m) \o e)
    <2>1. ({"data"} \cup {"meta1", "meta2"}) \cap {} = {}
      OBVIOUS
    <2> QED
      BY <1>2, <1>5, <1>7, <2>1, PlanJoined
  <1> HIDE DEF q
  <1>9. Plan(t, x, n, {}, q(n))
    BY <1>6, <1>8
  <1> QED
    BY <1>1, <1>9, Made

(* A field filled, and the array given up.                                   *)
LEMMA PlanDropped ==
    ASSUME NEW t \in Thread, NEW x \in Own(t), NEW n \in Block, NEW F, NEW f \in Field, NEW o,
           Fills(t, x, n, f, o), NEW d, d = Drop(x)
    PROVE  Plan(t, x, n, F, <<o, d>>)
  <1>1. /\ o \in Item(t) /\ o.op \notin {"stale", "steal", "drop"}
        /\ Writes(o) /\ OnArray(o) /\ ArrayOf(o) = n /\ ~OnFlags(o)
        /\ o.slot = <<n, f>> /\ o.slot \in {n} \X Field /\ o.slot \in Fields
        /\ o.op = "share" => o.from # x
    BY DEF Fills, Writes, OnArray, OnField, OnSlot, OnFlags, ArrayOf, Fields
  <1>2. /\ d \in Item(t) /\ d.op = "drop" /\ d.slot = x
        /\ ~Writes(d) /\ ~OnFlags(d) /\ ~OnArray(d)
    BY SlotFacts DEF Drop, Item, Writes, OnFlags, OnArray, OnField
  <1>3. /\ <<o, d>> \in Seq(Item(t)) /\ DOMAIN <<o, d>> = {1, 2} /\ Len(<<o, d>>) = 2
        /\ <<o, d>>[1] = o /\ <<o, d>>[2] = d
    BY <1>1, <1>2
  <1> QED
    BY <1>1, <1>2, <1>3 DEF Plan

LEMMA ViewThrowsStep ==
    ASSUME MInv, NEW t \in Thread, NEW x \in Own(t), NEW y \in Own(t), ViewThrows(t, x, y)
    PROVE  StepOK
  <1>1. PICK n \in Free :
            BeginArray(t, x, n, TypeOf(y), {}, <<Share(<<n, "data">>, y, "data"), Drop(x)>>)
    BY DEF ViewThrows
  <1>2. n \in Block /\ x # y
    BY <1>1, NotTheEmptyOne DEF ViewThrows, HoldsArray
  <1>3. Fills(t, x, n, "data", Share(<<n, "data">>, y, "data"))
    BY <1>2, MetaFields, ShareFills
  <1>4. Plan(t, x, n, {}, <<Share(<<n, "data">>, y, "data"), Drop(x)>>)
    BY <1>2, <1>3, MetaFields, PlanDropped
  <1> QED
    BY <1>1, <1>4, Made

LEMMA TwoJoined == ASSUME NEW a, NEW b PROVE <<a>> \o <<b>> = <<a, b>>
  <1> DEFINE S == {a, b}
             p == <<a>>
             q == <<b>>
             r == <<a, b>>
  <1>1. p \in Seq(S) /\ q \in Seq(S) /\ r \in Seq(S) /\ Len(p) = 1 /\ Len(q) = 1 /\ Len(r) = 2
    OBVIOUS
  <1>2. p[1] = a /\ q[1] = b /\ r[1] = a /\ r[2] = b
    OBVIOUS
  <1> HIDE DEF p, q, r
  <1>3. /\ p \o q \in Seq(S) /\ Len(p \o q) = 2
        /\ (p \o q)[1] = a /\ (p \o q)[2] = b
    BY <1>1, <1>2, ConcatProperties
  <1>4. \A i \in 1..Len(p \o q) : (p \o q)[i] = r[i]
    BY <1>2, <1>3
  <1>5. p \o q = r
    BY <1>1, <1>3, <1>4, SeqEqual
  <1> QED
    BY <1>5 DEF p, q, r

LEMMA ThreeJoined == ASSUME NEW a, NEW b, NEW c PROVE <<a, b>> \o <<c>> = <<a, b, c>>
  <1> DEFINE S == {a, b, c}
             p == <<a, b>>
             q == <<c>>
             r == <<a, b, c>>
  <1>1. p \in Seq(S) /\ q \in Seq(S) /\ r \in Seq(S) /\ Len(p) = 2 /\ Len(q) = 1 /\ Len(r) = 3
    OBVIOUS
  <1>2. p[1] = a /\ p[2] = b /\ q[1] = c /\ r[1] = a /\ r[2] = b /\ r[3] = c
    OBVIOUS
  <1> HIDE DEF p, q, r
  <1>3. /\ p \o q \in Seq(S) /\ Len(p \o q) = 3
        /\ (p \o q)[1] = a /\ (p \o q)[2] = b /\ (p \o q)[3] = c
    BY <1>1, <1>2, ConcatProperties
  <1>4. \A i \in 1..Len(p \o q) : (p \o q)[i] = r[i]
    BY <1>2, <1>3
  <1>5. p \o q = r
    BY <1>1, <1>3, <1>4, SeqEqual
  <1> QED
    BY <1>5 DEF p, q, r

(* An array is given data, and then flags or other references.               *)
LEMMA PlanFlagged ==
    ASSUME NEW t \in Thread, NEW x \in Own(t), NEW n \in Block, NEW y \in Own(t), NEW q, NEW G,
           Plan(t, x, n, {}, q), Open(q), WritesOnly(q, G)
    PROVE  Plan(t, x, n, {}, q \o <<CopyFlags(n, y)>>)
  <1> DEFINE e == <<CopyFlags(n, y)>>
  <1>1. Plan(t, x, n, {}, e) /\ WritesOnly(e, {})
    BY CopyFlagsPlan
  <1>2. G \cap {} = {}
    OBVIOUS
  <1> HIDE DEF e
  <1>3. Plan(t, x, n, {}, q \o e)
    BY <1>1, <1>2, PlanJoined
  <1> QED
    BY <1>3 DEF e

LEMMA IndexVarStep ==
    ASSUME MInv, NEW t \in Thread, NEW x \in Own(t), NEW y \in Own(t), IndexVar(t, x, y)
    PROVE  StepOK
  <1>1. PICK n \in Free :
            BeginArray(t, x, n, IF TypeOf(y) = "var" THEN "fixed" ELSE "string", {},
                <<Share(<<n, "data">>, y, "data"), Drop(<<n, "data">>),
                  Share(<<n, "data">>, y, "meta1")>>
                \o (IF TypeOf(y) = "var" THEN <<>> ELSE <<Share(<<n, "meta1">>, y, "meta2")>>)
                \o <<CopyFlags(n, y)>>)
    BY DEF IndexVar
  <1>2. n \in Block /\ x # y
    BY <1>1, NotTheEmptyOne DEF IndexVar, HoldsArray
  <1> DEFINE o == Share(<<n, "data">>, y, "data")
             d == Drop(<<n, "data">>)
             p == Share(<<n, "data">>, y, "meta1")
             r == Share(<<n, "meta1">>, y, "meta2")
             m == IF TypeOf(y) = "var" THEN <<>> ELSE <<r>>
             a == <<o, d, p>>
             e == <<CopyFlags(n, y)>>
  <1>3. Fills(t, x, n, "data", o) /\ Fills(t, x, n, "data", p) /\ Fills(t, x, n, "meta1", r)
    BY <1>2, MetaFields, ShareFills
  <1>4. Plan(t, x, n, {}, a) /\ Open(a) /\ WritesOnly(a, {"data"})
    <2> HIDE DEF o, p
    <2> QED
      BY <1>2, <1>3, MetaFields, PlanAgain
  <1>5. Plan(t, x, n, {}, m) /\ Open(m) /\ WritesOnly(m, {"meta1"})
    <2> HIDE DEF r
    <2> QED
      BY <1>2, <1>3, MetaFields, PlanOne, PlanNothing
  <1>6. BeginArray(t, x, n, IF TypeOf(y) = "var" THEN "fixed" ELSE "string", {}, (a \o m) \o e)
    BY <1>1
  <1> HIDE DEF a, m
  <1>7. /\ Plan(t, x, n, {}, a \o m) /\ Open(a \o m)
        /\ WritesOnly(a \o m, {"data"} \cup {"meta1"})
    <2>1. {"data"} \cap {"meta1"} = {}
      OBVIOUS
    <2> QED
      BY <1>2, <1>4, <1>5, <2>1, PlanJoined
  <1>8. Plan(t, x, n, {}, (a \o m) \o e)
    BY <1>2, <1>7, PlanFlagged
  <1> QED
    BY <1>6, <1>8, Made

(* One or two references to what other arrays reach.                         *)
LEMMA PlanShare ==
    ASSUME NEW t \in Thread, NEW x, NEW n \in Block, NEW F, NEW f \in Field,
           NEW y \in Own(t), y # x, NEW g \in Field
    PROVE  /\ Plan(t, x, n, F, <<Share(<<n, f>>, y, g)>>) /\ Open(<<Share(<<n, f>>, y, g)>>)
           /\ WritesOnly(<<Share(<<n, f>>, y, g)>>, {f})
  <1>1. Fills(t, x, n, f, Share(<<n, f>>, y, g))
    BY ShareFills
  <1> QED
    BY <1>1, PlanOne

LEMMA PlanShareTwo ==
    ASSUME NEW t \in Thread, NEW x, NEW n \in Block, NEW F,
           NEW f \in Field, NEW y \in Own(t), y # x, NEW h \in Field,
           NEW g \in Field, NEW z \in Own(t), z # x, NEW k \in Field, f # g
    PROVE  /\ Plan(t, x, n, F, <<Share(<<n, f>>, y, h), Share(<<n, g>>, z, k)>>)
           /\ Open(<<Share(<<n, f>>, y, h), Share(<<n, g>>, z, k)>>)
           /\ WritesOnly(<<Share(<<n, f>>, y, h), Share(<<n, g>>, z, k)>>, {f, g})
  <1>1. Fills(t, x, n, f, Share(<<n, f>>, y, h)) /\ Fills(t, x, n, g, Share(<<n, g>>, z, k))
    BY ShareFills
  <1> QED
    BY <1>1, PlanTwo

LEMMA ViewAsBytesStep ==
    ASSUME MInv, NEW t \in Thread, NEW x \in Own(t), NEW y \in Own(t), ViewAsBytes(t, x, y)
    PROVE  StepOK
  <1> DEFINE g == IF TypeOf(y) = "fixed" THEN "data" ELSE "meta1"
  <1>1. PICK n \in Free :
            BeginArray(t, x, n, "bytes", FlagsOf(y), <<Share(<<n, "meta1">>, y, g)>>)
    BY DEF ViewAsBytes
  <1>2. g \in Field
    BY MetaFields
  <1> HIDE DEF g
  <1>3. n \in Block /\ x # y
    BY <1>1, NotTheEmptyOne DEF ViewAsBytes, HoldsArray
  <1>4. Plan(t, x, n, FlagsOf(y), <<Share(<<n, "meta1">>, y, g)>>)
    BY <1>2, <1>3, MetaFields, PlanShare
  <1> QED
    BY <1>1, <1>4, Made

LEMMA ViewFromBytesStep ==
    ASSUME MInv, NEW t \in Thread, NEW x \in Own(t), NEW y \in Own(t), ViewFromBytes(t, x, y)
    PROVE  StepOK
  <1> DEFINE g == IF ref[<<ref[y], "meta1">>] # NULL THEN "meta1" ELSE "data"
  <1>1. PICK n \in Free :
            BeginArray(t, x, n, "fixed", FlagsOf(y), <<Share(<<n, "data">>, y, g)>>)
    BY DEF ViewFromBytes
  <1>2. g \in Field
    BY MetaFields
  <1> HIDE DEF g
  <1>3. n \in Block /\ x # y
    BY <1>1, NotTheEmptyOne DEF ViewFromBytes, HoldsArray
  <1>4. Plan(t, x, n, FlagsOf(y), <<Share(<<n, "data">>, y, g)>>)
    BY <1>2, <1>3, MetaFields, PlanShare
  <1> QED
    BY <1>1, <1>4, Made

(* combine_into_tuple and groupby refer to the data of two arrays.           *)
LEMMA CombinedStep ==
    ASSUME MInv, NEW t \in Thread, NEW x \in Own(t), NEW y \in Own(t), NEW z \in Own(t),
           CombineIntoTuple(t, x, y, z) \/ GroupBy(t, x, y, z)
    PROVE  StepOK
  <1> DEFINE q(n) == <<Share(<<n, "meta1">>, y, "data"), Share(<<n, "meta2">>, z, "data")>>
  <1>1. \E n, tp, F : n \in Free /\ BeginArray(t, x, n, tp, F, q(n))
    <2>1. CASE CombineIntoTuple(t, x, y, z)
      <3>1. PICK n \in Free : BeginArray(t, x, n, "tuple", FlagsOf(y) \cap FlagsOf(z), q(n))
        BY <2>1 DEF CombineIntoTuple
      <3> HIDE DEF q
      <3> QED
        BY <3>1
    <2>2. CASE GroupBy(t, x, y, z)
      <3>1. PICK n \in Free :
                BeginArray(t, x, n, "groupby",
                    {"read"} \cup (FlagsOf(y) \cap FlagsOf(z) \cap {"immutable"}), q(n))
        BY <2>2 DEF GroupBy
      <3> HIDE DEF q
      <3> QED
        BY <3>1
    <2> QED
      BY <2>1, <2>2
  <1>2. PICK n, tp, F : n \in Free /\ BeginArray(t, x, n, tp, F, q(n))
    BY <1>1
  <1>3. n \in Block /\ x # y /\ x # z
    BY <1>2, NotTheEmptyOne DEF CombineIntoTuple, GroupBy, HoldsArray
  <1>4. Plan(t, x, n, F, q(n))
    BY <1>3, MetaFields, PlanShareTwo
  <1> QED
    BY <1>2, <1>4, Made

LEMMA TupleFieldStep ==
    ASSUME MInv, NEW t \in Thread, NEW x \in Own(t), NEW y \in Own(t),
           NEW f \in {"meta1", "meta2"}, TupleField(t, x, y, f)
    PROVE  StepOK
  <1>1. PICK n \in Free :
            BeginArray(t, x, n, "pointer", {},
                <<Share(<<n, "data">>, y, "data"), Share(<<n, "meta1">>, y, f),
                  CopyFlags(n, y)>>)
    BY DEF TupleField
  <1>2. n \in Block /\ x # y /\ f \in Field
    BY <1>1, MetaFields, NotTheEmptyOne DEF TupleField, HoldsArray
  <1> DEFINE o == Share(<<n, "data">>, y, "data")
             p == Share(<<n, "meta1">>, y, f)
             e == CopyFlags(n, y)
  <1>3. /\ Plan(t, x, n, {}, <<o, p>>) /\ Open(<<o, p>>)
        /\ WritesOnly(<<o, p>>, {"data", "meta1"})
    <2>1. "data" # "meta1"
      OBVIOUS
    <2> QED
      BY <1>2, <2>1, MetaFields, PlanShareTwo
  <1>4. Plan(t, x, n, {}, <<o, p>> \o <<e>>)
    BY <1>2, <1>3, PlanFlagged
  <1>5. <<o, p>> \o <<e>> = <<o, p, e>>
    BY ThreeJoined
  <1> HIDE DEF o, p, e
  <1>6. Plan(t, x, n, {}, <<o, p, e>>)
    BY <1>4, <1>5
  <1> QED
    BY <1>1, <1>6, Made DEF o, p, e

LEMMA DereferenceStep ==
    ASSUME MInv, NEW t \in Thread, NEW x \in Own(t), NEW y \in Own(t), Dereference(t, x, y)
    PROVE  StepOK
  <1>1. PICK n \in Free :
            BeginArray(t, x, n, "fixed", {}, <<Share(<<n, "data">>, y, "meta1"), CopyFlags(n, y)>>)
    BY DEF Dereference
  <1>2. n \in Block /\ x # y
    BY <1>1, NotTheEmptyOne DEF Dereference, HoldsArray
  <1> DEFINE o == Share(<<n, "data">>, y, "meta1")
             e == CopyFlags(n, y)
  <1>3. Plan(t, x, n, {}, <<o>>) /\ Open(<<o>>) /\ WritesOnly(<<o>>, {"data"})
    BY <1>2, MetaFields, PlanShare
  <1>4. Plan(t, x, n, {}, <<o>> \o <<e>>)
    BY <1>2, <1>3, PlanFlagged
  <1>5. <<o>> \o <<e>> = <<o, e>>
    BY TwoJoined
  <1> HIDE DEF o, e
  <1>6. Plan(t, x, n, {}, <<o, e>>)
    BY <1>4, <1>5
  <1> QED
    BY <1>1, <1>6, Made DEF o, e

(* eval_immutable, eval_copy: a new array filled with the values of another. *)
LEMMA EvalIntoStep ==
    ASSUME MInv, NEW t \in Thread, NEW x \in Own(t), NEW y \in Own(t),
           NEW F \in SUBSET {"read", "write", "immutable"}, EvalInto(t, x, y, F)
    PROVE  StepOK
  <1> DEFINE tp == CanonicalType(TypeOf(y))
             RW == {"read", "write"}
             b(n) == Buffers(n, tp, x)
             o(n) == SetFlags(n, F)
             c == CheckRead(y, x)
  <1>1. PICK n \in Free : BeginArray(t, x, n, tp, RW, b(n) \o <<c, o(n)>>)
    BY DEF EvalInto
  <1>2. n \in Block
    BY DEF Free
  <1>3. Plan(t, x, n, RW, b(n)) /\ Open(b(n)) /\ WritesOnly(b(n), {"meta1", "meta2"})
    BY <1>2, BuffersPlan
  <1>4. Plan(t, x, n, RW, <<c, o(n)>>) /\ WritesOnly(<<c, o(n)>>, {})
    <2>1. o(n) \in Item(t) /\ OnFlags(o(n)) /\ o(n).block = n /\ "immutable" \notin RW
      BY <1>2 DEF SetFlags, Item, OnFlags
    <2> HIDE DEF o, RW
    <2> QED
      BY <2>1, PlanCheck
  <1>5. {"meta1", "meta2"} \cap {} = {}
    OBVIOUS
  <1> HIDE DEF b, o, c, tp, RW
  <1>6. Plan(t, x, n, RW, b(n) \o <<c, o(n)>>)
    BY <1>2, <1>3, <1>4, <1>5, PlanJoined
  <1> QED
    BY <1>1, <1>6, Made

-----------------------------------------------------------------------------
(* The operations of memory_block_ptr, and flag_as_immutable.                *)
LEMMA AllAtOnce ==
    ASSUME MInv, NEW t \in Thread, Idle(t), CountsOnce, UNCHANGED <<flags, todo>>,
           \A s \in Slot : ref'[s] # ref[s] =>
               s \in Own(t) /\ \/ ref'[s] = NULL
                               \/ life[ref'[s]] # "live"
                               \/ \E r \in Own(t) \cup Fields : ref'[s] = ref[r],
           \A b \in Block : life'[b] = "free" => life[b] = "free"
    PROVE  StepOK
  <1>1. todo' = [todo EXCEPT ![t] = <<>>] /\ todo'[t] = <<>>
    BY DEF MInv, Idle
  <1>2. TodoOK(t)'
    BY <1>1, NothingLeft
  <1> QED
    BY <1>1, <1>2, OwnStep

LEMMA MakeBlockStep ==
    ASSUME MInv, NEW t \in Thread, NEW x \in Own(t), NEW k, MakeBlock(t, x, k)
    PROVE  StepOK
  <1>1. PICK n \in Free : Allocate(x, n, k)
    BY DEF MakeBlock
  <1>2. Idle(t) /\ ref[x] = NULL /\ UNCHANGED <<typ, flags, dying, todo>>
    BY DEF MakeBlock
  <1>3. /\ P!New(x, n) /\ n \in Block /\ x \in Slot /\ ref'[x] = n
        /\ \A s \in Slot : s # x => ref'[s] = ref[s]
        /\ life[n] = "free" /\ life' = [life EXCEPT ![n] = "live"]
    BY <1>1, <1>2, NewBlock
  <1>4. CountsOnce
    BY <1>3 DEF CountsOnce, P!Next
  <1>5. \A b \in Block : life'[b] = "free" => life[b] = "free"
    BY <1>3, Types DEF MInv
  <1>6. \A s \in Slot : ref'[s] # ref[s] => s \in Own(t) /\ life[ref'[s]] # "live"
    BY <1>3
  <1> QED
    BY <1>2, <1>4, <1>5, <1>6, AllAtOnce

LEMMA CopyConstructStep ==
    ASSUME MInv, NEW t \in Thread, NEW x \in Own(t), NEW y \in Own(t), CopyConstruct(t, x, y)
    PROVE  StepOK
  <1>1. /\ Idle(t) /\ ref[x] = NULL /\ Acquire(x, ref[y])
        /\ UNCHANGED <<life, kind, typ, flags, dying, todo>>
    BY DEF CopyConstruct
  <1>2. x \in Slot /\ y \in Slot /\ P!Usable(x)
    BY <1>1, SlotFacts DEF P!Usable
  <1>3. CountsOnce
    BY <1>1, <1>2, CopyIsCopy
  <1>4. \A s \in Slot : ref'[s] # ref[s] => s \in Own(t) /\ ref'[s] = ref[y]
    BY <1>1, Types DEF MInv, Acquire
  <1> QED
    BY <1>1, <1>3, <1>4, AllAtOnce

(* A reference changes hands, from t to u or from one variable to another.   *)
LEMMA ExchangeIsOne ==
    ASSUME NEW t \in Thread, NEW u \in Thread, NEW x \in Own(u), NEW y \in Own(t),
           ref' = [ref EXCEPT ![x] = ref[y], ![y] = ref[x]], UNCHANGED <<life, count, dying>>
    PROVE  CountsOnce
  <1>1. x \in Slot /\ y \in Slot /\ SlotOwner[x] = NULL /\ SlotOwner[y] = NULL
    BY SlotFacts
  <1> QED
    BY <1>1 DEF CountsOnce, P!Exchange, P!Next

LEMMA MoveConstructStep ==
    ASSUME MInv, NEW t \in Thread, NEW u \in Thread, NEW x \in Own(u), NEW y \in Own(t),
           MoveConstruct(t, u, x, y)
    PROVE  StepOK
  <1>1. /\ Idle(t) /\ Idle(u) /\ ref[x] = NULL
        /\ ref' = [ref EXCEPT ![x] = ref[y], ![y] = NULL]
        /\ UNCHANGED <<life, kind, count, typ, flags, dying, todo>>
    BY DEF MoveConstruct
  <1>2. CountsOnce
    BY <1>1, ExchangeIsOne
  <1>3. TodoOK(t)' /\ TodoOK(u)'
    BY <1>1, NothingLeft DEF Idle
  <1>4. \A s \in Slot : ref'[s] # ref[s] =>
            s \in Own(t) \cup Own(u) /\ (ref'[s] = NULL \/ ref'[s] = ref[y])
    BY <1>1, Types DEF MInv
  <1>5. ASSUME NEW w \in Thread, w # t, w # u PROVE TodoOK(w)'
    <2>1. /\ Own(t) \cup Own(u) \in SUBSET Handle /\ (Own(t) \cup Own(u)) \cap Own(w) = {}
          /\ todo'[w] = todo[w]
      BY <1>1, <1>5, SlotFacts
    <2>2. \A i \in DOMAIN todo[w] : todo[w][i].op # "stale"
      BY <1>5, OnlyOneStale
    <2> QED
      BY <1>1, <1>4, <2>1, <2>2, OthersUndisturbed
  <1>6. \A w \in Thread : TodoOK(w)'
    BY <1>3, <1>5
  <1>7. P!IInv'
    BY <1>2, OneCount
  <1>8. ImmutableKept /\ FreeHasNoFlags' /\ flags' = [b \in Block |-> flags'[b]]
    BY <1>1, FlagsUnchanged
  <1> QED
    BY <1>1, <1>2, <1>6, <1>7, <1>8 DEF StepOK, MInv

LEMMA DestructStep ==
    ASSUME MInv, NEW t \in Thread, NEW x \in Own(t), Destruct(t, x)
    PROVE  StepOK
  <1>1. Idle(t) /\ Release(t, x) /\ UNCHANGED <<kind, typ, flags, todo>>
    BY DEF Destruct
  <1>2. x \in Slot
    BY SlotFacts
  <1>3. /\ CountsOnce /\ ref'[x] = NULL
        /\ \A r \in Slot : r # x => ref'[r] = ref[r]
        /\ \A b \in Block : life'[b] = "free" => life[b] = "free"
    BY <1>1, <1>2, Released
  <1> QED
    BY <1>1, <1>3, AllAtOnce

LEMMA SwapStep ==
    ASSUME MInv, NEW t \in Thread, NEW x \in Own(t), NEW y \in Own(t), Swap(t, x, y)
    PROVE  StepOK
  <1>1. /\ Idle(t) /\ ref' = [ref EXCEPT ![x] = ref[y], ![y] = ref[x]]
        /\ UNCHANGED <<life, kind, count, typ, flags, dying, todo>>
    BY DEF Swap
  <1>2. CountsOnce
    BY <1>1, ExchangeIsOne
  <1>3. \A s \in Slot : ref'[s] # ref[s] => s \in Own(t) /\ \E r \in Own(t) : ref'[s] = ref[r]
    BY <1>1, Types DEF MInv
  <1> QED
    BY <1>1, <1>2, <1>3, AllAtOnce

(* A variable is left to be written, and is empty.                           *)
LEMMA OneItemLeft ==
    ASSUME NEW t \in Thread, NEW o \in Item(t), Writes(o), o.slot \in Own(t),
           todo'[t] = <<o>>, ref'[o.slot] = NULL,
           o.op = "stale" => OneThread /\ dying'[t] = <<>> /\ life'[o.block] = "live"
    PROVE  TodoOK(t)'
  <1>1. /\ todo'[t] \in Seq(Item(t)) /\ DOMAIN todo'[t] = {1} /\ Len(todo'[t]) = 1
        /\ todo'[t][1] = o
    OBVIOUS
  <1>2. o.slot \notin Fields
    BY SlotFacts
  <1>3. ~OnArray(o) /\ ~OnFlags(o)
    BY <1>2 DEF OnArray, OnField, OnFlags, Writes
  <1> QED
    BY <1>1, <1>3 DEF TodoOK, ArraysAlone, FromOthers, LastOfAll, EmptyInTime, StaleIsLive,
       NotYetImmutable

(* An assignment releases the reference the variable had, and goes on.       *)
LEMMA AssignStep ==
    ASSUME MInv, NEW t \in Thread, NEW x \in Own(t), Release(t, x), flags' = flags,
           NEW q, todo' = [todo EXCEPT ![t] = q], TodoOK(t)'
    PROVE  StepOK
  <1>1. x \in Slot
    BY SlotFacts
  <1>2. /\ CountsOnce /\ ref'[x] = NULL
        /\ \A r \in Slot : r # x => ref'[r] = ref[r]
        /\ \A b \in Block : life'[b] = "free" => life[b] = "free"
    BY <1>1, Released
  <1> QED
    BY <1>2, OwnStep

LEMMA MoveAssignStep ==
    ASSUME MInv, NEW t \in Thread, NEW x \in Own(t), NEW y \in Own(t), MoveAssign(t, x, y)
    PROVE  StepOK
  <1> DEFINE o == Steal(x, y)
  <1>1. Release(t, x) /\ todo' = [todo EXCEPT ![t] = <<o>>] /\ flags' = flags
    BY DEF MoveAssign
  <1>2. o \in Item(t) /\ Writes(o) /\ o.slot = x /\ o.op # "stale"
    BY DEF Steal, Item, Writes
  <1> HIDE DEF o
  <1>3. ref'[x] = NULL
    BY <1>1, SlotFacts, Released
  <1>4. todo'[t] = <<o>>
    BY <1>1, TodoOf
  <1>5. TodoOK(t)'
    BY <1>2, <1>3, <1>4, OneItemLeft
  <1> QED
    BY <1>1, <1>5, AssignStep

(* What the code relies on when a variable is assigned to itself: the block  *)
(* is shared, and stays so until the operator has read the pointer again.    *)
SafeSelfAssign == SelfAssign = "never" \/ (SelfAssign = "shared" /\ OneThread)

LEMMA CopyAssignStep ==
    ASSUME SafeSelfAssign, MInv, NEW t \in Thread, NEW x \in Own(t), NEW y \in Own(t),
           CopyAssign(t, x, y)
    PROVE  StepOK
  <1>1. /\ dying[t] = <<>> /\ Release(t, x) /\ flags' = flags
        /\ todo' = [todo EXCEPT ![t] = IF ref[y] = NULL THEN <<>>
                                       ELSE IF x = y THEN <<Stale(x, ref[x])>>
                                       ELSE <<Share(x, y, "self")>>]
    BY DEF CopyAssign, Idle
  <1>2. x \in Slot /\ ref'[x] = NULL
    BY <1>1, SlotFacts, Released
  <1>3. CASE ref[y] = NULL
    <2>1. todo' = [todo EXCEPT ![t] = <<>>]
      BY <1>1, <1>3
    <2>2. TodoOK(t)'
      BY <2>1, TodoOf, NothingLeft
    <2> QED
      BY <1>1, <2>1, <2>2, AssignStep
  <1>4. CASE ref[y] # NULL /\ x # y
    <2> DEFINE o == Share(x, y, "self")
    <2>1. todo' = [todo EXCEPT ![t] = <<o>>]
      BY <1>1, <1>4
    <2>2. o \in Item(t) /\ Writes(o) /\ o.slot = x /\ o.op # "stale"
      BY DEF Share, Item, Writes
    <2> HIDE DEF o
    <2>3. TodoOK(t)'
      BY <1>2, <2>1, <2>2, TodoOf, OneItemLeft
    <2> QED
      BY <1>1, <2>1, <2>3, AssignStep
  <1>5. CASE ref[y] # NULL /\ x = y
    <2> DEFINE o == Stale(x, ref[x])
    <2>1. todo' = [todo EXCEPT ![t] = <<o>>]
      BY <1>1, <1>5
    <2>2. OneThread /\ count[ref[x]] > 1
      BY <1>5 DEF CopyAssign, SafeSelfAssign
    <2>3. ref[x] \in Block /\ life[ref[x]] = "live"
      BY <1>2, <1>5, Live_ DEF MInv
    <2>4. UNCHANGED <<life, dying>>
      BY <1>1, <1>5, <2>2, <2>3, Types DEF Release, MInv
    <2>5. o \in Item(t) /\ Writes(o) /\ o.slot = x /\ o.block = ref[x]
      BY <2>3 DEF Stale, Item, Writes
    <2> HIDE DEF o
    <2>6. TodoOK(t)'
      BY <1>1, <1>2, <2>1, <2>2, <2>3, <2>4, <2>5, TodoOf, OneItemLeft
    <2> QED
      BY <1>1, <2>1, <2>6, AssignStep
  <1> QED
    BY <1>3, <1>4, <1>5

LEMMA FlagAsImmutableStep ==
    ASSUME MInv, NEW t \in Thread, NEW x \in Own(t), FlagAsImmutable(t, x)
    PROVE  StepOK
  <1> DEFINE a == ref[x]
  <1>1. /\ Idle(t) /\ ref[x] # NULL /\ "immutable" \notin flags[a]
        /\ flags' = [flags EXCEPT ![a] = (flags[a] \ {"write"}) \cup {"immutable"}]
        /\ UNCHANGED <<life, kind, count, ref, typ, dying, todo>>
    BY DEF FlagAsImmutable, HoldsArray
  <1>2. a \in Block /\ life[a] = "live"
    BY <1>1, Live_, SlotFacts DEF MInv
  <1>3. /\ flags' = [b \in Block |-> flags'[b]]
        /\ \A b \in Block : b # a => flags'[b] = flags[b]
    BY <1>1, <1>2 DEF MInv
  <1>4. CountsOnce
    BY <1>1 DEF CountsOnce
  <1>5. ImmutableKept
    BY <1>1, <1>3 DEF ImmutableKept
  <1>6. FreeHasNoFlags'
    BY <1>1, <1>2, <1>3 DEF MInv, FreeHasNoFlags
  <1>7. TodoOK(t)'
    BY <1>1, NothingLeft DEF Idle
  <1>8. \A u \in Thread : u # t => TodoOK(u)'
    BY <1>1, <1>3, OtherThreads
  <1>9. P!IInv'
    BY <1>4, OneCount
  <1> QED
    BY <1>1, <1>3, <1>4, <1>5, <1>6, <1>7, <1>8, <1>9 DEF StepOK, MInv

-----------------------------------------------------------------------------
(* Every step.                                                               *)
LEMMA PointerStepStep ==
    ASSUME SafeSelfAssign, MInv, NEW t \in Thread, NEW x \in Own(t), NEW y \in Own(t),
           PointerStep(t, x, y)
    PROVE  StepOK
  BY CopyConstructStep, CopyAssignStep, MoveAssignStep, SwapStep DEF PointerStep

LEMMA EvaluationStep ==
    ASSUME MInv, NEW t \in Thread, NEW x \in Own(t), NEW y \in Own(t),
           \/ Eval(t, x, y) \/ EvalImmutable(t, x, y)
           \/ \E F \in {{}, {"read"}, {"write"}} : EvalCopy(t, x, y, F)
    PROVE  StepOK
  <1>1. \/ CopyConstruct(t, x, y)
        \/ \E G \in SUBSET {"read", "write", "immutable"} : EvalInto(t, x, y, G)
    <2>1. CASE Eval(t, x, y)
      <3>1. {"read", "write"} \in SUBSET {"read", "write", "immutable"}
        OBVIOUS
      <3> QED
        BY <2>1, <3>1 DEF Eval
    <2>2. CASE EvalImmutable(t, x, y)
      <3>1. {"read", "immutable"} \in SUBSET {"read", "write", "immutable"}
        OBVIOUS
      <3> QED
        BY <2>2, <3>1 DEF EvalImmutable
    <2>3. ASSUME NEW F \in {{}, {"read"}, {"write"}}, EvalCopy(t, x, y, F)
          PROVE  \E G \in SUBSET {"read", "write", "immutable"} : EvalInto(t, x, y, G)
      <3> DEFINE G == CASE F = {} -> {"read", "write"}
                        [] F = {"read"} -> {"read", "immutable"}
                        [] OTHER -> F
      <3>1. G \in SUBSET {"read", "write", "immutable"}
        OBVIOUS
      <3>2. EvalInto(t, x, y, G)
        BY <2>3 DEF EvalCopy
      <3> HIDE DEF G
      <3> QED
        BY <3>1, <3>2
    <2> QED
      BY <2>1, <2>2, <2>3
  <1> QED
    BY <1>1, CopyConstructStep, EvalIntoStep

LEMMA ArrayStepStep ==
    ASSUME MInv, NEW t \in Thread, NEW x \in Own(t), NEW y \in Own(t), ArrayStep(t, x, y)
    PROVE  StepOK
  BY ViewStep, ViewThrowsStep, IndexVarStep, FromDataStep, ViewAsBytesStep, ViewFromBytesStep,
     TupleFieldStep, DereferenceStep, EvaluationStep DEF ArrayStep

LEMMA OperationStep ==
    ASSUME SafeSelfAssign, MInv, NEW t \in Thread, Operation(t)
    PROVE  StepOK
  <1>1. PICK v \in Var :
            LET x == <<t, v>> IN
            \/ Destruct(t, x)
            \/ FlagAsImmutable(t, x)
            \/ "data" \in Features /\ \E k \in {"pod", "external"} : MakeBlock(t, x, k)
            \/ \E tp \in BufferType : tp \in Features /\ Empty(t, x, tp)
            \/ "podarray" \in Features /\ MakePodArray(t, x)
            \/ \E u \in Thread, w \in Var : MoveConstruct(t, u, <<u, w>>, x)
            \/ \E w \in Var : PointerStep(t, x, <<t, w>>) \/ ArrayStep(t, x, <<t, w>>)
            \/ \E w, z \in Var :
                  \/ "tuple" \in Features /\ CombineIntoTuple(t, x, <<t, w>>, <<t, z>>)
                  \/ "groupby" \in Features /\ GroupBy(t, x, <<t, w>>, <<t, z>>)
    BY DEF Operation
  <1> DEFINE x == <<t, v>>
  <1>2. \A u \in Thread, w \in Var : <<u, w>> \in Own(u)
    BY DEF Own
  <1>3. x \in Own(t)
    BY <1>2
  <1>4. CASE Destruct(t, x) \/ FlagAsImmutable(t, x) \/ MakePodArray(t, x)
    BY <1>3, <1>4, DestructStep, FlagAsImmutableStep, MakePodArrayStep
  <1>5. CASE \/ \E k \in {"pod", "external"} : MakeBlock(t, x, k)
             \/ \E tp \in BufferType : Empty(t, x, tp)
    BY <1>3, <1>5, MakeBlockStep, EmptyStep
  <1>6. CASE \E u \in Thread, w \in Var : MoveConstruct(t, u, <<u, w>>, x)
    <2>1. PICK u \in Thread, w \in Var : MoveConstruct(t, u, <<u, w>>, x)
      BY <1>6
    <2> QED
      BY <1>2, <1>3, <2>1, MoveConstructStep
  <1>7. CASE \E w \in Var : PointerStep(t, x, <<t, w>>) \/ ArrayStep(t, x, <<t, w>>)
    <2>1. PICK w \in Var : PointerStep(t, x, <<t, w>>) \/ ArrayStep(t, x, <<t, w>>)
      BY <1>7
    <2> QED
      BY <1>2, <1>3, <2>1, PointerStepStep, ArrayStepStep
  <1>8. CASE \E w, z \in Var : \/ CombineIntoTuple(t, x, <<t, w>>, <<t, z>>)
                               \/ GroupBy(t, x, <<t, w>>, <<t, z>>)
    <2>1. PICK w, z \in Var : \/ CombineIntoTuple(t, x, <<t, w>>, <<t, z>>)
                              \/ GroupBy(t, x, <<t, w>>, <<t, z>>)
      BY <1>8
    <2> QED
      BY <1>2, <1>3, <2>1, CombinedStep
  <1> QED
    BY <1>1, <1>4, <1>5, <1>6, <1>7, <1>8

LEMMA InitMInv == Init => MInv /\ P!Init
  <1> SUFFICES ASSUME Init PROVE MInv /\ P!Init
    OBVIOUS
  <1>1. P!Init
    BY DEF Init, P!Init
  <1>2. P!IInv
    BY <1>1, RefCountAssumed, P!InitIInv
  <1>3. \A t \in Thread : TodoOK(t)
    <2> SUFFICES ASSUME NEW t \in Thread PROVE TodoOK(t)
      OBVIOUS
    <2>1. todo[t] = <<>> /\ <<>> \in Seq(Item(t)) /\ DOMAIN <<>> = {}
      BY DEF Init
    <2> QED
      BY <2>1 DEF TodoOK, ArraysAlone, FromOthers, LastOfAll, EmptyInTime, StaleIsLive,
                  NotYetImmutable
  <1>4. FreeHasNoFlags /\ todo = [t \in Thread |-> todo[t]] /\ flags = [b \in Block |-> flags[b]]
    BY DEF Init, FreeHasNoFlags
  <1> QED
    BY <1>1, <1>2, <1>3, <1>4 DEF MInv

LEMMA MInvKept ==
    ASSUME SafeSelfAssign, MInv, [Next]_vars
    PROVE  StepOK
  <1>1. CASE Next
    <2>1. PICK t \in Thread : Operation(t) \/ Continue(t)
      BY <1>1 DEF Next
    <2> QED
      BY <2>1, OperationStep, ContinueStep
  <1>2. CASE UNCHANGED vars
    <2>1. UNCHANGED <<life, count, ref, dying, todo, flags>>
      BY <1>2 DEF vars
    <2>2. CountsOnce
      BY <2>1 DEF CountsOnce
    <2>3. P!IInv'
      BY <2>2, OneCount
    <2>4. \A t \in Thread : TodoOK(t)'
      BY <2>1 DEF MInv, TodoOK, ArraysAlone, Alone, FromOthers, LastOfAll, EmptyInTime,
                  StaleIsLive, NotYetImmutable
    <2>5. ImmutableKept /\ FreeHasNoFlags' /\ flags' = [b \in Block |-> flags'[b]]
      BY <2>1, FlagsUnchanged
    <2>6. todo' = [t \in Thread |-> todo'[t]]
      BY <2>1 DEF MInv
    <2> QED
      BY <2>2, <2>3, <2>4, <2>5, <2>6 DEF StepOK, MInv
  <1> QED
    BY <1>1, <1>2

LEMMA SameRefCount ==
    /\ P!Init <=> RC!Init
    /\ CountsOnce => [RC!Next]_RC!vars
  <1>1. P!Init <=> RC!Init
    BY DEF P!Init, RC!Init
  <1>2. P!Next => RC!Next
    BY Zenon DEF P!Next, RC!Next, P!New, RC!New, P!Usable, RC!Usable, P!Copy, RC!Copy,
       P!Exchange, RC!Exchange, P!Drop, RC!Drop, P!Free, RC!Free
  <1> QED
    BY <1>1, <1>2 DEF CountsOnce, RC!vars

(* The steps of the operations of memory_block_ptr and nd::array, however    *)
(* threads interleave them, are each one memory_block_incref,                *)
(* memory_block_decref or memory_block_free that reference counting allows   *)
(* (memory_block.hpp:155-180), as long as a variable is not assigned to      *)
(* itself while another thread may release the block it refers to.           *)
THEOREM ImplementsRefCount ==
    ASSUME SafeSelfAssign
    PROVE  Spec => RefinesRefCount
  <1>1. Init => MInv /\ RC!Init
    BY InitMInv, SameRefCount
  <1>2. MInv /\ [Next]_vars => MInv' /\ [RC!Next]_RC!vars
    BY MInvKept, SameRefCount DEF StepOK
  <1> QED
    BY <1>1, <1>2, PTL DEF Spec, RefinesRefCount, RC!Spec

(* No variable and no field of an array ever refers to a block that          *)
(* memory_block_free has been called on.                                     *)
THEOREM ArraysNeverDangle ==
    ASSUME SafeSelfAssign
    PROVE  Spec => []NoDangling
  <1>1. Init => MInv
    BY InitMInv
  <1>2. MInv /\ [Next]_vars => MInv'
    BY MInvKept DEF StepOK
  <1>3. MInv => NoDangling
    BY Live_ DEF NoDangling, RC!NoDangling, MInv
  <1> QED
    BY <1>1, <1>2, <1>3, PTL DEF Spec

(* The flags of an immutable array are written by no operation and no        *)
(* thread until the array is freed (immutable_access_flag, array.hpp).       *)
THEOREM ImmutableStaysImmutable ==
    ASSUME SafeSelfAssign
    PROVE  Spec => ImmutableForever
  <1>1. Init => MInv
    BY InitMInv
  <1>2. MInv /\ [Next]_vars => MInv' /\ ImmutableKept
    BY MInvKept DEF StepOK
  <1> QED
    BY <1>1, <1>2, PTL DEF Spec, ImmutableForever, ImmutableKept
=============================================================================
