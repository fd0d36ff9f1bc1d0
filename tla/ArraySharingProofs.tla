------------------------- MODULE ArraySharingProofs -------------------------
(***************************************************************************)
(* Which blocks arrays share: no array reaches itself, so that counting    *)
(* references reclaims everything, and the storage of an immutable array   *)
(* is in no writable one, for any numbers of threads, variables and blocks *)
(* and any operations.                                                     *)
(***************************************************************************)
EXTENDS MemoryBlocksProofs

ArrayType == BufferType \cup {"pointer", "tuple", "groupby"}

(* The fields in which arrays of a type may hold references.                 *)
TypeFields(tp) ==
    CASE tp = "fixed" -> {"data"}
      [] tp \in {"string", "bytes", "var", "pointer"} -> {"data", "meta1"}
      [] OTHER -> Field

(* A step o of the making of array a.                                        *)
Pending(o, a, k) == o.op = k /\ OnArray(o) /\ ArrayOf(o) = a

Making(t, a) == \E i \in DOMAIN todo[t] : OnArray(todo[t][i]) /\ ArrayOf(todo[t][i]) = a

(* The blocks array a refers to, and those it will refer to.                 *)
Holds(a) == {b \in Block : \E f \in Field : ref[<<a, f>>] = b}
Sources(a) ==
    {b \in Block : \E t \in Thread : \E i \in DOMAIN todo[t] :
        Pending(todo[t][i], a, "share") /\ Reached(todo[t][i].from, todo[t][i].field) = b}
All(a) == {a} \cup Holds(a) \cup Sources(a)

(* The fields in which a holds references or will.                           *)
WillWrite(t, a, f) ==
    \E i \in DOMAIN todo[t] : Writes(todo[t][i]) /\ todo[t][i].slot = <<a, f>>
Used(a, f) == ref[<<a, f>>] # NULL \/ \E t \in Thread : WillWrite(t, a, f)

(* A block a variable refers to, or a self-assignment will.                  *)
Held(b) ==
    \/ \E x \in Handle : ref[x] = b
    \/ \E t \in Thread : \E i \in DOMAIN todo[t] :
           todo[t][i].op = "stale" /\ todo[t][i].block = b

(* An array that is immutable, and one that waits for flags of its own.      *)
Sealed(a) == "immutable" \in flags[a] /\ typ[a] # "groupby"
Waits(a) == \E t \in Thread : \E i \in DOMAIN todo[t] : Pending(todo[t][i], a, "setflags")

(* No writable array shares a block with an immutable one.                   *)
Separate ==
    \A a, b \in LiveArrays : Sealed(a) /\ "write" \in flags[b] => All(a) \cap All(b) = {}

(* What waits for its flags shares nothing, and is made of no array.         *)
WaitsAlone ==
    \A a \in LiveArrays : Waits(a) =>
        /\ \A b \in LiveArrays : a # b => All(a) \cap All(b) = {}
        /\ \A b \in All(a) : b # a => kind[b] # "array"

(* Nobody holds a block from which more arrays on the storage of an          *)
(* immutable one could be made.                                              *)
Unheld ==
    \A a \in LiveArrays : Sealed(a) \/ Waits(a) =>
        \A b \in All(a) : kind[b] # "array" => ~Held(b)

FieldsFit ==
    \A a \in LiveArrays :
        typ[a] \in ArrayType /\ \A f \in Field : Used(a, f) => f \in TypeFields(typ[a])

(* An array that will get the flags of another is made of that one's blocks. *)
CopyOK(t, o) ==
    LET y == ref[o.from]
    IN  /\ y \in LiveArrays /\ ~Making(t, y)
        /\ \A i \in DOMAIN todo[t] : todo[t][i].op # "fresh"
        /\ All(o.block) \subseteq Holds(y) \cup {o.block, y}
        /\ typ[y] = "groupby" => typ[o.block] = "groupby"
CopiesOK ==
    \A t \in Thread : \A i \in DOMAIN todo[t] :
        todo[t][i].op = "copyflags" => CopyOK(t, todo[t][i])

ValuesOK ==
    \A t \in Thread : \A i \in DOMAIN todo[t] :
        todo[t][i].op = "setflags" => ~({"write", "immutable"} \subseteq todo[t][i].val)

(* Variables are assigned what variables refer to.                           *)
CopiesVariables(o) == o.op = "share" /\ o.slot \notin Fields => o.field = "self"
VariablesOK == \A t \in Thread : \A i \in DOMAIN todo[t] : CopiesVariables(todo[t][i])

NoGroupBy == "groupby" \notin Features => \A b \in Block : typ[b] # "groupby"

Maps ==
    /\ kind = [b \in Block |-> kind[b]] /\ typ = [b \in Block |-> typ[b]]

XInv ==
    /\ Maps /\ Separate /\ WaitsAlone /\ Unheld /\ FieldsFit /\ CopiesOK /\ ValuesOK
    /\ VariablesOK /\ NoGroupBy

-----------------------------------------------------------------------------
LEMMA Items ==
    ASSUME MInv, NEW t \in Thread
    PROVE  /\ TodoOK(t) /\ \A i \in DOMAIN todo[t] : todo[t][i] \in Item(t)
  <1>1. TodoOK(t) /\ todo[t] \in Seq(Item(t))
    BY DEF MInv, TodoOK
  <1> QED
    BY <1>1, ElementOfSeq, LenProperties

(* What is made is alone.                                                    *)
LEMMA MadeAlone ==
    ASSUME MInv, NEW t \in Thread, NEW n, Making(t, n)
    PROVE  /\ n \in Block /\ life[n] = "live" /\ Alone(t, n)
           /\ \A s \in Slot : ref[s] = n => s \in Own(t) /\ s \notin Fields
           /\ \A i \in DOMAIN todo[t] : todo[t][i].op = "share" => ref[todo[t][i].from] # n
           /\ \A u \in Thread : Making(u, n) => u = t
  <1>1. PICK i \in DOMAIN todo[t] : OnArray(todo[t][i]) /\ ArrayOf(todo[t][i]) = n
    BY DEF Making
  <1>2. TodoOK(t) /\ todo[t][i] \in Item(t)
    BY Items
  <1>3. n \in Block /\ Alone(t, n)
    BY <1>1, <1>2, ItemPlace DEF TodoOK, ArraysAlone
  <1>4. life[n] = "live" /\ \A s \in Slot : ref[s] = n => s \in Own(t)
    BY <1>3, NotTheirs
  <1>5. \A s \in Own(t) : s \notin Fields
    BY SlotFacts
  <1>6. \A j \in DOMAIN todo[t] : todo[t][j].op = "share" => ref[todo[t][j].from] # n
    BY <1>1, <1>2 DEF TodoOK, FromOthers
  <1>7. ASSUME NEW u \in Thread, Making(u, n) PROVE u = t
    <2>1. PICK j \in DOMAIN todo[u] : OnArray(todo[u][j]) /\ ArrayOf(todo[u][j]) = n
      BY <1>7 DEF Making
    <2>2. Alone(u, n)
      BY <2>1, Items DEF TodoOK, ArraysAlone
    <2>3. PICK x \in Own(u) : ref[x] = n
      BY <2>2, SlotFacts DEF Alone
    <2>4. x \in Slot /\ x \in Own(t)
      BY <1>4, <2>3, SlotFacts
    <2> QED
      BY <2>3, <2>4, SlotFacts
  <1> QED
    BY <1>3, <1>4, <1>5, <1>6, <1>7

(* The reference an array reaches for is the array held or one of its own.   *)
LEMMA ReachedIsTheirs ==
    ASSUME MInv, NEW h \in Handle, NEW f \in Field \cup {"self"}, Reached(h, f) \in Block
    PROVE  /\ ref[h] \in Block /\ life[ref[h]] = "live"
           /\ Reached(h, f) \in Holds(ref[h]) \cup {ref[h]}
           /\ life[Reached(h, f)] = "live"
  <1>1. h \in Slot
    BY SlotFacts
  <1>2. ref[h] \in Block /\ Reached(h, f) \in Holds(ref[h]) \cup {ref[h]}
    <2>1. ref[h] = NULL => Reached(h, f) = NULL
      BY DEF Reached
    <2>2. ref[h] \in Block
      BY <1>1, <2>1, Types, MemoryBlocksAssumption DEF MInv
    <2> QED
      BY <2>2, ReachedIsHeld DEF Holds
  <1>3. life[ref[h]] = "live"
    BY <1>1, <1>2, Live_, MemoryBlocksAssumption DEF MInv
  <1>4. ASSUME NEW b \in Holds(ref[h]) PROVE life[b] = "live"
    <2>1. PICK g \in Field : ref[<<ref[h], g>>] = b
      BY DEF Holds
    <2>2. <<ref[h], g>> \in Slot /\ b \in Block /\ b # NULL
      BY <1>2, SlotFacts, MemoryBlocksAssumption DEF Holds
    <2> QED
      BY <2>1, <2>2, Live_ DEF MInv
  <1> QED
    BY <1>2, <1>3, <1>4

LEMMA PendingShare ==
    ASSUME MInv, NEW t \in Thread, NEW i \in DOMAIN todo[t], NEW a,
           Pending(todo[t][i], a, "share")
    PROVE  /\ todo[t][i].from \in Own(t) /\ todo[t][i].from \in Handle
           /\ todo[t][i].field \in Field \cup {"self"}
           /\ Making(t, a) /\ a \in Block
           /\ todo[t][i].slot[1] = a /\ \E f \in Field : todo[t][i].slot = <<a, f>>
  <1>1. todo[t][i] \in Item(t) /\ todo[t][i].op = "share"
    BY Items DEF Pending
  <1>2. ~OnFlags(todo[t][i]) /\ OnField(todo[t][i])
    BY <1>1 DEF Pending, OnArray, OnFlags
  <1>3. Making(t, a)
    BY DEF Pending, Making
  <1>4. ArrayOf(todo[t][i]) = todo[t][i].slot[1] /\ ArrayOf(todo[t][i]) = a
    BY <1>2 DEF Pending, ArrayOf
  <1> QED
    BY <1>1, <1>2, <1>3, <1>4, ItemShape, ItemPlace, MadeAlone, SlotFacts

(* The blocks of a live array are live.                                      *)
LEMMA AllLive ==
    ASSUME MInv, NEW a \in Block, life[a] = "live", NEW b \in All(a)
    PROVE  b \in Block /\ life[b] = "live"
  <1>1. CASE b = a
    BY <1>1
  <1>2. CASE b \in Holds(a)
    <2>1. PICK f \in Field : ref[<<a, f>>] = b
      BY <1>2 DEF Holds
    <2>2. <<a, f>> \in Slot /\ b \in Block /\ b # NULL
      BY <1>2, SlotFacts, MemoryBlocksAssumption DEF Holds
    <2> QED
      BY <2>1, <2>2, Live_ DEF MInv
  <1>3. CASE b \in Sources(a)
    <2>1. PICK t \in Thread : \E i \in DOMAIN todo[t] :
              Pending(todo[t][i], a, "share") /\ Reached(todo[t][i].from, todo[t][i].field) = b
      BY <1>3 DEF Sources
    <2>2. PICK i \in DOMAIN todo[t] :
              Pending(todo[t][i], a, "share") /\ Reached(todo[t][i].from, todo[t][i].field) = b
      BY <2>1
    <2>3. b \in Block
      BY <1>3 DEF Sources
    <2> QED
      BY <2>2, <2>3, PendingShare, ReachedIsTheirs
  <1> QED
    BY <1>1, <1>2, <1>3 DEF All

(* What is made is part of nothing else.                                     *)
LEMMA MadeIsNotShared ==
    ASSUME MInv, NEW t \in Thread, NEW n, Making(t, n)
    PROVE  \A b \in Block : n \notin Holds(b) /\ n \notin Sources(b)
  <1> SUFFICES ASSUME NEW b \in Block PROVE n \notin Holds(b) /\ n \notin Sources(b)
    OBVIOUS
  <1>1. \A c \in Block : n \notin Holds(c)
    <2> SUFFICES ASSUME NEW c \in Block, NEW f \in Field, ref[<<c, f>>] = n PROVE FALSE
      BY DEF Holds
    <2>1. <<c, f>> \in Slot /\ <<c, f>> \in Fields
      BY SlotFacts
    <2> QED
      BY <2>1, MadeAlone
  <1>2. ASSUME n \in Sources(b) PROVE FALSE
    <2>1. PICK u \in Thread : \E i \in DOMAIN todo[u] :
              Pending(todo[u][i], b, "share") /\ Reached(todo[u][i].from, todo[u][i].field) = n
      BY <1>2 DEF Sources
    <2>2. PICK i \in DOMAIN todo[u] :
              Pending(todo[u][i], b, "share") /\ Reached(todo[u][i].from, todo[u][i].field) = n
      BY <2>1
    <2> DEFINE h == todo[u][i].from
    <2>3. /\ h \in Own(u) /\ h \in Handle /\ h \in Slot
          /\ todo[u][i].field \in Field \cup {"self"} /\ todo[u][i].op = "share"
      BY <2>2, PendingShare, SlotFacts DEF Pending
    <2>4. n \in Block
      BY MadeAlone
    <2>5. ref[h] \in Block /\ n \in Holds(ref[h]) \cup {ref[h]}
      BY <2>2, <2>3, <2>4, ReachedIsTheirs
    <2>6. ref[h] = n
      BY <1>1, <2>5
    <2>7. h \in Own(t)
      BY <2>3, <2>6, MadeAlone
    <2>8. u = t
      BY <2>3, <2>7, SlotFacts
    <2> QED
      BY <2>3, <2>6, <2>8, MadeAlone
  <1> QED
    BY <1>1, <1>2

(* What these say of every state, in a form that can be said of the next.    *)
LiveSlots == \A s \in Slot : ref[s] # NULL => ref[s] \in Block /\ life[ref[s]] = "live"
LiveParts ==
    \A a \in Block : life[a] = "live" => \A b \in All(a) : b \in Block /\ life[b] = "live"
LiveMade ==
    \A t \in Thread : \A i \in DOMAIN todo[t] :
        /\ todo[t][i] \in Item(t)
        /\ OnArray(todo[t][i]) =>
              ArrayOf(todo[t][i]) \in Block /\ life[ArrayOf(todo[t][i])] = "live"
Lives == LiveSlots /\ LiveParts /\ LiveMade

LEMMA AllIsLive == MInv => Lives
  <1> SUFFICES ASSUME MInv PROVE Lives
    OBVIOUS
  <1>1. LiveSlots
    BY Live_ DEF MInv, LiveSlots
  <1>2. LiveParts
    BY AllLive DEF LiveParts
  <1>3. LiveMade
    <2> SUFFICES ASSUME NEW t \in Thread, NEW i \in DOMAIN todo[t]
                 PROVE  /\ todo[t][i] \in Item(t)
                        /\ OnArray(todo[t][i]) =>
                              ArrayOf(todo[t][i]) \in Block /\ life[ArrayOf(todo[t][i])] = "live"
      BY DEF LiveMade
    <2>1. OnArray(todo[t][i]) => Making(t, ArrayOf(todo[t][i]))
      BY DEF Making
    <2> QED
      BY <2>1, Items, MadeAlone
  <1> QED
    BY <1>1, <1>2, <1>3 DEF Lives

LEMMA AllIsLiveNext == MInv' => Lives'
  BY AllIsLive, PTL

-----------------------------------------------------------------------------
(***************************************************************************)
(* A step of t that makes no array and sets no flags: fields of dead       *)
(* blocks and of arrays in the making are emptied or filled with what they *)
(* were to be filled with, and variables get what variables had.           *)
(***************************************************************************)
FieldSteps(t) ==
    \A n \in Block, f \in Field : ref'[<<n, f>>] # ref[<<n, f>>] =>
        \/ ref'[<<n, f>>] = NULL /\ (life[n] # "live" \/ Making(t, n))
        \/ /\ Making(t, n) /\ WillWrite(t, n, f)
           /\ \/ ref'[<<n, f>>] \in Sources(n)
              \/ /\ life[ref'[<<n, f>>]] = "free"
                 /\ \E i \in DOMAIN todo[t] : Pending(todo[t][i], n, "fresh")

VariableSteps ==
    /\ \A u \in Thread : (\E i \in DOMAIN todo'[u] : OnArray(todo'[u][i])) =>
           \A x \in Own(u) : ref'[x] = ref[x]
    /\ \A x \in Handle : ref'[x] # NULL =>
           \/ Held(ref'[x])
           \/ life[ref'[x]] = "free" /\ \A s \in Fields : ref'[s] # ref'[x]

TodoSteps(t) ==
    /\ \A u \in Thread : u # t => todo'[u] = todo[u]
    /\ \A i \in DOMAIN todo'[t] :
          /\ OnArray(todo'[t][i]) => \E j \in DOMAIN todo[t] : todo[t][j] = todo'[t][i]
          /\ todo'[t][i].op = "stale" => Held(todo'[t][i].block)
          /\ CopiesVariables(todo'[t][i])

BlockSteps ==
    /\ \A b \in Block : life'[b] = "live" =>
          \/ life[b] = "live" /\ flags'[b] = flags[b] /\ typ'[b] = typ[b] /\ kind'[b] = kind[b]
          \/ /\ life[b] = "free" /\ kind'[b] # "array"
             /\ \A r, s \in Slot : ref'[r] = b /\ ref'[s] = b => r = s
    /\ \A b \in Block : typ'[b] = typ[b] \/ typ'[b] = "fixed"
    /\ Maps'

Quiet(t) == FieldSteps(t) /\ VariableSteps /\ TodoSteps(t) /\ BlockSteps

(* Steps of the making of arrays that are waiting after a quiet step were    *)
(* before, and read the same variables.                                      *)
LEMMA StillPending ==
    ASSUME MInv, NEW t \in Thread, Quiet(t), NEW u \in Thread, NEW i \in DOMAIN todo'[u],
           OnArray(todo'[u][i])
    PROVE  /\ \E j \in DOMAIN todo[u] : todo[u][j] = todo'[u][i]
           /\ Making(u, ArrayOf(todo'[u][i]))
           /\ \A x \in Own(u) : ref'[x] = ref[x]
  <1>1. \E j \in DOMAIN todo[u] : todo[u][j] = todo'[u][i]
    <2>1. CASE u = t
      BY <2>1 DEF Quiet, TodoSteps
    <2>2. CASE u # t
      BY <2>2 DEF Quiet, TodoSteps
    <2> QED
      BY <2>1, <2>2
  <1>2. Making(u, ArrayOf(todo'[u][i]))
    BY <1>1 DEF Making
  <1> QED
    BY <1>1, <1>2 DEF Quiet, VariableSteps

LEMMA MakingBefore ==
    ASSUME MInv, NEW t \in Thread, Quiet(t), NEW u \in Thread, NEW n, Making(u, n)'
    PROVE  Making(u, n)
  <1>1. PICK i \in DOMAIN todo'[u] : OnArray(todo'[u][i]) /\ ArrayOf(todo'[u][i]) = n
    BY DEF Making
  <1> QED
    BY <1>1, StillPending

(* The array a variable of u refers to keeps its fields while u makes        *)
(* another.                                                                  *)
LEMMA FieldsStay ==
    ASSUME MInv, NEW t \in Thread, Quiet(t), NEW u \in Thread, NEW h \in Own(u),
           ref[h] \in Block, ~Making(u, ref[h])
    PROVE  \A f \in Field : ref'[<<ref[h], f>>] = ref[<<ref[h], f>>]
  <1>1. h \in Slot /\ life[ref[h]] = "live"
    BY SlotFacts, Live_, MemoryBlocksAssumption DEF MInv
  <1>2. ~Making(t, ref[h])
    <2> SUFFICES ASSUME Making(t, ref[h]) PROVE FALSE
      OBVIOUS
    <2>1. h \in Own(t)
      BY <1>1, MadeAlone
    <2>2. u = t
      BY <2>1, SlotFacts
    <2> QED
      BY <2>2
  <1> QED
    BY <1>1, <1>2 DEF Quiet, FieldSteps

LEMMA SourcesStay ==
    ASSUME MInv, NEW t \in Thread, Quiet(t), NEW a \in Block, NEW b \in Sources(a)', MInv'
    PROVE  b \in Sources(a)
  <1>1. b \in Block
    BY DEF Sources
  <1>2. PICK u \in Thread : \E i \in DOMAIN todo'[u] :
            /\ Pending(todo[u][i], a, "share")'
            /\ Reached(todo[u][i].from, todo[u][i].field)' = b
    BY DEF Sources
  <1>3. PICK i \in DOMAIN todo'[u] :
            /\ Pending(todo[u][i], a, "share")'
            /\ Reached(todo[u][i].from, todo[u][i].field)' = b
    BY <1>2
  <1>4. Pending(todo'[u][i], a, "share") /\ OnArray(todo'[u][i])
    BY <1>3 DEF Pending, OnArray, OnField, OnFlags, OnSlot, Writes, ArrayOf, Fields
  <1>5. PICK j \in DOMAIN todo[u] : todo[u][j] = todo'[u][i]
    BY <1>4, StillPending
  <1> DEFINE o == todo[u][j]
  <1>6. /\ o.from \in Own(u) /\ o.from \in Handle /\ o.field \in Field \cup {"self"}
        /\ Making(u, a) /\ Pending(o, a, "share")
    BY <1>4, <1>5, PendingShare
  <1>7. ref'[o.from] = ref[o.from]
    BY <1>4, <1>6, StillPending
  <1>8. ref[o.from] # NULL => ref[o.from] \in Block
    BY <1>6, SlotFacts, Types DEF MInv
  <1>9. ref[o.from] # NULL => \A f \in Field : ref'[<<ref[o.from], f>>] = ref[<<ref[o.from], f>>]
    <2>1. o.op = "share"
      BY <1>6 DEF Pending
    <2>2. ~Making(u, ref[o.from])
      BY <1>5, <2>1, MadeAlone
    <2> QED
      BY <1>6, <1>8, <2>2, FieldsStay
  <1>10. Reached(o.from, o.field) = b
    BY <1>3, <1>5, <1>6, <1>7, <1>9 DEF Reached
  <1> QED
    BY <1>1, <1>6, <1>10 DEF Sources

LEMMA HoldsStay ==
    ASSUME MInv, NEW t \in Thread, Quiet(t), NEW a \in Block, life[a] = "live",
           NEW b \in Holds(a)'
    PROVE  \/ b \in Holds(a) \cup Sources(a)
           \/ /\ life[b] = "free" /\ Making(t, a)
              /\ \E i \in DOMAIN todo[t] : Pending(todo[t][i], a, "fresh")
  <1>1. PICK f \in Field : ref'[<<a, f>>] = b
    BY DEF Holds
  <1>2. b \in Block /\ b # NULL
    BY MemoryBlocksAssumption DEF Holds
  <1>3. CASE ref[<<a, f>>] = b
    BY <1>2, <1>3 DEF Holds
  <1>4. CASE ref[<<a, f>>] # b
    BY <1>1, <1>2, <1>4 DEF Quiet, FieldSteps
  <1> QED
    BY <1>3, <1>4

(* What a live array is made of after a quiet step it was before, or it is   *)
(* new.                                                                      *)
LEMMA AllStays ==
    ASSUME MInv, NEW t \in Thread, Quiet(t), MInv', NEW a \in Block, life[a] = "live",
           NEW b \in All(a)'
    PROVE  \/ b \in All(a) /\ life[b] = "live"
           \/ /\ b \in Block /\ life[b] = "free" /\ b \in Holds(a)' /\ Making(t, a)
              /\ \E i \in DOMAIN todo[t] : Pending(todo[t][i], a, "fresh")
  <1>1. b \in {a} \cup Holds(a)' \cup Sources(a)'
    BY DEF All
  <1>2. b \in All(a) => life[b] = "live"
    BY AllLive
  <1>3. CASE b = a
    BY <1>2, <1>3 DEF All
  <1>4. CASE b \in Sources(a)'
    BY <1>2, <1>4, SourcesStay DEF All
  <1>5. CASE b \in Holds(a)'
    <2>1. b \in Block
      BY <1>5 DEF Holds
    <2> QED
      BY <1>2, <1>5, <2>1, HoldsStay DEF All
  <1> QED
    BY <1>1, <1>3, <1>4, <1>5

LEMMA LiveArraysStay ==
    ASSUME NEW t \in Thread, Quiet(t), NEW a \in LiveArrays'
    PROVE  /\ a \in LiveArrays /\ a \in Block /\ life[a] = "live" /\ life'[a] = "live"
           /\ flags'[a] = flags[a] /\ typ'[a] = typ[a] /\ kind'[a] = kind[a]
           /\ Sealed(a)' <=> Sealed(a)
  <1>1. a \in Block /\ life'[a] = "live" /\ kind'[a] = "array"
    BY DEF LiveArrays, Live
  <1>2. life[a] = "live" /\ flags'[a] = flags[a] /\ typ'[a] = typ[a] /\ kind'[a] = kind[a]
    BY <1>1 DEF Quiet, BlockSteps
  <1> QED
    BY <1>1, <1>2 DEF LiveArrays, Live, Sealed

LEMMA WaitsBefore ==
    ASSUME MInv, NEW t \in Thread, Quiet(t), NEW a, Waits(a)'
    PROVE  Waits(a)
  <1>1. PICK u \in Thread : \E i \in DOMAIN todo'[u] : Pending(todo[u][i], a, "setflags")'
    BY DEF Waits
  <1>2. PICK i \in DOMAIN todo'[u] : Pending(todo[u][i], a, "setflags")'
    BY <1>1
  <1>3. Pending(todo'[u][i], a, "setflags") /\ OnArray(todo'[u][i])
    BY <1>2 DEF Pending, OnArray, OnField, OnFlags, OnSlot, Writes, ArrayOf, Fields
  <1> QED
    BY <1>3, StillPending DEF Waits

LEMMA NewIsNotHeld ==
    ASSUME MInv, NEW b \in Block, Held(b)
    PROVE  life[b] = "live"
  <1>1. CASE \E x \in Handle : ref[x] = b
    BY <1>1, SlotFacts, Live_, MemoryBlocksAssumption DEF MInv
  <1>2. CASE \E t \in Thread : \E i \in DOMAIN todo[t] :
                 todo[t][i].op = "stale" /\ todo[t][i].block = b
    BY <1>2, Items DEF TodoOK, StaleIsLive
  <1> QED
    BY <1>1, <1>2 DEF Held

LEMMA HeldBefore ==
    ASSUME MInv, NEW t \in Thread, Quiet(t), NEW b \in Block, Held(b)'
    PROVE  Held(b) \/ (life[b] = "free" /\ \A s \in Fields : ref'[s] # b)
  <1>1. CASE \E x \in Handle : ref'[x] = b
    BY <1>1, MemoryBlocksAssumption DEF Quiet, VariableSteps
  <1>2. CASE \E u \in Thread : \E i \in DOMAIN todo'[u] :
                 todo'[u][i].op = "stale" /\ todo'[u][i].block = b
    <2>1. PICK u \in Thread : \E i \in DOMAIN todo'[u] :
                   todo'[u][i].op = "stale" /\ todo'[u][i].block = b
      BY <1>2
    <2>2. CASE u = t
      BY <2>1, <2>2 DEF Quiet, TodoSteps
    <2>3. CASE u # t
      BY <2>1, <2>3 DEF Quiet, TodoSteps, Held
    <2> QED
      BY <2>2, <2>3
  <1> QED
    BY <1>1, <1>2 DEF Held

LEMMA UsedBefore ==
    ASSUME MInv, NEW t \in Thread, Quiet(t), MInv', NEW a \in Block, life[a] = "live",
           NEW f \in Field, Used(a, f)'
    PROVE  Used(a, f)
  <1>1. CASE ref'[<<a, f>>] # NULL
    <2>1. ref'[<<a, f>>] = ref[<<a, f>>] \/ WillWrite(t, a, f)
      BY <1>1 DEF Quiet, FieldSteps
    <2> QED
      BY <1>1, <2>1 DEF Used
  <1>2. CASE \E u \in Thread : WillWrite(u, a, f)'
    <2>1. PICK u \in Thread : \E i \in DOMAIN todo'[u] :
              Writes(todo'[u][i]) /\ todo'[u][i].slot = <<a, f>>
      BY <1>2 DEF WillWrite, Writes
    <2>2. PICK i \in DOMAIN todo'[u] : Writes(todo'[u][i]) /\ todo'[u][i].slot = <<a, f>>
      BY <2>1
    <2>3. OnArray(todo'[u][i])
      BY <2>2, SlotFacts DEF OnArray, OnField, OnSlot
    <2>4. PICK j \in DOMAIN todo[u] : todo[u][j] = todo'[u][i]
      BY <2>3, StillPending
    <2> QED
      BY <2>2, <2>4 DEF Used, WillWrite
  <1> QED
    BY <1>1, <1>2 DEF Used

LEMMA QuietSeparate ==
    ASSUME MInv, XInv, NEW t \in Thread, Quiet(t), MInv'
    PROVE  Separate'
  <1> SUFFICES ASSUME NEW a \in LiveArrays', NEW b \in LiveArrays', Sealed(a)',
                      "write" \in flags'[b], NEW c \in All(a)', c \in All(b)'
               PROVE  FALSE
    BY DEF Separate
  <1>1. /\ a \in LiveArrays /\ a \in Block /\ life[a] = "live" /\ Sealed(a)
        /\ b \in LiveArrays /\ b \in Block /\ life[b] = "live" /\ "write" \in flags[b]
    BY LiveArraysStay
  <1>2. All(a) \cap All(b) = {}
    BY <1>1 DEF XInv, Separate
  <1>3. a # b
    BY <1>2 DEF All
  <1>4. /\ (c \in All(a) /\ life[c] = "live") \/ (c \in Holds(a)' /\ life[c] = "free")
        /\ (c \in All(b) /\ life[c] = "live") \/ (c \in Holds(b)' /\ life[c] = "free")
    BY <1>1, AllStays
  <1>5. c \in Holds(a)' /\ c \in Holds(b)' /\ life[c] = "free"
    BY <1>2, <1>4
  <1>6. c \in Block
    BY <1>5 DEF Holds
  <1>7. PICK f \in Field, g \in Field : ref'[<<a, f>>] = c /\ ref'[<<b, g>>] = c
    BY <1>5 DEF Holds
  <1>8. life'[c] = "live"
    BY <1>1, <1>6, <1>7, SlotFacts, MemoryBlocksAssumption, AllIsLiveNext DEF Lives, LiveSlots
  <1>9. <<a, f>> \in Slot /\ <<b, g>> \in Slot /\ <<a, f>> # <<b, g>>
    BY <1>1, <1>3, SlotFacts
  <1> QED
    BY <1>5, <1>6, <1>7, <1>8, <1>9 DEF Quiet, BlockSteps

LEMMA QuietWaitsAlone ==
    ASSUME MInv, XInv, NEW t \in Thread, Quiet(t), MInv'
    PROVE  WaitsAlone'
  <1> SUFFICES ASSUME NEW a \in LiveArrays', Waits(a)'
               PROVE  /\ \A b \in LiveArrays' : a # b => All(a)' \cap All(b)' = {}
                      /\ \A b \in All(a)' : b # a => kind'[b] # "array"
    BY DEF WaitsAlone
  <1>1. a \in LiveArrays /\ a \in Block /\ life[a] = "live" /\ Waits(a)
    BY LiveArraysStay, WaitsBefore
  <1>2. ASSUME NEW b \in LiveArrays', a # b, NEW c \in All(a)', c \in All(b)' PROVE FALSE
    <2>1. b \in LiveArrays /\ b \in Block /\ life[b] = "live"
      BY LiveArraysStay
    <2>2. All(a) \cap All(b) = {}
      BY <1>1, <1>2, <2>1 DEF XInv, WaitsAlone
    <2>3. /\ (c \in All(a) /\ life[c] = "live") \/ (c \in Holds(a)' /\ life[c] = "free")
          /\ (c \in All(b) /\ life[c] = "live") \/ (c \in Holds(b)' /\ life[c] = "free")
      BY <1>1, <1>2, <2>1, AllStays
    <2>4. c \in Holds(a)' /\ c \in Holds(b)' /\ life[c] = "free"
      BY <2>2, <2>3
    <2>5. c \in Block
      BY <2>4 DEF Holds
    <2>6. PICK f \in Field, g \in Field : ref'[<<a, f>>] = c /\ ref'[<<b, g>>] = c
      BY <2>4 DEF Holds
    <2>7. <<a, f>> \in Slot /\ <<b, g>> \in Slot /\ <<a, f>> # <<b, g>>
      BY <1>1, <1>2, <2>1, SlotFacts
    <2>8. life'[c] = "live"
      BY <2>5, <2>6, <2>7, MemoryBlocksAssumption, AllIsLiveNext DEF Lives, LiveSlots
    <2> QED
      BY <2>4, <2>5, <2>6, <2>7, <2>8 DEF Quiet, BlockSteps
  <1>3. ASSUME NEW b \in All(a)', b # a PROVE kind'[b] # "array"
    <2>1. b \in Block /\ life'[b] = "live"
      BY <1>1, LiveArraysStay, AllIsLiveNext DEF Lives, LiveParts
    <2>2. CASE b \in All(a) /\ life[b] = "live"
      <3>1. kind[b] # "array"
        BY <1>1, <1>3, <2>2 DEF XInv, WaitsAlone
      <3> QED
        BY <2>1, <2>2, <3>1 DEF Quiet, BlockSteps
    <2>3. CASE life[b] = "free"
      BY <2>1, <2>3 DEF Quiet, BlockSteps
    <2> QED
      BY <1>1, <2>2, <2>3, AllStays
  <1> QED
    BY <1>2, <1>3

LEMMA QuietUnheld ==
    ASSUME MInv, XInv, NEW t \in Thread, Quiet(t), MInv'
    PROVE  Unheld'
  <1> SUFFICES ASSUME NEW a \in LiveArrays', Sealed(a)' \/ Waits(a)', NEW b \in All(a)',
                      kind'[b] # "array", Held(b)'
               PROVE  FALSE
    BY DEF Unheld
  <1>1. a \in LiveArrays /\ a \in Block /\ life[a] = "live" /\ (Sealed(a) \/ Waits(a))
    BY LiveArraysStay, WaitsBefore
  <1>2. b \in Block /\ life'[b] = "live"
    BY <1>1, LiveArraysStay, AllIsLiveNext DEF Lives, LiveParts
  <1>3. CASE b \in All(a) /\ life[b] = "live"
    <2>1. kind[b] # "array"
      BY <1>2, <1>3 DEF Quiet, BlockSteps
    <2>2. Held(b)
      BY <1>2, <1>3, HeldBefore
    <2> QED
      BY <1>1, <1>3, <2>1, <2>2 DEF XInv, Unheld
  <1>4. CASE life[b] = "free" /\ b \in Holds(a)'
    <2>1. ~Held(b)
      BY <1>2, <1>4, NewIsNotHeld
    <2>2. \A s \in Fields : ref'[s] # b
      BY <1>2, <2>1, HeldBefore
    <2> QED
      BY <1>1, <1>4, <2>2, SlotFacts DEF Holds
  <1> QED
    BY <1>1, <1>3, <1>4, AllStays

LEMMA QuietCopiesOK ==
    ASSUME MInv, XInv, NEW t \in Thread, Quiet(t), MInv'
    PROVE  CopiesOK'
  <1> SUFFICES ASSUME NEW u \in Thread, NEW i \in DOMAIN todo'[u], todo'[u][i].op = "copyflags"
               PROVE  CopyOK(u, todo[u][i])'
    BY DEF CopiesOK
  <1>1. OnArray(todo'[u][i]) /\ ArrayOf(todo'[u][i]) = todo'[u][i].block
    BY DEF OnArray, OnFlags, ArrayOf
  <1>2. PICK j \in DOMAIN todo[u] : todo[u][j] = todo'[u][i]
    BY <1>1, StillPending
  <1>3. CopyOK(u, todo[u][j])
    BY <1>2 DEF XInv, CopiesOK
  <1>4. PICK y, n, h : y = ref[h] /\ n = todo[u][j].block /\ h = todo[u][j].from
    OBVIOUS
  <1>5. /\ y \in LiveArrays /\ ~Making(u, y) /\ \A k \in DOMAIN todo[u] : todo[u][k].op # "fresh"
        /\ All(n) \subseteq Holds(y) \cup {n, y}
        /\ typ[y] = "groupby" => typ[n] = "groupby"
    BY <1>3, <1>4 DEF CopyOK
  <1>6. Making(u, n)
    BY <1>1, <1>2, <1>4 DEF Making
  <1>7. /\ h \in Own(u) /\ h \in Slot /\ n \in Block /\ life[n] = "live"
    <2>1. todo[u][j] \in Item(u) /\ todo[u][j].op = "copyflags"
      BY <1>2, Items
    <2> QED
      BY <1>4, <1>6, <2>1, ItemShape, SlotFacts, MadeAlone
  <1>8. ref'[h] = y
    BY <1>1, <1>4, <1>7, StillPending
  <1>9. y \in Block /\ life[y] = "live" /\ kind[y] = "array" /\ y # NULL
    BY <1>5, MemoryBlocksAssumption DEF LiveArrays, Live
  <1>10. life'[y] = "live"
    BY <1>7, <1>8, <1>9, AllIsLiveNext DEF Lives, LiveSlots
  <1>11. kind'[y] = "array" /\ typ'[y] = typ[y]
    BY <1>9, <1>10 DEF Quiet, BlockSteps
  <1>12. Holds(y)' = Holds(y)
    <2>1. \A f \in Field : ref'[<<y, f>>] = ref[<<y, f>>]
      BY <1>4, <1>5, <1>7, <1>9, FieldsStay
    <2> QED
      BY <2>1 DEF Holds
  <1>13. ~Making(u, y)'
    BY <1>5, MakingBefore
  <1>14. life'[n] = "live" /\ typ'[n] = typ[n]
    <2>1. life'[n] = "live"
      BY <1>1, <1>2, <1>4, AllIsLiveNext DEF Lives, LiveMade
    <2> QED
      BY <1>7, <2>1 DEF Quiet, BlockSteps
  <1>15. ASSUME NEW k \in DOMAIN todo'[u] PROVE todo'[u][k].op # "fresh"
    <2> SUFFICES ASSUME todo'[u][k].op = "fresh" PROVE FALSE
      OBVIOUS
    <2>1. todo'[u][k] \in Item(u)
      BY AllIsLiveNext DEF Lives, LiveMade
    <2>2. OnArray(todo'[u][k])
      BY <2>1, ItemShape DEF OnArray, OnField, OnSlot, Writes
    <2>3. PICK l \in DOMAIN todo[u] : todo[u][l] = todo'[u][k]
      BY <2>2, StillPending
    <2> QED
      BY <1>5, <2>3
  <1>16. ASSUME NEW c \in All(n)' PROVE c \in Holds(y) \cup {n, y}
    <2>1. CASE c \in All(n)
      BY <1>5, <2>1
    <2>2. CASE Making(t, n) /\ \E k \in DOMAIN todo[t] : Pending(todo[t][k], n, "fresh")
      <3>1. u = t
        BY <1>6, <2>2, MadeAlone
      <3> QED
        BY <1>5, <2>2, <3>1 DEF Pending
    <2> QED
      BY <1>7, <2>1, <2>2, AllStays
  <1>17. y \in LiveArrays'
    BY <1>9, <1>10, <1>11 DEF LiveArrays, Live
  <1>18. todo'[u][i].block = n /\ todo'[u][i].from = h
    BY <1>2, <1>4
  <1>19. All(n)' \subseteq Holds(y)' \cup {n, y}
    BY <1>12, <1>16
  <1> QED
    BY <1>5, <1>8, <1>11, <1>13, <1>14, <1>15, <1>17, <1>18, <1>19 DEF CopyOK

LEMMA QuietKeeps ==
    ASSUME MInv, XInv, NEW t \in Thread, Quiet(t), MInv'
    PROVE  XInv'
  <1>1. FieldsFit'
    <2> SUFFICES ASSUME NEW a \in LiveArrays'
                 PROVE  /\ typ'[a] \in ArrayType
                        /\ \A f \in Field : Used(a, f)' => f \in TypeFields(typ'[a])
      BY DEF FieldsFit, TypeFields
    <2>1. a \in LiveArrays /\ a \in Block /\ life[a] = "live" /\ typ'[a] = typ[a]
      BY LiveArraysStay
    <2> QED
      BY <2>1, UsedBefore DEF XInv, FieldsFit
  <1>2. ValuesOK'
    <2> SUFFICES ASSUME NEW u \in Thread, NEW i \in DOMAIN todo'[u], todo'[u][i].op = "setflags"
                 PROVE  ~({"write", "immutable"} \subseteq todo'[u][i].val)
      BY DEF ValuesOK
    <2>1. OnArray(todo'[u][i])
      BY DEF OnArray, OnFlags
    <2> QED
      BY <2>1, StillPending DEF XInv, ValuesOK
  <1>3. NoGroupBy'
    BY DEF Quiet, BlockSteps, XInv, NoGroupBy
  <1>4. Maps'
    BY DEF Quiet, BlockSteps
  <1>5. VariablesOK'
    <2> SUFFICES ASSUME NEW u \in Thread, NEW i \in DOMAIN todo'[u]
                 PROVE  CopiesVariables(todo'[u][i])
      BY DEF VariablesOK, CopiesVariables
    <2> QED
      BY DEF Quiet, TodoSteps, XInv, VariablesOK
  <1> QED
    BY <1>1, <1>2, <1>3, <1>4, <1>5, QuietSeparate, QuietWaitsAlone, QuietUnheld, QuietCopiesOK
       DEF XInv

-----------------------------------------------------------------------------
(* The steps that are quiet.                                                 *)
LEMMA NoArraySteps ==
    ASSUME NEW q, q = <<>> \/ \E o : q = <<o>> /\ ~OnArray(o)
    PROVE  \A i \in DOMAIN q : ~OnArray(q[i])
  OBVIOUS

(* Only variables of threads that make no array are written.                 *)
LEMMA VariablesWritten ==
    ASSUME MInv, XInv, NEW t \in Thread, TodoSteps(t),
           \A s \in Fields : ref'[s] = ref[s],
           \A u \in Thread : \A x \in Own(u) : ref'[x] # ref[x] =>
               /\ \A i \in DOMAIN todo'[u] : ~OnArray(todo'[u][i])
               /\ ref'[x] # NULL => Held(ref'[x]),
           \A b \in Block : life'[b] = "live" => life[b] = "live",
           UNCHANGED <<kind, typ, flags>>
    PROVE  Quiet(t)
  <1>1. FieldSteps(t)
    BY SlotFacts DEF FieldSteps
  <1>2. VariableSteps
    <2>1. ASSUME NEW x \in Handle, ref'[x] # NULL PROVE Held(ref'[x])
      <3>1. PICK u \in Thread : x \in Own(u)
        BY DEF Handle, Own
      <3> QED
        BY <2>1, <3>1 DEF Held
    <2> QED
      BY <2>1 DEF VariableSteps
  <1>3. BlockSteps
    BY DEF BlockSteps, XInv, Maps
  <1> QED
    BY <1>1, <1>2, <1>3 DEF Quiet

(* What is left of todo[t] when its first step is done.                      *)
LEMMA TailSteps ==
    ASSUME MInv, XInv, NEW t \in Thread, todo[t] # <<>>, PopTodo(t)
    PROVE  /\ TodoSteps(t)
           /\ \A i \in DOMAIN todo'[t] : \E j \in DOMAIN todo[t] : todo[t][j] = todo'[t][i]
           /\ OnSlot(todo[t][1]) /\ todo[t][1].slot \in Own(t) => todo'[t] = <<>>
  <1>1. TodoOK(t) /\ todo[t] \in Seq(Item(t))
    BY DEF MInv, TodoOK
  <1>2. /\ todo'[t] = Tail(todo[t]) /\ \A u \in Thread : u # t => todo'[u] = todo[u]
    BY TodoOf DEF PopTodo
  <1>3. \A i \in DOMAIN todo'[t] : \E j \in DOMAIN todo[t] : todo[t][j] = todo'[t][i]
    <2> SUFFICES ASSUME NEW i \in DOMAIN todo'[t]
                 PROVE  \E j \in DOMAIN todo[t] : todo[t][j] = todo'[t][i]
      OBVIOUS
    <2>1. /\ i \in 1..(Len(todo[t]) - 1) /\ todo'[t][i] = todo[t][i + 1]
          /\ i + 1 \in DOMAIN todo[t]
      BY <1>1, <1>2, FirstItem
    <2> QED
      BY <2>1
  <1>4. TodoSteps(t)
    BY <1>2, <1>3 DEF TodoSteps, Held, XInv, VariablesOK
  <1>5. ASSUME OnSlot(todo[t][1]), todo[t][1].slot \in Own(t) PROVE todo'[t] = <<>>
    <2>1. Len(todo[t]) = 1
      BY <1>1, <1>5, FirstItem DEF TodoOK, LastOfAll
    <2> QED
      BY <1>1, <1>2, <2>1, FirstItem, EmptySeq
  <1> QED
    BY <1>3, <1>4, <1>5

LEMMA SameTodo ==
    ASSUME XInv, NEW t \in Thread, todo' = todo
    PROVE  TodoSteps(t)
  BY DEF TodoSteps, Held, XInv, VariablesOK

LEMMA OneTodo ==
    ASSUME MInv, XInv, NEW t \in Thread, NEW o, ~OnArray(o), CopiesVariables(o),
           o.op = "stale" => Held(o.block), todo' = [todo EXCEPT ![t] = <<o>>]
    PROVE  TodoSteps(t) /\ \A i \in DOMAIN todo'[t] : ~OnArray(todo'[t][i])
  <1>1. /\ todo'[t] = <<o>> /\ \A u \in Thread : u # t => todo'[u] = todo[u]
    BY TodoOf
  <1>2. \A i \in DOMAIN todo'[t] : todo'[t][i] = o
    BY <1>1
  <1> QED
    BY <1>1, <1>2 DEF TodoSteps

(* The variables of a thread are not those of another.                       *)
LEMMA OwnOnly ==
    ASSUME NEW t \in Thread, NEW u \in Thread, NEW x \in Own(u), x \in Own(t)
    PROVE  u = t
  BY SlotFacts

LEMMA ReleasedSlot ==
    ASSUME MInv, NEW t \in Thread, NEW s \in Slot, Release(t, s)
    PROVE  /\ ref'[s] = NULL /\ \A r \in Slot : r # s => ref'[r] = ref[r]
           /\ \A b \in Block : life'[b] = "live" => life[b] = "live"
  <1>1. ref'[s] = NULL /\ \A r \in Slot : r # s => ref'[r] = ref[r]
    BY Released
  <1>2. \A b \in Block : life'[b] = "live" => life[b] = "live"
    <2>1. CASE ref[s] = NULL
      BY <2>1 DEF Release
    <2>2. CASE ref[s] # NULL
      <3>1. life' = life \/ life' = [life EXCEPT ![ref[s]] = "dying"]
        BY <2>2 DEF Release
      <3>2. ref[s] \in Block /\ life[ref[s]] = "live"
        BY <2>2, Live_ DEF MInv
      <3> QED
        BY <3>1, <3>2, Types DEF MInv
    <2> QED
      BY <2>1, <2>2
  <1> QED
    BY <1>1, <1>2

(* A variable of t is emptied.                                               *)
LEMMA VariableReleased ==
    ASSUME MInv, XInv, NEW t \in Thread, NEW x \in Own(t), Release(t, x), TodoSteps(t),
           \A i \in DOMAIN todo'[t] : ~OnArray(todo'[t][i]), UNCHANGED <<kind, typ, flags>>
    PROVE  Quiet(t)
  <1>1. x \in Slot /\ x \notin Fields
    BY SlotFacts
  <1>2. /\ ref'[x] = NULL /\ \A r \in Slot : r # x => ref'[r] = ref[r]
        /\ \A b \in Block : life'[b] = "live" => life[b] = "live"
    BY <1>1, ReleasedSlot
  <1>3. \A s \in Fields : ref'[s] = ref[s]
    BY <1>1, <1>2, SlotFacts
  <1>4. ASSUME NEW u \in Thread, NEW y \in Own(u), ref'[y] # ref[y] PROVE y = x /\ u = t
    BY <1>2, <1>4, SlotFacts, OwnOnly
  <1> QED
    BY <1>2, <1>3, <1>4, VariablesWritten

LEMMA DestructQuiet ==
    ASSUME MInv, XInv, NEW t \in Thread, NEW x \in Own(t), Destruct(t, x)
    PROVE  Quiet(t)
  <1>1. Release(t, x) /\ UNCHANGED <<kind, typ, flags, todo>> /\ todo[t] = <<>>
    BY DEF Destruct, Idle
  <1>2. \A i \in DOMAIN todo'[t] : ~OnArray(todo'[t][i])
    BY <1>1, NoArraySteps
  <1> QED
    BY <1>1, <1>2, SameTodo, VariableReleased

LEMMA MoveAssignQuiet ==
    ASSUME MInv, XInv, NEW t \in Thread, NEW x \in Own(t), NEW y \in Own(t), MoveAssign(t, x, y)
    PROVE  Quiet(t)
  <1> DEFINE o == Steal(x, y)
  <1>1. /\ Release(t, x) /\ UNCHANGED <<kind, typ, flags>>
        /\ todo' = [todo EXCEPT ![t] = <<o>>]
    BY DEF MoveAssign
  <1>2. x \notin Fields
    BY SlotFacts
  <1>3. ~OnArray(o) /\ CopiesVariables(o) /\ o.op # "stale"
    BY <1>2 DEF Steal, OnArray, OnField, OnFlags, CopiesVariables
  <1> HIDE DEF o
  <1> QED
    BY <1>1, <1>3, OneTodo, VariableReleased

LEMMA CopyAssignQuiet ==
    ASSUME MInv, XInv, NEW t \in Thread, NEW x \in Own(t), NEW y \in Own(t), CopyAssign(t, x, y)
    PROVE  Quiet(t)
  <1>1. /\ Release(t, x) /\ UNCHANGED <<kind, typ, flags>>
        /\ todo' = [todo EXCEPT ![t] = IF ref[y] = NULL THEN <<>>
                                       ELSE IF x = y THEN <<Stale(x, ref[x])>>
                                       ELSE <<Share(x, y, "self")>>]
    BY DEF CopyAssign
  <1>2. x \notin Fields /\ x \in Handle
    BY SlotFacts
  <1>3. CASE ref[y] = NULL
    <2>1. todo'[t] = <<>> /\ \A u \in Thread : u # t => todo'[u] = todo[u]
      BY <1>1, <1>3, TodoOf
    <2>2. TodoSteps(t) /\ \A i \in DOMAIN todo'[t] : ~OnArray(todo'[t][i])
      BY <2>1 DEF TodoSteps
    <2> QED
      BY <1>1, <2>2, VariableReleased
  <1>4. CASE ref[y] # NULL /\ x = y
    <2> DEFINE o == Stale(x, ref[x])
    <2>1. todo' = [todo EXCEPT ![t] = <<o>>]
      BY <1>1, <1>4
    <2>2. ~OnArray(o) /\ CopiesVariables(o) /\ Held(o.block)
      BY <1>2 DEF Stale, OnArray, OnField, OnFlags, CopiesVariables, Held
    <2> HIDE DEF o
    <2> QED
      BY <1>1, <2>1, <2>2, OneTodo, VariableReleased
  <1>5. CASE ref[y] # NULL /\ x # y
    <2> DEFINE o == Share(x, y, "self")
    <2>1. todo' = [todo EXCEPT ![t] = <<o>>]
      BY <1>1, <1>5
    <2>2. ~OnArray(o) /\ CopiesVariables(o) /\ o.op # "stale"
      BY <1>2 DEF Share, OnArray, OnField, OnFlags, CopiesVariables
    <2> HIDE DEF o
    <2> QED
      BY <1>1, <2>1, <2>2, OneTodo, VariableReleased
  <1> QED
    BY <1>3, <1>4, <1>5

LEMMA CopyConstructQuiet ==
    ASSUME MInv, XInv, NEW t \in Thread, NEW x \in Own(t), NEW y \in Own(t),
           CopyConstruct(t, x, y)
    PROVE  Quiet(t)
  <1>1. /\ todo[t] = <<>> /\ Acquire(x, ref[y]) /\ UNCHANGED <<life, kind, typ, flags, todo>>
    BY DEF CopyConstruct, Idle
  <1>2. x \in Slot /\ x \notin Fields /\ y \in Handle
    BY SlotFacts
  <1>3. \A r \in Slot : ref'[r] = IF r = x THEN ref[y] ELSE ref[r]
    BY <1>1, <1>2, Types DEF MInv, Acquire
  <1>4. \A i \in DOMAIN todo'[t] : ~OnArray(todo'[t][i])
    BY <1>1, NoArraySteps
  <1>5. ASSUME NEW u \in Thread, NEW z \in Own(u), ref'[z] # ref[z]
        PROVE  u = t /\ Held(ref'[z])
    BY <1>2, <1>3, <1>5, SlotFacts, OwnOnly DEF Held
  <1>6. \A s \in Fields : ref'[s] = ref[s]
    BY <1>2, <1>3, SlotFacts
  <1> QED
    BY <1>1, <1>4, <1>5, <1>6, SameTodo, VariablesWritten

LEMMA SwapQuiet ==
    ASSUME MInv, XInv, NEW t \in Thread, NEW x \in Own(t), NEW y \in Own(t), Swap(t, x, y)
    PROVE  Quiet(t)
  <1>1. /\ todo[t] = <<>> /\ ref' = [ref EXCEPT ![x] = ref[y], ![y] = ref[x]]
        /\ UNCHANGED <<life, kind, typ, flags, todo>>
    BY DEF Swap, Idle
  <1>2. x \in Slot /\ x \notin Fields /\ y \in Slot /\ y \notin Fields /\ x \in Handle /\ y \in Handle
    BY SlotFacts
  <1>3. \A r \in Slot : ref'[r] = IF r = y THEN ref[x] ELSE IF r = x THEN ref[y] ELSE ref[r]
    BY <1>1, <1>2, Types DEF MInv
  <1>4. \A i \in DOMAIN todo'[t] : ~OnArray(todo'[t][i])
    BY <1>1, NoArraySteps
  <1>5. ASSUME NEW u \in Thread, NEW z \in Own(u), ref'[z] # ref[z]
        PROVE  u = t /\ Held(ref'[z])
    BY <1>2, <1>3, <1>5, SlotFacts, OwnOnly DEF Held
  <1>6. \A s \in Fields : ref'[s] = ref[s]
    BY <1>2, <1>3, SlotFacts
  <1> QED
    BY <1>1, <1>4, <1>5, <1>6, SameTodo, VariablesWritten

LEMMA MoveConstructQuiet ==
    ASSUME MInv, XInv, NEW t \in Thread, NEW u \in Thread, NEW x \in Own(u), NEW y \in Own(t),
           MoveConstruct(t, u, x, y)
    PROVE  Quiet(t)
  <1>1. /\ todo[t] = <<>> /\ todo[u] = <<>> /\ ref' = [ref EXCEPT ![x] = ref[y], ![y] = NULL]
        /\ UNCHANGED <<life, kind, typ, flags, todo>>
    BY DEF MoveConstruct, Idle
  <1>2. x \in Slot /\ x \notin Fields /\ y \in Slot /\ y \notin Fields /\ y \in Handle
    BY SlotFacts
  <1>3. \A r \in Slot : ref'[r] = IF r = y THEN NULL ELSE IF r = x THEN ref[y] ELSE ref[r]
    BY <1>1, <1>2, Types DEF MInv
  <1>4. /\ \A i \in DOMAIN todo'[t] : ~OnArray(todo'[t][i])
        /\ \A i \in DOMAIN todo'[u] : ~OnArray(todo'[u][i])
    BY <1>1, NoArraySteps
  <1>5. ASSUME NEW w \in Thread, NEW z \in Own(w), ref'[z] # ref[z]
        PROVE  (w = t \/ w = u) /\ (ref'[z] # NULL => Held(ref'[z]))
    <2>1. (z = y /\ ref'[z] = NULL) \/ (z = x /\ ref'[z] = ref[y])
      BY <1>3, <1>5, SlotFacts
    <2> QED
      BY <1>2, <2>1, OwnOnly DEF Held
  <1>6. \A s \in Fields : ref'[s] = ref[s]
    BY <1>2, <1>3, SlotFacts
  <1> QED
    BY <1>1, <1>4, <1>5, <1>6, SameTodo, VariablesWritten

(* A block no slot refers to yet.                                            *)
LEMMA NotThereYet ==
    ASSUME MInv, NEW n \in Free
    PROVE  /\ n \in Block /\ n # NULL /\ life[n] = "free"
           /\ \A s \in Slot : ref[s] # n
           /\ \A f \in Field : ref[<<n, f>>] = NULL
  <1>1. n \in Block /\ life[n] = "free" /\ n # NULL
    BY MemoryBlocksAssumption DEF Free
  <1>2. \A s \in Slot : ref[s] # n
    BY <1>1, Live_ DEF MInv
  <1> QED
    BY <1>1, <1>2, Types DEF MInv

LEMMA AllocatedBlock ==
    ASSUME MInv, XInv, NEW n \in Free, NEW s \in Slot, NEW k, k # "array", Allocate(s, n, k),
           UNCHANGED <<typ, flags>>
    PROVE  /\ BlockSteps /\ ref'[s] = n
           /\ \A r \in Slot : r # s => ref'[r] = ref[r] /\ ref'[r] # n
  <1>1. n \in Block /\ life[n] = "free" /\ \A r \in Slot : ref[r] # n
    BY NotThereYet
  <1>2. ref'[s] = n /\ \A r \in Slot : r # s => ref'[r] = ref[r]
    BY Types DEF MInv, Allocate
  <1>3. /\ \A b \in Block : b # n => life'[b] = life[b] /\ kind'[b] = kind[b]
        /\ kind'[n] = k /\ kind' = [b \in Block |-> kind'[b]]
    BY <1>1, Types DEF MInv, Allocate, XInv, Maps
  <1>4. \A r \in Slot : ref'[r] = n => r = s
    BY <1>1, <1>2
  <1>5. BlockSteps
    <2>1. Maps'
      BY <1>3 DEF Maps, XInv
    <2>2. ASSUME NEW b \in Block, life'[b] = "live"
          PROVE  \/ life[b] = "live" /\ flags'[b] = flags[b] /\ typ'[b] = typ[b] /\ kind'[b] = kind[b]
                 \/ /\ life[b] = "free" /\ kind'[b] # "array"
                    /\ \A p, r \in Slot : ref'[p] = b /\ ref'[r] = b => p = r
      BY <1>1, <1>3, <1>4, <2>2
    <2> QED
      BY <2>1, <2>2 DEF BlockSteps
  <1> QED
    BY <1>1, <1>2, <1>5

LEMMA MakeBlockQuiet ==
    ASSUME MInv, XInv, NEW t \in Thread, NEW x \in Own(t), NEW k, MakeBlock(t, x, k)
    PROVE  Quiet(t)
  <1>1. /\ todo[t] = <<>> /\ k # "array" /\ UNCHANGED <<typ, flags, todo>>
    BY DEF MakeBlock, Idle
  <1>2. PICK n \in Free : Allocate(x, n, k)
    BY DEF MakeBlock
  <1>3. x \in Slot /\ x \notin Fields
    BY SlotFacts
  <1>4. /\ BlockSteps /\ ref'[x] = n /\ \A r \in Slot : r # x => ref'[r] = ref[r] /\ ref'[r] # n
    BY <1>1, <1>2, <1>3, AllocatedBlock
  <1>5. life[n] = "free"
    BY NotThereYet
  <1>6. \A s \in Fields : ref'[s] = ref[s] /\ ref'[s] # n
    BY <1>3, <1>4, SlotFacts
  <1>7. FieldSteps(t)
    BY <1>6, SlotFacts DEF FieldSteps
  <1>8. VariableSteps
    <2>1. ASSUME NEW u \in Thread, \E i \in DOMAIN todo'[u] : OnArray(todo'[u][i]), NEW y \in Own(u)
          PROVE  ref'[y] = ref[y]
      <3>1. u # t
        BY <1>1, <2>1
      <3>2. y # x /\ y \in Slot
        BY <3>1, SlotFacts, OwnOnly
      <3> QED
        BY <1>4, <3>2
    <2>2. ASSUME NEW y \in Handle, ref'[y] # NULL
          PROVE  Held(ref'[y]) \/ (life[ref'[y]] = "free" /\ \A s \in Fields : ref'[s] # ref'[y])
      <3>1. CASE y = x
        BY <1>4, <1>5, <1>6, <3>1
      <3>2. CASE y # x
        BY <1>4, <3>2, SlotFacts DEF Held
      <3> QED
        BY <3>1, <3>2
    <2> QED
      BY <2>1, <2>2 DEF VariableSteps
  <1> QED
    BY <1>1, <1>4, <1>7, <1>8, SameTodo DEF Quiet

LEMMA FreeBlockQuiet ==
    ASSUME MInv, XInv, NEW t \in Thread, FreeBlock(t)
    PROVE  Quiet(t)
  <1> DEFINE b == dying[t][Len(dying[t])]
  <1>1. dying[t] # <<>> /\ b \in Block /\ Len(dying[t]) \in DOMAIN dying[t] /\ todo' = todo
    <2>1. dying[t] \in Seq(Block) /\ dying[t] # <<>>
      BY Types DEF MInv, FreeBlock
    <2>2. Len(dying[t]) \in 1..Len(dying[t])
      BY <2>1, EmptySeq, LenProperties
    <2>3. b \in Block
      BY <2>1, <2>2, ElementOfSeq
    <2> QED
      BY <2>1, <2>2, <2>3, LenProperties DEF FreeBlock
  <1>2. life[b] = "dying"
    BY <1>1 DEF MInv, P!IInv, P!FreedOnce, P!OnStacksAreDying
  <1>3. CASE \E f \in Field : Release(t, <<b, f>>) /\ UNCHANGED <<kind, typ, flags, todo>>
    <2>1. PICK f \in Field : Release(t, <<b, f>>) /\ UNCHANGED <<kind, typ, flags, todo>>
      BY <1>3
    <2>2. <<b, f>> \in Slot /\ <<b, f>> \in Fields
      BY <1>1, SlotFacts
    <2>3. /\ ref'[<<b, f>>] = NULL /\ \A r \in Slot : r # <<b, f>> => ref'[r] = ref[r]
          /\ \A c \in Block : life'[c] = "live" => life[c] = "live"
      BY <2>1, <2>2, ReleasedSlot
    <2>4. \A x \in Handle : ref'[x] = ref[x]
      BY <2>2, <2>3, SlotFacts
    <2>5. FieldSteps(t)
      <3> SUFFICES ASSUME NEW n \in Block, NEW g \in Field, ref'[<<n, g>>] # ref[<<n, g>>]
                   PROVE  ref'[<<n, g>>] = NULL /\ life[n] # "live"
        BY DEF FieldSteps
      <3>1. <<n, g>> = <<b, f>>
        BY <2>3, SlotFacts
      <3> QED
        BY <1>2, <2>3, <3>1
    <2>6. VariableSteps
      BY <2>4, SlotFacts DEF VariableSteps, Held
    <2>7. BlockSteps
      BY <2>1, <2>3 DEF BlockSteps, XInv, Maps
    <2> QED
      BY <1>1, <2>5, <2>6, <2>7, SameTodo DEF Quiet
  <1>4. CASE /\ life' = [life EXCEPT ![b] = "free"] /\ typ' = [typ EXCEPT ![b] = "fixed"]
             /\ kind' = [kind EXCEPT ![b] = "pod"] /\ flags' = [flags EXCEPT ![b] = {}]
             /\ ref' = ref
    <2>1. /\ life'[b] = "free" /\ typ'[b] = "fixed" /\ Maps'
          /\ \A c \in Block : c # b => /\ life'[c] = life[c] /\ typ'[c] = typ[c]
                                       /\ kind'[c] = kind[c] /\ flags'[c] = flags[c]
      BY <1>1, <1>4, Types DEF MInv, XInv, Maps
    <2>2. BlockSteps
      BY <2>1 DEF BlockSteps
    <2>3. FieldSteps(t) /\ VariableSteps
      BY <1>4 DEF FieldSteps, VariableSteps, Held
    <2> QED
      BY <1>1, <2>2, <2>3, SameTodo DEF Quiet
  <1> QED
    BY <1>3, <1>4 DEF FreeBlock

(* The array in whose field a step writes is in the making.                  *)
LEMMA FieldWritten ==
    ASSUME MInv, NEW t \in Thread, NEW o, todo[t] # <<>>, o = todo[t][1], OnField(o)
    PROVE  \E n \in Block, f \in Field :
               /\ o.slot = <<n, f>> /\ <<n, f>> \in Slot /\ Making(t, n)
               /\ ArrayOf(o) = n /\ OnArray(o)
  <1>1. 1 \in DOMAIN todo[t] /\ o \in Item(t)
    BY FirstItem DEF MInv, TodoOK
  <1>2. OnArray(o)
    BY DEF OnArray
  <1>3. PICK f \in Field : o.slot = <<ArrayOf(o), f>>
    BY <1>1, ItemPlace
  <1>4. ArrayOf(o) \in Block /\ Making(t, ArrayOf(o))
    BY <1>1, <1>2, ItemPlace DEF Making
  <1> QED
    BY <1>2, <1>3, <1>4, SlotFacts

(* A field of the array in the making is filled or emptied.                  *)
LEMMA FieldStep ==
    ASSUME MInv, XInv, NEW t \in Thread, NEW n \in Block, NEW f \in Field, NEW v,
           Making(t, n), TodoSteps(t), BlockSteps,
           ref'[<<n, f>>] = v, \A r \in Slot : r # <<n, f>> => ref'[r] = ref[r],
           \/ v = NULL \/ v = ref[<<n, f>>]
           \/ WillWrite(t, n, f) /\ v \in Sources(n)
           \/ /\ WillWrite(t, n, f) /\ life[v] = "free"
              /\ \E i \in DOMAIN todo[t] : Pending(todo[t][i], n, "fresh")
    PROVE  Quiet(t)
  <1>1. FieldSteps(t)
    <2> SUFFICES ASSUME NEW m \in Block, NEW g \in Field, ref'[<<m, g>>] # ref[<<m, g>>]
                 PROVE  \/ ref'[<<m, g>>] = NULL /\ (life[m] # "live" \/ Making(t, m))
                        \/ /\ Making(t, m) /\ WillWrite(t, m, g)
                           /\ \/ ref'[<<m, g>>] \in Sources(m)
                              \/ /\ life[ref'[<<m, g>>]] = "free"
                                 /\ \E i \in DOMAIN todo[t] : Pending(todo[t][i], m, "fresh")
      BY DEF FieldSteps
    <2>1. m = n /\ g = f
      BY SlotFacts
    <2> QED
      BY <2>1
  <1>2. \A x \in Handle : ref'[x] = ref[x]
    BY SlotFacts
  <1>3. VariableSteps
    BY <1>2, SlotFacts DEF VariableSteps, Held
  <1> QED
    BY <1>1, <1>3 DEF Quiet

(* A variable is filled or emptied at the end of an assignment.              *)
LEMMA VariableStep ==
    ASSUME MInv, XInv, NEW t \in Thread, NEW x \in Own(t), NEW v, TodoSteps(t), todo'[t] = <<>>,
           ref'[x] = v, v # NULL => Held(v), \A r \in Slot : r # x => ref'[r] = ref[r],
           \A b \in Block : life'[b] = "live" => life[b] = "live",
           UNCHANGED <<kind, typ, flags>>
    PROVE  Quiet(t)
  <1>1. \A s \in Fields : ref'[s] = ref[s]
    BY SlotFacts
  <1>2. \A u \in Thread : \A y \in Own(u) : ref'[y] # ref[y] => y = x /\ u = t
    BY SlotFacts, OwnOnly
  <1>3. \A i \in DOMAIN todo'[t] : ~OnArray(todo'[t][i])
    BY NoArraySteps
  <1> QED
    BY <1>1, <1>2, <1>3, VariablesWritten

LEMMA DoShareQuiet == ASSUME MInv, XInv, NEW t \in Thread, DoShare(t) PROVE Quiet(t)
  <1>1. PICK o, v : o = todo[t][1] /\ v = Reached(o.from, o.field)
    OBVIOUS
  <1>2. /\ todo[t] # <<>> /\ Head(todo[t]) = o /\ o.op = "share" /\ o \in Item(t)
        /\ 1 \in DOMAIN todo[t]
    BY <1>1, Running_ DEF DoShare
  <1>3. Acquire(o.slot, v) /\ PopTodo(t) /\ UNCHANGED <<life, kind, typ, flags, dying>>
    BY <1>1, <1>2 DEF DoShare
  <1>4. Writes(o) /\ OnSlot(o)
    BY <1>2 DEF Writes, OnSlot
  <1>5. o.slot \in Slot /\ ref[o.slot] = NULL
    BY <1>1, <1>2, <1>4, UsableSlot DEF P!Usable
  <1>6. /\ o.from \in Handle /\ o.from \in Own(t) /\ o.field \in Field \cup {"self"}
        /\ o.from \in Slot
    BY <1>2, ItemShape, SlotFacts
  <1>7. ref'[o.slot] = v /\ \A r \in Slot : r # o.slot => ref'[r] = ref[r]
    BY <1>3, <1>5, Types DEF MInv, Acquire
  <1>8. TodoSteps(t) /\ (o.slot \in Own(t) => todo'[t] = <<>>)
    BY <1>1, <1>2, <1>3, <1>4, TailSteps
  <1>9. CASE o.slot \in Own(t)
    <2>1. o.slot \notin Fields
      BY <1>9, SlotFacts
    <2>2. o.field = "self"
      BY <1>1, <1>2, <2>1 DEF XInv, VariablesOK, CopiesVariables
    <2>3. v # NULL => Held(v)
      BY <1>1, <1>6, <2>2 DEF Reached, Held
    <2> QED
      BY <1>3, <1>7, <1>8, <1>9, <2>3, VariableStep
  <1>10. CASE OnField(o)
    <2>1. PICK n \in Block, f \in Field : o.slot = <<n, f>> /\ Making(t, n) /\ ArrayOf(o) = n /\ OnArray(o)
      BY <1>1, <1>2, <1>10, FieldWritten
    <2>2. BlockSteps
      BY <1>3 DEF BlockSteps, XInv, Maps
    <2>3. WillWrite(t, n, f)
      BY <1>1, <1>2, <1>4, <2>1 DEF WillWrite
    <2>4. v = NULL \/ v \in Sources(n)
      <3>1. Pending(o, n, "share")
        BY <1>2, <2>1 DEF Pending
      <3>2. v = NULL \/ v \in Block
        <4>1. ref[o.from] = NULL \/ ref[o.from] \in Block
          BY <1>6, Types DEF MInv
        <4>2. v = ref[o.from] \/ (ref[o.from] \in Block /\ o.field \in Field /\ v = ref[<<ref[o.from], o.field>>])
          BY <1>1, <1>6, ReachedIsHeld
        <4> QED
          BY <4>1, <4>2, Types, SlotFacts DEF MInv
      <3> QED
        BY <1>1, <1>2, <3>1, <3>2 DEF Sources
    <2> QED
      BY <1>7, <1>8, <2>1, <2>2, <2>3, <2>4, FieldStep
  <1> QED
    BY <1>2, <1>4, <1>9, <1>10, ItemPlace

LEMMA DoDropQuiet == ASSUME MInv, XInv, NEW t \in Thread, DoDrop(t) PROVE Quiet(t)
  <1>1. PICK o : o = todo[t][1]
    OBVIOUS
  <1>2. /\ todo[t] # <<>> /\ Head(todo[t]) = o /\ o.op = "drop" /\ o \in Item(t)
        /\ 1 \in DOMAIN todo[t]
    BY <1>1, Running_ DEF DoDrop
  <1>3. Release(t, o.slot) /\ PopTodo(t) /\ UNCHANGED <<kind, typ, flags>>
    BY <1>2 DEF DoDrop
  <1>4. OnSlot(o)
    BY <1>2 DEF OnSlot
  <1>5. o.slot \in Slot
    BY <1>2, <1>4, ItemPlace
  <1>6. /\ ref'[o.slot] = NULL /\ \A r \in Slot : r # o.slot => ref'[r] = ref[r]
        /\ \A b \in Block : life'[b] = "live" => life[b] = "live"
    BY <1>3, <1>5, ReleasedSlot
  <1>7. TodoSteps(t) /\ (o.slot \in Own(t) => todo'[t] = <<>>)
    BY <1>1, <1>2, <1>3, <1>4, TailSteps
  <1>8. CASE o.slot \in Own(t)
    BY <1>3, <1>6, <1>7, <1>8, VariableStep
  <1>9. CASE OnField(o)
    <2>1. PICK n \in Block, f \in Field : o.slot = <<n, f>> /\ Making(t, n)
      BY <1>1, <1>2, <1>9, FieldWritten
    <2>2. BlockSteps
      BY <1>3, <1>6 DEF BlockSteps, XInv, Maps
    <2> QED
      BY <1>6, <1>7, <2>1, <2>2, FieldStep
  <1> QED
    BY <1>2, <1>4, <1>8, <1>9, ItemPlace

LEMMA DoFreshQuiet == ASSUME MInv, XInv, NEW t \in Thread, DoFresh(t) PROVE Quiet(t)
  <1>1. PICK o : o = todo[t][1]
    OBVIOUS
  <1>2. /\ todo[t] # <<>> /\ Head(todo[t]) = o /\ o.op = "fresh" /\ o \in Item(t)
        /\ 1 \in DOMAIN todo[t]
    BY <1>1, Running_ DEF DoFresh
  <1>3. PICK m \in Free : Allocate(o.slot, m, o.kind)
    BY <1>2 DEF DoFresh
  <1>4. PopTodo(t) /\ UNCHANGED <<typ, flags, dying>>
    BY DEF DoFresh
  <1>5. Writes(o) /\ OnSlot(o)
    BY <1>2 DEF Writes, OnSlot
  <1>6. o.slot \in Fields /\ o.kind # "array"
    BY <1>2 DEF Item
  <1>7. PICK n \in Block, f \in Field :
            /\ o.slot = <<n, f>> /\ <<n, f>> \in Slot /\ Making(t, n) /\ ArrayOf(o) = n /\ OnArray(o)
    BY <1>1, <1>2, <1>5, <1>6, FieldWritten DEF OnField
  <1>8. /\ BlockSteps /\ ref'[<<n, f>>] = m /\ \A r \in Slot : r # <<n, f>> => ref'[r] = ref[r]
    BY <1>3, <1>4, <1>6, <1>7, AllocatedBlock
  <1>9. TodoSteps(t)
    BY <1>2, <1>4, TailSteps
  <1>10. WillWrite(t, n, f) /\ \E i \in DOMAIN todo[t] : Pending(todo[t][i], n, "fresh")
    BY <1>1, <1>2, <1>5, <1>7 DEF WillWrite, Pending
  <1>11. life[m] = "free"
    BY NotThereYet
  <1> QED
    BY <1>7, <1>8, <1>9, <1>10, <1>11, FieldStep

LEMMA DoStaleQuiet == ASSUME MInv, XInv, NEW t \in Thread, DoStale(t) PROVE Quiet(t)
  <1>1. PICK o : o = todo[t][1]
    OBVIOUS
  <1>2. /\ todo[t] # <<>> /\ Head(todo[t]) = o /\ o.op = "stale" /\ o \in Item(t)
        /\ 1 \in DOMAIN todo[t]
    BY <1>1, Running_ DEF DoStale
  <1>3. Acquire(o.slot, o.block) /\ PopTodo(t) /\ UNCHANGED <<life, kind, typ, flags, dying>>
    BY <1>2 DEF DoStale
  <1>4. o.slot \in Own(t) /\ o.slot \in Slot /\ OnSlot(o)
    BY <1>2, ItemShape, SlotFacts DEF OnSlot, Writes
  <1>5. ref'[o.slot] = o.block /\ \A r \in Slot : r # o.slot => ref'[r] = ref[r]
    BY <1>3, <1>4, Types DEF MInv, Acquire
  <1>6. Held(o.block)
    BY <1>1, <1>2 DEF Held
  <1>7. TodoSteps(t) /\ todo'[t] = <<>>
    BY <1>1, <1>2, <1>3, <1>4, TailSteps
  <1> QED
    BY <1>3, <1>4, <1>5, <1>6, <1>7, VariableStep

LEMMA DoStealQuiet == ASSUME MInv, XInv, NEW t \in Thread, DoSteal(t) PROVE Quiet(t)
  <1>1. PICK o, h : o = todo[t][1] /\ h = o.from
    OBVIOUS
  <1>2. /\ todo[t] # <<>> /\ Head(todo[t]) = o /\ o.op = "steal" /\ o \in Item(t)
    BY <1>1, Running_ DEF DoSteal
  <1>3. /\ ref' = [[ref EXCEPT ![o.slot] = ref[h]] EXCEPT ![h] = NULL] /\ PopTodo(t)
        /\ UNCHANGED <<life, kind, count, typ, flags, dying>>
    BY <1>1, <1>2 DEF DoSteal
  <1>4. /\ o.slot \in Own(t) /\ o.slot \in Slot /\ OnSlot(o)
        /\ h \in Own(t) /\ h \in Slot /\ h \in Handle
    BY <1>1, <1>2, ItemShape, SlotFacts DEF OnSlot, Writes
  <1>5. \A s \in Slot : ref'[s] = IF s = h THEN NULL ELSE IF s = o.slot THEN ref[h] ELSE ref[s]
    BY <1>3, <1>4, Types DEF MInv
  <1>6. TodoSteps(t) /\ todo'[t] = <<>>
    BY <1>1, <1>2, <1>3, <1>4, TailSteps
  <1>7. \A s \in Fields : ref'[s] = ref[s]
    BY <1>4, <1>5, SlotFacts
  <1>8. ASSUME NEW u \in Thread, NEW y \in Own(u), ref'[y] # ref[y]
        PROVE  u = t /\ (ref'[y] # NULL => Held(ref'[y]))
    <2>1. (y = h /\ ref'[y] = NULL) \/ (y = o.slot /\ ref'[y] = ref[h])
      BY <1>5, <1>8, SlotFacts
    <2> QED
      BY <1>4, <2>1, OwnOnly DEF Held
  <1>9. \A i \in DOMAIN todo'[t] : ~OnArray(todo'[t][i])
    BY <1>6, NoArraySteps
  <1> QED
    BY <1>3, <1>6, <1>7, <1>8, <1>9, VariablesWritten

(* Nothing but what is left to do changes.                                   *)
LEMMA OnlyTodo ==
    ASSUME MInv, XInv, NEW t \in Thread, TodoSteps(t),
           UNCHANGED <<life, kind, ref, typ, flags>>
    PROVE  Quiet(t)
  <1> QED
    BY VariablesWritten

LEMMA GivesUpQuiet ==
    ASSUME MInv, XInv, NEW t \in Thread, NEW x \in Own(t),
           todo' = [todo EXCEPT ![t] = <<Drop(x)>>], UNCHANGED <<life, kind, ref, typ, flags>>
    PROVE  Quiet(t)
  <1> DEFINE o == Drop(x)
  <1>1. x \notin Fields
    BY SlotFacts
  <1>2. ~OnArray(o) /\ CopiesVariables(o) /\ o.op # "stale"
    BY <1>1 DEF Drop, OnArray, OnField, OnFlags, CopiesVariables
  <1>3. todo' = [todo EXCEPT ![t] = <<o>>]
    OBVIOUS
  <1> HIDE DEF o
  <1> QED
    BY <1>2, <1>3, OneTodo, OnlyTodo

LEMMA DoFreshFailsQuiet == ASSUME MInv, XInv, NEW t \in Thread, DoFreshFails(t) PROVE Quiet(t)
  <1>1. PICK o : o = todo[t][1]
    OBVIOUS
  <1>2. /\ todo[t] # <<>> /\ Head(todo[t]) = o /\ o.op = "fresh" /\ o \in Item(t)
    BY <1>1, Running_ DEF DoFreshFails
  <1>3. /\ todo' = [todo EXCEPT ![t] = <<Drop(o.owner)>>] /\ o.owner \in Own(t)
        /\ UNCHANGED <<life, kind, ref, typ, flags>>
    BY <1>2, ItemShape DEF DoFreshFails
  <1> QED
    BY <1>3, GivesUpQuiet

LEMMA DoCheckReadQuiet == ASSUME MInv, XInv, NEW t \in Thread, DoCheckRead(t) PROVE Quiet(t)
  <1>1. PICK o : o = todo[t][1]
    OBVIOUS
  <1>2. /\ todo[t] # <<>> /\ Head(todo[t]) = o /\ o.op = "checkread" /\ o \in Item(t)
    BY <1>1, Running_ DEF DoCheckRead
  <1>3. /\ o.owner \in Own(t) /\ UNCHANGED <<life, kind, ref, typ, flags>>
        /\ \/ PopTodo(t)
           \/ todo' = [todo EXCEPT ![t] = <<Drop(o.owner)>>]
    BY <1>2, ItemShape DEF DoCheckRead, PopTodo
  <1> QED
    BY <1>2, <1>3, GivesUpQuiet, TailSteps, OnlyTodo

-----------------------------------------------------------------------------
(***************************************************************************)
(* The making of an array n of type tp with flags F, held by x.            *)
(***************************************************************************)
(* The steps that are left to do are steps of that.                          *)
ForArray(t, x, n, tp, o) ==
    /\ o \in Item(t) /\ o.op \notin {"stale", "steal"}
    /\ Writes(o) => \E f \in TypeFields(tp) : o.slot = <<n, f>>
    /\ OnArray(o) => ArrayOf(o) = n
    /\ o.op = "share" => o.from # x

(* What n is going to share is an array's that has the flags n has, or is    *)
(* data that n may write to but does not seal.                               *)
MayShare(tp, F, h, f) ==
    LET y == ref[h]
    IN  \/ /\ y \in LiveArrays
           /\ "write" \in F => "write" \in flags[y]
           /\ "immutable" \in F /\ tp # "groupby" => Sealed(y)
        \/ /\ y \in Block /\ kind[y] # "array" /\ f = "self" /\ "immutable" \notin F

(* Flags are copied from the one array n is made of; flags of its own are    *)
(* for an array that shares nothing.                                         *)
MayCopyFlags(tp, q, h) ==
    /\ ref[h] \in LiveArrays /\ (TypeOf(h) = "groupby" => tp = "groupby")
    /\ \A j \in DOMAIN q : q[j].op # "fresh" /\ (q[j].op = "share" => q[j].from = h)
MaySetFlags(q, val) ==
    /\ ~({"write", "immutable"} \subseteq val)
    /\ \A j \in DOMAIN q : q[j].op # "share"

MadeWell(t, x, n, tp, F, q) ==
    /\ \A i \in DOMAIN q :
          /\ ForArray(t, x, n, tp, q[i])
          /\ q[i].op = "share" => MayShare(tp, F, q[i].from, q[i].field)
          /\ q[i].op = "copyflags" => MayCopyFlags(tp, q, q[i].from)
          /\ q[i].op = "setflags" => MaySetFlags(q, q[i].val)
    /\ tp \in ArrayType /\ (tp = "groupby" => "groupby" \in Features)
    /\ tp # "groupby" => ~({"write", "immutable"} \subseteq F)

LEMMA BegunState ==
    ASSUME MInv, XInv, NEW t \in Thread, NEW x \in Own(t), NEW n, NEW tp, NEW F, NEW q,
           BeginArray(t, x, n, tp, F, q)
    PROVE  /\ n \in Block /\ n # NULL /\ life[n] = "free" /\ \A s \in Slot : ref[s] # n
           /\ ref[x] = NULL /\ ref'[x] = n /\ \A s \in Slot : s # x => ref'[s] = ref[s]
           /\ \A s \in Fields : ref'[s] = ref[s]
           /\ \A f \in Field : ref[<<n, f>>] = NULL /\ ref'[<<n, f>>] = NULL
           /\ \A b \in Block : b # n => /\ life'[b] = life[b] /\ kind'[b] = kind[b]
                                        /\ typ'[b] = typ[b] /\ flags'[b] = flags[b]
           /\ life'[n] = "live" /\ kind'[n] = "array" /\ typ'[n] = tp /\ flags'[n] = F /\ Maps'
           /\ todo[t] = <<>> /\ todo'[t] = q /\ \A u \in Thread : u # t => todo'[u] = todo[u]
           /\ x \in Slot /\ x \notin Fields
  <1>1. /\ n \in Free /\ ref[x] = NULL /\ Allocate(x, n, "array") /\ todo[t] = <<>>
        /\ typ' = [typ EXCEPT ![n] = tp] /\ flags' = [flags EXCEPT ![n] = F]
        /\ todo' = [todo EXCEPT ![t] = q]
    BY DEF BeginArray, Idle
  <1>2. /\ n \in Block /\ n # NULL /\ life[n] = "free" /\ \A s \in Slot : ref[s] # n
        /\ \A f \in Field : ref[<<n, f>>] = NULL
    BY <1>1, NotThereYet
  <1>3. x \in Slot /\ x \notin Fields
    BY SlotFacts
  <1>4. ref'[x] = n /\ \A s \in Slot : s # x => ref'[s] = ref[s]
    BY <1>1, <1>3, Types DEF MInv, Allocate
  <1>5. /\ \A b \in Block : b # n => life'[b] = life[b] /\ kind'[b] = kind[b]
        /\ life'[n] = "live" /\ kind'[n] = "array" /\ kind' = [b \in Block |-> kind'[b]]
    BY <1>1, <1>2, Types DEF MInv, Allocate, XInv, Maps
  <1>6. /\ \A b \in Block : b # n => typ'[b] = typ[b] /\ flags'[b] = flags[b]
        /\ typ'[n] = tp /\ flags'[n] = F /\ typ' = [b \in Block |-> typ'[b]]
    BY <1>1, <1>2 DEF MInv, XInv, Maps
  <1>7. /\ \A s \in Fields : ref'[s] = ref[s] /\ s \in Slot
        /\ \A f \in Field : <<n, f>> \in Fields
    BY <1>2, <1>3, <1>4, SlotFacts
  <1>8. todo'[t] = q /\ \A u \in Thread : u # t => todo'[u] = todo[u]
    BY <1>1, TodoOf
  <1>9. Maps'
    BY <1>5, <1>6 DEF Maps
  <1> QED
    BY <1>1, <1>2, <1>3, <1>4, <1>5, <1>6, <1>7, <1>8, <1>9

(* What a variable other than x reaches does not change.                     *)
LEMMA SameReached ==
    ASSUME MInv, NEW x, NEW h \in Handle, h # x, NEW f \in Field \cup {"self"},
           \A s \in Slot : s # x => ref'[s] = ref[s], \A s \in Fields : ref'[s] = ref[s]
    PROVE  ref'[h] = ref[h] /\ Reached(h, f)' = Reached(h, f)
  <1>1. ref'[h] = ref[h] /\ (ref[h] = NULL \/ ref[h] \in Block)
    BY SlotFacts, Types DEF MInv
  <1>2. ref[h] # NULL => \A g \in Field : ref'[<<ref[h], g>>] = ref[<<ref[h], g>>]
    BY <1>1, SlotFacts
  <1> QED
    BY <1>1, <1>2 DEF Reached

(* The steps of other threads do not make n, and those of t make nothing     *)
(* else.                                                                     *)
LEMMA WhoMakes ==
    ASSUME MInv, XInv, NEW t \in Thread, NEW x \in Own(t), NEW n, NEW tp, NEW F, NEW q,
           BeginArray(t, x, n, tp, F, q), MadeWell(t, x, n, tp, F, q),
           NEW u \in Thread, NEW i \in DOMAIN todo'[u], OnArray(todo'[u][i])
    PROVE  /\ u = t <=> ArrayOf(todo'[u][i]) = n
           /\ u = t => i \in DOMAIN q /\ todo'[u][i] = q[i]
           /\ u # t => i \in DOMAIN todo[u] /\ todo'[u][i] = todo[u][i]
  <1>1. /\ todo'[t] = q /\ (u # t => todo'[u] = todo[u]) /\ life[n] = "free"
    BY BegunState
  <1>2. u = t => ArrayOf(todo'[u][i]) = n
    BY <1>1 DEF MadeWell, ForArray
  <1>3. u # t => ArrayOf(todo'[u][i]) # n
    <2> SUFFICES ASSUME u # t, ArrayOf(todo'[u][i]) = n PROVE FALSE
      OBVIOUS
    <2>1. Making(u, n)
      BY <1>1 DEF Making
    <2> QED
      BY <1>1, <2>1, MadeAlone
  <1> QED
    BY <1>1, <1>2, <1>3

LEMMA OthersAsBefore ==
    ASSUME MInv, XInv, NEW t \in Thread, NEW x \in Own(t), NEW n, NEW tp, NEW F, NEW q,
           BeginArray(t, x, n, tp, F, q), MadeWell(t, x, n, tp, F, q), NEW a \in Block, a # n
    PROVE  Holds(a)' = Holds(a) /\ All(a)' \subseteq All(a)
  <1>1. /\ \A s \in Slot : s # x => ref'[s] = ref[s]
        /\ \A s \in Fields : ref'[s] = ref[s]
    BY BegunState
  <1>2. Holds(a)' = Holds(a)
    BY <1>1, SlotFacts DEF Holds
  <1>3. ASSUME NEW b \in Sources(a)' PROVE b \in Sources(a)
    <2>1. b \in Block
      BY <1>3 DEF Sources
    <2>2. PICK u \in Thread : \E i \in DOMAIN todo'[u] :
              /\ Pending(todo[u][i], a, "share")'
              /\ Reached(todo[u][i].from, todo[u][i].field)' = b
      BY <1>3 DEF Sources
    <2>3. PICK i \in DOMAIN todo'[u] :
              /\ Pending(todo[u][i], a, "share")'
              /\ Reached(todo[u][i].from, todo[u][i].field)' = b
      BY <2>2
    <2>4. Pending(todo'[u][i], a, "share") /\ OnArray(todo'[u][i]) /\ ArrayOf(todo'[u][i]) = a
      BY <2>3 DEF Pending, OnArray, OnField, OnFlags, OnSlot, Writes, ArrayOf, Fields
    <2>5. u # t /\ i \in DOMAIN todo[u] /\ todo'[u][i] = todo[u][i]
      BY <2>4, WhoMakes
    <2>6. /\ todo[u][i].from \in Own(u) /\ todo[u][i].from \in Handle
          /\ todo[u][i].field \in Field \cup {"self"}
      BY <2>4, <2>5, PendingShare
    <2>7. todo[u][i].from # x
      BY <2>5, <2>6, OwnOnly
    <2>8. Reached(todo[u][i].from, todo[u][i].field) = b
      <3>1. PICK h, f : h = todo[u][i].from /\ f = todo[u][i].field
        OBVIOUS
      <3>2. Reached(h, f)' = Reached(h, f)
        BY <1>1, <2>6, <2>7, <3>1, SameReached
      <3>3. Reached(h, f)' = b
        BY <2>3, <2>5, <3>1 DEF Reached
      <3> QED
        BY <3>1, <3>2, <3>3
    <2> QED
      BY <2>1, <2>4, <2>5, <2>8 DEF Sources
  <1> QED
    BY <1>2, <1>3 DEF All

(* What the new array is going to share.                                     *)
LEMMA NewAll ==
    ASSUME MInv, XInv, NEW t \in Thread, NEW x \in Own(t), NEW n, NEW tp, NEW F, NEW q,
           BeginArray(t, x, n, tp, F, q), MadeWell(t, x, n, tp, F, q),
           NEW b \in All(n)', b # n
    PROVE  /\ b \in Block /\ life[b] = "live"
           /\ \E i \in DOMAIN q :
                 /\ q[i].op = "share" /\ MayShare(tp, F, q[i].from, q[i].field)
                 /\ q[i].from \in Own(t) /\ q[i].from \in Handle
                 /\ q[i].field \in Field \cup {"self"}
                 /\ b = Reached(q[i].from, q[i].field)
                 /\ b \in Holds(ref[q[i].from]) \cup {ref[q[i].from]}
  <1>1. /\ \A s \in Slot : s # x => ref'[s] = ref[s]
        /\ \A s \in Fields : ref'[s] = ref[s]
        /\ \A f \in Field : ref'[<<n, f>>] = NULL
    BY BegunState
  <1>2. b \in Block
    BY DEF All, Holds, Sources
  <1>3. b \notin Holds(n)'
    BY <1>1, <1>2, MemoryBlocksAssumption DEF Holds
  <1>4. PICK u \in Thread : \E i \in DOMAIN todo'[u] :
            /\ Pending(todo[u][i], n, "share")'
            /\ Reached(todo[u][i].from, todo[u][i].field)' = b
    BY <1>3 DEF All, Sources
  <1>5. PICK i \in DOMAIN todo'[u] :
            /\ Pending(todo[u][i], n, "share")'
            /\ Reached(todo[u][i].from, todo[u][i].field)' = b
    BY <1>4
  <1>6. /\ OnArray(todo'[u][i]) /\ ArrayOf(todo'[u][i]) = n /\ todo'[u][i].op = "share"
    BY <1>5 DEF Pending, OnArray, OnField, OnFlags, OnSlot, Writes, ArrayOf, Fields
  <1>7. i \in DOMAIN q /\ todo'[u][i] = q[i]
    BY <1>6, WhoMakes
  <1>8. PICK h, f : h = q[i].from /\ f = q[i].field
    OBVIOUS
  <1>9. /\ q[i] \in Item(t) /\ q[i].op = "share" /\ h # x /\ MayShare(tp, F, h, f)
    BY <1>6, <1>7, <1>8 DEF MadeWell, ForArray
  <1>10. h \in Own(t) /\ h \in Handle /\ f \in Field \cup {"self"}
    BY <1>8, <1>9, ItemShape, SlotFacts
  <1>11. Reached(h, f)' = Reached(h, f)
    <2>1. h \in Handle /\ h # x /\ f \in Field \cup {"self"}
      BY <1>9, <1>10
    <2>2. \A s \in Slot : s # x => ref'[s] = ref[s]
      BY <1>1
    <2>3. \A s \in Fields : ref'[s] = ref[s]
      BY <1>1
    <2> QED
      BY <2>1, <2>2, <2>3, SameReached
  <1>12. Reached(h, f) = b
    BY <1>5, <1>7, <1>8, <1>11 DEF Reached
  <1>13. b \in Holds(ref[h]) \cup {ref[h]} /\ life[b] = "live"
    BY <1>2, <1>10, <1>12, ReachedIsTheirs
  <1> QED
    BY <1>2, <1>7, <1>8, <1>9, <1>10, <1>12, <1>13

(* It is part of an array with the same flags, or data that is held.         *)
LEMMA NewShares ==
    ASSUME MInv, XInv, NEW t \in Thread, NEW x \in Own(t), NEW n, NEW tp, NEW F, NEW q,
           BeginArray(t, x, n, tp, F, q), MadeWell(t, x, n, tp, F, q),
           NEW b \in All(n)', b # n
    PROVE  /\ b \in Block /\ life[b] = "live"
           /\ \/ \E y \in LiveArrays :
                    /\ b \in All(y) /\ \E h \in Own(t) : ref[h] = y
                    /\ "write" \in F => "write" \in flags[y]
                    /\ "immutable" \in F /\ tp # "groupby" => Sealed(y)
              \/ kind[b] # "array" /\ Held(b) /\ "immutable" \notin F
  <1>1. PICK i \in DOMAIN q :
            /\ q[i].op = "share" /\ MayShare(tp, F, q[i].from, q[i].field)
            /\ q[i].from \in Own(t) /\ q[i].from \in Handle
            /\ b = Reached(q[i].from, q[i].field)
            /\ b \in Holds(ref[q[i].from]) \cup {ref[q[i].from]}
    BY NewAll
  <1>2. b \in Block /\ life[b] = "live"
    BY NewAll
  <1>3. PICK h, f, y : h = q[i].from /\ f = q[i].field /\ y = ref[h]
    OBVIOUS
  <1>4. CASE /\ y \in LiveArrays
             /\ "write" \in F => "write" \in flags[y]
             /\ "immutable" \in F /\ tp # "groupby" => Sealed(y)
    <2>1. b \in All(y)
      BY <1>1, <1>3 DEF All
    <2> QED
      BY <1>1, <1>2, <1>3, <1>4, <2>1
  <1>5. CASE /\ y \in Block /\ kind[y] # "array" /\ f = "self" /\ "immutable" \notin F
    <2>1. b = y
      BY <1>1, <1>3, <1>5 DEF Reached
    <2> QED
      BY <1>1, <1>2, <1>3, <1>5, <2>1 DEF Held
  <1> QED
    BY <1>1, <1>3, <1>4, <1>5 DEF MayShare

(* Arrays that are live after the making of n: n and those that were.        *)
LEMMA LiveArraysThen ==
    ASSUME MInv, XInv, NEW t \in Thread, NEW x \in Own(t), NEW n, NEW tp, NEW F, NEW q,
           BeginArray(t, x, n, tp, F, q), MadeWell(t, x, n, tp, F, q),
           NEW a \in LiveArrays', a # n
    PROVE  /\ a \in LiveArrays /\ a \in Block /\ life[a] = "live"
           /\ flags'[a] = flags[a] /\ typ'[a] = typ[a]
           /\ Sealed(a)' <=> Sealed(a)
           /\ Holds(a)' = Holds(a) /\ All(a)' \subseteq All(a)
           /\ n \notin All(a)' /\ n \notin All(a)
           /\ Waits(a)' => Waits(a) /\ ~\E h \in Own(t) : ref[h] = a
  <1>1. a \in Block /\ life'[a] = "live" /\ kind'[a] = "array"
    BY DEF LiveArrays, Live
  <1>2. /\ life[a] = "live" /\ flags'[a] = flags[a] /\ typ'[a] = typ[a] /\ kind[a] = "array"
        /\ n \in Block /\ life[n] = "free"
    BY <1>1, BegunState
  <1>3. Holds(a)' = Holds(a) /\ All(a)' \subseteq All(a)
    BY <1>1, OthersAsBefore
  <1>4. n \notin All(a)
    BY <1>1, <1>2, AllLive
  <1>5. ASSUME Waits(a)' PROVE Waits(a) /\ ~\E h \in Own(t) : ref[h] = a
    <2>1. PICK u \in Thread : \E i \in DOMAIN todo'[u] : Pending(todo[u][i], a, "setflags")'
      BY <1>5 DEF Waits
    <2>2. PICK i \in DOMAIN todo'[u] : Pending(todo[u][i], a, "setflags")'
      BY <2>1
    <2>3. /\ Pending(todo'[u][i], a, "setflags") /\ OnArray(todo'[u][i])
          /\ ArrayOf(todo'[u][i]) = a
      BY <2>2 DEF Pending, OnArray, OnField, OnFlags, OnSlot, Writes, ArrayOf, Fields
    <2>4. u # t /\ i \in DOMAIN todo[u] /\ todo'[u][i] = todo[u][i]
      BY <2>3, WhoMakes
    <2>5. Waits(a) /\ Making(u, a)
      BY <2>3, <2>4 DEF Waits, Making
    <2>6. ASSUME NEW h \in Own(t), ref[h] = a PROVE FALSE
      BY <2>4, <2>5, <2>6, MadeAlone, SlotFacts, OwnOnly
    <2> QED
      BY <2>5, <2>6
  <1> QED
    BY <1>1, <1>2, <1>3, <1>4, <1>5 DEF Sealed, LiveArrays, Live

LEMMA MadeSeparate ==
    ASSUME MInv, XInv, NEW t \in Thread, NEW x \in Own(t), NEW n, NEW tp, NEW F, NEW q,
           BeginArray(t, x, n, tp, F, q), MadeWell(t, x, n, tp, F, q)
    PROVE  Separate'
  <1> SUFFICES ASSUME NEW a \in LiveArrays', NEW b \in LiveArrays', Sealed(a)',
                      "write" \in flags'[b], NEW c \in All(a)', c \in All(b)'
               PROVE  FALSE
    BY DEF Separate
  <1>1. n \in Block /\ typ'[n] = tp /\ flags'[n] = F
    BY BegunState
  <1>2. CASE a # n /\ b # n
    BY <1>2, LiveArraysThen DEF XInv, Separate
  <1>3. CASE a = n /\ b = n
    BY <1>1, <1>3 DEF Sealed, MadeWell
  <1>4. CASE a = n /\ b # n
    <2>1. "immutable" \in F /\ tp # "groupby"
      BY <1>1, <1>4 DEF Sealed
    <2>2. b \in LiveArrays /\ "write" \in flags[b] /\ c \in All(b) /\ c # n
      BY <1>4, LiveArraysThen
    <2>3. PICK y \in LiveArrays : c \in All(y) /\ Sealed(y)
      BY <1>4, <2>1, <2>2, NewShares
    <2> QED
      BY <2>2, <2>3 DEF XInv, Separate
  <1>5. CASE a # n /\ b = n
    <2>1. "write" \in F
      BY <1>1, <1>5
    <2>2. a \in LiveArrays /\ Sealed(a) /\ c \in All(a) /\ c # n
      BY <1>5, LiveArraysThen
    <2>3. CASE \E y \in LiveArrays : c \in All(y) /\ "write" \in flags[y]
      BY <2>2, <2>3 DEF XInv, Separate
    <2>4. CASE kind[c] # "array" /\ Held(c)
      BY <2>2, <2>4 DEF XInv, Unheld
    <2> QED
      BY <1>5, <2>1, <2>2, <2>3, <2>4, NewShares
  <1> QED
    BY <1>2, <1>3, <1>4, <1>5

(* An array that will be given flags of its own has nothing else.            *)
LEMMA WaitingHasNothing ==
    ASSUME MInv, XInv, NEW t \in Thread, NEW x \in Own(t), NEW n, NEW tp, NEW F, NEW q,
           BeginArray(t, x, n, tp, F, q), MadeWell(t, x, n, tp, F, q), Waits(n)',
           NEW b \in All(n)'
    PROVE  b = n
  <1>1. PICK u \in Thread : \E i \in DOMAIN todo'[u] : Pending(todo[u][i], n, "setflags")'
    BY DEF Waits
  <1>2. PICK i \in DOMAIN todo'[u] : Pending(todo[u][i], n, "setflags")'
    BY <1>1
  <1>3. /\ OnArray(todo'[u][i]) /\ ArrayOf(todo'[u][i]) = n /\ todo'[u][i].op = "setflags"
    BY <1>2 DEF Pending, OnArray, OnField, OnFlags, OnSlot, Writes, ArrayOf, Fields
  <1>4. i \in DOMAIN q /\ q[i].op = "setflags"
    BY <1>3, WhoMakes
  <1>5. \A j \in DOMAIN q : q[j].op # "share"
    BY <1>4 DEF MadeWell, MaySetFlags
  <1> QED
    BY <1>5, NewAll

LEMMA MadeWaitsAlone ==
    ASSUME MInv, XInv, NEW t \in Thread, NEW x \in Own(t), NEW n, NEW tp, NEW F, NEW q,
           BeginArray(t, x, n, tp, F, q), MadeWell(t, x, n, tp, F, q)
    PROVE  WaitsAlone'
  <1> SUFFICES ASSUME NEW a \in LiveArrays', Waits(a)'
               PROVE  /\ \A b \in LiveArrays' : a # b => All(a)' \cap All(b)' = {}
                      /\ \A b \in All(a)' : b # a => kind'[b] # "array"
    BY DEF WaitsAlone
  <1>1. \A b \in Block : b # n => kind'[b] = kind[b]
    BY BegunState
  <1>2. CASE a = n
    BY <1>2, WaitingHasNothing, LiveArraysThen
  <1>3. CASE a # n
    <2>1. a \in LiveArrays /\ a \in Block /\ Waits(a) /\ ~\E h \in Own(t) : ref[h] = a
      BY <1>3, LiveArraysThen
    <2>2. life[a] = "live" /\ All(a)' \subseteq All(a) /\ n \notin All(a)
      BY <1>3, LiveArraysThen
    <2>3. ASSUME NEW b \in All(a)', b # a PROVE kind'[b] # "array"
      <3>1. b \in Block /\ b # n /\ b \in All(a)
        BY <2>1, <2>2, <2>3, AllLive
      <3>2. kind[b] # "array"
        BY <2>1, <2>3, <3>1 DEF XInv, WaitsAlone
      <3> QED
        BY <1>1, <3>1, <3>2
    <2>4. ASSUME NEW b \in LiveArrays', a # b, NEW c \in All(a)', c \in All(b)' PROVE FALSE
      <3>1. c \in All(a) /\ c # n
        BY <2>2, <2>4
      <3>2. CASE b # n
        <4>1. b \in LiveArrays /\ c \in All(b)
          BY <2>4, <3>2, LiveArraysThen
        <4> QED
          BY <2>1, <2>4, <3>1, <4>1 DEF XInv, WaitsAlone
      <3>3. CASE b = n
        <4>1. CASE \E y \in LiveArrays : c \in All(y) /\ \E h \in Own(t) : ref[h] = y
          BY <2>1, <3>1, <4>1 DEF XInv, WaitsAlone
        <4>2. CASE kind[c] # "array" /\ Held(c)
          BY <2>1, <3>1, <4>2 DEF XInv, Unheld
        <4> QED
          BY <2>4, <3>1, <3>3, <4>1, <4>2, NewShares
      <3> QED
        BY <3>2, <3>3
    <2> QED
      BY <2>3, <2>4
  <1> QED
    BY <1>2, <1>3

LEMMA MadeUnheld ==
    ASSUME MInv, XInv, NEW t \in Thread, NEW x \in Own(t), NEW n, NEW tp, NEW F, NEW q,
           BeginArray(t, x, n, tp, F, q), MadeWell(t, x, n, tp, F, q)
    PROVE  Unheld'
  <1> SUFFICES ASSUME NEW a \in LiveArrays', Sealed(a)' \/ Waits(a)', NEW b \in All(a)',
                      kind'[b] # "array", Held(b)'
               PROVE  FALSE
    BY DEF Unheld
  <1>1. /\ n \in Block /\ kind'[n] = "array" /\ ref'[x] = n /\ typ'[n] = tp /\ flags'[n] = F
        /\ \A s \in Slot : s # x => ref'[s] = ref[s]
        /\ \A c \in Block : c # n => kind'[c] = kind[c]
        /\ todo'[t] = q /\ \A u \in Thread : u # t => todo'[u] = todo[u]
    BY BegunState
  <1>2. b # n
    BY <1>1
  <1>3. Held(b)
    <2>1. CASE \E z \in Handle : ref'[z] = b
      BY <1>1, <1>2, <2>1, SlotFacts DEF Held
    <2>2. CASE \E u \in Thread : \E i \in DOMAIN todo'[u] :
                   todo'[u][i].op = "stale" /\ todo'[u][i].block = b
      <3>1. PICK u \in Thread : \E i \in DOMAIN todo'[u] :
                   todo'[u][i].op = "stale" /\ todo'[u][i].block = b
        BY <2>2
      <3>2. u # t
        BY <1>1, <3>1 DEF MadeWell, ForArray
      <3> QED
        BY <1>1, <3>1, <3>2 DEF Held
    <2> QED
      BY <2>1, <2>2 DEF Held
  <1>4. CASE a # n
    <2>1. /\ a \in LiveArrays /\ (Sealed(a) \/ Waits(a)) /\ b \in All(a)
          /\ a \in Block /\ life[a] = "live"
      BY <1>4, LiveArraysThen
    <2>2. kind[b] # "array"
      BY <1>1, <1>2, <2>1, AllLive
    <2> QED
      BY <1>3, <2>1, <2>2 DEF XInv, Unheld
  <1>5. CASE a = n
    <2>1. ~Waits(n)'
      BY <1>2, <1>5, WaitingHasNothing
    <2>2. "immutable" \in F /\ tp # "groupby"
      BY <1>1, <1>5, <2>1 DEF Sealed
    <2>3. /\ b \in Block
          /\ \E y \in LiveArrays : b \in All(y) /\ Sealed(y)
      BY <1>2, <1>5, <2>2, NewShares
    <2>4. kind[b] # "array"
      BY <1>1, <1>2, <2>3
    <2> QED
      BY <1>3, <2>3, <2>4 DEF XInv, Unheld
  <1> QED
    BY <1>4, <1>5

LEMMA MadeFits ==
    ASSUME MInv, XInv, NEW t \in Thread, NEW x \in Own(t), NEW n, NEW tp, NEW F, NEW q,
           BeginArray(t, x, n, tp, F, q), MadeWell(t, x, n, tp, F, q)
    PROVE  FieldsFit'
  <1> SUFFICES ASSUME NEW a \in LiveArrays'
               PROVE  /\ typ'[a] \in ArrayType
                      /\ \A f \in Field : Used(a, f)' => f \in TypeFields(typ'[a])
    BY DEF FieldsFit, TypeFields
  <1>1. /\ \A s \in Fields : ref'[s] = ref[s]
        /\ \A f \in Field : ref'[<<n, f>>] = NULL
        /\ typ'[n] = tp
    BY BegunState
  <1>2. ASSUME NEW f \in Field, \E u \in Thread : WillWrite(u, a, f)'
        PROVE  IF a = n THEN f \in TypeFields(tp) ELSE \E u \in Thread : WillWrite(u, a, f)
    <2>0. a \in Block
      BY DEF LiveArrays, Live
    <2>1. PICK u \in Thread : \E i \in DOMAIN todo'[u] :
              Writes(todo'[u][i]) /\ todo'[u][i].slot = <<a, f>>
      BY <1>2 DEF WillWrite, Writes
    <2>2. PICK i \in DOMAIN todo'[u] : Writes(todo'[u][i]) /\ todo'[u][i].slot = <<a, f>>
      BY <2>1
    <2>3. OnArray(todo'[u][i]) /\ ArrayOf(todo'[u][i]) = a
      BY <2>0, <2>2, SlotFacts DEF OnArray, OnField, OnSlot, ArrayOf, OnFlags, Writes
    <2>4. CASE a = n
      <3>1. i \in DOMAIN q /\ Writes(q[i]) /\ q[i].slot = <<n, f>>
        BY <2>2, <2>3, <2>4, WhoMakes
      <3>2. \E g \in TypeFields(tp) : q[i].slot = <<n, g>>
        BY <3>1 DEF MadeWell, ForArray
      <3> QED
        BY <2>4, <3>1, <3>2
    <2>5. CASE a # n
      <3>1. i \in DOMAIN todo[u] /\ todo'[u][i] = todo[u][i]
        BY <2>3, <2>5, WhoMakes
      <3> QED
        BY <2>2, <2>5, <3>1 DEF WillWrite
    <2> QED
      BY <2>4, <2>5
  <1>3. CASE a = n
    BY <1>1, <1>2, <1>3 DEF Used, MadeWell
  <1>4. CASE a # n
    <2>1. a \in LiveArrays /\ a \in Block /\ typ'[a] = typ[a]
      BY <1>4, LiveArraysThen
    <2>2. \A f \in Field : Used(a, f)' => Used(a, f)
      BY <1>1, <1>2, <1>4, <2>1, SlotFacts DEF Used
    <2> QED
      BY <2>1, <2>2 DEF XInv, FieldsFit
  <1> QED
    BY <1>3, <1>4

LEMMA MadeCopiesOK ==
    ASSUME MInv, XInv, NEW t \in Thread, NEW x \in Own(t), NEW n, NEW tp, NEW F, NEW q,
           BeginArray(t, x, n, tp, F, q), MadeWell(t, x, n, tp, F, q)
    PROVE  CopiesOK'
  <1> SUFFICES ASSUME NEW u \in Thread, NEW i \in DOMAIN todo'[u], todo'[u][i].op = "copyflags"
               PROVE  CopyOK(u, todo[u][i])'
    BY DEF CopiesOK
  <1>1. PICK m, h, y : m = todo'[u][i].block /\ h = todo'[u][i].from /\ y = ref[h]
    OBVIOUS
  <1>2. OnArray(todo'[u][i]) /\ ArrayOf(todo'[u][i]) = m
    BY <1>1 DEF OnArray, OnFlags, ArrayOf
  <1>3. /\ n \in Block /\ life[n] = "free" /\ typ'[n] = tp /\ todo'[t] = q
        /\ \A s \in Slot : s # x => ref'[s] = ref[s]
        /\ \A b \in Block : b # n => life'[b] = life[b] /\ kind'[b] = kind[b] /\ typ'[b] = typ[b]
        /\ \A v \in Thread : v # t => todo'[v] = todo[v]
    BY BegunState
  <1>4. CASE u = t
    <2>1. i \in DOMAIN q /\ q[i] = todo'[u][i] /\ m = n
      BY <1>2, <1>4, WhoMakes
    <2>2. q[i] \in Item(t) /\ q[i].op = "copyflags" /\ MayCopyFlags(tp, q, h)
      BY <1>1, <2>1 DEF MadeWell, ForArray
    <2>3. h \in Own(t) /\ h \in Slot
      BY <1>1, <2>1, <2>2, ItemShape, SlotFacts
    <2>4. y \in LiveArrays /\ y \in Block /\ y # NULL /\ life[y] = "live" /\ kind[y] = "array"
      BY <1>1, <2>2, MemoryBlocksAssumption DEF MayCopyFlags, LiveArrays, Live
    <2>5. h # x /\ y # n
      BY <1>1, <1>3, <2>4, BegunState
    <2>6. ref'[h] = y /\ y \in LiveArrays' /\ typ'[y] = typ[y]
      BY <1>1, <1>3, <2>3, <2>4, <2>5 DEF LiveArrays, Live
    <2>7. ~Making(u, y)'
      <3> SUFFICES ASSUME NEW j \in DOMAIN todo'[u], OnArray(todo'[u][j]), ArrayOf(todo'[u][j]) = y
                   PROVE  FALSE
        BY DEF Making, OnArray, OnField, OnFlags, OnSlot, Writes, ArrayOf, Fields
      <3> QED
        BY <1>4, <2>5, WhoMakes
    <2>8. \A j \in DOMAIN todo'[u] : todo'[u][j].op # "fresh"
      BY <1>3, <1>4, <2>2 DEF MayCopyFlags
    <2>9. All(n)' \subseteq Holds(y)' \cup {n, y}
      <3> SUFFICES ASSUME NEW b \in All(n)', b # n PROVE b \in Holds(y)' \cup {y}
        OBVIOUS
      <3>1. PICK j \in DOMAIN q :
                q[j].op = "share" /\ b \in Holds(ref[q[j].from]) \cup {ref[q[j].from]}
        BY NewAll
      <3>2. q[j].from = h
        BY <2>2, <3>1 DEF MayCopyFlags
      <3>3. Holds(y)' = Holds(y)
        BY <2>4, <2>5, OthersAsBefore
      <3> QED
        BY <1>1, <3>1, <3>2, <3>3
    <2>10. typ'[y] = "groupby" => typ'[n] = "groupby"
      BY <1>1, <1>3, <2>2, <2>6 DEF MayCopyFlags, TypeOf
    <2>11. todo'[u][i].block = n /\ ref'[todo'[u][i].from] = y
      BY <1>1, <2>1, <2>6
    <2> QED
      BY <2>6, <2>7, <2>8, <2>9, <2>10, <2>11 DEF CopyOK
  <1>5. CASE u # t
    <2>1. i \in DOMAIN todo[u] /\ todo[u][i] = todo'[u][i] /\ m # n /\ todo'[u] = todo[u]
      BY <1>2, <1>3, <1>5, WhoMakes
    <2>2. CopyOK(u, todo[u][i])
      BY <2>1 DEF XInv, CopiesOK
    <2>3. /\ y \in LiveArrays /\ ~Making(u, y) /\ \A j \in DOMAIN todo[u] : todo[u][j].op # "fresh"
          /\ All(m) \subseteq Holds(y) \cup {m, y} /\ (typ[y] = "groupby" => typ[m] = "groupby")
      BY <1>1, <2>1, <2>2 DEF CopyOK
    <2>4. todo[u][i] \in Item(u) /\ Making(u, m)
      BY <1>2, <2>1, Items DEF Making
    <2>5. h \in Own(u) /\ h \in Slot /\ m \in Block /\ h # x
      BY <1>1, <1>5, <2>1, <2>4, ItemShape, SlotFacts, OwnOnly
    <2>6. y \in Block /\ life[y] = "live" /\ kind[y] = "array" /\ y # n
      BY <1>3, <2>3 DEF LiveArrays, Live
    <2>7. /\ ref'[h] = y /\ y \in LiveArrays' /\ typ'[y] = typ[y] /\ typ'[m] = typ[m]
      BY <1>1, <1>3, <2>1, <2>5, <2>6 DEF LiveArrays, Live
    <2>8. ~Making(u, y)'
      BY <2>1, <2>3 DEF Making, OnArray, OnField, OnFlags, OnSlot, Writes, ArrayOf, Fields
    <2>9. All(m)' \subseteq Holds(y)' \cup {m, y}
      BY <2>1, <2>3, <2>5, <2>6, OthersAsBefore
    <2>10. todo'[u][i].block = m /\ ref'[todo'[u][i].from] = y
      BY <1>1, <2>7
    <2> QED
      BY <2>1, <2>3, <2>7, <2>8, <2>9, <2>10 DEF CopyOK
  <1> QED
    BY <1>4, <1>5

LEMMA MadeKeeps ==
    ASSUME MInv, XInv, NEW t \in Thread, NEW x \in Own(t), NEW n, NEW tp, NEW F, NEW q,
           BeginArray(t, x, n, tp, F, q), MadeWell(t, x, n, tp, F, q)
    PROVE  XInv'
  <1>1. /\ todo'[t] = q /\ \A u \in Thread : u # t => todo'[u] = todo[u]
        /\ typ'[n] = tp /\ \A b \in Block : b # n => typ'[b] = typ[b]
        /\ Maps'
    BY BegunState
  <1>2. ValuesOK'
    <2> SUFFICES ASSUME NEW u \in Thread, NEW i \in DOMAIN todo'[u], todo'[u][i].op = "setflags"
                 PROVE  ~({"write", "immutable"} \subseteq todo'[u][i].val)
      BY DEF ValuesOK
    <2> QED
      BY <1>1 DEF XInv, ValuesOK, MadeWell, MaySetFlags
  <1>3. VariablesOK'
    <2> SUFFICES ASSUME NEW u \in Thread, NEW i \in DOMAIN todo'[u]
                 PROVE  CopiesVariables(todo'[u][i])
      BY DEF VariablesOK, CopiesVariables
    <2>1. CASE u # t
      BY <1>1, <2>1 DEF XInv, VariablesOK
    <2>2. CASE u = t
      <3>1. todo'[u][i] = q[i] /\ i \in DOMAIN q /\ n \in Block
        BY <1>1, <2>2, BegunState
      <3>2. q[i].op = "share" => \E f \in TypeFields(tp) : q[i].slot = <<n, f>>
        BY <3>1 DEF MadeWell, ForArray, Writes
      <3>3. TypeFields(tp) \subseteq Field
        BY DEF TypeFields, Field
      <3>4. \A f \in TypeFields(tp) : <<n, f>> \in Fields
        BY <3>1, <3>3, SlotFacts
      <3>5. q[i].op = "share" => q[i].slot \in Fields
        BY <3>2, <3>4
      <3> QED
        BY <3>1, <3>5 DEF CopiesVariables
    <2> QED
      BY <2>1, <2>2
  <1>4. NoGroupBy'
    BY <1>1 DEF XInv, NoGroupBy, MadeWell
  <1> QED
    BY <1>1, <1>2, <1>3, <1>4, MadeSeparate, MadeWaitsAlone, MadeUnheld, MadeFits, MadeCopiesOK
       DEF XInv

-----------------------------------------------------------------------------
(* The operations that make arrays.                                          *)
(* An array held by a variable.                                              *)
LEMMA HeldArray ==
    ASSUME MInv, NEW t \in Thread, NEW y \in Own(t), HoldsArray(y)
    PROVE  /\ ref[y] \in LiveArrays /\ ref[y] \in Block
           /\ TypeOf(y) = typ[ref[y]] /\ FlagsOf(y) = flags[ref[y]]
  <1>1. y \in Slot
    BY SlotFacts
  <1>2. ref[y] \in Block /\ life[ref[y]] = "live"
    BY <1>1, Live_ DEF MInv, HoldsArray
  <1> QED
    BY <1>2 DEF HoldsArray, LiveArrays, Live, TypeOf, FlagsOf

(* A step of the making of n that refers to what y reaches.                  *)
LEMMA ShareForArray ==
    ASSUME NEW t \in Thread, NEW x \in Own(t), NEW y \in Own(t), y # x, NEW n \in Block, NEW tp,
           NEW f \in TypeFields(tp), NEW g \in Field \cup {"self"},
           NEW o, o = Share(<<n, f>>, y, g)
    PROVE  /\ ForArray(t, x, n, tp, o) /\ o.op = "share" /\ o.from = y /\ o.field = g
           /\ o.op \notin {"copyflags", "setflags", "fresh"}
  <1>1. f \in Field
    BY DEF TypeFields, Field
  <1>2. <<n, f>> \in Fields
    BY <1>1, SlotFacts
  <1>3. o \in Item(t)
    BY <1>2 DEF Share, Item
  <1>4. /\ o.op = "share" /\ o.slot = <<n, f>> /\ o.from = y /\ o.field = g
    BY DEF Share
  <1>5. ArrayOf(o) = n
    BY <1>4 DEF ArrayOf, OnFlags
  <1> QED
    BY <1>3, <1>4, <1>5 DEF ForArray

LEMMA CopyFlagsForArray ==
    ASSUME NEW t \in Thread, NEW x, NEW y \in Own(t), NEW n \in Block, NEW tp,
           NEW o, o = CopyFlags(n, y)
    PROVE  ForArray(t, x, n, tp, o) /\ o.op = "copyflags" /\ o.from = y
  <1>1. o \in Item(t)
    BY DEF CopyFlags, Item
  <1> QED
    BY <1>1 DEF CopyFlags, ForArray, Writes, ArrayOf, OnFlags

LEMMA DropForArray ==
    ASSUME NEW t \in Thread, NEW x \in Own(t), NEW n \in Block, NEW tp, NEW f \in Field,
           NEW o, o = Drop(x) \/ o = Drop(<<n, f>>)
    PROVE  ForArray(t, x, n, tp, o) /\ o.op = "drop"
  <1>1. o.op = "drop" /\ (o.slot = x \/ o.slot = <<n, f>>)
    BY DEF Drop
  <1>2. x \notin Fields /\ <<n, f>> \in Fields
    BY SlotFacts
  <1>3. o \in Item(t)
    BY <1>2 DEF Drop, Item
  <1>4. OnArray(o) => ArrayOf(o) = n
    BY <1>1, <1>2 DEF OnArray, OnField, OnFlags, ArrayOf
  <1> QED
    BY <1>1, <1>3, <1>4 DEF ForArray, Writes

(* An array made of another, whose flags it gets now or at the end.          *)
LEMMA MadeOfOne ==
    ASSUME MInv, XInv, NEW t \in Thread, NEW x \in Own(t), NEW y \in Own(t), HoldsArray(y),
           NEW n, NEW tp, NEW F, NEW q, BeginArray(t, x, n, tp, F, q),
           F = {} \/ F = FlagsOf(y), tp \in ArrayType \ {"groupby"} \/ tp = TypeOf(y),
           TypeOf(y) = "groupby" => tp = "groupby",
           \A i \in DOMAIN q :
               \/ \E f \in TypeFields(tp), g \in Field : q[i] = Share(<<n, f>>, y, g)
               \/ q[i] = Drop(x) \/ q[i] = Drop(<<n, "data">>)
               \/ q[i] = CopyFlags(n, y)
    PROVE  XInv'
  <1>1. ref[y] \in LiveArrays /\ TypeOf(y) = typ[ref[y]] /\ FlagsOf(y) = flags[ref[y]]
    BY HeldArray
  <1>2. n \in Block /\ x # y /\ ref[x] = NULL
    BY BegunState DEF HoldsArray
  <1>3. tp \in ArrayType /\ (tp = "groupby" => "groupby" \in Features)
    BY <1>1 DEF XInv, FieldsFit, NoGroupBy, LiveArrays, Live
  <1>4. tp # "groupby" => ~({"write", "immutable"} \subseteq F)
    <2> SUFFICES ASSUME tp # "groupby", "write" \in flags[ref[y]], "immutable" \in flags[ref[y]]
                 PROVE  FALSE
      BY <1>1
    <2>1. Sealed(ref[y]) /\ ref[y] \in All(ref[y])
      BY <1>1 DEF Sealed, All
    <2> QED
      BY <1>1, <2>1 DEF XInv, Separate
  <1>5. ASSUME NEW g \in Field PROVE MayShare(tp, F, y, g)
    BY <1>1 DEF MayShare, Sealed
  <1>6. ASSUME NEW i \in DOMAIN q
        PROVE  \/ /\ ForArray(t, x, n, tp, q[i]) /\ q[i].op = "share" /\ q[i].from = y
                  /\ q[i].field \in Field
               \/ ForArray(t, x, n, tp, q[i]) /\ q[i].op = "drop"
               \/ ForArray(t, x, n, tp, q[i]) /\ q[i].op = "copyflags" /\ q[i].from = y
    <2>1. CASE \E f \in TypeFields(tp), g \in Field : q[i] = Share(<<n, f>>, y, g)
      BY <1>2, <2>1, ShareForArray
    <2>2. CASE q[i] = Drop(x) \/ q[i] = Drop(<<n, "data">>)
      BY <1>2, <2>2, DropForArray, MetaFields
    <2>3. CASE q[i] = CopyFlags(n, y)
      BY <1>2, <2>3, CopyFlagsForArray
    <2> QED
      BY <2>1, <2>2, <2>3
  <1>7. MayCopyFlags(tp, q, y)
    BY <1>1, <1>6 DEF MayCopyFlags
  <1>8. MadeWell(t, x, n, tp, F, q)
    <2> SUFFICES ASSUME NEW i \in DOMAIN q
                 PROVE  /\ ForArray(t, x, n, tp, q[i])
                        /\ q[i].op = "share" => MayShare(tp, F, q[i].from, q[i].field)
                        /\ q[i].op = "copyflags" => MayCopyFlags(tp, q, q[i].from)
                        /\ q[i].op = "setflags" => MaySetFlags(q, q[i].val)
      BY <1>3, <1>4 DEF MadeWell
    <2> QED
      BY <1>5, <1>6, <1>7
  <1> QED
    BY <1>8, MadeKeeps

(* The types of arrays, and the fields they use.                             *)
LEMMA FieldsOfTypes ==
    /\ \A tp : "data" \in TypeFields(tp) /\ TypeFields(tp) \subseteq Field
    /\ \A tp \in {"string", "bytes", "var", "pointer"} : "meta1" \in TypeFields(tp)
    /\ \A tp \in {"varstring", "tuple", "groupby"} : TypeFields(tp) = Field
    /\ BufferType \subseteq ArrayType
    /\ {"fixed", "string", "bytes", "pointer", "tuple"} \subseteq ArrayType \ {"groupby"}
    /\ "groupby" \in ArrayType
  BY DEF TypeFields, Field, ArrayType, BufferType

LEMMA OneItem == ASSUME NEW a, NEW i \in DOMAIN <<a>> PROVE <<a>>[i] = a
  OBVIOUS

LEMMA TwoItems ==
    ASSUME NEW a, NEW b, NEW i \in DOMAIN <<a, b>>
    PROVE  <<a, b>>[i] = a \/ <<a, b>>[i] = b
  OBVIOUS

LEMMA ThreeItems ==
    ASSUME NEW a, NEW b, NEW c, NEW i \in DOMAIN <<a, b, c>>
    PROVE  <<a, b, c>>[i] = a \/ <<a, b, c>>[i] = b \/ <<a, b, c>>[i] = c
  OBVIOUS

LEMMA ViewKeeps ==
    ASSUME MInv, XInv, NEW t \in Thread, NEW x \in Own(t), NEW y \in Own(t), View(t, x, y)
    PROVE  XInv'
  <1> DEFINE tp == TypeOf(y)
             a(n) == <<Share(<<n, "data">>, y, "data")>>
             m(n) == CopyMeta(n, tp, y)
             e(n) == <<CopyFlags(n, y)>>
  <1>1. PICK n \in Free : BeginArray(t, x, n, tp, {}, a(n) \o m(n) \o e(n))
    BY DEF View
  <1>2. HoldsArray(y)
    BY DEF View
  <1>3. tp \in ArrayType
    BY <1>2, HeldArray DEF XInv, FieldsFit
  <1> DEFINE Ok(o) == \/ \E f \in TypeFields(tp), g \in Field : o = Share(<<n, f>>, y, g)
                      \/ o = Drop(x) \/ o = Drop(<<n, "data">>)
                      \/ o = CopyFlags(n, y)
             T == {o \in {Share(<<n, f>>, y, g) : f \in Field, g \in Field} \cup {CopyFlags(n, y)} : Ok(o)}
  <1>4. Ok(Share(<<n, "data">>, y, "data")) /\ Ok(CopyFlags(n, y))
    BY FieldsOfTypes, MetaFields
  <1>5. \A f \in Field : (tp \in {"string", "bytes", "var", "pointer"} /\ f = "meta1")
                            \/ tp \in {"varstring", "tuple", "groupby"}
                         => Ok(Share(<<n, f>>, y, f))
    BY FieldsOfTypes
  <1>6. Share(<<n, "data">>, y, "data") \in T /\ CopyFlags(n, y) \in T
    BY <1>4, MetaFields
  <1>7. \A f \in Field : Ok(Share(<<n, f>>, y, f)) => Share(<<n, f>>, y, f) \in T
    OBVIOUS
  <1>8. \A o \in T : Ok(o)
    OBVIOUS
  <1>9. a(n) \in Seq(T) /\ e(n) \in Seq(T)
    <2> HIDE DEF T
    <2> QED
      BY <1>6
  <1>10. m(n) \in Seq(T)
    <2> HIDE DEF Ok, T
    <2>1. CASE tp \in {"string", "bytes", "var", "pointer"}
      <3>1. Share(<<n, "meta1">>, y, "meta1") \in T
        BY <1>5, <1>7, <2>1, MetaFields
      <3>2. m(n) = <<Share(<<n, "meta1">>, y, "meta1")>>
        BY <2>1 DEF CopyMeta
      <3> QED
        BY <3>1, <3>2
    <2>2. CASE tp \in {"varstring", "tuple", "groupby"}
      <3>1. Share(<<n, "meta1">>, y, "meta1") \in T /\ Share(<<n, "meta2">>, y, "meta2") \in T
        BY <1>5, <1>7, <2>2, MetaFields
      <3>2. m(n) = <<Share(<<n, "meta1">>, y, "meta1"), Share(<<n, "meta2">>, y, "meta2")>>
        BY <2>2 DEF CopyMeta
      <3> QED
        BY <3>1, <3>2
    <2>3. CASE tp \notin {"string", "bytes", "var", "pointer", "varstring", "tuple", "groupby"}
      <3>1. m(n) = <<>>
        BY <2>3 DEF CopyMeta
      <3> QED
        BY <3>1
    <2> QED
      BY <2>1, <2>2, <2>3
  <1> DEFINE q == a(n) \o m(n) \o e(n)
  <1>11. q \in Seq(T)
    <2> HIDE DEF a, m, e, T
    <2> QED
      BY <1>9, <1>10, ConcatProperties
  <1>12. BeginArray(t, x, n, tp, {}, q)
    BY <1>1
  <1>13. \A i \in DOMAIN q : Ok(q[i])
    <2> HIDE DEF q, T, Ok
    <2>1. \A i \in DOMAIN q : q[i] \in T
      BY <1>11, ElementOfSeq, LenProperties
    <2> QED
      BY <1>8, <2>1
  <1> HIDE DEF q
  <1> QED
    BY <1>2, <1>3, <1>12, <1>13, MadeOfOne

LEMMA ViewThrowsKeeps ==
    ASSUME MInv, XInv, NEW t \in Thread, NEW x \in Own(t), NEW y \in Own(t), ViewThrows(t, x, y)
    PROVE  XInv'
  <1>1. PICK n \in Free :
            BeginArray(t, x, n, TypeOf(y), {}, <<Share(<<n, "data">>, y, "data"), Drop(x)>>)
    BY DEF ViewThrows
  <1>2. HoldsArray(y)
    BY DEF ViewThrows
  <1>3. TypeOf(y) \in ArrayType
    BY <1>2, HeldArray DEF XInv, FieldsFit
  <1>4. PICK q : q = <<Share(<<n, "data">>, y, "data"), Drop(x)>>
    OBVIOUS
  <1>5. \A i \in DOMAIN q : q[i] = Share(<<n, "data">>, y, "data") \/ q[i] = Drop(x)
    BY <1>4, TwoItems
  <1>6. BeginArray(t, x, n, TypeOf(y), {}, q)
    BY <1>1, <1>4
  <1> QED
    BY <1>2, <1>3, <1>5, <1>6, FieldsOfTypes, MetaFields, MadeOfOne

(* The same, when all there is to do is to share one reference.              *)
LEMMA MadeByOneShare ==
    ASSUME MInv, XInv, NEW t \in Thread, NEW x \in Own(t), NEW y \in Own(t), HoldsArray(y),
           TypeOf(y) # "groupby", NEW n, NEW tp \in ArrayType \ {"groupby"},
           NEW f \in TypeFields(tp), NEW g \in Field,
           BeginArray(t, x, n, tp, FlagsOf(y), <<Share(<<n, f>>, y, g)>>)
    PROVE  XInv'
  <1>1. PICK F, q : F = FlagsOf(y) /\ q = <<Share(<<n, f>>, y, g)>>
    OBVIOUS
  <1>2. BeginArray(t, x, n, tp, F, q)
    BY <1>1
  <1>3. \A i \in DOMAIN q : q[i] = Share(<<n, f>>, y, g)
    BY <1>1, OneItem
  <1>4. \A i \in DOMAIN q :
            \/ \E e \in TypeFields(tp), k \in Field : q[i] = Share(<<n, e>>, y, k)
            \/ q[i] = Drop(x) \/ q[i] = Drop(<<n, "data">>)
            \/ q[i] = CopyFlags(n, y)
    BY <1>3
  <1>5. /\ F = {} \/ F = FlagsOf(y)
        /\ tp \in ArrayType \ {"groupby"} \/ tp = TypeOf(y)
        /\ TypeOf(y) = "groupby" => tp = "groupby"
    BY <1>1
  <1> QED
    BY <1>2, <1>4, <1>5, MadeOfOne

LEMMA ViewAsBytesKeeps ==
    ASSUME MInv, XInv, NEW t \in Thread, NEW x \in Own(t), NEW y \in Own(t), ViewAsBytes(t, x, y)
    PROVE  XInv'
  <1>1. PICK g : g = IF TypeOf(y) = "fixed" THEN "data" ELSE "meta1"
    OBVIOUS
  <1>2. PICK n \in Free :
            BeginArray(t, x, n, "bytes", FlagsOf(y), <<Share(<<n, "meta1">>, y, g)>>)
    BY <1>1 DEF ViewAsBytes
  <1>3. HoldsArray(y) /\ TypeOf(y) # "groupby"
    BY DEF ViewAsBytes
  <1>4. g \in Field
    BY <1>1, MetaFields
  <1>5. "bytes" \in ArrayType \ {"groupby"} /\ "meta1" \in TypeFields("bytes")
    BY FieldsOfTypes
  <1> QED
    BY <1>2, <1>3, <1>4, <1>5, MadeByOneShare

LEMMA ViewFromBytesKeeps ==
    ASSUME MInv, XInv, NEW t \in Thread, NEW x \in Own(t), NEW y \in Own(t), ViewFromBytes(t, x, y)
    PROVE  XInv'
  <1>1. PICK g : g = IF ref[<<ref[y], "meta1">>] # NULL THEN "meta1" ELSE "data"
    OBVIOUS
  <1>2. PICK n \in Free :
            BeginArray(t, x, n, "fixed", FlagsOf(y), <<Share(<<n, "data">>, y, g)>>)
    BY <1>1 DEF ViewFromBytes
  <1>3. HoldsArray(y) /\ TypeOf(y) # "groupby"
    BY DEF ViewFromBytes
  <1>4. g \in Field
    BY <1>1, MetaFields
  <1>5. "fixed" \in ArrayType \ {"groupby"} /\ "data" \in TypeFields("fixed")
    BY FieldsOfTypes
  <1> QED
    BY <1>2, <1>3, <1>4, <1>5, MadeByOneShare

LEMMA TupleFieldKeeps ==
    ASSUME MInv, XInv, NEW t \in Thread, NEW x \in Own(t), NEW y \in Own(t),
           NEW f \in {"meta1", "meta2"}, TupleField(t, x, y, f)
    PROVE  XInv'
  <1>1. PICK n \in Free :
            BeginArray(t, x, n, "pointer", {},
                <<Share(<<n, "data">>, y, "data"), Share(<<n, "meta1">>, y, f),
                  CopyFlags(n, y)>>)
    BY DEF TupleField
  <1>2. HoldsArray(y) /\ TypeOf(y) # "groupby" /\ f \in Field
    BY MetaFields DEF TupleField
  <1>3. PICK q : q = <<Share(<<n, "data">>, y, "data"), Share(<<n, "meta1">>, y, f),
                       CopyFlags(n, y)>>
    OBVIOUS
  <1>4. \A i \in DOMAIN q : \/ q[i] = Share(<<n, "data">>, y, "data")
                            \/ q[i] = Share(<<n, "meta1">>, y, f)
                            \/ q[i] = CopyFlags(n, y)
    BY <1>3, ThreeItems
  <1>5. BeginArray(t, x, n, "pointer", {}, q)
    BY <1>1, <1>3
  <1> QED
    BY <1>2, <1>4, <1>5, FieldsOfTypes, MetaFields, MadeOfOne

LEMMA DereferenceKeeps ==
    ASSUME MInv, XInv, NEW t \in Thread, NEW x \in Own(t), NEW y \in Own(t), Dereference(t, x, y)
    PROVE  XInv'
  <1>1. PICK n \in Free :
            BeginArray(t, x, n, "fixed", {}, <<Share(<<n, "data">>, y, "meta1"), CopyFlags(n, y)>>)
    BY DEF Dereference
  <1>2. HoldsArray(y) /\ TypeOf(y) # "groupby"
    BY DEF Dereference
  <1>3. PICK q : q = <<Share(<<n, "data">>, y, "meta1"), CopyFlags(n, y)>>
    OBVIOUS
  <1>4. \A i \in DOMAIN q : q[i] = Share(<<n, "data">>, y, "meta1") \/ q[i] = CopyFlags(n, y)
    BY <1>3, TwoItems
  <1>5. BeginArray(t, x, n, "fixed", {}, q)
    BY <1>1, <1>3
  <1> QED
    BY <1>2, <1>4, <1>5, FieldsOfTypes, MetaFields, MadeOfOne

LEMMA IndexVarKeeps ==
    ASSUME MInv, XInv, NEW t \in Thread, NEW x \in Own(t), NEW y \in Own(t), IndexVar(t, x, y)
    PROVE  XInv'
  <1> DEFINE tp == IF TypeOf(y) = "var" THEN "fixed" ELSE "string"
             a(n) == <<Share(<<n, "data">>, y, "data"), Drop(<<n, "data">>),
                       Share(<<n, "data">>, y, "meta1")>>
             m(n) == IF TypeOf(y) = "var" THEN <<>> ELSE <<Share(<<n, "meta1">>, y, "meta2")>>
             e(n) == <<CopyFlags(n, y)>>
  <1>1. PICK n \in Free : BeginArray(t, x, n, tp, {}, a(n) \o m(n) \o e(n))
    BY DEF IndexVar
  <1>2. HoldsArray(y) /\ TypeOf(y) # "groupby"
    BY DEF IndexVar
  <1>3. tp \in ArrayType \ {"groupby"} /\ "data" \in TypeFields(tp)
        /\ (TypeOf(y) # "var" => "meta1" \in TypeFields(tp))
    BY FieldsOfTypes
  <1> DEFINE Ok(o) == \/ \E f \in TypeFields(tp), g \in Field : o = Share(<<n, f>>, y, g)
                      \/ o = Drop(x) \/ o = Drop(<<n, "data">>)
                      \/ o = CopyFlags(n, y)
             T == {o \in {Share(<<n, f>>, y, g) : f \in Field, g \in Field}
                         \cup {CopyFlags(n, y), Drop(<<n, "data">>)} : Ok(o)}
             q == a(n) \o m(n) \o e(n)
  <1> HIDE DEF tp
  <1>4. /\ Share(<<n, "data">>, y, "data") \in T /\ Share(<<n, "data">>, y, "meta1") \in T
        /\ Drop(<<n, "data">>) \in T /\ CopyFlags(n, y) \in T
        /\ TypeOf(y) # "var" => Share(<<n, "meta1">>, y, "meta2") \in T
    BY <1>3, MetaFields
  <1>5. \A o \in T : Ok(o)
    OBVIOUS
  <1>6. a(n) \in Seq(T) /\ m(n) \in Seq(T) /\ e(n) \in Seq(T)
    <2> HIDE DEF T
    <2> QED
      BY <1>4
  <1>7. q \in Seq(T)
    <2> HIDE DEF a, m, e, T
    <2> QED
      BY <1>6, ConcatProperties
  <1>8. BeginArray(t, x, n, tp, {}, q)
    BY <1>1
  <1>9. \A i \in DOMAIN q : Ok(q[i])
    <2> HIDE DEF q, T, Ok
    <2>1. \A i \in DOMAIN q : q[i] \in T
      BY <1>7, ElementOfSeq, LenProperties
    <2> QED
      BY <1>5, <2>1
  <1> HIDE DEF q
  <1> QED
    BY <1>2, <1>3, <1>8, <1>9, MadeOfOne

(* An array made of pointers to two others.                                  *)
LEMMA MadeOfTwo ==
    ASSUME MInv, XInv, NEW t \in Thread, NEW x \in Own(t), NEW y \in Own(t), NEW z \in Own(t),
           HoldsArray(y), HoldsArray(z), TypeOf(y) = "fixed", TypeOf(z) = "fixed",
           NEW n, NEW tp \in {"tuple", "groupby"}, NEW F,
           BeginArray(t, x, n, tp, F,
               <<Share(<<n, "meta1">>, y, "data"), Share(<<n, "meta2">>, z, "data")>>),
           tp = "tuple" => F = FlagsOf(y) \cap FlagsOf(z),
           tp = "groupby" => "groupby" \in Features /\ "write" \notin F
    PROVE  XInv'
  <1> DEFINE u == Share(<<n, "meta1">>, y, "data")
             v == Share(<<n, "meta2">>, z, "data")
  <1>1. PICK q : q = <<u, v>>
    OBVIOUS
  <1>2. BeginArray(t, x, n, tp, F, q)
    BY <1>1
  <1>3. \A i \in DOMAIN q : q[i] = u \/ q[i] = v
    <2> HIDE DEF u, v
    <2> QED
      BY <1>1, TwoItems
  <1>4. n \in Block /\ x # y /\ x # z
    BY <1>2, BegunState DEF HoldsArray
  <1>5. "meta1" \in TypeFields(tp) /\ "meta2" \in TypeFields(tp) /\ "data" \in Field
    BY FieldsOfTypes, MetaFields
  <1>6. ForArray(t, x, n, tp, u) /\ u.op = "share" /\ u.from = y /\ u.field = "data"
    BY <1>4, <1>5, ShareForArray
  <1>7. ForArray(t, x, n, tp, v) /\ v.op = "share" /\ v.from = z /\ v.field = "data"
    BY <1>4, <1>5, ShareForArray
  <1>8. ASSUME NEW h \in Own(t), HoldsArray(h), TypeOf(h) = "fixed",
               tp = "tuple" => F \subseteq FlagsOf(h)
        PROVE  MayShare(tp, F, h, "data")
    <2>1. ref[h] \in LiveArrays /\ typ[ref[h]] = "fixed" /\ FlagsOf(h) = flags[ref[h]]
      BY <1>8, HeldArray
    <2>2. ("write" \in F => "write" \in flags[ref[h]])
          /\ ("immutable" \in F /\ tp # "groupby" => Sealed(ref[h]))
      BY <1>8, <2>1 DEF Sealed
    <2> QED
      BY <2>1, <2>2 DEF MayShare
  <1>9. MayShare(tp, F, y, "data") /\ MayShare(tp, F, z, "data")
    BY <1>8
  <1>10. tp # "groupby" => ~({"write", "immutable"} \subseteq F)
    <2> SUFFICES ASSUME tp # "groupby", "write" \in F, "immutable" \in F PROVE FALSE
      OBVIOUS
    <2>1. ref[y] \in LiveArrays /\ FlagsOf(y) = flags[ref[y]] /\ typ[ref[y]] = "fixed"
      BY HeldArray
    <2>2. Sealed(ref[y]) /\ "write" \in flags[ref[y]] /\ ref[y] \in All(ref[y])
      BY <2>1 DEF Sealed, All
    <2> QED
      BY <2>1, <2>2 DEF XInv, Separate
  <1>11. tp \in ArrayType
    BY FieldsOfTypes
  <1> HIDE DEF u, v
  <1>12. MadeWell(t, x, n, tp, F, q)
    <2>1. ASSUME NEW i \in DOMAIN q
          PROVE  /\ ForArray(t, x, n, tp, q[i]) /\ q[i].op = "share"
                 /\ MayShare(tp, F, q[i].from, q[i].field)
      BY <1>3, <1>6, <1>7, <1>9
    <2> QED
      BY <1>10, <1>11, <2>1 DEF MadeWell
  <1> QED
    BY <1>2, <1>12, MadeKeeps

LEMMA TupleKeeps ==
    ASSUME MInv, XInv, NEW t \in Thread, NEW x \in Own(t), NEW y \in Own(t), NEW z \in Own(t),
           CombineIntoTuple(t, x, y, z)
    PROVE  XInv'
  <1>1. PICK n \in Free :
            BeginArray(t, x, n, "tuple", FlagsOf(y) \cap FlagsOf(z),
                <<Share(<<n, "meta1">>, y, "data"), Share(<<n, "meta2">>, z, "data")>>)
    BY DEF CombineIntoTuple
  <1>2. HoldsArray(y) /\ HoldsArray(z) /\ TypeOf(y) = "fixed" /\ TypeOf(z) = "fixed"
    BY DEF CombineIntoTuple
  <1>3. PICK F : F = FlagsOf(y) \cap FlagsOf(z)
    OBVIOUS
  <1>4. BeginArray(t, x, n, "tuple", F,
            <<Share(<<n, "meta1">>, y, "data"), Share(<<n, "meta2">>, z, "data")>>)
    BY <1>1, <1>3
  <1> QED
    BY <1>2, <1>3, <1>4, MadeOfTwo

LEMMA GroupByKeeps ==
    ASSUME MInv, XInv, NEW t \in Thread, NEW x \in Own(t), NEW y \in Own(t), NEW z \in Own(t),
           "groupby" \in Features, GroupBy(t, x, y, z)
    PROVE  XInv'
  <1>1. PICK n \in Free :
            BeginArray(t, x, n, "groupby",
                {"read"} \cup (FlagsOf(y) \cap FlagsOf(z) \cap {"immutable"}),
                <<Share(<<n, "meta1">>, y, "data"), Share(<<n, "meta2">>, z, "data")>>)
    BY DEF GroupBy
  <1>2. HoldsArray(y) /\ HoldsArray(z) /\ TypeOf(y) = "fixed" /\ TypeOf(z) = "fixed"
    BY DEF GroupBy
  <1>3. PICK F : F = {"read"} \cup (FlagsOf(y) \cap FlagsOf(z) \cap {"immutable"})
    OBVIOUS
  <1>4. BeginArray(t, x, n, "groupby", F,
            <<Share(<<n, "meta1">>, y, "data"), Share(<<n, "meta2">>, z, "data")>>)
    BY <1>1, <1>3
  <1>5. "write" \notin F
    BY <1>3
  <1> QED
    BY <1>2, <1>4, <1>5, MadeOfTwo

(* The steps of the making of an array that shares nothing.                  *)
Anew(t, x, n, tp) ==
    {Fresh(<<n, f>>, k, x) : f \in TypeFields(tp), k \in {"pod", "zeroinit"}}
    \cup {CheckRead(y, x) : y \in Own(t)}
    \cup {SetFlags(n, G) : G \in {H \in SUBSET {"read", "write", "immutable"} :
                                     ~({"write", "immutable"} \subseteq H)}}

LEMMA AnewSteps ==
    ASSUME NEW t \in Thread, NEW x \in Own(t), NEW n \in Block, NEW tp,
           NEW o \in Anew(t, x, n, tp)
    PROVE  /\ ForArray(t, x, n, tp, o) /\ o.op # "share" /\ o.op # "copyflags"
           /\ o.op = "setflags" => ~({"write", "immutable"} \subseteq o.val)
  <1>1. CASE \E f \in TypeFields(tp), k \in {"pod", "zeroinit"} : o = Fresh(<<n, f>>, k, x)
    <2>1. PICK f \in TypeFields(tp), k \in {"pod", "zeroinit"} : o = Fresh(<<n, f>>, k, x)
      BY <1>1
    <2>2. f \in Field
      BY FieldsOfTypes
    <2>3. <<n, f>> \in Fields
      BY <2>2, SlotFacts
    <2>4. o \in Item(t) /\ o.op = "fresh" /\ o.slot = <<n, f>>
      BY <2>1, <2>3 DEF Fresh, Item
    <2>5. ArrayOf(o) = n
      BY <2>4 DEF ArrayOf, OnFlags
    <2> QED
      BY <2>4, <2>5 DEF ForArray
  <1>2. CASE \E y \in Own(t) : o = CheckRead(y, x)
    <2>1. PICK y \in Own(t) : o = CheckRead(y, x)
      BY <1>2
    <2>2. o \in Item(t) /\ o.op = "checkread"
      BY <2>1 DEF CheckRead, Item
    <2> QED
      BY <2>2 DEF ForArray, Writes, OnArray, OnField, OnSlot, OnFlags
  <1>3. CASE \E G \in SUBSET {"read", "write", "immutable"} :
                 ~({"write", "immutable"} \subseteq G) /\ o = SetFlags(n, G)
    <2>1. PICK G \in SUBSET {"read", "write", "immutable"} :
                 ~({"write", "immutable"} \subseteq G) /\ o = SetFlags(n, G)
      BY <1>3
    <2>2. o \in Item(t) /\ o.op = "setflags" /\ o.block = n /\ o.val = G
      BY <2>1 DEF SetFlags, Item
    <2> QED
      BY <2>1, <2>2 DEF ForArray, Writes, ArrayOf, OnFlags
  <1> QED
    BY <1>1, <1>2, <1>3 DEF Anew

LEMMA MadeAnew ==
    ASSUME MInv, XInv, NEW t \in Thread, NEW x \in Own(t), NEW n, NEW tp, NEW F, NEW q,
           BeginArray(t, x, n, tp, F, q), q \in Seq(Anew(t, x, n, tp)),
           tp \in ArrayType \ {"groupby"}, ~({"write", "immutable"} \subseteq F)
    PROVE  XInv'
  <1>1. n \in Block
    BY BegunState
  <1>2. \A i \in DOMAIN q : q[i] \in Anew(t, x, n, tp)
    BY ElementOfSeq, LenProperties
  <1>3. ASSUME NEW i \in DOMAIN q
        PROVE  /\ ForArray(t, x, n, tp, q[i]) /\ q[i].op # "share" /\ q[i].op # "copyflags"
               /\ q[i].op = "setflags" => ~({"write", "immutable"} \subseteq q[i].val)
    BY <1>1, <1>2, AnewSteps
  <1>4. MadeWell(t, x, n, tp, F, q)
    BY <1>3 DEF MadeWell, MaySetFlags
  <1> QED
    BY <1>4, MadeKeeps

LEMMA BuffersAnew ==
    ASSUME NEW t \in Thread, NEW x \in Own(t), NEW n \in Block, NEW tp
    PROVE  Buffers(n, tp, x) \in Seq(Anew(t, x, n, tp))
  <1> DEFINE T == Anew(t, x, n, tp)
  <1>1. CASE tp \in {"string", "bytes", "var"}
    <2>1. Fresh(<<n, "meta1">>, "pod", x) \in T
      BY <1>1, FieldsOfTypes DEF Anew
    <2> HIDE DEF T
    <2>2. <<Fresh(<<n, "meta1">>, "pod", x)>> \in Seq(T)
      BY <2>1
    <2> QED
      BY <1>1, <2>2 DEF Buffers, T
  <1>2. CASE tp = "varstring"
    <2>1. Fresh(<<n, "meta1">>, "zeroinit", x) \in T /\ Fresh(<<n, "meta2">>, "pod", x) \in T
      BY <1>2, FieldsOfTypes, MetaFields DEF Anew
    <2> HIDE DEF T
    <2>2. <<Fresh(<<n, "meta1">>, "zeroinit", x), Fresh(<<n, "meta2">>, "pod", x)>> \in Seq(T)
      BY <2>1
    <2> QED
      BY <1>2, <2>2 DEF Buffers, T
  <1>3. CASE tp \notin {"string", "bytes", "var", "varstring"}
    <2>1. Buffers(n, tp, x) = <<>>
      BY <1>3 DEF Buffers
    <2> QED
      BY <2>1
  <1> QED
    BY <1>1, <1>2, <1>3

LEMMA EmptyKeeps ==
    ASSUME MInv, XInv, NEW t \in Thread, NEW x \in Own(t), NEW tp \in BufferType, Empty(t, x, tp)
    PROVE  XInv'
  <1>1. PICK n \in Free : BeginArray(t, x, n, tp, {"read", "write"}, Buffers(n, tp, x))
    BY DEF Empty
  <1>2. Buffers(n, tp, x) \in Seq(Anew(t, x, n, tp))
    BY BuffersAnew DEF Free
  <1>3. tp \in ArrayType \ {"groupby"}
    BY DEF ArrayType, BufferType
  <1>4. ~({"write", "immutable"} \subseteq {"read", "write"})
    OBVIOUS
  <1> QED
    BY <1>1, <1>2, <1>3, <1>4, MadeAnew

LEMMA MakePodArrayKeeps ==
    ASSUME MInv, XInv, NEW t \in Thread, NEW x \in Own(t), MakePodArray(t, x)
    PROVE  XInv'
  <1>1. PICK n \in Free : BeginArray(t, x, n, "fixed", {"read", "immutable"}, <<>>)
    BY DEF MakePodArray
  <1>2. <<>> \in Seq(Anew(t, x, n, "fixed"))
    OBVIOUS
  <1>3. "fixed" \in ArrayType \ {"groupby"}
    BY FieldsOfTypes
  <1>4. ~({"write", "immutable"} \subseteq {"read", "immutable"})
    OBVIOUS
  <1> QED
    BY <1>1, <1>2, <1>3, <1>4, MadeAnew

LEMMA EvalIntoKeeps ==
    ASSUME MInv, XInv, NEW t \in Thread, NEW x \in Own(t), NEW y \in Own(t),
           TypeOf(y) \in BufferType \cup {"groupby"},
           NEW F \in SUBSET {"read", "write", "immutable"}, ~({"write", "immutable"} \subseteq F),
           EvalInto(t, x, y, F)
    PROVE  XInv'
  <1>1. PICK tp : tp = CanonicalType(TypeOf(y))
    OBVIOUS
  <1>2. PICK n \in Free :
            BeginArray(t, x, n, tp, {"read", "write"},
                Buffers(n, tp, x) \o <<CheckRead(y, x), SetFlags(n, F)>>)
    BY <1>1 DEF EvalInto
  <1>3. tp \in ArrayType \ {"groupby"}
    BY <1>1 DEF CanonicalType, ArrayType, BufferType
  <1> DEFINE T == Anew(t, x, n, tp)
             c == CheckRead(y, x)
             o == SetFlags(n, F)
             b == Buffers(n, tp, x)
  <1>4. b \in Seq(T)
    BY BuffersAnew DEF Free
  <1>5. c \in T /\ o \in T
    BY DEF Anew
  <1>6. b \o <<c, o>> \in Seq(T)
    <2> HIDE DEF T, c, o, b
    <2>1. <<c, o>> \in Seq(T)
      BY <1>5
    <2> QED
      BY <1>4, <2>1, ConcatProperties
  <1>7. ~({"write", "immutable"} \subseteq {"read", "write"})
    OBVIOUS
  <1>8. PICK q : q = b \o <<c, o>>
    OBVIOUS
  <1>9. BeginArray(t, x, n, tp, {"read", "write"}, q) /\ q \in Seq(Anew(t, x, n, tp))
    BY <1>2, <1>6, <1>8
  <1> QED
    BY <1>3, <1>7, <1>9, MadeAnew

(* An array on the data of a block that is no array.                         *)
LEMMA FromDataKeeps ==
    ASSUME MInv, XInv, NEW t \in Thread, NEW x \in Own(t), NEW y \in Own(t),
           NEW F \in {{"read"}, {"read", "write"}}, FromData(t, x, y, F)
    PROVE  XInv'
  <1>1. PICK n \in Free : BeginArray(t, x, n, "fixed", F, <<Share(<<n, "data">>, y, "self")>>)
    BY DEF FromData
  <1>2. n \in Block /\ x # y /\ ref[y] \in Block /\ kind[ref[y]] # "array"
    BY <1>1, BegunState, SlotFacts, Types DEF FromData, MInv
  <1> DEFINE u == Share(<<n, "data">>, y, "self")
  <1>3. ForArray(t, x, n, "fixed", u) /\ u.op = "share" /\ u.from = y /\ u.field = "self"
    BY <1>2, FieldsOfTypes, ShareForArray
  <1>4. "immutable" \notin F
    OBVIOUS
  <1>5. MayShare("fixed", F, y, "self")
    BY <1>2, <1>4 DEF MayShare
  <1>6. "fixed" \in ArrayType \ {"groupby"}
    BY FieldsOfTypes
  <1>7. PICK q : q = <<u>>
    OBVIOUS
  <1>8. BeginArray(t, x, n, "fixed", F, q)
    BY <1>1, <1>7
  <1> HIDE DEF u
  <1>9. \A i \in DOMAIN q : q[i] = u
    BY <1>7, OneItem
  <1>10. MadeWell(t, x, n, "fixed", F, q)
    BY <1>3, <1>4, <1>5, <1>6, <1>9 DEF MadeWell
  <1> QED
    BY <1>8, <1>10, MadeKeeps

-----------------------------------------------------------------------------
(***************************************************************************)
(* Steps that change the flags of one array n, the last of what t had to   *)
(* do, and nothing else.                                                   *)
(***************************************************************************)
FlagStep(t, n, G) ==
    /\ UNCHANGED <<life, kind, ref, typ>>
    /\ flags'[n] = G /\ \A b \in Block : b # n => flags'[b] = flags[b]
    /\ todo'[t] = <<>> /\ \A u \in Thread : u # t => todo'[u] = todo[u]

(* What n may be given: to be immutable when nothing on its blocks may be    *)
(* written, to be writable when nothing on them is immutable.                *)
MayGet(n, G) ==
    /\ "immutable" \in G /\ typ[n] # "groupby" =>
          /\ "write" \notin G
          /\ \A b \in LiveArrays : b # n /\ "write" \in flags[b] => All(n) \cap All(b) = {}
          /\ \A b \in All(n) : kind[b] # "array" => ~Held(b)
    /\ "write" \in G =>
          \A a \in LiveArrays : a # n /\ Sealed(a) => All(n) \cap All(a) = {}

LEMMA NothingNew ==
    ASSUME NEW t \in Thread, NEW n, NEW G, FlagStep(t, n, G)
    PROVE  /\ LiveArrays' = LiveArrays
           /\ \A u \in Thread : \A i \in DOMAIN todo'[u] : u # t /\ todo'[u] = todo[u]
           /\ \A a : /\ Holds(a)' = Holds(a) /\ All(a)' \subseteq All(a)
                     /\ Waits(a)' => Waits(a)
                     /\ \A f \in Field : Used(a, f)' => Used(a, f)
           /\ \A b : Held(b)' => Held(b)
  <1>1. UNCHANGED <<life, kind, ref, typ>>
    BY DEF FlagStep
  <1>2. \A u \in Thread : \A i \in DOMAIN todo'[u] : u # t /\ todo'[u] = todo[u]
    <2> SUFFICES ASSUME NEW u \in Thread, NEW i \in DOMAIN todo'[u]
                 PROVE  u # t /\ todo'[u] = todo[u]
      OBVIOUS
    <2>1. DOMAIN <<>> = {}
      OBVIOUS
    <2> QED
      BY <2>1 DEF FlagStep
  <1>3. LiveArrays' = LiveArrays
    BY <1>1 DEF LiveArrays, Live
  <1>4. ASSUME NEW a
        PROVE  /\ Holds(a)' = Holds(a) /\ All(a)' \subseteq All(a)
               /\ Waits(a)' => Waits(a)
               /\ \A f \in Field : Used(a, f)' => Used(a, f)
    <2>1. Holds(a)' = Holds(a)
      BY <1>1 DEF Holds
    <2>2. \A u \in Thread : \A i \in DOMAIN todo'[u] :
              /\ Pending(todo[u][i], a, "share")' = Pending(todo[u][i], a, "share")
              /\ Pending(todo[u][i], a, "setflags")' = Pending(todo[u][i], a, "setflags")
              /\ Reached(todo[u][i].from, todo[u][i].field)'
                    = Reached(todo[u][i].from, todo[u][i].field)
      BY <1>1, <1>2 DEF Pending, OnArray, OnField, OnFlags, OnSlot, Writes, ArrayOf, Reached
    <2>3. Sources(a)' \subseteq Sources(a)
      BY <1>2, <2>2 DEF Sources
    <2>4. Waits(a)' => Waits(a)
      BY <1>2, <2>2 DEF Waits
    <2>5. \A f \in Field : Used(a, f)' => Used(a, f)
      <3>1. \A f \in Field : \A u \in Thread : WillWrite(u, a, f)' => WillWrite(u, a, f)
        BY <1>2 DEF WillWrite, Writes
      <3> QED
        BY <1>1, <3>1 DEF Used
    <2> QED
      BY <2>1, <2>3, <2>4, <2>5 DEF All
  <1>5. \A b : Held(b)' => Held(b)
    BY <1>1, <1>2 DEF Held
  <1> QED
    BY <1>2, <1>3, <1>4, <1>5

LEMMA FlagStepKeeps ==
    ASSUME MInv, XInv, NEW t \in Thread, NEW n \in Block, NEW G, FlagStep(t, n, G),
           n \in LiveArrays => MayGet(n, G)
    PROVE  XInv'
  <1>1. UNCHANGED <<life, kind, ref, typ>> /\ flags'[n] = G
        /\ \A b \in Block : b # n => flags'[b] = flags[b]
    BY DEF FlagStep
  <1>2. \A a \in LiveArrays' : a \in LiveArrays /\ a \in Block
    BY NothingNew DEF LiveArrays, Live
  <1>3. \A a \in LiveArrays : a # n => (Sealed(a)' <=> Sealed(a))
    BY <1>1 DEF Sealed, LiveArrays, Live
  <1>4. Sealed(n)' <=> "immutable" \in G /\ typ[n] # "groupby"
    BY <1>1 DEF Sealed
  <1>5. Separate'
    <2> SUFFICES ASSUME NEW a \in LiveArrays', NEW b \in LiveArrays', Sealed(a)',
                        "write" \in flags'[b]
                 PROVE  All(a)' \cap All(b)' = {}
      BY DEF Separate
    <2>1. All(a)' \subseteq All(a) /\ All(b)' \subseteq All(b) /\ a \in LiveArrays
          /\ b \in LiveArrays /\ a \in Block /\ b \in Block
      BY <1>2, NothingNew
    <2>2. CASE a = n /\ b = n
      BY <1>1, <1>4, <2>1, <2>2 DEF MayGet
    <2>3. CASE a = n /\ b # n
      <3>1. "write" \in flags[b]
        BY <1>1, <2>1, <2>3
      <3>2. All(n) \cap All(b) = {}
        BY <1>4, <2>1, <2>3, <3>1 DEF MayGet
      <3> QED
        BY <2>1, <2>3, <3>2
    <2>4. CASE a # n /\ b = n
      <3>1. Sealed(a)
        BY <1>3, <2>1, <2>4
      <3>2. All(n) \cap All(a) = {}
        BY <1>1, <2>1, <2>4, <3>1 DEF MayGet
      <3> QED
        BY <2>1, <2>4, <3>2
    <2>5. CASE a # n /\ b # n
      <3>1. Sealed(a) /\ "write" \in flags[b]
        BY <1>1, <1>3, <2>1, <2>5
      <3> QED
        BY <2>1, <3>1 DEF XInv, Separate
    <2> QED
      BY <2>2, <2>3, <2>4, <2>5
  <1>6. WaitsAlone'
    <2> SUFFICES ASSUME NEW a \in LiveArrays', Waits(a)'
                 PROVE  /\ \A b \in LiveArrays' : a # b => All(a)' \cap All(b)' = {}
                        /\ \A b \in All(a)' : b # a => kind'[b] # "array"
      BY DEF WaitsAlone
    <2>1. a \in LiveArrays /\ Waits(a) /\ All(a)' \subseteq All(a)
      BY <1>2, NothingNew
    <2>2. \A b \in LiveArrays' : b \in LiveArrays /\ All(b)' \subseteq All(b)
      BY <1>2, NothingNew
    <2> QED
      BY <1>1, <2>1, <2>2 DEF XInv, WaitsAlone
  <1>7. Unheld'
    <2> SUFFICES ASSUME NEW a \in LiveArrays', Sealed(a)' \/ Waits(a)', NEW b \in All(a)',
                        kind'[b] # "array", Held(b)'
                 PROVE  FALSE
      BY DEF Unheld
    <2>1. a \in LiveArrays /\ b \in All(a) /\ Held(b) /\ kind[b] # "array"
      BY <1>1, <1>2, NothingNew
    <2>2. CASE Waits(a)'
      BY <2>1, <2>2, NothingNew DEF XInv, Unheld
    <2>3. CASE Sealed(a)' /\ a # n
      BY <1>3, <2>1, <2>3 DEF XInv, Unheld
    <2>4. CASE Sealed(a)' /\ a = n
      BY <1>4, <2>1, <2>4 DEF MayGet
    <2> QED
      BY <2>2, <2>3, <2>4
  <1>8. FieldsFit'
    <2> SUFFICES ASSUME NEW a \in LiveArrays'
                 PROVE  /\ typ'[a] \in ArrayType
                        /\ \A f \in Field : Used(a, f)' => f \in TypeFields(typ'[a])
      BY DEF FieldsFit, TypeFields
    <2> QED
      BY <1>1, <1>2, NothingNew DEF XInv, FieldsFit
  <1>9. CopiesOK'
    <2> SUFFICES ASSUME NEW u \in Thread, NEW i \in DOMAIN todo'[u], todo'[u][i].op = "copyflags"
                 PROVE  CopyOK(u, todo[u][i])'
      BY DEF CopiesOK
    <2>1. u # t /\ todo'[u] = todo[u]
      BY NothingNew
    <2>2. CopyOK(u, todo[u][i])
      BY <2>1 DEF XInv, CopiesOK
    <2>3. PICK o, y : o = todo[u][i] /\ y = ref[o.from]
      OBVIOUS
    <2>4. /\ y \in LiveArrays /\ ~Making(u, y)
          /\ \A j \in DOMAIN todo[u] : todo[u][j].op # "fresh"
          /\ All(o.block) \subseteq Holds(y) \cup {o.block, y}
          /\ typ[y] = "groupby" => typ[o.block] = "groupby"
      BY <2>2, <2>3 DEF CopyOK
    <2>5. ~Making(u, y)'
      BY <2>1, <2>4 DEF Making, OnArray, OnField, OnFlags, OnSlot, Writes, ArrayOf, Fields
    <2>6. /\ todo'[u][i] = o /\ ref'[o.from] = y /\ LiveArrays' = LiveArrays
          /\ Holds(y)' = Holds(y) /\ All(o.block)' \subseteq All(o.block)
      BY <1>1, <2>1, <2>3, NothingNew
    <2> QED
      BY <1>1, <2>1, <2>4, <2>5, <2>6 DEF CopyOK
  <1>10. ValuesOK' /\ VariablesOK'
    BY NothingNew DEF XInv, ValuesOK, VariablesOK, CopiesVariables
  <1>11. Maps' /\ NoGroupBy'
    BY <1>1 DEF XInv, Maps, NoGroupBy
  <1> QED
    BY <1>5, <1>6, <1>7, <1>8, <1>9, <1>10, <1>11 DEF XInv

(* The last step of the making of n sets its flags.                          *)
LEMMA FlagsLast ==
    ASSUME MInv, XInv, NEW t \in Thread, DoCopyFlags(t) \/ DoSetFlags(t),
           NEW o, o = todo[t][1]
    PROVE  /\ 1 \in DOMAIN todo[t] /\ o \in Item(t) /\ OnFlags(o) /\ o.block \in Block
           /\ Making(t, o.block)
           /\ FlagStep(t, o.block, IF DoCopyFlags(t) THEN FlagsOf(o.from) ELSE o.val)
           /\ DoCopyFlags(t) => o.op = "copyflags"
           /\ ~DoCopyFlags(t) => o.op = "setflags"
  <1>1. /\ todo[t] # <<>> /\ Head(todo[t]) = o /\ o \in Item(t) /\ 1 \in DOMAIN todo[t]
        /\ DoCopyFlags(t) => o.op = "copyflags"
        /\ DoSetFlags(t) => o.op = "setflags"
        /\ PopTodo(t) /\ UNCHANGED <<life, kind, ref, typ>>
    BY Running_ DEF DoCopyFlags, DoSetFlags
  <1>2. OnFlags(o) /\ o.block \in Block /\ Making(t, o.block)
    <2>1. OnFlags(o)
      BY <1>1 DEF OnFlags
    <2>2. OnArray(todo[t][1]) /\ ArrayOf(todo[t][1]) = o.block
      BY <2>1 DEF OnArray, ArrayOf
    <2>3. Making(t, o.block)
      BY <1>1, <2>2 DEF Making
    <2> QED
      BY <2>1, <2>3, MadeAlone
  <1>3. todo'[t] = <<>> /\ \A u \in Thread : u # t => todo'[u] = todo[u]
    <2>1. Len(todo[t]) = 1
      BY <1>1, <1>2, Items DEF TodoOK, LastOfAll
    <2>2. todo[t] \in Seq(Item(t))
      BY Items DEF TodoOK
    <2>3. Tail(todo[t]) = <<>>
      BY <1>1, <2>1, <2>2, FirstItem, EmptySeq
    <2> QED
      BY <1>1, <2>3, TodoOf DEF PopTodo
  <1>4. PICK G : G = IF DoCopyFlags(t) THEN FlagsOf(o.from) ELSE o.val
    OBVIOUS
  <1>5. flags' = [flags EXCEPT ![o.block] = G]
    BY <1>1, <1>4 DEF DoCopyFlags, DoSetFlags
  <1>6. flags'[o.block] = G /\ \A b \in Block : b # o.block => flags'[b] = flags[b]
    BY <1>2, <1>5 DEF MInv
  <1>7. FlagStep(t, o.block, G)
    BY <1>1, <1>3, <1>6 DEF FlagStep
  <1> QED
    BY <1>1, <1>2, <1>4, <1>7

LEMMA DoCopyFlagsKeeps == ASSUME MInv, XInv, NEW t \in Thread, DoCopyFlags(t) PROVE XInv'
  <1>1. PICK o, n, y, G : o = todo[t][1] /\ n = o.block /\ y = ref[o.from] /\ G = flags[y]
    OBVIOUS
  <1>2. /\ 1 \in DOMAIN todo[t] /\ n \in Block /\ Making(t, n) /\ o.op = "copyflags"
        /\ FlagStep(t, n, G)
    BY <1>1, FlagsLast DEF FlagsOf
  <1>3. CopyOK(t, o)
    BY <1>1, <1>2 DEF XInv, CopiesOK
  <1>4. /\ y \in LiveArrays /\ y # n /\ All(n) \subseteq Holds(y) \cup {n, y}
        /\ typ[y] = "groupby" => typ[n] = "groupby"
    BY <1>1, <1>2, <1>3 DEF CopyOK
  <1>5. y \in Block /\ kind[y] = "array" /\ Holds(y) \cup {y} \subseteq All(y)
    BY <1>4 DEF LiveArrays, Live, All
  <1>6. ASSUME NEW b \in LiveArrays, b # n, NEW c \in All(n), c \in All(b) PROVE c \in All(y)
    <2>1. b \in Block
      BY DEF LiveArrays, Live
    <2>2. c # n
      BY <1>2, <1>6, <2>1, MadeIsNotShared DEF All
    <2> QED
      BY <1>4, <1>5, <2>2
  <1>7. ASSUME "immutable" \in G, typ[n] # "groupby"
        PROVE  /\ "write" \notin G
               /\ \A b \in LiveArrays : b # n /\ "write" \in flags[b] => All(n) \cap All(b) = {}
               /\ \A b \in All(n) : kind[b] # "array" => ~Held(b) \/ b = n
    <2>1. Sealed(y)
      BY <1>1, <1>4, <1>7 DEF Sealed
    <2>2. "write" \notin G
      BY <1>1, <1>4, <1>5, <2>1 DEF XInv, Separate
    <2>3. \A b \in LiveArrays : b # n /\ "write" \in flags[b] => All(n) \cap All(b) = {}
      BY <1>4, <1>6, <2>1 DEF XInv, Separate
    <2>4. \A b \in All(n) : kind[b] # "array" => ~Held(b) \/ b = n
      BY <1>4, <1>5, <2>1 DEF XInv, Unheld
    <2> QED
      BY <2>2, <2>3, <2>4
  <1>8. "write" \in G => \A a \in LiveArrays : a # n /\ Sealed(a) => All(n) \cap All(a) = {}
    BY <1>1, <1>4, <1>6 DEF XInv, Separate
  <1>9. n \in LiveArrays => MayGet(n, G)
    BY <1>7, <1>8 DEF MayGet, LiveArrays
  <1> QED
    BY <1>2, <1>9, FlagStepKeeps

LEMMA DoSetFlagsKeeps == ASSUME MInv, XInv, NEW t \in Thread, DoSetFlags(t) PROVE XInv'
  <1>1. PICK o, n, G : o = todo[t][1] /\ n = o.block /\ G = o.val
    OBVIOUS
  <1>2. /\ 1 \in DOMAIN todo[t] /\ n \in Block /\ o.op = "setflags"
        /\ FlagStep(t, n, G) /\ OnFlags(o)
    <2>1. ~DoCopyFlags(t)
      BY DEF DoSetFlags, DoCopyFlags, Running
    <2> QED
      BY <1>1, <2>1, FlagsLast
  <1>3. ~({"write", "immutable"} \subseteq G)
    BY <1>1, <1>2 DEF XInv, ValuesOK
  <1>4. Waits(n)
    BY <1>1, <1>2 DEF Waits, Pending, OnArray, ArrayOf
  <1>5. ASSUME n \in LiveArrays PROVE MayGet(n, G)
    <2>1. \A b \in LiveArrays : n # b => All(n) \cap All(b) = {}
      BY <1>4, <1>5 DEF XInv, WaitsAlone
    <2>2. \A b \in All(n) : kind[b] # "array" => ~Held(b)
      BY <1>4, <1>5 DEF XInv, Unheld
    <2> QED
      BY <1>3, <2>1, <2>2 DEF MayGet
  <1> QED
    BY <1>2, <1>5, FlagStepKeeps

(* flag_as_immutable: the one reference to the array is x's, and the array's *)
(* are the only ones to its blocks.                                          *)
LEMMA OneReference ==
    ASSUME MInv, NEW b \in Block, count[b] = 1, NEW r \in Slot, ref[r] = b,
           NEW s \in Slot, ref[s] = b
    PROVE  r = s
  BY RefCountAssumed, P!OnlyReferrer DEF MInv

LEMMA UniqueOwner ==
    ASSUME MInv, XInv, NEW t \in Thread, NEW x \in Own(t), FlagAsImmutable(t, x),
           typ[ref[x]] # "groupby", NEW c \in Holds(ref[x])
    PROVE  count[c] = 1 /\ kind[c] # "array"
  <1>1. PICK a : a = ref[x]
    OBVIOUS
  <1>2. PICK f \in Field : ref[<<a, f>>] = c
    BY <1>1 DEF Holds
  <1>3. HoldsArray(x) /\ a \in LiveArrays /\ c # NULL
    BY <1>1, HeldArray, MemoryBlocksAssumption DEF FlagAsImmutable, Holds
  <1>4. f \in TypeFields(typ[a]) /\ typ[a] \in ArrayType
    BY <1>2, <1>3 DEF XInv, FieldsFit, Used
  <1>5. typ[a] \notin {"pointer", "tuple", "groupby"} /\ IsUniqueDataOwner(a)
        /\ (ref[<<a, "data">>] # NULL =>
               count[ref[<<a, "data">>]] = 1 /\ kind[ref[<<a, "data">>]] = "pod")
    BY <1>1 DEF FlagAsImmutable
  <1>6. CASE f = "data"
    BY <1>2, <1>3, <1>5, <1>6
  <1>7. CASE f = "meta1"
    <2>1. typ[a] \in {"string", "bytes", "var", "varstring"}
      BY <1>4, <1>5, <1>7 DEF TypeFields, ArrayType, BufferType
    <2>2. count[c] = 1 /\ kind[c] \in {"pod", "zeroinit"}
      BY <1>2, <1>3, <1>5, <1>7, <2>1 DEF IsUniqueDataOwner, OwnsBuffer
    <2> QED
      BY <2>2
  <1>8. CASE f = "meta2"
    <2>1. typ[a] = "varstring"
      BY <1>4, <1>5, <1>8 DEF TypeFields, ArrayType, BufferType
    <2>2. count[c] = 1 /\ kind[c] \in {"pod"}
      BY <1>2, <1>3, <1>5, <1>8, <2>1 DEF IsUniqueDataOwner, OwnsBuffer
    <2> QED
      BY <2>2
  <1> QED
    BY <1>6, <1>7, <1>8 DEF Field

LEMMA FlagAsImmutableKeeps ==
    ASSUME MInv, XInv, NEW t \in Thread, NEW x \in Own(t), FlagAsImmutable(t, x)
    PROVE  XInv'
  <1>1. PICK a, G : a = ref[x] /\ G = (flags[a] \ {"write"}) \cup {"immutable"}
    OBVIOUS
  <1>2. /\ HoldsArray(x) /\ count[a] = 1 /\ todo[t] = <<>>
        /\ flags' = [flags EXCEPT ![a] = G] /\ UNCHANGED <<life, kind, ref, typ, todo>>
    BY <1>1 DEF FlagAsImmutable, Idle
  <1>3. a \in LiveArrays /\ a \in Block /\ kind[a] = "array" /\ x \in Slot /\ x \in Handle
    BY <1>1, <1>2, HeldArray, SlotFacts DEF HoldsArray
  <1>4. FlagStep(t, a, G)
    BY <1>2, <1>3 DEF FlagStep, MInv
  <1>5. \A s \in Slot : ref[s] = a => s = x
    BY <1>1, <1>2, <1>3, OneReference
  <1>6. \A i \in DOMAIN todo[t] : FALSE
    BY <1>2
  <1>7. \A u \in Thread : \A h \in Own(u) : ref[h] = a => u = t
    BY <1>5, SlotFacts
  <1>8. Sources(a) = {}
    <2> SUFFICES ASSUME NEW b \in Sources(a) PROVE FALSE
      OBVIOUS
    <2>1. PICK u \in Thread : \E i \in DOMAIN todo[u] : Pending(todo[u][i], a, "share")
      BY DEF Sources
    <2>2. PICK i \in DOMAIN todo[u] : Pending(todo[u][i], a, "share")
      BY <2>1
    <2>3. Making(u, a)
      BY <2>2 DEF Pending, Making
    <2>4. x \in Own(u)
      BY <1>1, <1>3, <2>3, MadeAlone
    <2>5. u = t
      BY <2>4, OwnOnly
    <2> QED
      BY <1>6, <2>2, <2>5
  <1>9. ASSUME typ[a] # "groupby", NEW b \in All(a), b # a
        PROVE  /\ b \in Block /\ kind[b] # "array"
               /\ \E f \in Field : \A s \in Slot : ref[s] = b => s = <<a, f>>
    <2>1. b \in Holds(a)
      BY <1>8, <1>9 DEF All
    <2>2. count[b] = 1 /\ kind[b] # "array"
      BY <1>1, <1>9, <2>1, UniqueOwner
    <2>3. PICK f \in Field : ref[<<a, f>>] = b
      BY <2>1 DEF Holds
    <2>4. b \in Block /\ <<a, f>> \in Slot
      BY <1>3, <2>1, SlotFacts DEF Holds
    <2>5. \A s \in Slot : ref[s] = b => s = <<a, f>>
      BY <2>2, <2>3, <2>4, OneReference
    <2> QED
      BY <2>2, <2>4, <2>5
  <1>10. ASSUME NEW b \in Block, b # a PROVE a \notin Holds(b)
    <2> SUFFICES ASSUME NEW f \in Field, ref[<<b, f>>] = a PROVE FALSE
      BY DEF Holds
    <2>1. <<b, f>> \in Slot /\ <<b, f>> \notin Handle
      BY <1>10, SlotFacts
    <2> QED
      BY <1>3, <1>5, <2>1
  <1>11. ASSUME typ[a] # "groupby", NEW b \in LiveArrays, b # a, NEW c \in All(a), c \in All(b)
         PROVE  FALSE
    <2>1. b \in Block /\ kind[b] = "array"
      BY DEF LiveArrays, Live
    <2>2. ASSUME NEW d \in Block, d # a PROVE c \notin Holds(d)
      <3>1. CASE c = a
        BY <1>10, <2>2, <3>1
      <3>2. CASE c # a
        <4> SUFFICES ASSUME NEW g \in Field, ref[<<d, g>>] = c PROVE FALSE
          BY DEF Holds
        <4>1. <<d, g>> \in Slot
          BY <2>2, SlotFacts
        <4>2. PICK f \in Field : \A s \in Slot : ref[s] = c => s = <<a, f>>
          BY <1>9, <1>11, <3>2
        <4> QED
          BY <2>2, <4>1, <4>2
      <3> QED
        BY <3>1, <3>2
    <2>3. c # b
      BY <1>9, <1>11, <2>1
    <2>4. c \in Sources(b)
      BY <1>11, <2>1, <2>2, <2>3 DEF All
    <2>5. PICK u \in Thread : \E i \in DOMAIN todo[u] :
              Pending(todo[u][i], b, "share") /\ Reached(todo[u][i].from, todo[u][i].field) = c
      BY <2>4 DEF Sources
    <2>6. PICK i \in DOMAIN todo[u] :
              Pending(todo[u][i], b, "share") /\ Reached(todo[u][i].from, todo[u][i].field) = c
      BY <2>5
    <2>7. PICK h : h = todo[u][i].from
      OBVIOUS
    <2>8. h \in Own(u) /\ h \in Handle /\ h \in Slot /\ todo[u][i].field \in Field \cup {"self"}
      BY <2>6, <2>7, PendingShare, SlotFacts
    <2>9. c \in Block
      BY <2>4 DEF Sources
    <2>10. ref[h] \in Block /\ c \in Holds(ref[h]) \cup {ref[h]}
      BY <2>6, <2>7, <2>8, <2>9, ReachedIsTheirs
    <2>11. u # t
      BY <1>6, <2>6
    <2>12. ref[h] # a
      BY <1>7, <2>8, <2>11
    <2>13. ref[h] = c /\ c # a
      BY <2>2, <2>10, <2>12
    <2>14. PICK f \in Field : \A s \in Slot : ref[s] = c => s = <<a, f>>
      BY <1>9, <1>11, <2>13
    <2> QED
      BY <1>3, <2>8, <2>13, <2>14, SlotFacts
  <1>12. ASSUME typ[a] # "groupby", NEW b \in All(a), kind[b] # "array", Held(b) PROVE FALSE
    <2>1. b # a
      BY <1>3, <1>12
    <2>2. PICK f \in Field : \A s \in Slot : ref[s] = b => s = <<a, f>>
      BY <1>9, <1>12, <2>1
    <2>3. ~\E y \in Handle : ref[y] = b
      BY <1>3, <2>2, SlotFacts
    <2>4. PICK u \in Thread : \E i \in DOMAIN todo[u] :
              todo[u][i].op = "stale" /\ todo[u][i].block = b
      BY <1>12, <2>3 DEF Held
    <2>5. OneThread
      BY <2>4, Items DEF TodoOK, StaleIsLive
    <2> QED
      BY <1>6, <2>4, <2>5 DEF OneThread
  <1>13. "write" \notin G
    BY <1>1
  <1>14. MayGet(a, G)
    BY <1>11, <1>12, <1>13 DEF MayGet
  <1> QED
    BY <1>3, <1>4, <1>14, FlagStepKeeps

-----------------------------------------------------------------------------
(***************************************************************************)
(* No array reaches itself.                                                *)
(***************************************************************************)
Acyclic ==
    \A S \in (SUBSET Block) \ {{}} :
        \E b \in S : \A a \in S, f \in Field : ref[<<a, f>>] # b

(* Fields are filled in only of what is being made.                          *)
LEMMA StaysAcyclic ==
    ASSUME MInv, Acyclic, NEW t \in Thread,
           \A n \in Block, f \in Field : ref'[<<n, f>>] # ref[<<n, f>>] =>
               \/ ref'[<<n, f>>] = NULL
               \/ Making(t, n) /\ (ref'[<<n, f>>] \in Sources(n) \/ life[ref'[<<n, f>>]] = "free")
    PROVE  Acyclic'
  <1> SUFFICES ASSUME NEW S \in SUBSET Block, S # {}
               PROVE  \E b \in S : \A a \in S, f \in Field : ref'[<<a, f>>] # b
    BY DEF Acyclic
  <1>1. \A b \in Block : b # NULL
    BY MemoryBlocksAssumption
  <1>2. CASE \E n \in S, f \in Field : ref'[<<n, f>>] # ref[<<n, f>>] /\ ref'[<<n, f>>] # NULL
    <2>1. PICK n \in S : \E f \in Field : ref'[<<n, f>>] # ref[<<n, f>>] /\ ref'[<<n, f>>] # NULL
      BY <1>2
    <2>2. Making(t, n) /\ n \in Block
      BY <2>1
    <2>3. life[n] = "live"
      BY <2>2, MadeAlone
    <2>4. \A a \in Block : n \notin Holds(a) /\ n \notin Sources(a)
      BY <2>2, MadeIsNotShared
    <2>5. ASSUME NEW a \in S, NEW f \in Field, ref'[<<a, f>>] = n PROVE FALSE
      <3>1. ref[<<a, f>>] # n
        BY <2>2, <2>4 DEF Holds
      <3> QED
        BY <1>1, <2>2, <2>3, <2>4, <2>5, <3>1
    <2> QED
      BY <2>5
  <1>3. CASE ~\E n \in S, f \in Field : ref'[<<n, f>>] # ref[<<n, f>>] /\ ref'[<<n, f>>] # NULL
    <2>1. PICK b \in S : \A a \in S, f \in Field : ref[<<a, f>>] # b
      BY DEF Acyclic
    <2> QED
      BY <1>1, <1>3, <2>1
  <1> QED
    BY <1>2, <1>3

LEMMA FieldsAsTheyWere ==
    ASSUME MInv, Acyclic, NEW t \in Thread, \A s \in Fields : ref'[s] = ref[s]
    PROVE  Acyclic'
  BY StaysAcyclic, SlotFacts

LEMMA QuietAcyclic == ASSUME MInv, Acyclic, NEW t \in Thread, Quiet(t) PROVE Acyclic'
  BY StaysAcyclic DEF Quiet, FieldSteps

(* Blocks that only each other keep alive would be a cycle.                  *)
LEMMA NoCycleNoIsland == ASSUME MInv, Acyclic PROVE NoIsland
  <1> SUFFICES ASSUME NEW S \in (SUBSET Live) \ {{}}
               PROVE  \E s \in Slot : ref[s] \in S /\ s \notin S \X Field
    BY Zenon DEF NoIsland
  <1>1. S \subseteq Block /\ S # {} /\ \A b \in S : life[b] = "live"
    BY DEF Live
  <1>2. PICK b \in S : \A a \in S, f \in Field : ref[<<a, f>>] # b
    BY <1>1 DEF Acyclic
  <1>3. PICK s \in Slot : ref[s] = b
    BY <1>1, Referred DEF MInv
  <1>4. s \notin S \X Field
    BY <1>2, <1>3
  <1> QED
    BY <1>3, <1>4

-----------------------------------------------------------------------------
(***************************************************************************)
(* Every step.                                                             *)
(***************************************************************************)
Sharing == XInv /\ Acyclic

LEMMA QuietSharing ==
    ASSUME MInv, Sharing, MInv', NEW t \in Thread, Quiet(t)
    PROVE  Sharing'
  BY QuietKeeps, QuietAcyclic DEF Sharing

(* A step that makes an array fills in none of its fields yet.               *)
Begins(t, x) == \E n, tp, F, q : BeginArray(t, x, n, tp, F, q)

LEMMA BegunSharing ==
    ASSUME MInv, Sharing, NEW t \in Thread, NEW x \in Own(t), Begins(t, x), XInv'
    PROVE  Sharing'
  <1>1. PICK n, tp, F, q : BeginArray(t, x, n, tp, F, q)
    BY DEF Begins
  <1>2. \A s \in Fields : ref'[s] = ref[s]
    BY <1>1, BegunState DEF Sharing
  <1> QED
    BY <1>2, FieldsAsTheyWere DEF Sharing

LEMMA ViewsBegin ==
    ASSUME NEW t \in Thread, NEW x \in Own(t), NEW y \in Own(t),
           \/ View(t, x, y) \/ ViewThrows(t, x, y) \/ IndexVar(t, x, y)
           \/ ViewAsBytes(t, x, y) \/ ViewFromBytes(t, x, y)
    PROVE  Begins(t, x)
  <1>1. CASE View(t, x, y)
    BY <1>1, Zenon DEF View, Begins
  <1>2. CASE ViewThrows(t, x, y)
    BY <1>2, Zenon DEF ViewThrows, Begins
  <1>3. CASE IndexVar(t, x, y)
    BY <1>3, Zenon DEF IndexVar, Begins
  <1>4. CASE ViewAsBytes(t, x, y)
    BY <1>4, Zenon DEF ViewAsBytes, Begins
  <1>5. CASE ViewFromBytes(t, x, y)
    BY <1>5, Zenon DEF ViewFromBytes, Begins
  <1> QED
    BY <1>1, <1>2, <1>3, <1>4, <1>5

LEMMA ViewsKeep ==
    ASSUME MInv, Sharing, NEW t \in Thread, NEW x \in Own(t), NEW y \in Own(t),
           \/ View(t, x, y) \/ ViewThrows(t, x, y) \/ IndexVar(t, x, y)
           \/ ViewAsBytes(t, x, y) \/ ViewFromBytes(t, x, y)
    PROVE  Sharing'
  BY ViewsBegin, BegunSharing, ViewKeeps, ViewThrowsKeeps, IndexVarKeeps, ViewAsBytesKeeps,
     ViewFromBytesKeeps DEF Sharing

LEMMA PointersKeep ==
    ASSUME MInv, Sharing, NEW t \in Thread, NEW x \in Own(t), NEW y \in Own(t),
           \/ \E f \in {"meta1", "meta2"} : TupleField(t, x, y, f)
           \/ Dereference(t, x, y)
    PROVE  Sharing'
  <1>1. CASE \E f \in {"meta1", "meta2"} : TupleField(t, x, y, f)
    <2>1. PICK f \in {"meta1", "meta2"} : TupleField(t, x, y, f)
      BY <1>1
    <2>2. Begins(t, x)
      BY <2>1, Zenon DEF TupleField, Begins
    <2> QED
      BY <2>1, <2>2, BegunSharing, TupleFieldKeeps DEF Sharing
  <1>2. CASE Dereference(t, x, y)
    <2>1. Begins(t, x)
      BY <1>2, Zenon DEF Dereference, Begins
    <2> QED
      BY <1>2, <2>1, BegunSharing, DereferenceKeeps DEF Sharing
  <1> QED
    BY <1>1, <1>2

LEMMA TupleSharing ==
    ASSUME MInv, Sharing, NEW t \in Thread, NEW x \in Own(t), NEW y \in Own(t), NEW z \in Own(t),
           CombineIntoTuple(t, x, y, z)
    PROVE  Sharing'
  <1>1. Begins(t, x)
    BY Zenon DEF CombineIntoTuple, Begins
  <1> QED
    BY <1>1, BegunSharing, TupleKeeps DEF Sharing

LEMMA GroupBySharing ==
    ASSUME MInv, Sharing, NEW t \in Thread, NEW x \in Own(t), NEW y \in Own(t), NEW z \in Own(t),
           "groupby" \in Features, GroupBy(t, x, y, z)
    PROVE  Sharing'
  <1>1. Begins(t, x)
    BY Zenon DEF GroupBy, Begins
  <1> QED
    BY <1>1, BegunSharing, GroupByKeeps DEF Sharing

LEMMA MakersKeep ==
    ASSUME MInv, Sharing, NEW t \in Thread, NEW x \in Own(t),
           MakePodArray(t, x) \/ \E tp \in BufferType : Empty(t, x, tp)
    PROVE  Sharing'
  <1>1. CASE MakePodArray(t, x)
    <2>1. Begins(t, x)
      BY <1>1, Zenon DEF MakePodArray, Begins
    <2> QED
      BY <1>1, <2>1, BegunSharing, MakePodArrayKeeps DEF Sharing
  <1>2. CASE \E tp \in BufferType : Empty(t, x, tp)
    <2>1. PICK tp \in BufferType : Empty(t, x, tp)
      BY <1>2
    <2>2. Begins(t, x)
      BY <2>1, Zenon DEF Empty, Begins
    <2> QED
      BY <2>1, <2>2, BegunSharing, EmptyKeeps DEF Sharing
  <1> QED
    BY <1>1, <1>2

LEMMA FromDataSharing ==
    ASSUME MInv, Sharing, NEW t \in Thread, NEW x \in Own(t), NEW y \in Own(t),
           \E F \in {{"read"}, {"read", "write"}} : FromData(t, x, y, F)
    PROVE  Sharing'
  <1>1. PICK F \in {{"read"}, {"read", "write"}} : FromData(t, x, y, F)
    OBVIOUS
  <1>2. Begins(t, x)
    BY <1>1, Zenon DEF FromData, Begins
  <1> QED
    BY <1>1, <1>2, BegunSharing, FromDataKeeps DEF Sharing

LEMMA EvaluationKeeps ==
    ASSUME MInv, Sharing, MInv', NEW t \in Thread, NEW x \in Own(t), NEW y \in Own(t),
           \/ Eval(t, x, y) \/ EvalImmutable(t, x, y)
           \/ \E F \in {{}, {"read"}, {"write"}} : EvalCopy(t, x, y, F)
    PROVE  Sharing'
  <1> DEFINE Good == {H \in SUBSET {"read", "write", "immutable"} :
                         ~({"write", "immutable"} \subseteq H)}
  <1>1. {"read", "write"} \in Good /\ {"read", "immutable"} \in Good /\ {"write"} \in Good
    OBVIOUS
  <1>2. TypeOf(y) \in BufferType \cup {"groupby"}
    BY DEF Eval, EvalImmutable, EvalCopy
  <1>3. CopyConstruct(t, x, y) \/ \E G \in Good : EvalInto(t, x, y, G)
    <2> HIDE DEF Good
    <2>1. CASE Eval(t, x, y)
      BY <1>1, <2>1 DEF Eval
    <2>2. CASE EvalImmutable(t, x, y)
      BY <1>1, <2>2 DEF EvalImmutable
    <2>3. ASSUME NEW F \in {{}, {"read"}, {"write"}}, EvalCopy(t, x, y, F)
          PROVE  \E G \in Good : EvalInto(t, x, y, G)
      <3> DEFINE G == CASE F = {} -> {"read", "write"}
                        [] F = {"read"} -> {"read", "immutable"}
                        [] OTHER -> F
      <3>1. G \in Good
        BY <1>1
      <3>2. EvalInto(t, x, y, G)
        BY <2>3 DEF EvalCopy
      <3> HIDE DEF G
      <3> QED
        BY <3>1, <3>2
    <2> QED
      BY <2>1, <2>2, <2>3
  <1>4. CASE CopyConstruct(t, x, y)
    BY <1>4, CopyConstructQuiet, QuietSharing DEF Sharing
  <1>5. CASE \E G \in Good : EvalInto(t, x, y, G)
    <2>1. PICK G \in Good : EvalInto(t, x, y, G)
      BY <1>5
    <2>2. Begins(t, x)
      BY <2>1, Zenon DEF EvalInto, Begins
    <2>3. XInv'
      BY <1>2, <2>1, EvalIntoKeeps DEF Sharing
    <2> QED
      BY <2>2, <2>3, BegunSharing
  <1> QED
    BY <1>3, <1>4, <1>5

LEMMA PointerStepKeeps ==
    ASSUME MInv, Sharing, MInv', NEW t \in Thread, NEW x \in Own(t), NEW y \in Own(t),
           PointerStep(t, x, y)
    PROVE  Sharing'
  BY CopyConstructQuiet, CopyAssignQuiet, MoveAssignQuiet, SwapQuiet, QuietSharing
     DEF PointerStep, Sharing

LEMMA ArrayStepKeeps ==
    ASSUME MInv, Sharing, MInv', NEW t \in Thread, NEW x \in Own(t), NEW y \in Own(t),
           ArrayStep(t, x, y)
    PROVE  Sharing'
  BY ViewsKeep, FromDataSharing, PointersKeep, EvaluationKeeps DEF ArrayStep

LEMMA FlagsSharing ==
    ASSUME MInv, Sharing, NEW t \in Thread,
           \/ DoCopyFlags(t) \/ DoSetFlags(t)
           \/ \E x \in Own(t) : FlagAsImmutable(t, x)
    PROVE  Sharing'
  <1>1. ref' = ref
    BY DEF DoCopyFlags, DoSetFlags, FlagAsImmutable
  <1>2. Acyclic'
    BY <1>1, FieldsAsTheyWere DEF Sharing
  <1>3. XInv'
    BY DoCopyFlagsKeeps, DoSetFlagsKeeps, FlagAsImmutableKeeps DEF Sharing
  <1> QED
    BY <1>2, <1>3 DEF Sharing

LEMMA ContinueKeeps ==
    ASSUME MInv, Sharing, MInv', NEW t \in Thread, Continue(t)
    PROVE  Sharing'
  BY FreeBlockQuiet, DoShareQuiet, DoStaleQuiet, DoStealQuiet, DoDropQuiet, DoFreshQuiet,
     DoFreshFailsQuiet, DoCheckReadQuiet, QuietSharing, FlagsSharing DEF Continue, Sharing

LEMMA OperationKeeps ==
    ASSUME MInv, Sharing, MInv', NEW t \in Thread, Operation(t)
    PROVE  Sharing'
  <1>1. PICK v \in Var :
            LET x == <<t, v>> IN
            \/ Destruct(t, x)
            \/ FlagAsImmutable(t, x)
            \/ "data" \in Features /\ \E k \in {"pod", "external"} : MakeBlock(t, x, k)
            \/ \E tp \in BufferType : tp \in Features /\ Empty(t, x, tp)
            \/ "podarray" \in Features /\ MakePodArray(t, x)
            \/ \E u \in Thread, w \in Var : MoveConstruct(t, u, <<u, w>>, x)
            \/ \E w \in Var : PointerStep(t, x, <<t, w>>) \/ ArrayStep(t, x, <<t, w>>)
            \/ \E w, z \in Var :
                  \/ "tuple" \in Features /\ CombineIntoTuple(t, x, <<t, w>>, <<t, z>>)
                  \/ "groupby" \in Features /\ GroupBy(t, x, <<t, w>>, <<t, z>>)
    BY DEF Operation
  <1> DEFINE x == <<t, v>>
  <1>2. \A u \in Thread, w \in Var : <<u, w>> \in Own(u)
    BY DEF Own
  <1>3. x \in Own(t)
    BY <1>2
  <1>4. CASE Destruct(t, x) \/ \E k \in {"pod", "external"} : MakeBlock(t, x, k)
    BY <1>3, <1>4, DestructQuiet, MakeBlockQuiet, QuietSharing DEF Sharing
  <1>5. CASE FlagAsImmutable(t, x)
    BY <1>3, <1>5, FlagsSharing
  <1>6. CASE MakePodArray(t, x) \/ \E tp \in BufferType : Empty(t, x, tp)
    BY <1>3, <1>6, MakersKeep
  <1>7. CASE \E u \in Thread, w \in Var : MoveConstruct(t, u, <<u, w>>, x)
    <2>1. PICK u \in Thread, w \in Var : MoveConstruct(t, u, <<u, w>>, x)
      BY <1>7
    <2> QED
      BY <1>2, <1>3, <2>1, MoveConstructQuiet, QuietSharing DEF Sharing
  <1>8. CASE \E w \in Var : PointerStep(t, x, <<t, w>>) \/ ArrayStep(t, x, <<t, w>>)
    <2>1. PICK w \in Var : PointerStep(t, x, <<t, w>>) \/ ArrayStep(t, x, <<t, w>>)
      BY <1>8
    <2> QED
      BY <1>2, <1>3, <2>1, PointerStepKeeps, ArrayStepKeeps
  <1>9. CASE \E w, z \in Var : \/ CombineIntoTuple(t, x, <<t, w>>, <<t, z>>)
                               \/ "groupby" \in Features /\ GroupBy(t, x, <<t, w>>, <<t, z>>)
    <2>1. PICK w, z \in Var :
              \/ CombineIntoTuple(t, x, <<t, w>>, <<t, z>>)
              \/ "groupby" \in Features /\ GroupBy(t, x, <<t, w>>, <<t, z>>)
      BY <1>9
    <2>2. <<t, v>> \in Own(t) /\ <<t, w>> \in Own(t) /\ <<t, z>> \in Own(t)
      BY <1>2
    <2>3. CASE CombineIntoTuple(t, x, <<t, w>>, <<t, z>>)
      BY <2>2, <2>3, TupleSharing
    <2>4. CASE "groupby" \in Features /\ GroupBy(t, x, <<t, w>>, <<t, z>>)
      BY <2>2, <2>4, GroupBySharing
    <2> QED
      BY <2>1, <2>3, <2>4
  <1> QED
    BY <1>1, <1>4, <1>5, <1>6, <1>7, <1>8, <1>9

LEMMA StutterKeeps == ASSUME Sharing, UNCHANGED vars PROVE Sharing'
  <1>1. UNCHANGED <<life, kind, ref, typ, flags, todo>>
    BY DEF vars
  <1>2. /\ LiveArrays' = LiveArrays
        /\ \A a : Sealed(a)' = Sealed(a) /\ Holds(a)' = Holds(a) /\ All(a)' = All(a)
        /\ \A a : Waits(a)' = Waits(a) /\ Held(a)' = Held(a)
        /\ \A a, f : Used(a, f)' = Used(a, f)
    BY <1>1 DEF LiveArrays, Live, Sealed, Holds, All, Sources, Waits, Held, Used, WillWrite,
        Pending, OnArray, OnField, OnFlags, OnSlot, Writes, ArrayOf, Fields, Reached
  <1>3. Separate' /\ WaitsAlone' /\ Unheld'
    BY <1>1, <1>2 DEF Sharing, XInv, Separate, WaitsAlone, Unheld
  <1>4. FieldsFit'
    BY <1>1, <1>2 DEF Sharing, XInv, FieldsFit, TypeFields
  <1>5. CopiesOK'
    <2>1. \A t, y : Making(t, y)' = Making(t, y)
      BY <1>1 DEF Making, OnArray, OnField, OnFlags, OnSlot, Writes, ArrayOf, Fields
    <2> QED
      BY <1>1, <1>2, <2>1 DEF Sharing, XInv, CopiesOK, CopyOK
  <1>6. ValuesOK' /\ VariablesOK' /\ NoGroupBy' /\ Maps'
    BY <1>1 DEF Sharing, XInv, ValuesOK, VariablesOK, CopiesVariables, NoGroupBy, Maps
  <1>7. Acyclic'
    BY <1>1 DEF Sharing, Acyclic
  <1> QED
    BY <1>3, <1>4, <1>5, <1>6, <1>7 DEF Sharing, XInv

LEMMA SharingKept ==
    ASSUME SafeSelfAssign, MInv, Sharing, [Next]_vars
    PROVE  MInv' /\ Sharing'
  <1>1. MInv'
    BY MInvKept DEF StepOK
  <1>2. CASE Next
    <2>1. PICK t \in Thread : Operation(t) \/ Continue(t)
      BY <1>2 DEF Next
    <2> QED
      BY <1>1, <2>1, OperationKeeps, ContinueKeeps
  <1>3. CASE UNCHANGED vars
    BY <1>1, <1>3, StutterKeeps
  <1> QED
    BY <1>1, <1>2, <1>3

LEMMA InitSharing == Init => MInv /\ Sharing
  <1> SUFFICES ASSUME Init PROVE MInv /\ Sharing
    OBVIOUS
  <1>1. MInv
    BY InitMInv
  <1>2. LiveArrays = {}
    BY DEF Init, LiveArrays, Live
  <1>3. \A t \in Thread : DOMAIN todo[t] = {}
    BY DEF Init
  <1>4. Separate /\ WaitsAlone /\ Unheld /\ FieldsFit
    BY <1>2 DEF Separate, WaitsAlone, Unheld, FieldsFit
  <1>5. CopiesOK /\ ValuesOK /\ VariablesOK
    BY <1>3 DEF CopiesOK, ValuesOK, VariablesOK
  <1>6. Maps /\ NoGroupBy
    BY DEF Init, Maps, NoGroupBy
  <1>7. Acyclic
    <2>1. \A a \in Block, f \in Field, b \in Block : ref[<<a, f>>] # b
      BY SlotFacts, MemoryBlocksAssumption DEF Init
    <2> QED
      BY <2>1 DEF Acyclic
  <1> QED
    BY <1>1, <1>4, <1>5, <1>6, <1>7 DEF Sharing, XInv

LEMMA StorageIsPart == ASSUME MInv, NEW a \in LiveArrays PROVE Storage(a) \subseteq All(a)
  <1>1. a \in Block
    BY DEF LiveArrays, Live
  <1>2. \A f \in Field : ref[<<a, f>>] = NULL \/ ref[<<a, f>>] \in Block
    BY <1>1, SlotFacts, Types DEF MInv
  <1>3. \A f \in Field : ref[<<a, f>>] # NULL => ref[<<a, f>>] \in Holds(a)
    BY <1>2 DEF Holds
  <1> QED
    BY <1>3, MetaFields DEF Storage, All

LEMMA SharingIsSafe ==
    MInv /\ Sharing =>
        /\ NoIsland /\ ImmutableBuffersNotWritable
        /\ "groupby" \notin Features => ImmutableNotWritable
  <1> SUFFICES ASSUME MInv, Sharing
               PROVE  /\ NoIsland /\ ImmutableBuffersNotWritable
                      /\ "groupby" \notin Features => ImmutableNotWritable
    OBVIOUS
  <1>1. NoIsland
    BY NoCycleNoIsland DEF Sharing
  <1>2. ASSUME NEW a \in LiveArrays, "immutable" \in flags[a], typ[a] # "groupby"
        PROVE  NotWrittenByOthers(a)
    <2> SUFFICES ASSUME NEW b \in LiveArrays, "write" \in flags[b]
                 PROVE  Storage(a) \cap Storage(b) = {}
      BY DEF NotWrittenByOthers
    <2>1. All(a) \cap All(b) = {}
      BY <1>2 DEF Sharing, XInv, Separate, Sealed
    <2> QED
      BY <2>1, StorageIsPart
  <1>3. ImmutableBuffersNotWritable
    BY <1>2 DEF ImmutableBuffersNotWritable
  <1>4. "groupby" \notin Features => ImmutableNotWritable
    BY <1>2 DEF ImmutableNotWritable, Sharing, XInv, NoGroupBy, LiveArrays, Live
  <1> QED
    BY <1>1, <1>3, <1>4

(* Counting references reclaims everything: no array is ever part of what it *)
(* refers to, through however many others, so a block that nothing outside   *)
(* refers to is not kept by blocks it keeps itself (memory_block_decref).    *)
THEOREM NothingIsIslanded ==
    ASSUME SafeSelfAssign
    PROVE  Spec => []NoIsland
  <1>1. Init => MInv /\ Sharing
    BY InitSharing
  <1>2. MInv /\ Sharing /\ [Next]_vars => MInv' /\ Sharing'
    BY SharingKept
  <1>3. MInv /\ Sharing => NoIsland
    BY SharingIsSafe
  <1> QED
    BY <1>1, <1>2, <1>3, PTL DEF Spec

(* What immutable_access_flag says (array.hpp): nobody holds a writable      *)
(* array on the storage of an immutable one, whichever thread made either    *)
(* and from whatever both were made, whoever flagged it and when             *)
(* (flag_as_immutable, eval_immutable, eval_copy, make_pod_array, views).    *)
(* Arrays of groupby type are left out: for them flag_as_immutable does not  *)
(* look at the use counts of the blocks their pointers lead to.              *)
THEOREM ImmutableBuffersSafe ==
    ASSUME SafeSelfAssign
    PROVE  Spec => []ImmutableBuffersNotWritable
  <1>1. Init => MInv /\ Sharing
    BY InitSharing
  <1>2. MInv /\ Sharing /\ [Next]_vars => MInv' /\ Sharing'
    BY SharingKept
  <1>3. MInv /\ Sharing => ImmutableBuffersNotWritable
    BY SharingIsSafe
  <1> QED
    BY <1>1, <1>2, <1>3, PTL DEF Spec

(* Of a program that makes no array of groupby type, every immutable array   *)
(* is what immutable_access_flag says.                                       *)
THEOREM ImmutableIsNotWritable ==
    ASSUME SafeSelfAssign, "groupby" \notin Features
    PROVE  Spec => []ImmutableNotWritable
  <1>1. Init => MInv /\ Sharing
    BY InitSharing
  <1>2. MInv /\ Sharing /\ [Next]_vars => MInv' /\ Sharing'
    BY SharingKept
  <1>3. MInv /\ Sharing => ImmutableNotWritable
    BY SharingIsSafe
  <1> QED
    BY <1>1, <1>2, <1>3, PTL DEF Spec
=============================================================================
