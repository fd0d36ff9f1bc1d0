----------------------- MODULE CKernelBuilderProofs -----------------------
(***************************************************************************)
(* Kernels never overlap, finished trees are whole, no pointer to a kernel *)
(* is used after the kernel has moved and every kernel is destroyed once,  *)
(* for any number of builders and trees of any size of the five families.  *)
(***************************************************************************)
EXTENDS CKernelBuilder, FiniteSetTheorems, SequenceTheorems, WellFoundedInduction, TLAPS

(* Every set of natural numbers has a least element: of the intervals from 0 *)
(* to an element of T one is minimal.                                        *)
LEMMA LeastExists ==
    ASSUME NEW T \in SUBSET Nat, T # {}
    PROVE  \E n \in T : \A m \in T : n <= m
  <1> DEFINE R == StrictSubsetOrdering(Nat)
             F == {0..n : n \in T}
  <1>1. \A n \in Nat : IsFiniteSet(0..n)
    BY FS_Interval
  <1>2. F \subseteq FiniteSubsetsOf(Nat) /\ F # {}
    <2>1. \A n \in Nat : 0..n \in SUBSET Nat
      OBVIOUS
    <2>2. \A n \in Nat : 0..n \in FiniteSubsetsOf(Nat)
      BY <1>1, <2>1 DEF FiniteSubsetsOf
    <2> QED
      BY <2>2
  <1>3. PICK x \in F : \A y \in F : ~(<<y, x>> \in R)
    <2> HIDE DEF F, R
    <2>1. IsWellFoundedOn(R, FiniteSubsetsOf(Nat))
      BY FS_StrictSubsetOrderingWellFounded DEF R
    <2> QED
      BY <1>2, <2>1, WFMin
  <1>4. PICK n \in T : x = 0..n
    OBVIOUS
  <1>5. ASSUME NEW m \in T, m < n PROVE FALSE
    <2>1. 0..m \in F /\ 0..m \subseteq 0..n /\ 0..m # 0..n
      BY <1>5
    <2>2. <<0..m, x>> \in R
      BY <2>1, <1>4 DEF StrictSubsetOrdering
    <2> QED
      BY <2>1, <2>2, <1>3
  <1> QED
    BY <1>5

Families == {"leaf", "elwise", "tuple", "option", "srcexpr", "dstexpr"}
Expressions == {"srcexpr", "dstexpr"}

\* How many children a kernel has recorded when its instantiate function is at
\* each of its statements and when it has done them all.
RecordsBefore ==
  [leaf    |-> <<0, 0>>,
   elwise  |-> <<0, 0, 0>>,
   tuple   |-> <<0, 0, 1, 1, 2, 2>>,
   option  |-> <<0, 0, 0, 1, 1, 2, 2>>,
   srcexpr |-> <<0, 0, 1, 1, 2, 2>>,
   dstexpr |-> <<0, 0, 1, 1, 2, 2>>]

-----------------------------------------------------------------------------
(* The layout of one piece of memory m.                                      *)

\* Children lie behind the kernel, the second behind the first.
KernelOK(k) ==
    /\ k = [kind |-> k.kind, kids |-> k.kids, id |-> k.id]
    /\ k.kind \in Kinds
    /\ k.kids \in [1..Recorded[k.kind] -> Nat]
    /\ \A i \in 1..Recorded[k.kind] : k.kids[i] # 0 =>
           /\ k.kids[i] >= Size[k.kind]
           /\ k.kind \in HasHead => k.kids[i] > Size[k.kind]
    /\ Recorded[k.kind] = 2 /\ k.kids[2] # 0 => k.kids[1] # 0 /\ k.kids[1] < k.kids[2]

\* Below n all words belong to one kernel at most, and what a tuple looks at is
\* in the zeroed memory.
Layout(m, n, zeroed) ==
    /\ m = [o \in DOMAIN m |-> m[o]]
    /\ \A o \in DOMAIN m :
           /\ o \in Nat /\ KernelOK(m[o])
           /\ Words(o, m[o]) \subseteq 0..n - 1
           /\ m[o].kind = "tuple" => \A i \in 1..2 : o + m[o].kids[i] + Prefix <= zeroed
    /\ \A o, q \in DOMAIN m : o # q => Words(o, m[o]) \cap Words(q, m[q]) = {}

\* The places where a kernel at o looks for children.
Looks(o, k) ==
    (IF k.kind \in HasHead THEN {o + Size[k.kind]} ELSE {})
    \cup {o + k.kids[i] : i \in {j \in 1..Recorded[k.kind] : k.kids[j] # 0}}

Complete(k) == \A i \in 1..Recorded[k.kind] : k.kids[i] # 0

\* Every kernel but the root is the child of one, and in the places pending a
\* kernel is still to be built.
Tree(m, pending) ==
    /\ \A o \in DOMAIN m : Looks(o, m[o]) \subseteq (DOMAIN m \ {0}) \cup pending
    /\ \A p \in (DOMAIN m \ {0}) \cup pending : \E o \in DOMAIN m : p \in Looks(o, m[o])
    /\ \A o, q \in DOMAIN m : o # q => Looks(o, m[o]) \cap Looks(q, m[q]) = {}

-----------------------------------------------------------------------------
(* The instantiate functions that run, stk, in a memory m filled up to n.    *)
FrameSet == [kind : Kinds, root : Nat, at : Nat, self : Blocks \cup {NULL}]

FrameOK(f, m) ==
    /\ f.at \in 1..Len(Program[f.kind]) + 1
    /\ f.at > 1 =>
           /\ f.root \in DOMAIN m /\ m[f.root].kind = f.kind
           /\ \A i \in 1..Recorded[f.kind] :
                  m[f.root].kids[i] # 0 <=> i <= RecordsBefore[f.kind][f.at]

\* Does the function wait for what it calls?
Waits(f) == f.at > 1 /\ Program[f.kind][f.at - 1] = "call"

AboutToCall(f) == f.at <= Len(Program[f.kind]) /\ Program[f.kind][f.at] = "call"

Frames(stk, m, n) ==
    /\ \A i \in 1..Len(stk) : FrameOK(stk[i], m)
    /\ \A i \in 1..Len(stk) - 1 : Waits(stk[i])
    /\ \A i, j \in 1..Len(stk) : i < j => stk[i].root < stk[j].root
    /\ stk[Len(stk)].at = 1 => stk[Len(stk)].root = n
    /\ Len(stk) = 1 /\ stk[1].at = 1 => n = 0 /\ DOMAIN m = {}
    /\ \A o \in DOMAIN m : Complete(m[o]) \/ \E i \in 1..Len(stk) : stk[i].root = o

Pending(stk, n) ==
    IF (Len(stk) > 1 /\ stk[Len(stk)].at = 1) \/ AboutToCall(stk[Len(stk)]) THEN {n} ELSE {}

\* The pointers to kernels that are going to be used.
Pointer(f, data) ==
    f.kind \in Expressions /\ f.at \in {2, 3, 5} => f.self = data

Building(stk, m, n, data, cap) ==
    /\ n \in Nat /\ n <= cap
    /\ Layout(m, n, cap)
    /\ Frames(stk, m, n)
    /\ Tree(m, Pending(stk, n))
    /\ Pointer(stk[Len(stk)], data)

-----------------------------------------------------------------------------
(* The builders.                                                             *)
BuilderOK(b) ==
    /\ bld[b] = [data |-> bld[b].data, cap |-> bld[b].cap, clean |-> bld[b].clean]
    /\ bld[b].cap \in Nat /\ bld[b].clean = bld[b].cap
    /\ bld[b].data \in HeapBlocks \cup {Static(b), NULL}
    /\ phase[b] \in {"none", "open", "building", "built", "failed"}
    /\ phase[b] \in {"open", "building", "built"} => Live(b)
    /\ Live(b) => Layout(Memory(b), bld[b].cap, bld[b].cap)
    /\ phase[b] = "open" => DOMAIN Memory(b) = {}
    /\ phase[b] = "building" => Building(stack, Memory(b), off, bld[b].data, bld[b].cap)
    /\ phase[b] = "built" => Tree(Memory(b), {}) /\ \A o \in DOMAIN Memory(b) : Complete(Memory(b)[o])

Apart ==
    \A a, b \in Builders : a # b /\ Live(a) /\ Live(b) => bld[a].data # bld[b].data

OneBuilding ==
    /\ \A a, b \in Builders : phase[a] = "building" /\ phase[b] = "building" => a = b
    /\ stack # <<>> <=> \E b \in Builders : phase[b] = "building"

Maps ==
    /\ bld = [b \in Builders |-> bld[b]]
    /\ mem = [x \in Blocks |-> mem[x]]
    /\ phase = [b \in Builders |-> phase[b]]
    /\ stack \in Seq(FrameSet)

\* The kernels in a builder, and a step that leaves each where it is: it
\* changes at most what the kernels of the tree being built have recorded.
Held(b) == IF Live(b) THEN Memory(b) ELSE Nothing

SameKernels ==
    \A a \in Builders : /\ DOMAIN Held(a)' = DOMAIN Held(a)
                        /\ \A o \in DOMAIN Held(a) : Held(a)'[o].id = Held(a)[o].id
                        /\ phase[a] # "building" => Held(a)' = Held(a)

KInv ==
    /\ Maps
    /\ \A b \in Builders : BuilderOK(b)
    /\ Apart
    /\ OneBuilding
    /\ FieldsReserved

-----------------------------------------------------------------------------
(* The programs of the families.                                             *)
LEMMA Families6 ==
    ASSUME NEW k \in Kinds
    PROVE  k \in {"leaf", "elwise", "tuple", "option", "srcexpr", "dstexpr"}
  BY BuilderAssumption

LEMMA Row_leaf ==
    /\ Size["leaf"] = 2 /\ Recorded["leaf"] = 0 /\ Program["leaf"] = <<"make">>
    /\ RecordsBefore["leaf"] = <<0, 0>>
  BY DEF Size, Recorded, Program, RecordsBefore

LEMMA Row_elwise ==
    /\ Size["elwise"] = 5 /\ Recorded["elwise"] = 0 /\ Program["elwise"] = <<"make", "call">>
    /\ RecordsBefore["elwise"] = <<0, 0, 0>>
  BY DEF Size, Recorded, Program, RecordsBefore

LEMMA Row_tuple ==
    /\ Size["tuple"] = 5 /\ Recorded["tuple"] = 2 /\ Program["tuple"] = <<"make", "field", "call", "field", "call">>
    /\ RecordsBefore["tuple"] = <<0, 0, 1, 1, 2, 2>>
  BY DEF Size, Recorded, Program, RecordsBefore

LEMMA Row_option ==
    /\ Size["option"] = 4 /\ Recorded["option"] = 2 /\ Program["option"] = <<"make", "call", "field", "call", "field", "call">>
    /\ RecordsBefore["option"] = <<0, 0, 0, 1, 1, 2, 2>>
  BY DEF Size, Recorded, Program, RecordsBefore

LEMMA Row_srcexpr ==
    /\ Size["srcexpr"] = 9 /\ Recorded["srcexpr"] = 2 /\ Program["srcexpr"] = <<"make", "first", "call", "buffer", "call">>
    /\ RecordsBefore["srcexpr"] = <<0, 0, 1, 1, 2, 2>>
  BY DEF Size, Recorded, Program, RecordsBefore

LEMMA Row_dstexpr ==
    /\ Size["dstexpr"] = 9 /\ Recorded["dstexpr"] = 2 /\ Program["dstexpr"] = <<"make", "first", "call", "buffer", "call">>
    /\ RecordsBefore["dstexpr"] = <<0, 0, 1, 1, 2, 2>>
  BY DEF Size, Recorded, Program, RecordsBefore

LEMMA FamilySizes ==
    ASSUME NEW k \in Kinds
    PROVE  /\ Size[k] \in Nat /\ Size[k] >= Prefix /\ Recorded[k] \in {0, 2}
           /\ Len(Program[k]) \in Nat /\ Len(Program[k]) >= 1
           /\ k \in Expressions => Recorded[k] = 2
           /\ k = "tuple" => Recorded[k] = 2
  <1>1. CASE k = "leaf"
    BY <1>1, Row_leaf DEF Prefix, Expressions
  <1>2. CASE k = "elwise"
    BY <1>2, Row_elwise DEF Prefix, Expressions
  <1>3. CASE k = "tuple"
    BY <1>3, Row_tuple DEF Prefix, Expressions
  <1>4. CASE k = "option"
    BY <1>4, Row_option DEF Prefix, Expressions
  <1>5. CASE k = "srcexpr"
    BY <1>5, Row_srcexpr DEF Prefix, Expressions
  <1>6. CASE k = "dstexpr"
    BY <1>6, Row_dstexpr DEF Prefix, Expressions
  <1> QED
    BY Families6, <1>1, <1>2, <1>3, <1>4, <1>5, <1>6

LEMMA AtMake ==
    ASSUME NEW k \in Kinds
    PROVE  /\ Program[k][1] = "make"
           /\ \A at \in 2..Len(Program[k]) : Program[k][at] # "make"
           /\ RecordsBefore[k][1] = 0 /\ RecordsBefore[k][2] = 0
           /\ 2 <= Len(Program[k]) /\ Program[k][2] = "call" <=> k \in HasHead
           /\ k \in HasHead => k \notin Expressions /\ k # "tuple"
  <1>1. CASE k = "leaf"
    BY <1>1, Row_leaf DEF HasHead, Expressions
  <1>2. CASE k = "elwise"
    BY <1>2, Row_elwise DEF HasHead, Expressions
  <1>3. CASE k = "tuple"
    BY <1>3, Row_tuple DEF HasHead, Expressions
  <1>4. CASE k = "option"
    BY <1>4, Row_option DEF HasHead, Expressions
  <1>5. CASE k = "srcexpr"
    BY <1>5, Row_srcexpr DEF HasHead, Expressions
  <1>6. CASE k = "dstexpr"
    BY <1>6, Row_dstexpr DEF HasHead, Expressions
  <1> QED
    BY Families6, <1>1, <1>2, <1>3, <1>4, <1>5, <1>6

LEMMA AtRecord ==
    ASSUME NEW k \in Kinds, NEW at \in 1..Len(Program[k]),
           Program[k][at] \in {"field", "first", "buffer"}
    PROVE  /\ at > 1 /\ at + 1 <= Len(Program[k]) /\ Program[k][at + 1] = "call"
           /\ Recorded[k] = 2 /\ RecordsBefore[k][at] \in {0, 1}
           /\ RecordsBefore[k][at + 1] = RecordsBefore[k][at] + 1
           /\ Program[k][at] = "field" => k \notin Expressions
           /\ Program[k][at] = "first" => k \in Expressions /\ at = 2 /\ RecordsBefore[k][at] = 0
           /\ Program[k][at] = "buffer" => k \in Expressions /\ at = 4 /\ RecordsBefore[k][at] = 1
           /\ k = "tuple" => Program[k][at] = "field"
           /\ k \in Expressions /\ RecordsBefore[k][at] = 1 => Program[k][at] = "buffer"
  <1>1. CASE k = "leaf"
    BY <1>1, Row_leaf DEF Expressions
  <1>2. CASE k = "elwise"
    BY <1>2, Row_elwise DEF Expressions
  <1>3. CASE k = "tuple"
    BY <1>3, Row_tuple DEF Expressions
  <1>4. CASE k = "option"
    BY <1>4, Row_option DEF Expressions
  <1>5. CASE k = "srcexpr"
    BY <1>5, Row_srcexpr DEF Expressions
  <1>6. CASE k = "dstexpr"
    BY <1>6, Row_dstexpr DEF Expressions
  <1> QED
    BY Families6, <1>1, <1>2, <1>3, <1>4, <1>5, <1>6

LEMMA AtCall ==
    ASSUME NEW k \in Kinds, NEW at \in 1..Len(Program[k]), Program[k][at] = "call"
    PROVE  /\ at > 1 /\ RecordsBefore[k][at + 1] = RecordsBefore[k][at]
           /\ at + 1 <= Len(Program[k]) => Program[k][at + 1] # "call"
           /\ k \in Expressions => at \in {3, 5}
  <1>1. CASE k = "leaf"
    BY <1>1, Row_leaf DEF Expressions
  <1>2. CASE k = "elwise"
    BY <1>2, Row_elwise DEF Expressions
  <1>3. CASE k = "tuple"
    BY <1>3, Row_tuple DEF Expressions
  <1>4. CASE k = "option"
    BY <1>4, Row_option DEF Expressions
  <1>5. CASE k = "srcexpr"
    BY <1>5, Row_srcexpr DEF Expressions
  <1>6. CASE k = "dstexpr"
    BY <1>6, Row_dstexpr DEF Expressions
  <1> QED
    BY Families6, <1>1, <1>2, <1>3, <1>4, <1>5, <1>6

LEMMA AtEnd == ASSUME NEW k \in Kinds PROVE RecordsBefore[k][Len(Program[k]) + 1] = Recorded[k]
  <1>1. CASE k = "leaf"
    BY <1>1, Row_leaf
  <1>2. CASE k = "elwise"
    BY <1>2, Row_elwise
  <1>3. CASE k = "tuple"
    BY <1>3, Row_tuple
  <1>4. CASE k = "option"
    BY <1>4, Row_option
  <1>5. CASE k = "srcexpr"
    BY <1>5, Row_srcexpr
  <1>6. CASE k = "dstexpr"
    BY <1>6, Row_dstexpr
  <1> QED
    BY Families6, <1>1, <1>2, <1>3, <1>4, <1>5, <1>6

-----------------------------------------------------------------------------
(* The words of a kernel, and the places it looks at.                        *)
LEMMA IsWord ==
    ASSUME NEW o \in Nat, NEW k, KernelOK(k), NEW w
    PROVE  w \in Words(o, k) <=>
               \/ w \in o..o + Size[k.kind] - 1
               \/ k.kind \in Expressions /\ k.kids[2] # 0 /\ w = o + k.kids[2] - 1
  <1>1. k.kind \in Kinds /\ Size[k.kind] \in Nat
    BY FamilySizes DEF KernelOK
  <1>2. CASE k.kind \in Expressions /\ k.kids[2] # 0
    <2>1. k.kids[2] \in Nat
      BY <1>1, <1>2, FamilySizes DEF KernelOK
    <2> QED
      BY <1>1, <1>2, <2>1 DEF Words, Expressions, BufferWords
  <1>3. CASE ~(k.kind \in Expressions /\ k.kids[2] # 0)
    BY <1>3 DEF Words, Expressions
  <1> QED
    BY <1>2, <1>3

LEMMA FirstWord ==
    ASSUME NEW o \in Nat, NEW k, KernelOK(k)
    PROVE  o \in Words(o, k) /\ o + Size[k.kind] - 1 \in Words(o, k)
  <1>1. k.kind \in Kinds /\ Size[k.kind] \in Nat /\ Size[k.kind] >= 2
    BY FamilySizes DEF KernelOK, Prefix
  <1> QED
    BY <1>1, IsWord

(* The sequence of places and the set of them.                               *)
LEMMA KidIs ==
    ASSUME NEW o, NEW k, NEW i
    PROVE  \/ Kid(o, k, i) = <<>> /\ ~(i <= Recorded[k.kind] /\ k.kids[i] # 0)
           \/ Kid(o, k, i) = <<o + k.kids[i]>> /\ i <= Recorded[k.kind] /\ k.kids[i] # 0
  BY DEF Kid, Children

LEMMA TwoJoined == ASSUME NEW a, NEW b PROVE <<a>> \o <<b>> = <<a, b>>
  <1> DEFINE S == {a, b}
             p == <<a>>
             q == <<b>>
             r == <<a, b>>
  <1>1. p \in Seq(S) /\ q \in Seq(S) /\ r \in Seq(S) /\ Len(p) = 1 /\ Len(q) = 1 /\ Len(r) = 2
    OBVIOUS
  <1>2. p[1] = a /\ q[1] = b /\ r[1] = a /\ r[2] = b
    OBVIOUS
  <1> HIDE DEF p, q, r
  <1>3. /\ p \o q \in Seq(S) /\ Len(p \o q) = 2
        /\ (p \o q)[1] = a /\ (p \o q)[2] = b
    BY <1>1, <1>2, ConcatProperties
  <1>4. \A i \in 1..Len(p \o q) : (p \o q)[i] = r[i]
    BY <1>2, <1>3
  <1>5. p \o q = r
    BY <1>1, <1>3, <1>4, SeqEqual
  <1> QED
    BY <1>5 DEF p, q, r

LEMMA ThreeJoined == ASSUME NEW a, NEW b, NEW c PROVE <<a, b>> \o <<c>> = <<a, b, c>>
  <1> DEFINE S == {a, b, c}
             p == <<a, b>>
             q == <<c>>
             r == <<a, b, c>>
  <1>1. p \in Seq(S) /\ q \in Seq(S) /\ r \in Seq(S) /\ Len(p) = 2 /\ Len(q) = 1 /\ Len(r) = 3
    OBVIOUS
  <1>2. p[1] = a /\ p[2] = b /\ q[1] = c /\ r[1] = a /\ r[2] = b /\ r[3] = c
    OBVIOUS
  <1> HIDE DEF p, q, r, S
  <1>3. /\ p \o q \in Seq(S) /\ Len(p \o q) = 3
        /\ (p \o q)[1] = a /\ (p \o q)[2] = b /\ (p \o q)[3] = c
    <2>1. /\ p \o q \in Seq(S) /\ Len(p \o q) = Len(p) + Len(q)
          /\ \A i \in 1..Len(p) + Len(q) : (p \o q)[i] = IF i <= Len(p) THEN p[i] ELSE q[i - Len(p)]
      BY <1>1, ConcatProperties, Zenon
    <2> QED
      BY <1>1, <1>2, <2>1
  <1>4. \A i \in 1..Len(p \o q) : (p \o q)[i] = r[i]
    BY <1>2, <1>3
  <1>5. p \o q = r
    BY <1>1, <1>3, <1>4, SeqEqual
  <1> QED
    BY <1>5 DEF p, q, r

LEMMA NoneJoined == ASSUME NEW S, NEW s \in Seq(S) PROVE <<>> \o s = s /\ s \o <<>> = s
  BY ConcatEmptySeq

(* The sequence of the places a kernel looks at.                             *)
LEMMA SlotsInFull ==
    ASSUME NEW o, NEW k, KernelOK(k)
    PROVE  LET r == Slots(o, k)
               a == o + Size[k.kind]
               b == o + k.kids[1]
               c == o + k.kids[2]
               head  == k.kind \in HasHead
               one == Recorded[k.kind] = 2 /\ k.kids[1] # 0
               two == Recorded[k.kind] = 2 /\ k.kids[2] # 0
           IN  \/ ~head /\ ~one /\ ~two /\ r = <<>>
               \/ ~head /\ one /\ ~two /\ r = <<b>>
               \/ ~head /\ one /\ two /\ r = <<b, c>>
               \/ head /\ ~one /\ ~two /\ r = <<a>>
               \/ head /\ one /\ ~two /\ r = <<a, b>>
               \/ head /\ one /\ two /\ r = <<a, b, c>>
  <1> DEFINE r == Slots(o, k)
             a == o + Size[k.kind]
             b == o + k.kids[1]
             c == o + k.kids[2]
             head  == k.kind \in HasHead
             one == Recorded[k.kind] = 2 /\ k.kids[1] # 0
             two == Recorded[k.kind] = 2 /\ k.kids[2] # 0
             s == IF head THEN <<a>> ELSE <<>>
             t == Kid(o, k, 1)
             u == Kid(o, k, 2)
  <1>1. Recorded[k.kind] \in {0, 2} /\ (two => one)
    BY FamilySizes DEF KernelOK
  <1>2. r = s \o t \o u
    BY DEF Slots
  <1>3. t = IF one THEN <<b>> ELSE <<>>
    BY <1>1 DEF Kid, Children
  <1>4. u = IF two THEN <<c>> ELSE <<>>
    BY <1>1 DEF Kid, Children
  <1>5. s = IF head THEN <<a>> ELSE <<>>
    OBVIOUS
  <1> DEFINE S == {a, b, c}
  <1>6. <<>> \in Seq(S) /\ <<a>> \in Seq(S) /\ <<b>> \in Seq(S) /\ <<c>> \in Seq(S)
        /\ <<a, b>> \in Seq(S)
    OBVIOUS
  <1> HIDE DEF r, a, b, c, head, one, two, s, t, u, S
  <1>7. s \o t = IF head THEN IF one THEN <<a, b>> ELSE <<a>> ELSE IF one THEN <<b>> ELSE <<>>
    BY <1>3, <1>5, <1>6, TwoJoined, NoneJoined
  <1>8. CASE ~two
    BY <1>2, <1>4, <1>6, <1>7, <1>8, NoneJoined DEF r, a, b, c, head, one, two
  <1>9. CASE two
    <2>1. r = IF head THEN <<a, b, c>> ELSE <<b, c>>
      BY <1>1, <1>2, <1>4, <1>7, <1>9, TwoJoined, ThreeJoined
    <2> QED
      BY <1>1, <1>9, <2>1 DEF r, a, b, c, head, one, two
  <1> QED
    BY <1>8, <1>9

(* It lists each of them once.                                               *)
LEMMA SlotsAre ==
    ASSUME NEW o \in Nat, NEW k, KernelOK(k)
    PROVE  LET r == Slots(o, k) IN
           /\ r \in Seq(Nat) /\ Len(r) <= 3
           /\ ToSet(r) = Looks(o, k)
           /\ \A i, j \in 1..Len(r) : r[i] = r[j] => i = j
           /\ Complete(k) => Len(r) = Recorded[k.kind] + (IF k.kind \in HasHead THEN 1 ELSE 0)
  <1> DEFINE r == Slots(o, k)
             a == o + Size[k.kind]
             b == o + k.kids[1]
             c == o + k.kids[2]
             head  == k.kind \in HasHead
             one == Recorded[k.kind] = 2 /\ k.kids[1] # 0
             two == Recorded[k.kind] = 2 /\ k.kids[2] # 0
  <1>1. /\ k.kind \in Kinds /\ Recorded[k.kind] \in {0, 2} /\ a \in Nat
        /\ one => b \in Nat
        /\ two => c \in Nat /\ b < c
        /\ head /\ one => a < b
        /\ head /\ two => a < c
    <2>1. k.kind \in Kinds /\ Recorded[k.kind] \in {0, 2} /\ Size[k.kind] \in Nat
      BY FamilySizes DEF KernelOK
    <2>2. Recorded[k.kind] = 2 =>
              /\ k.kids[1] \in Nat /\ k.kids[2] \in Nat
              /\ k.kids[2] # 0 => k.kids[1] < k.kids[2]
              /\ k.kind \in HasHead /\ k.kids[1] # 0 => k.kids[1] > Size[k.kind]
              /\ k.kind \in HasHead /\ k.kids[2] # 0 => k.kids[2] > Size[k.kind]
      BY DEF KernelOK
    <2> QED
      BY <2>1, <2>2
  <1>2. \/ ~head /\ ~one /\ ~two /\ r = <<>>
        \/ ~head /\ one /\ ~two /\ r = <<b>>
        \/ ~head /\ one /\ two /\ r = <<b, c>>
        \/ head /\ ~one /\ ~two /\ r = <<a>>
        \/ head /\ one /\ ~two /\ r = <<a, b>>
        \/ head /\ one /\ two /\ r = <<a, b, c>>
    BY SlotsInFull
  <1>3. Looks(o, k) = (IF head THEN {a} ELSE {}) \cup (IF one THEN {b} ELSE {})
                          \cup (IF two THEN {c} ELSE {})
    BY <1>1 DEF Looks
  <1>4. Complete(k) <=> Recorded[k.kind] = 0 \/ (one /\ two)
    BY <1>1 DEF Complete
  <1>5. one \/ two => Recorded[k.kind] = 2
    OBVIOUS
  <1> HIDE DEF r, a, b, c, head, one, two
  <1>6. r \in Seq(Nat) /\ Len(r) <= 3 /\ \A i, j \in 1..Len(r) : r[i] = r[j] => i = j
    <2>1. CASE r = <<>>
      BY <2>1
    <2>2. CASE head /\ ~one /\ r = <<a>>
      BY <1>1, <2>2
    <2>3. CASE one /\ r = <<b>>
      BY <1>1, <2>3
    <2>4. CASE head /\ one /\ r = <<a, b>>
      <3>1. r \in Seq(Nat) /\ Len(r) = 2 /\ r[1] = a /\ r[2] = b
        BY <1>1, <2>4
      <3> QED
        BY <1>1, <2>4, <3>1
    <2>5. CASE one /\ two /\ r = <<b, c>>
      <3>1. r \in Seq(Nat) /\ Len(r) = 2 /\ r[1] = b /\ r[2] = c
        BY <1>1, <2>5
      <3> QED
        BY <1>1, <2>5, <3>1
    <2>6. CASE head /\ one /\ two /\ r = <<a, b, c>>
      <3>1. r \in Seq(Nat) /\ Len(r) = 3 /\ r[1] = a /\ r[2] = b /\ r[3] = c
        BY <1>1, <2>6
      <3>2. a < b /\ b < c /\ a < c /\ a \in Nat /\ b \in Nat /\ c \in Nat
        BY <1>1, <2>6
      <3> QED
        BY <3>1, <3>2
    <2> QED
      BY <1>2, <2>1, <2>2, <2>3, <2>4, <2>5, <2>6
  <1>7. ToSet(r) = Looks(o, k)
    BY <1>2, <1>3 DEF ToSet
  <1>8. Complete(k) => Len(r) = Recorded[k.kind] + (IF head THEN 1 ELSE 0)
    <2>1. CASE ~one /\ ~two
      <3>1. r = IF head THEN <<a>> ELSE <<>>
        BY <1>2, <2>1
      <3> QED
        BY <1>4, <2>1, <3>1
    <2>2. CASE one /\ ~two
      BY <1>4, <1>5, <2>2
    <2>3. CASE one /\ two
      <3>1. r = IF head THEN <<a, b, c>> ELSE <<b, c>>
        BY <1>2, <2>3
      <3> QED
        BY <1>5, <2>3, <3>1
    <2> QED
      BY <1>2, <2>1, <2>2, <2>3
  <1> QED
    BY <1>6, <1>7, <1>8 DEF r, head

-----------------------------------------------------------------------------
(* Sequences of frames.                                                      *)
Advance(stk, p) == [stk EXCEPT ![Len(stk)].at = @ + 1, ![Len(stk)].self = p]

LEMMA FrameIs ==
    ASSUME NEW f \in FrameSet
    PROVE  /\ f.kind \in Kinds /\ f.root \in Nat /\ f.at \in Nat
           /\ f.self \in Blocks \cup {NULL}
           /\ f = [kind |-> f.kind, root |-> f.root, at |-> f.at, self |-> f.self]
  BY DEF FrameSet

LEMMA TopIs ==
    ASSUME NEW stk \in Seq(FrameSet), stk # <<>>
    PROVE  /\ Len(stk) \in Nat /\ Len(stk) >= 1
           /\ \A i \in 1..Len(stk) : stk[i] \in FrameSet
           /\ Len(stk) = 1 \/ Len(stk) > 1
  <1>1. Len(stk) \in Nat /\ Len(stk) # 0
    BY EmptySeq, LenProperties
  <1>2. \A l \in Nat : l # 0 => l = 1 \/ l > 1
    OBVIOUS
  <1>3. Len(stk) = 1 \/ Len(stk) > 1
    BY <1>1, <1>2, Zenon
  <1> QED
    BY <1>1, <1>3, ElementOfSeq

LEMMA AdvanceIs ==
    ASSUME NEW stk \in Seq(FrameSet), stk # <<>>, NEW p \in Blocks \cup {NULL}
    PROVE  LET L   == Len(stk)
               f   == stk[L]
               new == Advance(stk, p)
           IN  /\ new \in Seq(FrameSet) /\ Len(new) = L
               /\ \A i \in 1..L - 1 : new[i] = stk[i]
               /\ new[L] = [kind |-> f.kind, root |-> f.root, at |-> f.at + 1, self |-> p]
               /\ new[L].kind = f.kind /\ new[L].root = f.root /\ new[L].at = f.at + 1
               /\ new[L].self = p
  <1> DEFINE L   == Len(stk)
             f   == stk[L]
             new == Advance(stk, p)
             e   == [kind |-> f.kind, root |-> f.root, at |-> f.at + 1, self |-> p]
  <1>1. L \in Nat /\ L >= 1 /\ f \in FrameSet
    BY TopIs
  <1>2. e \in FrameSet
    BY <1>1, FrameIs DEF FrameSet
  <1>3. DOMAIN stk = 1..L /\ L \in DOMAIN stk
    BY <1>1, LenProperties
  <1>4. [f EXCEPT !.at = @ + 1, !.self = p] = e
    <2>1. f = [kind |-> f.kind, root |-> f.root, at |-> f.at, self |-> f.self]
      BY <1>1, FrameIs
    <2> DEFINE g == [kind |-> f.kind, root |-> f.root, at |-> f.at + 1, self |-> f.self]
    <2>2. [f EXCEPT !.at = @ + 1, !.self = p] = [[f EXCEPT !.at = @ + 1] EXCEPT !.self = p]
      OBVIOUS
    <2>3. [f EXCEPT !.at = @ + 1] = g
      <3>1. [[kind |-> f.kind, root |-> f.root, at |-> f.at, self |-> f.self]
                EXCEPT !.at = @ + 1] = g
        OBVIOUS
      <3> HIDE DEF f, g
      <3> QED
        BY <2>1, <3>1
    <2>4. [g EXCEPT !.self = p] = e
      OBVIOUS
    <2> HIDE DEF f, e, g
    <2> QED
      BY <2>2, <2>3, <2>4
  <1>5. new = [stk EXCEPT ![L] = e]
    BY <1>3, <1>4 DEF Advance
  <1> HIDE DEF new, e
  <1>6. new \in Seq(FrameSet) /\ Len(new) = L
        /\ \A i \in 1..L : new[i] = IF i = L THEN e ELSE stk[i]
    BY <1>1, <1>2, <1>5, ExceptSeq
  <1>7. new[L] = e /\ \A i \in 1..L - 1 : new[i] = stk[i]
    BY <1>1, <1>6
  <1> QED
    BY <1>6, <1>7 DEF new, e

-----------------------------------------------------------------------------
(* Layouts and frames.                                                       *)
LEMMA LayoutGrows ==
    ASSUME NEW m, NEW n \in Int, NEW z \in Nat, NEW n2 \in Int, NEW z2 \in Nat, n <= n2, z <= z2,
           Layout(m, n, z)
    PROVE  Layout(m, n2, z2)
  <1>1. 0..n - 1 \subseteq 0..n2 - 1
    OBVIOUS
  <1>2. ASSUME NEW o \in DOMAIN m, m[o].kind = "tuple", NEW i \in 1..2
        PROVE  o + m[o].kids[i] + Prefix <= z2
    <2>1. o \in Nat /\ KernelOK(m[o]) /\ o + m[o].kids[i] + Prefix <= z
      BY <1>2 DEF Layout
    <2>2. m[o].kids[i] \in Nat
      BY <1>2, <2>1, FamilySizes DEF KernelOK
    <2> QED
      BY <2>1, <2>2 DEF Prefix
  <1> QED
    BY <1>1, <1>2 DEF Layout

LEMMA Below ==
    ASSUME NEW m, NEW n \in Nat, NEW z, Layout(m, n, z), NEW o \in DOMAIN m
    PROVE  /\ o \in Nat /\ KernelOK(m[o]) /\ m[o].kind \in Kinds
           /\ Size[m[o].kind] \in Nat /\ Size[m[o].kind] >= 2
           /\ o < n /\ o + Size[m[o].kind] <= n
  <1>1. o \in Nat /\ KernelOK(m[o]) /\ Words(o, m[o]) \subseteq 0..n - 1
    BY DEF Layout
  <1>2. m[o].kind \in Kinds /\ Size[m[o].kind] \in Nat /\ Size[m[o].kind] >= 2
    BY <1>1, FamilySizes DEF KernelOK, Prefix
  <1>3. o \in 0..n - 1 /\ o + Size[m[o].kind] - 1 \in 0..n - 1
    BY <1>1, FirstWord
  <1> QED
    BY <1>1, <1>2, <1>3

LEMMA RootBelow ==
    ASSUME NEW stk \in Seq(FrameSet), stk # <<>>, NEW m, NEW n \in Nat, NEW z, Layout(m, n, z),
           Frames(stk, m, n), NEW i \in 1..Len(stk), stk[i].at # 1
    PROVE  /\ stk[i].at > 1 /\ stk[i].root \in DOMAIN m /\ stk[i].root < n
           /\ m[stk[i].root].kind = stk[i].kind
  <1>1. stk[i] \in FrameSet
    BY TopIs
  <1>2. FrameOK(stk[i], m)
    BY DEF Frames
  <1>3. stk[i].at \in Nat /\ stk[i].at >= 1
    BY <1>1, <1>2, FrameIs DEF FrameOK
  <1> QED
    BY <1>2, <1>3, Below DEF FrameOK

(* A function that waits has placed its kernel.                              *)
LEMMA WaitingIs ==
    ASSUME NEW f \in FrameSet, NEW m, FrameOK(f, m), Waits(f)
    PROVE  /\ f.at # 1 /\ ~AboutToCall(f)
           /\ f.kind \in Expressions => f.at \in {4, 6}
  <1>1. f.kind \in Kinds /\ f.at \in Nat /\ f.at > 1 /\ f.at - 1 \in 1..Len(Program[f.kind])
    BY FrameIs, FamilySizes DEF Waits, FrameOK
  <1>2. Program[f.kind][f.at - 1] = "call"
    BY DEF Waits
  <1>3. (f.at - 1) + 1 = f.at
    BY <1>1
  <1>4. f.kind \in Expressions => f.at - 1 \in {3, 5}
    BY <1>1, <1>2, AtCall
  <1>5. f.at <= Len(Program[f.kind]) => Program[f.kind][f.at] # "call"
    BY <1>1, <1>2, <1>3, AtCall
  <1> QED
    BY <1>1, <1>4, <1>5 DEF AboutToCall

-----------------------------------------------------------------------------
(* base_kernel::make and alloc_ck.                                           *)
LEMMA PlaceKernel ==
    ASSUME NEW stk \in Seq(FrameSet), stk # <<>>, NEW m, NEW n, NEW data, NEW cap \in Nat,
           Building(stk, m, n, data, cap),
           NEW f, f = stk[Len(stk)], f.at = 1,
           NEW id, NEW k, k = [kind |-> f.kind, kids |-> [i \in 1..Recorded[f.kind] |-> 0], id |-> id],
           NEW cap2 \in Nat, cap <= cap2, n + Size[f.kind] <= cap2,
           NEW d2 \in Blocks \cup {NULL}
    PROVE  Building(Advance(stk, d2), Placed(m, f.root, k), n + Size[f.kind], d2, cap2)
  <1> DEFINE L    == Len(stk)
             size == Size[f.kind]
             stk2 == Advance(stk, d2)
             m2   == Placed(m, f.root, k)
  <1>1. /\ n \in Nat /\ n <= cap /\ Layout(m, n, cap) /\ Frames(stk, m, n)
        /\ Tree(m, Pending(stk, n))
    BY DEF Building
  <1>2. L \in Nat /\ L >= 1 /\ f \in FrameSet /\ f.kind \in Kinds /\ size \in Nat /\ size >= 2
    BY TopIs, FrameIs, FamilySizes DEF Prefix
  <1>3. /\ stk2 \in Seq(FrameSet) /\ Len(stk2) = L
        /\ \A i \in 1..L - 1 : stk2[i] = stk[i]
        /\ stk2[L].kind = f.kind /\ stk2[L].root = f.root /\ stk2[L].at = 2 /\ stk2[L].self = d2
    <2>1. f.at + 1 = 2
      OBVIOUS
    <2> QED
      BY <2>1, AdvanceIs
  <1>4. f.root = n /\ FrameOK(f, m)
    BY <1>1, <1>2 DEF Frames
  <1>5. \A o \in DOMAIN m : o \in Nat /\ o < n
    BY <1>1, Below
  <1>6. /\ DOMAIN m2 = DOMAIN m \cup {n} /\ m2[n] = k
        /\ \A o \in DOMAIN m : m2[o] = m[o]
        /\ m2 = [o \in DOMAIN m2 |-> m2[o]]
    BY <1>1, <1>4, <1>5 DEF Placed
  <1>7. /\ k.kind = f.kind /\ k.kids = [i \in 1..Recorded[f.kind] |-> 0]
        /\ k = [kind |-> k.kind, kids |-> k.kids, id |-> k.id]
    OBVIOUS
  <1> HIDE DEF stk2, m2, size
  <1>8. KernelOK(k)
    BY <1>2, <1>7, FamilySizes DEF KernelOK
  <1>9. \A w : w \in Words(n, k) <=> w \in n..n + size - 1
    <2>1. k.kind \in Expressions => k.kids[2] = 0
      BY <1>2, <1>7, FamilySizes
    <2> QED
      BY <1>1, <1>7, <1>8, <2>1, IsWord DEF size
  <1>10. Looks(n, k) = IF f.kind \in HasHead THEN {n + size} ELSE {}
    BY <1>7 DEF Looks, size
  <1>11. Layout(m2, n + size, cap2)
    <2>1. ASSUME NEW o \in DOMAIN m2
          PROVE  /\ o \in Nat /\ KernelOK(m2[o])
                 /\ Words(o, m2[o]) \subseteq 0..(n + size) - 1
                 /\ m2[o].kind = "tuple" => \A i \in 1..2 : o + m2[o].kids[i] + Prefix <= cap2
      <3>1. CASE o = n
        <4>1. m2[o].kind = "tuple" => \A i \in 1..2 : m2[o].kids[i] = 0
          <5>1. f.kind = "tuple" => Recorded[f.kind] = 2
            BY Row_tuple
          <5>2. m2[o] = k
            BY <1>6, <3>1
          <5> HIDE DEF m2
          <5> QED
            BY <1>7, <5>1, <5>2
        <4>2. n + Prefix <= cap2
          BY <1>1, <1>2 DEF Prefix, size
        <4> QED
          <5>1. m2[o] = k /\ o \in Nat
            BY <1>1, <1>6, <3>1
          <5>2. Words(n, k) \subseteq 0..(n + size) - 1
            <6>1. n..n + size - 1 \subseteq 0..(n + size) - 1
              BY <1>1, <1>2
            <6> QED
              BY <1>9, <6>1
          <5>3. m2[o].kind = "tuple" => \A i \in 1..2 : o + m2[o].kids[i] + Prefix <= cap2
            BY <1>1, <3>1, <4>1, <4>2 DEF Prefix
          <5> QED
            BY <1>8, <3>1, <5>1, <5>2, <5>3
      <3>2. CASE o # n
        <4>1. o \in DOMAIN m /\ m2[o] = m[o]
          BY <1>6, <3>2
        <4>2. Layout(m, n + size, cap2)
          BY <1>1, <1>2, LayoutGrows
        <4> QED
          BY <4>1, <4>2 DEF Layout
      <3> QED
        BY <3>1, <3>2
    <2>2. ASSUME NEW o \in DOMAIN m PROVE Words(o, m[o]) \cap Words(n, k) = {}
      <3>1. Words(o, m[o]) \subseteq 0..n - 1
        BY <1>1 DEF Layout
      <3>2. \A w \in Words(o, m[o]) : w \notin n..n + size - 1
        BY <1>1, <3>1
      <3>3. \A w \in Words(o, m[o]) : w \notin Words(n, k)
        BY <1>9, <3>2
      <3> QED
        BY <3>3
    <2>3. ASSUME NEW o \in DOMAIN m2, NEW q \in DOMAIN m2, o # q
          PROVE  Words(o, m2[o]) \cap Words(q, m2[q]) = {}
      <3>1. CASE o = n
        BY <1>6, <2>2, <2>3, <3>1
      <3>2. CASE q = n
        BY <1>6, <2>2, <2>3, <3>2
      <3>3. CASE o # n /\ q # n
        BY <1>1, <1>6, <2>3, <3>3 DEF Layout
      <3> QED
        BY <3>1, <3>2, <3>3
    <2> QED
      BY <1>6, <2>1, <2>3 DEF Layout
  <1>12. Frames(stk2, m2, n + size)
    <2>1. ASSUME NEW i \in 1..L PROVE FrameOK(stk2[i], m2)
      <3>1. CASE i = L
        <4>1. 2 \in 1..Len(Program[f.kind]) + 1
          BY <1>2, FamilySizes
        <4>2. \A j \in 1..Recorded[f.kind] : k.kids[j] # 0 <=> j <= RecordsBefore[f.kind][2]
          BY <1>2, <1>7, AtMake, FamilySizes
        <4>3. stk2[i].root = n /\ stk2[i].kind = f.kind /\ stk2[i].at = 2
          BY <1>3, <1>4, <3>1
        <4>4. n \in DOMAIN m2 /\ m2[n] = k
          BY <1>6
        <4>5. m2[n].kind = f.kind
          BY <1>7, <4>4
        <4>6. \A j \in 1..Recorded[f.kind] : m2[n].kids[j] # 0 <=> j <= RecordsBefore[f.kind][2]
          BY <4>2, <4>4
        <4> QED
          BY <4>1, <4>3, <4>4, <4>5, <4>6 DEF FrameOK
      <3>2. CASE i # L
        <4>1. i \in 1..L - 1 /\ stk2[i] = stk[i] /\ FrameOK(stk[i], m)
          BY <1>1, <1>2, <1>3, <3>2 DEF Frames
        <4> QED
          BY <1>6, <4>1 DEF FrameOK
      <3> QED
        BY <3>1, <3>2
    <2>2. ASSUME NEW i \in 1..L PROVE stk2[i].root = stk[i].root
      <3>1. CASE i = L
        BY <1>3, <3>1
      <3>2. CASE i # L
        <4>1. i \in 1..L - 1
          BY <1>2, <3>2
        <4> QED
          BY <1>3, <4>1
      <3> QED
        BY <3>1, <3>2
    <2>3. \A i \in 1..L - 1 : Waits(stk2[i])
      BY <1>1, <1>3 DEF Frames
    <2>4. \A i, j \in 1..L : i < j => stk2[i].root < stk2[j].root
      BY <1>1, <2>2 DEF Frames
    <2>5. ~(L = 1 /\ stk2[1].at = 1) /\ stk2[L].at # 1
      BY <1>3
    <2>6. \A o \in DOMAIN m2 : Complete(m2[o]) \/ \E i \in 1..L : stk2[i].root = o
      <3> SUFFICES ASSUME NEW o \in DOMAIN m2
                   PROVE  Complete(m2[o]) \/ \E i \in 1..L : stk2[i].root = o
        OBVIOUS
      <3>1. CASE o = n
        BY <1>2, <1>3, <1>4, <3>1
      <3>2. CASE o # n
        BY <1>1, <1>6, <2>2, <3>2 DEF Frames
      <3> QED
        BY <3>1, <3>2
    <2> QED
      BY <1>3, <2>1, <2>3, <2>4, <2>5, <2>6 DEF Frames
  <1>13. Pending(stk2, n + size) = Looks(n, k)
    <2>1. AboutToCall(stk2[L]) <=> f.kind \in HasHead
      BY <1>2, <1>3, AtMake DEF AboutToCall
    <2> QED
      BY <1>3, <1>10, <2>1 DEF Pending
  <1>14. Tree(m2, Looks(n, k))
    <2>1. CASE L > 1
      <3>1. Pending(stk, n) = {n}
        BY <2>1 DEF Pending
      <3>2. n # 0
        <4>1. stk[1].root < stk[L].root
          BY <1>1, <1>2, <2>1 DEF Frames
        <4>2. stk[1].root \in Nat
          BY <1>2, TopIs, FrameIs
        <4> QED
          BY <1>4, <4>1, <4>2
      <3>3. (DOMAIN m2 \ {0}) = (DOMAIN m \ {0}) \cup Pending(stk, n)
        BY <1>6, <3>1, <3>2
      <3>4. \A o \in DOMAIN m : n + size \notin Looks(o, m[o])
        BY <1>1, <1>2, <1>5, <3>1 DEF Tree
      <3>5. \A o \in DOMAIN m : Looks(o, m[o]) \cap Looks(n, k) = {}
        BY <1>10, <3>4
      <3>6. ASSUME NEW o \in DOMAIN m2, NEW q \in DOMAIN m2, o # q
            PROVE  Looks(o, m2[o]) \cap Looks(q, m2[q]) = {}
        <4>1. CASE o = n
          BY <1>6, <3>5, <3>6, <4>1
        <4>2. CASE q = n
          BY <1>6, <3>5, <3>6, <4>2
        <4>3. CASE o # n /\ q # n
          BY <1>1, <1>6, <3>6, <4>3 DEF Tree
        <4> QED
          BY <4>1, <4>2, <4>3
      <3>7. \A o \in DOMAIN m2 : Looks(o, m2[o]) \subseteq (DOMAIN m2 \ {0}) \cup Looks(n, k)
        BY <1>1, <1>6, <3>3 DEF Tree
      <3>8. \A p \in (DOMAIN m2 \ {0}) \cup Looks(n, k) : \E o \in DOMAIN m2 : p \in Looks(o, m2[o])
        BY <1>1, <1>6, <3>3 DEF Tree
      <3> QED
        BY <3>6, <3>7, <3>8 DEF Tree
    <2>2. CASE L = 1
      <3>1. n = 0 /\ DOMAIN m = {}
        BY <1>1, <2>2 DEF Frames
      <3> QED
        BY <1>6, <3>1 DEF Tree
    <2>3. L = 1 \/ L > 1
      BY TopIs
    <2> QED
      BY <2>1, <2>2, <2>3
  <1>15. n + size \in Nat /\ n + size <= cap2
    BY <1>1, <1>2 DEF size
  <1>16. Pointer(stk2[Len(stk2)], d2)
    BY <1>3 DEF Pointer
  <1>17. Building(stk2, m2, n + size, d2, cap2)
    BY <1>11, <1>12, <1>13, <1>14, <1>15, <1>16 DEF Building
  <1> QED
    BY <1>17 DEF stk2, m2, size

-----------------------------------------------------------------------------
(* The kernel of the innermost frame records its next child.                 *)
WithKid(k, j, v) == [k EXCEPT !.kids[j] = v]

LEMMA WithKidIs ==
    ASSUME NEW o \in Nat, NEW k, KernelOK(k), Recorded[k.kind] = 2,
           NEW j \in 1..2, NEW v \in Nat, v # 0,
           NEW k2, k2 = WithKid(k, j, v)
    PROVE  /\ k2 = [kind |-> k.kind, kids |-> [k.kids EXCEPT ![j] = v], id |-> k.id]
           /\ k2.kind = k.kind /\ k2.id = k.id /\ k2.kids = [k.kids EXCEPT ![j] = v]
           /\ k.kids \in [1..2 -> Nat] /\ k2.kids \in [1..2 -> Nat] /\ k2.kids[j] = v
           /\ \A i \in 1..2 : i # j => k2.kids[i] = k.kids[i]
           /\ k.kids[j] = 0 => Looks(o, k2) = Looks(o, k) \cup {o + v}
  <1> DEFINE kids2 == [k.kids EXCEPT ![j] = v]
  <1>1. k.kids \in [1..2 -> Nat] /\ k = [kind |-> k.kind, kids |-> k.kids, id |-> k.id]
    BY DEF KernelOK
  <1>2. kids2 \in [1..2 -> Nat] /\ kids2[j] = v /\ \A i \in 1..2 : i # j => kids2[i] = k.kids[i]
    BY <1>1
  <1>3. k2 = [k EXCEPT !.kids = kids2]
    BY DEF WithKid
  <1> HIDE DEF kids2
  <1>4. k2 = [kind |-> k.kind, kids |-> kids2, id |-> k.id]
    <2>1. [[kind |-> k.kind, kids |-> k.kids, id |-> k.id] EXCEPT !.kids = kids2]
              = [kind |-> k.kind, kids |-> kids2, id |-> k.id]
      OBVIOUS
    <2> QED
      BY <1>1, <1>3, <2>1, Zenon
  <1>5. k2.kind = k.kind /\ k2.id = k.id /\ k2.kids = kids2
    BY <1>4
  <1>6. ASSUME k.kids[j] = 0 PROVE Looks(o, k2) = Looks(o, k) \cup {o + v}
    <2> DEFINE I  == {i \in 1..2 : k.kids[i] # 0}
               I2 == {i \in 1..2 : kids2[i] # 0}
    <2>1. I2 = I \cup {j} /\ j \notin I
      BY <1>2, <1>6
    <2>2. {o + kids2[i] : i \in I2} = {o + k.kids[i] : i \in I} \cup {o + v}
      <3>1. \A i \in I : kids2[i] = k.kids[i]
        BY <1>2, <2>1
      <3> HIDE DEF I, I2
      <3> QED
        BY <1>2, <2>1, <3>1
    <2>3. \A x : Recorded[x.kind] = 2 =>
              Looks(o, x) = (IF x.kind \in HasHead THEN {o + Size[x.kind]} ELSE {})
                                \cup {o + x.kids[i] : i \in {h \in 1..2 : x.kids[h] # 0}}
      BY DEF Looks
    <2>4. Looks(o, k) = (IF k.kind \in HasHead THEN {o + Size[k.kind]} ELSE {})
                            \cup {o + k.kids[i] : i \in I}
      BY <2>3
    <2>5. Looks(o, k2) = (IF k.kind \in HasHead THEN {o + Size[k.kind]} ELSE {})
                             \cup {o + kids2[i] : i \in I2}
      <3>1. Recorded[k2.kind] = 2
        BY <1>5
      <3>2. Looks(o, k2) = (IF k2.kind \in HasHead THEN {o + Size[k2.kind]} ELSE {})
                               \cup {o + k2.kids[i] : i \in {h \in 1..2 : k2.kids[h] # 0}}
        BY <2>3, <3>1
      <3> QED
        BY <1>5, <3>2
    <2> HIDE DEF I, I2
    <2> QED
      BY <2>2, <2>4, <2>5
  <1> QED
    BY <1>1, <1>2, <1>4, <1>5, <1>6 DEF kids2

\* Frame f records, in memory m filled up to n, that its next child lies behind
\* g words of buffer.
Records(f, m, n, g, m2, cap2) ==
    LET s == Program[f.kind][f.at]
        j == RecordsBefore[f.kind][f.at] + 1
    IN  /\ f.at <= Len(Program[f.kind]) /\ s \in {"field", "first", "buffer"}
        /\ g = IF s = "buffer" THEN BufferWords ELSE 0
        /\ m2 = [m EXCEPT ![f.root] = WithKid(m[f.root], j, (n + g) - f.root)]
        /\ n + g <= cap2
        /\ s = "field" => n + Prefix <= cap2

LEMMA Distance ==
    ASSUME NEW r \in Nat, NEW size \in Nat, NEW n \in Nat, NEW g \in Nat, size >= 2, r + size <= n
    PROVE  LET v == (n + g) - r IN v \in Nat /\ v >= size /\ v # 0 /\ r + v = n + g
  OBVIOUS

LEMMA RecordChild ==
    ASSUME NEW stk \in Seq(FrameSet), stk # <<>>, NEW m, NEW n, NEW data, NEW cap \in Nat,
           Building(stk, m, n, data, cap),
           NEW f, f = stk[Len(stk)],
           NEW g, NEW m2, NEW cap2 \in Nat, cap <= cap2, Records(f, m, n, g, m2, cap2),
           NEW d2 \in Blocks \cup {NULL}
    PROVE  Building(Advance(stk, d2), m2, n + g, d2, cap2)
  <1> DEFINE L    == Len(stk)
             s    == Program[f.kind][f.at]
             j    == RecordsBefore[f.kind][f.at] + 1
             r    == f.root
             k    == m[r]
             v    == (n + g) - r
             k2   == m2[r]
             stk2 == Advance(stk, d2)
  <1>1. /\ n \in Nat /\ n <= cap /\ Layout(m, n, cap) /\ Frames(stk, m, n)
        /\ Tree(m, Pending(stk, n))
    BY DEF Building
  <1>2. /\ L \in Nat /\ L >= 1 /\ f \in FrameSet /\ f.kind \in Kinds /\ f.at \in Nat
        /\ FrameOK(f, m)
    BY <1>1, TopIs, FrameIs DEF Frames
  <1>3. f.at \in 1..Len(Program[f.kind])
    BY <1>2, FamilySizes DEF FrameOK, Records
  <1>4. /\ f.at > 1 /\ f.at + 1 <= Len(Program[f.kind]) /\ Program[f.kind][f.at + 1] = "call"
        /\ Recorded[f.kind] = 2 /\ j \in 1..2 /\ RecordsBefore[f.kind][f.at] \in {0, 1}
        /\ RecordsBefore[f.kind][f.at + 1] = j
        /\ f.kind = "tuple" => s = "field"
        /\ f.kind \in Expressions /\ j = 2 => s = "buffer"
        /\ s = "buffer" => f.kind \in Expressions /\ j = 2
        /\ g \in Nat /\ (g = IF s = "buffer" THEN 1 ELSE 0)
    <2> DEFINE p == Program[f.kind]
               b == RecordsBefore[f.kind]
    <2>1. /\ f.at > 1 /\ f.at + 1 <= Len(p) /\ p[f.at + 1] = "call"
          /\ Recorded[f.kind] = 2 /\ b[f.at] \in {0, 1}
          /\ b[f.at + 1] = b[f.at] + 1
          /\ p[f.at] = "first" => b[f.at] = 0
          /\ p[f.at] = "buffer" => f.kind \in Expressions /\ b[f.at] = 1
          /\ f.kind = "tuple" => p[f.at] = "field"
          /\ f.kind \in Expressions /\ b[f.at] = 1 => p[f.at] = "buffer"
      <3>1. p[f.at] \in {"field", "first", "buffer"}
        BY DEF Records
      <3>2. f.kind \in Kinds
        BY <1>2
      <3>3. /\ f.at > 1 /\ f.at + 1 <= Len(p) /\ p[f.at + 1] = "call"
            /\ Recorded[f.kind] = 2 /\ b[f.at] \in {0, 1}
            /\ b[f.at + 1] = b[f.at] + 1
        BY <1>3, <3>1, <3>2, AtRecord, Zenon
      <3>4. /\ p[f.at] = "first" => b[f.at] = 0
            /\ p[f.at] = "buffer" => f.kind \in Expressions /\ b[f.at] = 1
            /\ f.kind = "tuple" => p[f.at] = "field"
            /\ f.kind \in Expressions /\ b[f.at] = 1 => p[f.at] = "buffer"
        BY <1>3, <3>1, <3>2, AtRecord
      <3> QED
        BY <3>3, <3>4, Zenon
    <2>2. s = p[f.at] /\ j = b[f.at] + 1
      OBVIOUS
    <2> HIDE DEF p, b
    <2>3. j \in 1..2 /\ (j = 2 <=> b[f.at] = 1)
      BY <2>1, <2>2
    <2>4. g \in Nat /\ (g = IF s = "buffer" THEN 1 ELSE 0)
      BY DEF BufferWords, Records
    <2> QED
      BY <2>1, <2>2, <2>3, <2>4 DEF p, b
  <1> HIDE DEF s, j
  <1>5. /\ stk2 \in Seq(FrameSet) /\ Len(stk2) = L
        /\ \A i \in 1..L - 1 : stk2[i] = stk[i]
        /\ stk2[L].kind = f.kind /\ stk2[L].root = r /\ stk2[L].at = f.at + 1 /\ stk2[L].self = d2
    BY AdvanceIs
  <1>6. /\ r \in DOMAIN m /\ k.kind = f.kind /\ r \in Nat /\ KernelOK(k)
        /\ Size[f.kind] \in Nat /\ Size[f.kind] >= 2 /\ r + Size[f.kind] <= n
    BY <1>1, <1>2, <1>4, Below DEF FrameOK
  <1>7. v \in Nat /\ v >= Size[f.kind] /\ v # 0 /\ r + v = n + g
    <2>1. r + Size[f.kind] <= n /\ r \in Nat /\ Size[f.kind] \in Nat /\ Size[f.kind] >= 2
      BY <1>6
    <2>2. n \in Nat /\ g \in Nat
      BY <1>1, <1>4
    <2> DEFINE size == Size[f.kind]
    <2> HIDE DEF r, size
    <2>3. v \in Nat /\ v >= size /\ v # 0 /\ r + v = n + g
      BY <2>1, <2>2, Distance DEF size
    <2> QED
      BY <2>3 DEF size
  <1>8. k.kids \in [1..2 -> Nat] /\ \A i \in 1..2 : k.kids[i] # 0 <=> i < j
    <2>1. k.kids \in [1..2 -> Nat]
      BY <1>4, <1>6 DEF KernelOK
    <2>2. \A i \in 1..2 : k.kids[i] # 0 <=> i <= RecordsBefore[f.kind][f.at]
      BY <1>2, <1>4 DEF FrameOK
    <2> DEFINE c == RecordsBefore[f.kind][f.at]
    <2>3. j = c + 1 /\ c \in {0, 1}
      BY <1>4 DEF j
    <2> HIDE DEF c
    <2>4. \A i \in 1..2 : i <= c <=> i < j
      BY <2>3
    <2> QED
      BY <2>1, <2>2, <2>4 DEF c
  <1>9. /\ DOMAIN m2 = DOMAIN m /\ m2 = [o \in DOMAIN m2 |-> m2[o]]
        /\ \A o \in DOMAIN m : o # r => m2[o] = m[o]
        /\ k2 = WithKid(k, j, v)
    BY <1>1, <1>6 DEF Layout, Records, j
  <1> HIDE DEF k, k2, v, stk2, r
  <1>10. /\ k2 = [kind |-> k2.kind, kids |-> k2.kids, id |-> k2.id] /\ k2.kind = f.kind
         /\ k2.kids \in [1..2 -> Nat] /\ k2.kids[j] = v
         /\ \A i \in 1..2 : i # j => k2.kids[i] = k.kids[i]
         /\ Looks(r, k2) = Looks(r, k) \cup {n + g}
    <2>1. /\ k2 = [kind |-> k.kind, kids |-> [k.kids EXCEPT ![j] = v], id |-> k.id]
          /\ k2.kind = k.kind /\ k2.id = k.id /\ k2.kids = [k.kids EXCEPT ![j] = v]
          /\ k.kids \in [1..2 -> Nat] /\ k2.kids \in [1..2 -> Nat] /\ k2.kids[j] = v
          /\ \A i \in 1..2 : i # j => k2.kids[i] = k.kids[i]
          /\ k.kids[j] = 0 => Looks(r, k2) = Looks(r, k) \cup {r + v}
      <3>1. Recorded[k.kind] = 2
        BY <1>4, <1>6
      <3>2. k2 = WithKid(k, j, v)
        BY <1>9
      <3>3. r \in Nat /\ KernelOK(k) /\ j \in 1..2 /\ v \in Nat /\ v # 0
        BY <1>4, <1>6, <1>7
      <3> HIDE DEF j
      <3> QED
        BY <3>1, <3>2, <3>3, WithKidIs
    <2>2. k.kids[j] = 0
      BY <1>4, <1>8
    <2> QED
      BY <1>6, <1>7, <2>1, <2>2
  <1>11. Pending(stk, n) = {} /\ Pending(stk2, n + g) = {n + g}
    <2>1. Program[f.kind][f.at] # "call" /\ f.at # 1
      BY <1>2, <1>4 DEF Records
    <2>2. Pending(stk, n) = {}
      BY <2>1 DEF Pending, AboutToCall
    <2>3. AboutToCall(stk2[L])
      BY <1>4, <1>5 DEF AboutToCall
    <2> QED
      BY <1>5, <2>2, <2>3 DEF Pending
  <1>12. \A o \in DOMAIN m : o \in Nat /\ o < n /\ \A p \in Looks(o, m[o]) : p \in DOMAIN m /\ p # 0 /\ p < n
    BY <1>1, <1>11, Below DEF Tree
  <1>13. k.kids[2] = 0 /\ (j = 2 => k.kids[1] # 0 /\ r + k.kids[1] < n)
    <2>1. ASSUME j = 2 PROVE k.kids[1] # 0 /\ r + k.kids[1] < n
      <3>1. k.kids[1] # 0
        BY <1>8, <2>1
      <3>2. r + k.kids[1] \in Looks(r, k)
        BY <1>4, <1>6, <3>1 DEF Looks
      <3> QED
        BY <1>6, <1>12, <3>1, <3>2 DEF k
    <2> QED
      BY <1>4, <1>8, <2>1
  <1>14. KernelOK(k2)
    <2>1. f.kind \in HasHead => v > Size[f.kind]
      <3>1. f.kind \in HasHead => r + Size[f.kind] \in Looks(r, k)
        BY <1>6 DEF Looks
      <3>2. f.kind \in HasHead => r + Size[f.kind] < n
        BY <1>6, <1>12, <3>1 DEF k
      <3> QED
        BY <1>4, <1>6, <1>7, <3>2, <1>1
    <2>2. ASSUME NEW i \in 1..2, k2.kids[i] # 0
          PROVE  k2.kids[i] >= Size[f.kind] /\ (f.kind \in HasHead => k2.kids[i] > Size[f.kind])
      <3>1. CASE i = j
        BY <1>7, <1>10, <2>1, <3>1
      <3>2. CASE i # j
        BY <1>4, <1>6, <1>10, <2>2, <3>2 DEF KernelOK
      <3> QED
        BY <3>1, <3>2
    <2>3. k2.kids[2] # 0 => k2.kids[1] # 0 /\ k2.kids[1] < k2.kids[2]
      <3>1. CASE j = 1
        BY <1>10, <1>13, <3>1
      <3>2. CASE j = 2
        <4>1. k2.kids[1] = k.kids[1] /\ k2.kids[2] = v /\ k.kids[1] \in Nat
          BY <1>8, <1>10, <3>2
        <4> QED
          BY <1>1, <1>4, <1>6, <1>7, <1>13, <3>2, <4>1
      <3> QED
        BY <1>4, <3>1, <3>2
    <2> QED
      BY <1>2, <1>4, <1>10, <2>2, <2>3 DEF KernelOK
  <1>15. \A w \in Words(r, k2) : w \in Words(r, k) \/ (w = n /\ g = 1)
    <2> SUFFICES ASSUME NEW w \in Words(r, k2), w \notin Words(r, k) PROVE w = n /\ g = 1
      OBVIOUS
    <2>1. w \notin r..r + Size[f.kind] - 1
      BY <1>6, IsWord
    <2>2. f.kind \in Expressions /\ k2.kids[2] # 0 /\ w = r + k2.kids[2] - 1
      BY <1>6, <1>10, <1>14, <2>1, IsWord
    <2>3. j = 2
      BY <1>4, <1>10, <1>13, <2>2
    <2>4. g = 1 /\ k2.kids[2] = v
      BY <1>4, <1>10, <2>2, <2>3
    <2> QED
      BY <1>1, <1>6, <1>7, <2>2, <2>4
  <1>16. Layout(m2, n + g, cap2)
    <2>1. ASSUME NEW o \in DOMAIN m2
          PROVE  /\ o \in Nat /\ KernelOK(m2[o])
                 /\ Words(o, m2[o]) \subseteq 0..(n + g) - 1
                 /\ m2[o].kind = "tuple" => \A i \in 1..2 : o + m2[o].kids[i] + Prefix <= cap2
      <3>1. CASE o = r
        <4>1. Words(r, k) \subseteq 0..n - 1
          BY <1>1, <1>6 DEF Layout, k
        <4>2. Words(r, k2) \subseteq 0..(n + g) - 1
          <5>1. 0..n - 1 \subseteq 0..(n + g) - 1 /\ (g = 1 => n \in 0..(n + g) - 1)
            BY <1>1, <1>4
          <5> QED
            BY <1>15, <4>1, <5>1
        <4>3. ASSUME f.kind = "tuple", NEW i \in 1..2 PROVE r + k2.kids[i] + Prefix <= cap2
          <5>1. CASE i = j
            <6>1. g = 0 /\ n + Prefix <= cap2
              BY <1>4, <4>3 DEF Records, s
            <6> QED
              BY <1>1, <1>6, <1>7, <1>10, <5>1, <6>1 DEF Prefix
          <5>2. CASE i # j
            <6>1. r + k.kids[i] + Prefix <= cap
              BY <1>1, <1>6, <4>3 DEF Layout, k
            <6>2. k2.kids[i] = k.kids[i] /\ k.kids[i] \in Nat
              BY <1>8, <1>10, <5>2
            <6> QED
              BY <1>6, <6>1, <6>2 DEF Prefix
          <5> QED
            BY <5>1, <5>2
        <4> QED
          BY <1>6, <1>10, <1>14, <3>1, <4>2, <4>3 DEF k2
      <3>2. CASE o # r
        <4>1. o \in DOMAIN m /\ m2[o] = m[o]
          BY <1>9, <2>1, <3>2
        <4>2. Layout(m, n + g, cap2)
          BY <1>1, <1>4, LayoutGrows
        <4> QED
          BY <4>1, <4>2 DEF Layout
      <3> QED
        BY <3>1, <3>2
    <2>2. ASSUME NEW o \in DOMAIN m, o # r PROVE Words(o, m[o]) \cap Words(r, k2) = {}
      <3>1. Words(o, m[o]) \subseteq 0..n - 1 /\ Words(o, m[o]) \cap Words(r, k) = {}
        BY <1>1, <1>6, <2>2 DEF Layout, k
      <3>2. n \notin 0..n - 1
        BY <1>1
      <3> QED
        BY <1>15, <3>1, <3>2
    <2>3. ASSUME NEW o \in DOMAIN m2, NEW q \in DOMAIN m2, o # q
          PROVE  Words(o, m2[o]) \cap Words(q, m2[q]) = {}
      <3>1. CASE o = r
        BY <1>9, <2>2, <2>3, <3>1 DEF k2
      <3>2. CASE q = r
        BY <1>9, <2>2, <2>3, <3>2 DEF k2
      <3>3. CASE o # r /\ q # r
        BY <1>1, <1>9, <2>3, <3>3 DEF Layout
      <3> QED
        BY <3>1, <3>2, <3>3
    <2> QED
      BY <1>9, <2>1, <2>3 DEF Layout
  <1>17. Frames(stk2, m2, n + g)
    <2>1. ASSUME NEW i \in 1..L - 1
          PROVE  i \in 1..L /\ stk2[i] = stk[i] /\ stk[i].root # r
      <3>1. i \in 1..L /\ L \in 1..L /\ i < L
        BY <1>2
      <3>2. stk[i].root < r /\ stk[i].root \in Nat
        BY <1>1, <3>1, TopIs, FrameIs DEF Frames, r
      <3> QED
        BY <1>5, <1>6, <3>1, <3>2
    <2>2. ASSUME NEW i \in 1..L PROVE FrameOK(stk2[i], m2)
      <3>1. CASE i = L
        <4>1. f.at + 1 \in 1..Len(Program[f.kind]) + 1 /\ f.at + 1 > 1
          BY <1>2, <1>3
        <4>2. \A h \in 1..Recorded[f.kind] : k2.kids[h] # 0 <=> h <= j
          <5> SUFFICES ASSUME NEW h \in 1..2 PROVE k2.kids[h] # 0 <=> h <= j
            BY <1>4
          <5>1. CASE h = j
            BY <1>4, <1>7, <1>10, <5>1
          <5>2. CASE h # j
            BY <1>4, <1>8, <1>10, <5>2
          <5> QED
            BY <5>1, <5>2
        <4>3. r \in DOMAIN m2 /\ m2[r].kind = f.kind
          BY <1>6, <1>9, <1>10 DEF k2
        <4>4. RecordsBefore[f.kind][f.at + 1] = j
          BY <1>4
        <4>5. \A h \in 1..Recorded[f.kind] : m2[r].kids[h] # 0 <=> h <= j
          BY <4>2 DEF k2
        <4> QED
          BY <1>5, <3>1, <4>1, <4>3, <4>4, <4>5 DEF FrameOK
      <3>2. CASE i # L
        <4>1. i \in 1..L - 1
          BY <1>2, <3>2
        <4>2. stk2[i] = stk[i] /\ stk[i].root # r /\ FrameOK(stk[i], m)
          BY <1>1, <2>1, <4>1 DEF Frames
        <4> QED
          BY <1>9, <4>2 DEF FrameOK
      <3> QED
        BY <3>1, <3>2
    <2>3. ASSUME NEW i \in 1..L PROVE stk2[i].root = stk[i].root
      <3>1. CASE i = L
        BY <1>5, <3>1 DEF r
      <3>2. CASE i # L
        <4>1. i \in 1..L - 1
          BY <1>2, <3>2
        <4> QED
          BY <2>1, <4>1
      <3> QED
        BY <3>1, <3>2
    <2>4. \A i \in 1..L - 1 : Waits(stk2[i])
      BY <1>1, <1>5 DEF Frames
    <2>5. \A i, h \in 1..L : i < h => stk2[i].root < stk2[h].root
      BY <1>1, <2>3 DEF Frames
    <2>6. stk2[L].at # 1
      BY <1>2, <1>4, <1>5
    <2>7. \A o \in DOMAIN m2 : Complete(m2[o]) \/ \E i \in 1..L : stk2[i].root = o
      <3> SUFFICES ASSUME NEW o \in DOMAIN m2
                   PROVE  Complete(m2[o]) \/ \E i \in 1..L : stk2[i].root = o
        OBVIOUS
      <3>1. CASE o = r
        BY <1>2, <1>5, <3>1
      <3>2. CASE o # r
        BY <1>1, <1>9, <2>3, <3>2 DEF Frames
      <3> QED
        BY <3>1, <3>2
    <2> QED
      BY <1>5, <2>2, <2>4, <2>5, <2>6, <2>7 DEF Frames
  <1>18. Tree(m2, {n + g})
    <2>1. \A o \in DOMAIN m : n + g \notin Looks(o, m[o])
      BY <1>1, <1>4, <1>12
    <2>2. n + g # 0
      BY <1>1, <1>4, <1>6
    <2>3. \A o \in DOMAIN m2 : Looks(o, m2[o]) \subseteq (DOMAIN m2 \ {0}) \cup {n + g}
      <3> SUFFICES ASSUME NEW o \in DOMAIN m2
                   PROVE  Looks(o, m2[o]) \subseteq (DOMAIN m2 \ {0}) \cup {n + g}
        OBVIOUS
      <3>1. CASE o = r
        BY <1>6, <1>9, <1>10, <1>12, <3>1 DEF k, k2
      <3>2. CASE o # r
        BY <1>9, <1>12, <3>2
      <3> QED
        BY <3>1, <3>2
    <2>4. ASSUME NEW p \in (DOMAIN m2 \ {0}) \cup {n + g}
          PROVE  \E o \in DOMAIN m2 : p \in Looks(o, m2[o])
      <3>1. CASE p = n + g
        BY <1>6, <1>9, <1>10, <3>1 DEF k2
      <3>2. CASE p # n + g
        <4>1. PICK o \in DOMAIN m : p \in Looks(o, m[o])
          BY <1>1, <1>9, <2>4, <3>2 DEF Tree
        <4>2. CASE o = r
          BY <1>6, <1>9, <1>10, <4>1, <4>2 DEF k, k2
        <4>3. CASE o # r
          BY <1>9, <4>1, <4>3
        <4> QED
          BY <4>2, <4>3
      <3> QED
        BY <3>1, <3>2
    <2>5. ASSUME NEW o \in DOMAIN m, o # r PROVE Looks(o, m[o]) \cap Looks(r, k2) = {}
      <3>1. Looks(o, m[o]) \cap Looks(r, k) = {}
        BY <1>1, <1>6, <2>5 DEF Tree, k
      <3> QED
        BY <1>10, <2>1, <3>1
    <2>6. ASSUME NEW o \in DOMAIN m2, NEW q \in DOMAIN m2, o # q
          PROVE  Looks(o, m2[o]) \cap Looks(q, m2[q]) = {}
      <3>1. CASE o = r
        BY <1>9, <2>5, <2>6, <3>1 DEF k2
      <3>2. CASE q = r
        BY <1>9, <2>5, <2>6, <3>2 DEF k2
      <3>3. CASE o # r /\ q # r
        BY <1>1, <1>9, <2>6, <3>3 DEF Tree
      <3> QED
        BY <3>1, <3>2, <3>3
    <2> QED
      BY <2>3, <2>4, <2>6 DEF Tree
  <1>19. Pointer(stk2[L], d2)
    BY <1>5 DEF Pointer
  <1>20. n + g \in Nat /\ n + g <= cap2
    BY <1>1, <1>4 DEF Records
  <1>21. Building(stk2, m2, n + g, d2, cap2)
    BY <1>5, <1>11, <1>16, <1>17, <1>18, <1>19, <1>20 DEF Building
  <1> QED
    BY <1>21 DEF stk2

-----------------------------------------------------------------------------
(* A child's instantiate function is called and returns.                     *)
LEMMA FrameTyped ==
    ASSUME NEW kind \in Kinds, NEW n \in Nat
    PROVE  LET e == Frame(kind, n) IN
           /\ e \in FrameSet /\ e.kind = kind /\ e.root = n /\ e.at = 1 /\ e.self = NULL
           /\ ~AboutToCall(e)
  <1>1. Program[kind][1] = "make"
    BY AtMake
  <1> QED
    BY <1>1 DEF Frame, FrameSet, AboutToCall

LEMMA CallChild ==
    ASSUME NEW stk \in Seq(FrameSet), stk # <<>>, NEW m, NEW n, NEW data, NEW cap \in Nat,
           Building(stk, m, n, data, cap),
           NEW f, f = stk[Len(stk)], AboutToCall(f), NEW kind \in Kinds
    PROVE  Building(Append(Advance(stk, f.self), Frame(kind, n)), m, n, data, cap)
  <1> DEFINE L    == Len(stk)
             s    == Advance(stk, f.self)
             e    == Frame(kind, n)
             stk2 == Append(s, e)
  <1>1. /\ n \in Nat /\ n <= cap /\ Layout(m, n, cap) /\ Frames(stk, m, n)
        /\ Tree(m, Pending(stk, n))
    BY DEF Building
  <1>2. /\ L \in Nat /\ L >= 1 /\ f \in FrameSet /\ f.kind \in Kinds /\ f.at \in Nat
        /\ f.self \in Blocks \cup {NULL} /\ FrameOK(f, m)
    BY <1>1, TopIs, FrameIs DEF Frames
  <1>3. /\ f.at \in 1..Len(Program[f.kind]) /\ Program[f.kind][f.at] = "call"
        /\ f.at > 1 /\ RecordsBefore[f.kind][f.at + 1] = RecordsBefore[f.kind][f.at]
    <2>1. f.at \in 1..Len(Program[f.kind]) /\ Program[f.kind][f.at] = "call"
      BY <1>2, FamilySizes DEF FrameOK, AboutToCall
    <2> QED
      BY <1>2, <2>1, AtCall
  <1>4. /\ s \in Seq(FrameSet) /\ Len(s) = L
        /\ \A i \in 1..L - 1 : s[i] = stk[i]
        /\ s[L].kind = f.kind /\ s[L].root = f.root /\ s[L].at = f.at + 1 /\ s[L].self = f.self
    BY <1>2, AdvanceIs
  <1>5. e \in FrameSet /\ e.kind = kind /\ e.root = n /\ e.at = 1 /\ ~AboutToCall(e)
    BY <1>1, FrameTyped
  <1> HIDE DEF s, e
  <1>6. /\ stk2 \in Seq(FrameSet) /\ Len(stk2) = L + 1 /\ stk2[L + 1] = e
        /\ \A i \in 1..L : stk2[i] = s[i]
    BY <1>4, <1>5, AppendProperties
  <1> HIDE DEF stk2
  <1>7. f.root \in DOMAIN m /\ f.root \in Nat /\ f.root < n
    <2>1. L \in 1..L /\ stk[L].at # 1
      BY <1>2, <1>3
    <2>2. stk[L].root \in DOMAIN m /\ stk[L].root < n
      BY <1>1, <2>1, RootBelow
    <2> QED
      BY <1>2, <2>2, FrameIs
  <1>8. ASSUME NEW i \in 1..L PROVE stk2[i].root = stk[i].root
    BY <1>4, <1>6
  <1>9. Frames(stk2, m, n)
    <2>1. ASSUME NEW i \in 1..L + 1 PROVE FrameOK(stk2[i], m)
      <3>1. CASE i = L + 1
        <4>1. 1 \in 1..Len(Program[kind]) + 1
          BY FamilySizes
        <4> QED
          BY <1>5, <1>6, <3>1, <4>1 DEF FrameOK
      <3>2. CASE i = L
        <4>1. stk2[i] = s[L]
          BY <1>2, <1>6, <3>2
        <4>2. f.at + 1 \in 1..Len(Program[f.kind]) + 1 /\ f.at + 1 > 1
          BY <1>2, <1>3
        <4>3. /\ f.root \in DOMAIN m /\ m[f.root].kind = f.kind
              /\ \A h \in 1..Recorded[f.kind] :
                     m[f.root].kids[h] # 0 <=> h <= RecordsBefore[f.kind][f.at + 1]
          BY <1>2, <1>3 DEF FrameOK
        <4> QED
          BY <1>4, <4>1, <4>2, <4>3 DEF FrameOK
      <3>3. CASE i \in 1..L - 1
        BY <1>1, <1>4, <1>6, <3>3 DEF Frames
      <3> QED
        BY <1>2, <3>1, <3>2, <3>3
    <2>2. ASSUME NEW i \in 1..L PROVE Waits(stk2[i])
      <3>1. CASE i = L
        <4>1. f.at + 1 > 1 /\ (f.at + 1) - 1 = f.at
          BY <1>2, <1>3
        <4> QED
          BY <1>3, <1>4, <1>6, <3>1, <4>1 DEF Waits
      <3>2. CASE i # L
        <4>1. i \in 1..L - 1
          BY <1>2, <3>2
        <4> QED
          BY <1>1, <1>4, <1>6, <4>1 DEF Frames
      <3> QED
        BY <3>1, <3>2
    <2>3. ASSUME NEW i \in 1..L + 1, NEW j \in 1..L + 1, i < j
          PROVE  stk2[i].root < stk2[j].root
      <3>1. CASE j = L + 1
        <4>1. i \in 1..L
          BY <1>2, <2>3, <3>1
        <4>2. stk[i].root <= f.root /\ stk[i].root \in Nat
          <5>1. stk[i].root \in Nat
            BY <4>1, TopIs, FrameIs
          <5>2. CASE i = L
            BY <1>7, <5>2
          <5>3. CASE i # L
            <6>1. i < L /\ L \in 1..L
              BY <1>2, <4>1, <5>3
            <6>2. stk[i].root < stk[L].root
              BY <1>1, <4>1, <6>1 DEF Frames
            <6> QED
              BY <1>7, <5>1, <6>2
          <5> QED
            BY <5>1, <5>2, <5>3
        <4> QED
          BY <1>1, <1>5, <1>6, <1>7, <1>8, <3>1, <4>1, <4>2
      <3>2. CASE j # L + 1
        <4>1. i \in 1..L /\ j \in 1..L
          BY <1>2, <2>3, <3>2
        <4> QED
          BY <1>1, <1>8, <2>3, <4>1 DEF Frames
      <3> QED
        BY <3>1, <3>2
    <2>4. \A o \in DOMAIN m : Complete(m[o]) \/ \E i \in 1..L + 1 : stk2[i].root = o
      <3>1. \A i \in 1..L : i \in 1..L + 1
        BY <1>2
      <3> QED
        BY <1>1, <1>8, <3>1 DEF Frames
    <2>5. L + 1 # 1 /\ (L + 1) - 1 = L
      BY <1>2
    <2>6. \A i \in 1..(L + 1) - 1 : Waits(stk2[i])
      BY <2>2, <2>5
    <2> HIDE DEF L
    <2> QED
      BY <1>5, <1>6, <2>1, <2>3, <2>4, <2>5, <2>6 DEF Frames
  <1>10. Pending(stk, n) = {n} /\ Pending(stk2, n) = {n}
    <2>1. L + 1 > 1
      BY <1>2
    <2> QED
      BY <1>5, <1>6, <2>1 DEF Pending
  <1>11. Pointer(stk2[Len(stk2)], data)
    BY <1>5, <1>6 DEF Pointer
  <1>12. Building(stk2, m, n, data, cap)
    BY <1>1, <1>9, <1>10, <1>11 DEF Building
  <1> QED
    BY <1>12 DEF stk2, s, e

LEMMA FrontIs ==
    ASSUME NEW stk \in Seq(FrameSet), Len(stk) > 1
    PROVE  /\ Front(stk) \in Seq(FrameSet) /\ Len(Front(stk)) = Len(stk) - 1
           /\ \A i \in 1..Len(stk) - 1 : Front(stk)[i] = stk[i]
  <1>1. Len(stk) \in Nat /\ Len(stk) - 1 \in 1..Len(stk)
    BY LenProperties
  <1> QED
    BY <1>1, LenProperties, SubSeqProperties DEF Front

LEMMA ReturnFrame ==
    ASSUME NEW stk \in Seq(FrameSet), stk # <<>>, NEW m, NEW n, NEW data, NEW cap \in Nat,
           Building(stk, m, n, data, cap),
           NEW f, f = stk[Len(stk)], f.at > Len(Program[f.kind])
    PROVE  IF Len(stk) = 1
           THEN Tree(m, {}) /\ \A o \in DOMAIN m : Complete(m[o])
           ELSE Building(Front(stk), m, n, data, cap)
  <1> DEFINE L == Len(stk)
             t == stk[L - 1]
  <1>1. /\ n \in Nat /\ n <= cap /\ Layout(m, n, cap) /\ Frames(stk, m, n)
        /\ Tree(m, Pending(stk, n))
    BY DEF Building
  <1>2. /\ L \in Nat /\ L >= 1 /\ f \in FrameSet /\ f.kind \in Kinds /\ f.at \in Nat
        /\ FrameOK(f, m)
    BY <1>1, TopIs, FrameIs DEF Frames
  <1>3. f.at = Len(Program[f.kind]) + 1 /\ f.at > 1 /\ ~AboutToCall(f)
    BY <1>2, FamilySizes DEF FrameOK, AboutToCall
  <1>4. Pending(stk, n) = {}
    BY <1>2, <1>3 DEF Pending
  <1>5. f.root \in DOMAIN m /\ Complete(m[f.root])
    <2>1. RecordsBefore[f.kind][f.at] = Recorded[f.kind]
      BY <1>2, <1>3, AtEnd
    <2> QED
      BY <1>2, <1>3, <2>1, FamilySizes DEF FrameOK, Complete
  <1>6. CASE L = 1
    <2>1. \A o \in DOMAIN m : Complete(m[o])
      BY <1>1, <1>5, <1>6 DEF Frames
    <2> QED
      BY <1>1, <1>4, <1>6, <2>1
  <1>7. CASE L # 1
    <2> DEFINE s == Front(stk)
    <2>0. L > 1
      BY <1>7, TopIs
    <2>1. L > 1 /\ L - 1 \in 1..L - 1 /\ L - 1 \in 1..L
      BY <1>2, <2>0
    <2>2. s \in Seq(FrameSet) /\ Len(s) = L - 1 /\ \A i \in 1..L - 1 : s[i] = stk[i]
      BY <2>1, FrontIs
    <2> HIDE DEF s
    <2>3. t \in FrameSet /\ FrameOK(t, m) /\ Waits(t)
      BY <1>1, <2>1, TopIs DEF Frames
    <2>4. t.at # 1 /\ ~AboutToCall(t) /\ (t.kind \in Expressions => t.at \in {4, 6})
      BY <2>3, WaitingIs
    <2>5. s[Len(s)] = t
      BY <2>1, <2>2
    <2>6. Frames(s, m, n)
      <3>1. \A i \in 1..L - 1 : i \in 1..L
        BY <1>2
      <3>2. \A i \in 1..(L - 1) - 1 : i \in 1..L - 1
        BY <1>2
      <3>3. \A i \in 1..L - 1 : FrameOK(s[i], m)
        BY <1>1, <2>2, <3>1 DEF Frames
      <3>4. \A i \in 1..(L - 1) - 1 : Waits(s[i])
        BY <1>1, <2>2, <3>2 DEF Frames
      <3>5. \A i, j \in 1..L - 1 : i < j => s[i].root < s[j].root
        BY <1>1, <2>2, <3>1 DEF Frames
      <3>6. ASSUME NEW o \in DOMAIN m, ~Complete(m[o]) PROVE \E i \in 1..L - 1 : s[i].root = o
        <4>1. PICK i \in 1..L : stk[i].root = o
          BY <1>1, <3>6 DEF Frames
        <4>2. i # L
          BY <1>5, <3>6, <4>1
        <4>3. i \in 1..L - 1
          BY <1>2, <4>2
        <4> QED
          BY <2>2, <4>1, <4>3
      <3>7. L - 1 = 1 => s[1] = t
        BY <2>2, <2>5
      <3> HIDE DEF L, t
      <3> QED
        BY <2>2, <2>4, <2>5, <3>3, <3>4, <3>5, <3>6, <3>7 DEF Frames
    <2>7. Pending(s, n) = {}
      BY <2>4, <2>5 DEF Pending
    <2>8. Pointer(s[Len(s)], data)
      BY <2>4, <2>5 DEF Pointer
    <2>9. Building(s, m, n, data, cap)
      BY <1>1, <1>4, <2>6, <2>7, <2>8 DEF Building
    <2> QED
      BY <1>7, <2>9 DEF s
  <1> QED
    BY <1>6, <1>7

LEMMA StartTree ==
    ASSUME NEW kind \in Kinds, NEW m, m = [o \in DOMAIN m |-> m[o]], DOMAIN m = {},
           NEW data, NEW cap \in Nat
    PROVE  /\ <<Frame(kind, 0)>> \in Seq(FrameSet)
           /\ Building(<<Frame(kind, 0)>>, m, 0, data, cap)
  <1> DEFINE e   == Frame(kind, 0)
             stk == <<e>>
  <1>1. e \in FrameSet /\ e.kind = kind /\ e.root = 0 /\ e.at = 1 /\ ~AboutToCall(e)
    BY FrameTyped
  <1> HIDE DEF e
  <1>2. stk \in Seq(FrameSet) /\ Len(stk) = 1 /\ stk[1] = e
    BY <1>1
  <1> HIDE DEF stk
  <1>3. FrameOK(e, m)
    <2>1. 1 \in 1..Len(Program[kind]) + 1
      BY FamilySizes
    <2> QED
      BY <1>1, <2>1 DEF FrameOK
  <1>4. Frames(stk, m, 0)
    BY <1>1, <1>2, <1>3 DEF Frames
  <1>5. Pending(stk, 0) = {}
    BY <1>1, <1>2 DEF Pending
  <1>6. Layout(m, 0, cap) /\ Tree(m, {})
    BY DEF Layout, Tree
  <1>7. Building(stk, m, 0, data, cap)
    <2>1. Pointer(stk[Len(stk)], data)
      BY <1>1, <1>2 DEF Pointer
    <2>2. 0 \in Nat /\ 0 <= cap
      OBVIOUS
    <2> QED
      BY <1>4, <1>5, <1>6, <2>1, <2>2 DEF Building
  <1> QED
    BY <1>2, <1>7 DEF stk, e

-----------------------------------------------------------------------------
(* Blocks of memory and builders.                                            *)
LEMMA BlocksDiffer ==
    ASSUME NEW a \in Builders, NEW b \in Builders
    PROVE  /\ Static(a) = Static(b) => a = b
           /\ Static(a) \notin HeapBlocks /\ Static(a) # NULL /\ NULL \notin HeapBlocks
           /\ Static(a) \in Blocks /\ HeapBlocks \subseteq Blocks
  <1>1. \A n : Static(a) # Heap(n) /\ NULL # Heap(n)
    BY DEF Static, Heap, NULL
  <1> QED
    BY <1>1 DEF Static, HeapBlocks, Blocks, NULL

LEMMA CurIs ==
    ASSUME OneBuilding, stack # <<>>
    PROVE  /\ Cur \in Builders /\ phase[Cur] = "building"
           /\ \A b \in Builders : phase[b] = "building" => b = Cur
  <1>1. \E b \in Builders : phase[b] = "building"
    BY DEF OneBuilding
  <1>2. Cur \in Builders /\ phase[Cur] = "building"
    BY <1>1 DEF Cur
  <1> QED
    BY <1>2 DEF OneBuilding

LEMMA BuildersAre ==
    ASSUME NEW b \in Builders, BuilderOK(b)
    PROVE  /\ bld[b].data = NULL \/ (Live(b) /\ bld[b].data \in Blocks)
           /\ Live(b) => bld[b].data \in HeapBlocks \cup {Static(b)}
  BY BlocksDiffer DEF BuilderOK, Live

(* What no step of another builder disturbs.                                 *)
LEMMA OthersKept ==
    ASSUME NEW a \in Builders, BuilderOK(a), bld'[a] = bld[a], phase'[a] = phase[a],
           Live(a) => mem'[bld[a].data] = mem[bld[a].data],
           phase[a] = "building" => stack' = stack /\ off' = off
    PROVE  BuilderOK(a)'
  <1>1. (bld[a].data)' = bld[a].data /\ (bld[a].cap)' = bld[a].cap /\ (bld[a].clean)' = bld[a].clean
    OBVIOUS
  <1>2. Live(a)' <=> Live(a)
    BY <1>1 DEF Live
  <1>3. Live(a) => Memory(a)' = Memory(a)
    BY <1>1 DEF Memory
  <1>4. phase[a] \in {"open", "building", "built"} => Live(a)
    BY DEF BuilderOK
  <1>5. (phase[a] = "building" => Building(stack, Memory(a), off, bld[a].data, bld[a].cap))'
    BY <1>1, <1>3, <1>4 DEF BuilderOK
  <1> QED
    BY <1>1, <1>2, <1>3, <1>4, <1>5 DEF BuilderOK

(* A tuple's destructor reads zeroed memory only.                            *)
LEMMA NoTupleWanders ==
    ASSUME NEW m, NEW n, NEW z \in Nat, Layout(m, n, z), NEW ids
    PROVE  "tuple" \notin WildReads(m, ids, z)
  <1> SUFFICES ASSUME NEW o \in DOMAIN m, m[o].kind = "tuple",
                      NEW s \in ToSet(Slots(o, m[o])), s + Prefix > z
               PROVE  FALSE
    BY DEF WildReads
  <1>1. /\ o \in Nat /\ KernelOK(m[o])
        /\ \A i \in 1..2 : o + m[o].kids[i] + Prefix <= z
    BY DEF Layout
  <1>2. s \in Looks(o, m[o])
    BY <1>1, SlotsAre
  <1>3. PICK i \in 1..2 : s = o + m[o].kids[i]
    BY <1>2, Row_tuple, AtMake, <1>1 DEF Looks, HasHead
  <1>4. m[o].kids[i] \in Nat
    BY <1>1, Row_tuple DEF KernelOK
  <1> QED
    BY <1>1, <1>3, <1>4 DEF Prefix

LEMMA DestroyReservesFields ==
    ASSUME NEW b \in Builders, BuilderOK(b), FieldsReserved, Destroy(b)
    PROVE  FieldsReserved'
  <1>1. CASE bld[b].data = NULL
    BY <1>1 DEF Destroy, FieldsReserved
  <1>2. CASE bld[b].data # NULL
    <2>1. Layout(Memory(b), bld[b].cap, bld[b].clean) /\ bld[b].clean \in Nat
      BY <1>2 DEF BuilderOK, Live
    <2>2. "tuple" \notin WildReads(Memory(b), ToSet(Destroyed(Memory(b))), bld[b].clean)
      BY <2>1, NoTupleWanders
    <2> QED
      BY <1>2, <2>2 DEF Destroy, FieldsReserved, Memory
  <1> QED
    BY <1>1, <1>2

(* A builder that runs no instantiate function starts anew.                  *)
LEMMA Renewed ==
    ASSUME KInv, NEW b \in Builders, phase[b] # "building",
           NEW p \in {"none", "open"}, phase' = [phase EXCEPT ![b] = p],
           NEW s, bld' = [bld EXCEPT ![b] = s],
           s \in {[data |-> NULL, cap |-> 0, clean |-> 0],
                  [data |-> Static(b), cap |-> StaticWords, clean |-> StaticWords]},
           p = "open" => s.data = Static(b),
           mem' = [x \in Blocks |-> mem'[x]], mem'[Static(b)] = Nothing,
           \A x \in Blocks : x # Static(b) /\ (Live(b) => x # bld[b].data) => mem'[x] = mem[x],
           UNCHANGED <<stack, off>>, FieldsReserved'
    PROVE  KInv' /\ Held(b)' = Nothing /\ \A a \in Builders : a # b => Held(a)' = Held(a)
  <1>1. Maps /\ Apart /\ OneBuilding /\ \A a \in Builders : BuilderOK(a)
    BY DEF KInv
  <1>2. /\ bld' = [a \in Builders |-> bld'[a]] /\ bld'[b] = s
        /\ \A a \in Builders : a # b => bld'[a] = bld[a]
    BY <1>1 DEF Maps
  <1>3. /\ phase' = [a \in Builders |-> phase'[a]] /\ phase'[b] = p
        /\ \A a \in Builders : a # b => phase'[a] = phase[a]
    BY <1>1 DEF Maps
  <1>4. Maps'
    BY <1>1, <1>2, <1>3 DEF Maps
  <1>5. ASSUME NEW a \in Builders, a # b, Live(a)
        PROVE  bld[a].data # Static(b) /\ mem'[bld[a].data] = mem[bld[a].data]
    <2>1. bld[a].data \in Blocks /\ bld[a].data \in HeapBlocks \cup {Static(a)}
      BY <1>1, <1>5, BuildersAre DEF Live
    <2>2. bld[a].data # Static(b)
      BY <1>5, <2>1, BlocksDiffer
    <2>3. Live(b) => bld[a].data # bld[b].data
      BY <1>1, <1>5 DEF Apart
    <2> QED
      BY <2>1, <2>2, <2>3
  <1>6. /\ s = [data |-> s.data, cap |-> s.cap, clean |-> s.clean]
        /\ s.cap \in Nat /\ s.clean = s.cap /\ s.data \in {NULL, Static(b)}
    BY DEF StaticWords
  <1>7. BuilderOK(b)'
    <2>1. (bld[b] = s /\ phase[b] = p)'
      BY <1>2, <1>3
    <2>2. s.data # NULL => DOMAIN Memory(b)' = {} /\ Memory(b)' = [o \in {} |-> 0]
      BY <1>6, <2>1 DEF Memory, Nothing
    <2>3. s.data # NULL => Layout(Memory(b)', s.cap, s.cap)
      BY <2>2 DEF Layout
    <2>4. (phase[b] \in {"open", "building", "built"} => Live(b))'
      BY <2>1, BlocksDiffer DEF Live
    <2>5. Live(b)' <=> s.data # NULL
      BY <2>1 DEF Live
    <2> QED
      BY <1>6, <2>1, <2>2, <2>3, <2>4, <2>5 DEF BuilderOK
  <1>8. ASSUME NEW a \in Builders PROVE BuilderOK(a)'
    <2>1. CASE a = b
      BY <1>7, <2>1
    <2>2. CASE a # b
      BY <1>1, <1>2, <1>3, <1>5, <2>2, OthersKept
    <2> QED
      BY <2>1, <2>2
  <1>9. Apart'
    <2> SUFFICES ASSUME NEW a \in Builders, NEW c \in Builders, a # c, Live(a)', Live(c)'
                 PROVE  bld'[a].data # bld'[c].data
      BY DEF Apart
    <2>1. CASE a # b /\ c # b
      BY <1>1, <1>2, <2>1 DEF Apart, Live
    <2>2. CASE a = b
      BY <1>2, <1>5, <1>6, <2>2 DEF Live
    <2>3. CASE c = b
      BY <1>2, <1>5, <1>6, <2>3 DEF Live
    <2> QED
      BY <2>1, <2>2, <2>3
  <1>10. OneBuilding'
    BY <1>1, <1>3 DEF OneBuilding
  <1>11. Held(b)' = Nothing
    <2>1. bld'[b] = s
      BY <1>2
    <2>2. CASE s.data = NULL
      BY <2>1, <2>2 DEF Held, Live
    <2>3. CASE s.data = Static(b)
      BY <2>1, <2>3 DEF Held, Live, Memory
    <2> QED
      BY <1>6, <2>2, <2>3
  <1>12. ASSUME NEW a \in Builders, a # b PROVE Held(a)' = Held(a)
    <2>1. bld'[a] = bld[a]
      BY <1>2, <1>12
    <2>2. CASE Live(a)
      BY <1>5, <1>12, <2>1, <2>2 DEF Held, Live, Memory
    <2>3. CASE ~Live(a)
      BY <2>1, <2>3 DEF Held, Live
    <2> QED
      BY <2>2, <2>3
  <1> QED
    BY <1>4, <1>8, <1>9, <1>10, <1>11, <1>12 DEF KInv

-----------------------------------------------------------------------------
(* reserve.                                                                  *)

\* What r, a possible outcome of reserve for builder b, keeps.
Reserved(b, r) ==
    /\ r.bld = [a \in Builders |-> r.bld[a]]
    /\ r.mem = [x \in Blocks |-> r.mem[x]]
    /\ \A a \in Builders \ {b} :
           /\ r.bld[a] = bld[a]
           /\ Live(a) => r.bld[b].data # bld[a].data /\ r.mem[bld[a].data] = mem[bld[a].data]
    /\ r.bld[b] = [data |-> r.bld[b].data, cap |-> r.bld[b].cap, clean |-> r.bld[b].clean]
    /\ r.bld[b].cap \in Nat /\ r.bld[b].cap >= bld[b].cap /\ r.bld[b].clean = r.bld[b].cap
    /\ r.bld[b].data \in HeapBlocks \cup {Static(b)}
    /\ r.mem[r.bld[b].data] = Memory(b)

LEMMA NothingReserved ==
    ASSUME Maps, Apart, NEW b \in Builders, BuilderOK(b), Live(b)
    PROVE  Reserved(b, [bld |-> bld, mem |-> mem])
  <1>1. bld[b].data \in HeapBlocks \cup {Static(b)}
    BY BuildersAre
  <1>2. bld[b].cap \in Nat /\ bld[b].clean = bld[b].cap
        /\ bld[b] = [data |-> bld[b].data, cap |-> bld[b].cap, clean |-> bld[b].clean]
    BY DEF BuilderOK
  <1>3. \A a \in Builders \ {b} : Live(a) => bld[b].data # bld[a].data
    BY DEF Apart
  <1> QED
    BY <1>1, <1>2, <1>3 DEF Reserved, Maps, Memory

LEMMA FreshIs ==
    ASSUME NEW d \in Fresh
    PROVE  d \in HeapBlocks /\ \A b \in Builders : bld[b].data # d
  <1> DEFINE unused == {x \in HeapBlocks : /\ \A b \in Builders : bld[b].data # x
                                           /\ \A i \in DOMAIN stack : stack[i].self # x}
  <1>1. Fresh = IF unused = {} THEN {} ELSE {CHOOSE x \in unused : TRUE}
    BY DEF Fresh
  <1>2. unused # {} /\ d = CHOOSE x \in unused : TRUE
    BY <1>1
  <1>3. d \in unused
    BY <1>2
  <1> QED
    BY <1>3

LEMMA SomeReserved ==
    ASSUME Maps, Apart, \A a \in Builders : BuilderOK(a),
           NEW b \in Builders, Live(b), NEW n \in Nat, NEW r \in AfterReserve(b, n)
    PROVE  Reserved(b, r) /\ n <= r.bld[b].cap
  <1> DEFINE s     == bld[b]
             grown == (s.cap * 3) \div 2
             cap   == IF n < grown THEN grown ELSE n
  <1>1. /\ s = [data |-> s.data, cap |-> s.cap, clean |-> s.clean]
        /\ s.cap \in Nat /\ s.clean = s.cap
        /\ s.data \in HeapBlocks \cup {Static(b)} /\ s.data \in Blocks
    BY BuildersAre DEF BuilderOK, Live
  <1>2. CASE s.cap >= n
    <2>1. r = [bld |-> bld, mem |-> mem]
      BY <1>2 DEF AfterReserve
    <2> QED
      BY <1>1, <1>2, <2>1, NothingReserved
  <1>3. CASE ~(s.cap >= n)
    <2> DEFINE To(d) == [bld |-> [bld EXCEPT ![b] =
                              [data |-> d, cap |-> cap,
                               clean |-> IF s.clean = s.cap THEN cap ELSE s.clean]],
                  mem |-> IF d = s.data THEN mem
                          ELSE [mem EXCEPT ![d] = mem[s.data],
                                           ![s.data] = IF s.data = Static(b) THEN @ ELSE Nothing]]
    <2>1. PICK d \in Fresh \cup (IF s.data = Static(b) THEN {} ELSE {s.data}) : r = To(d)
      BY <1>3 DEF AfterReserve
    <2>2. cap \in Nat /\ cap >= s.cap /\ n <= cap
      <3>1. grown \in Nat
        BY <1>1
      <3> HIDE DEF grown
      <3> QED
        BY <1>1, <1>3, <3>1
    <2> HIDE DEF cap
    <2>3. d \in HeapBlocks /\ d \in Blocks
      BY <1>1, <2>1, FreshIs, BlocksDiffer
    <2>4. d = s.data \/ \A a \in Builders : bld[a].data # d
      BY <2>1, FreshIs
    <2>5. /\ r.bld = [bld EXCEPT ![b] = [data |-> d, cap |-> cap, clean |-> cap]]
          /\ r.mem = IF d = s.data THEN mem
                     ELSE [mem EXCEPT ![d] = mem[s.data],
                                      ![s.data] = IF s.data = Static(b) THEN mem[s.data] ELSE Nothing]
      BY <1>1, <2>1
    <2>6. /\ r.bld = [a \in Builders |-> r.bld[a]]
          /\ r.bld[b] = [data |-> d, cap |-> cap, clean |-> cap]
          /\ \A a \in Builders \ {b} : r.bld[a] = bld[a]
      BY <2>5 DEF Maps
    <2>7. r.mem = [x \in Blocks |-> r.mem[x]]
      BY <1>1, <2>3, <2>5 DEF Maps
    <2>8. r.mem[d] = mem[s.data]
      BY <1>1, <2>3, <2>5 DEF Maps
    <2>9. ASSUME NEW a \in Builders \ {b}, Live(a)
          PROVE  d # bld[a].data /\ r.mem[bld[a].data] = mem[bld[a].data]
      <3>1. bld[a].data # s.data /\ bld[a].data \in Blocks
        BY <2>9, BuildersAre DEF Apart, Live
      <3>2. bld[a].data # d
        BY <2>4, <3>1
      <3> QED
        BY <2>5, <3>1, <3>2 DEF Maps
    <2> QED
      BY <2>2, <2>3, <2>6, <2>7, <2>8, <2>9 DEF Reserved, Memory
  <1> QED
    BY <1>2, <1>3

(* A step of an instantiate function, after an outcome r of reserve.         *)
LEMMA BuildingStep ==
    ASSUME KInv, stack # <<>>, NEW r, Reserved(Cur, r), NEW m2,
           bld' = r.bld, mem' = [r.mem EXCEPT ![r.bld[Cur].data] = m2],
           stack' \in Seq(FrameSet), stack' # <<>>, phase' = phase, wild' = wild,
           Building(stack', m2, off', r.bld[Cur].data, r.bld[Cur].cap)
    PROVE  /\ KInv'
           /\ Cur \in Builders /\ Held(Cur) = Memory(Cur)
           /\ \A a \in Builders : Held(a)' = IF a = Cur THEN m2 ELSE Held(a)
  <1>1. Maps /\ Apart /\ OneBuilding /\ FieldsReserved /\ \A a \in Builders : BuilderOK(a)
    BY DEF KInv
  <1>2. PICK b \in Builders : /\ b = Cur /\ phase[b] = "building"
                            /\ \A a \in Builders : phase[a] = "building" => a = b
    BY <1>1, CurIs
  <1> DEFINE data == r.bld[b].data
             cap  == r.bld[b].cap
  <1>3. /\ bld' = [a \in Builders |-> bld'[a]]
        /\ \A a \in Builders : a # b => bld'[a] = bld[a]
        /\ bld'[b] = [data |-> data, cap |-> cap, clean |-> cap]
        /\ cap \in Nat /\ data \in HeapBlocks \cup {Static(b)} /\ data \in Blocks
    BY <1>2, BlocksDiffer DEF Reserved
  <1>4. /\ mem' = [x \in Blocks |-> mem'[x]] /\ mem'[data] = m2
        /\ \A x \in Blocks : x # data => mem'[x] = r.mem[x]
    BY <1>2, <1>3 DEF Reserved
  <1>5. ASSUME NEW a \in Builders, a # b, Live(a)
        PROVE  bld[a].data # data /\ mem'[bld[a].data] = mem[bld[a].data]
    <2>1. data # bld[a].data /\ r.mem[bld[a].data] = mem[bld[a].data]
      BY <1>2, <1>5 DEF Reserved
    <2>2. bld[a].data \in Blocks
      BY <1>1, <1>5, BuildersAre DEF Live
    <2> QED
      BY <1>4, <2>1, <2>2
  <1>6. Maps'
    BY <1>1, <1>3, <1>4 DEF Maps
  <1>7. BuilderOK(b)'
    <2>1. bld'[b].data = data /\ bld'[b].cap = cap /\ bld'[b].clean = cap
      BY <1>3
    <2>2. Memory(b)' = m2 /\ Live(b)'
      BY <1>2, <1>3, <1>4, <2>1, BlocksDiffer DEF Memory, Live
    <2>3. Building(stack', m2, off', data, cap)
      BY <1>2
    <2>4. Layout(m2, cap, cap)
      BY <1>3, <2>3, LayoutGrows DEF Building
    <2> QED
      BY <1>2, <1>3, <2>1, <2>2, <2>3, <2>4 DEF BuilderOK
  <1>8. ASSUME NEW a \in Builders PROVE BuilderOK(a)'
    <2>1. CASE a = b
      BY <1>7, <2>1
    <2>2. CASE a # b
      BY <1>1, <1>2, <1>3, <1>5, <2>2, OthersKept
    <2> QED
      BY <2>1, <2>2
  <1>9. Apart'
    <2> SUFFICES ASSUME NEW a \in Builders, NEW c \in Builders, a # c, Live(a)', Live(c)'
                 PROVE  bld'[a].data # bld'[c].data
      BY DEF Apart
    <2>1. CASE a # b /\ c # b
      BY <1>1, <1>3, <2>1 DEF Apart, Live
    <2>2. CASE a = b
      BY <1>3, <1>5, <2>2 DEF Live
    <2>3. CASE c = b
      BY <1>3, <1>5, <2>3 DEF Live
    <2> QED
      BY <2>1, <2>2, <2>3
  <1>10. OneBuilding'
    BY <1>1 DEF OneBuilding
  <1>11. FieldsReserved'
    BY <1>1 DEF FieldsReserved
  <1>12. ((Held(b))' = m2) /\ Held(b) = Memory(b)
    <2>1. ((bld[b].data)' = data) /\ data # NULL
      BY <1>3, BlocksDiffer
    <2>2. Live(b)
      BY <1>1, <1>2 DEF BuilderOK
    <2> QED
      BY <1>4, <2>1, <2>2 DEF Held, Live, Memory
  <1>13. ASSUME NEW a \in Builders, a # b PROVE Held(a)' = Held(a)
    <2>1. bld'[a] = bld[a]
      BY <1>3, <1>13
    <2>2. CASE Live(a)
      BY <1>5, <1>13, <2>1, <2>2 DEF Held, Live, Memory
    <2>3. CASE ~Live(a)
      BY <2>1, <2>3 DEF Held, Live
    <2> QED
      BY <2>2, <2>3
  <1>14. KInv'
    BY <1>6, <1>8, <1>9, <1>10, <1>11 DEF KInv
  <1>15. \A a \in Builders : Held(a)' = IF a = b THEN m2 ELSE Held(a)
    BY <1>12, <1>13
  <1> QED
    BY <1>2, <1>12, <1>14, <1>15

-----------------------------------------------------------------------------
(* The invariant is kept: the life of a builder.                             *)
LEMMA FreedIs ==
    ASSUME Maps, NEW b \in Builders, BuilderOK(b), NEW m2, m2 = [Freed(b) EXCEPT ![Static(b)] = Nothing]
    PROVE  /\ m2 = [x \in Blocks |-> m2[x]] /\ m2[Static(b)] = Nothing
           /\ \A x \in Blocks : x # Static(b) /\ (Live(b) => x # bld[b].data) => m2[x] = mem[x]
  <1>1. Static(b) \in Blocks /\ HeapBlocks \subseteq Blocks
    BY BlocksDiffer
  <1>2. bld[b].data \in HeapBlocks => Live(b)
    BY BlocksDiffer DEF Live
  <1> DEFINE m1 == Freed(b)
  <1>3. /\ m1 = [x \in Blocks |-> m1[x]]
        /\ \A x \in Blocks : (Live(b) => x # bld[b].data) => m1[x] = mem[x]
    BY <1>2 DEF Freed, Maps
  <1> HIDE DEF m1
  <1>4. m2 = [m1 EXCEPT ![Static(b)] = Nothing]
    BY DEF m1
  <1> QED
    BY <1>1, <1>3, <1>4

LEMMA NewBuilderKeeps ==
    ASSUME KInv, NEW b \in Builders, NewBuilder(b)
    PROVE  KInv' /\ Held(b)' = Nothing /\ \A a \in Builders : a # b => Held(a)' = Held(a)
  <1> DEFINE s == [data |-> Static(b), cap |-> StaticWords, clean |-> StaticWords]
  <1>1. Maps /\ FieldsReserved
    BY DEF KInv
  <1>2. /\ mem' = [x \in Blocks |-> mem'[x]] /\ mem'[Static(b)] = Nothing
        /\ \A x \in Blocks : x # Static(b) => mem'[x] = mem[x]
    BY <1>1, BlocksDiffer DEF NewBuilder, Maps
  <1>3. FieldsReserved'
    BY <1>1 DEF NewBuilder, FieldsReserved
  <1>4. /\ phase[b] # "building" /\ phase' = [phase EXCEPT ![b] = "open"]
        /\ bld' = [bld EXCEPT ![b] = s] /\ s.data = Static(b)
        /\ UNCHANGED <<stack, off>>
    BY DEF NewBuilder, Initialised
  <1> HIDE DEF s
  <1>5. s \in {[data |-> NULL, cap |-> 0, clean |-> 0],
               [data |-> Static(b), cap |-> StaticWords, clean |-> StaticWords]}
    BY DEF s
  <1> QED
    BY <1>2, <1>3, <1>4, <1>5, Renewed

LEMMA DeleteBuilderKeeps ==
    ASSUME KInv, NEW b \in Builders, DeleteBuilder(b)
    PROVE  KInv' /\ Held(b)' = Nothing /\ \A a \in Builders : a # b => Held(a)' = Held(a)
  <1> DEFINE s == [data |-> NULL, cap |-> 0, clean |-> 0]
  <1>1. Maps /\ FieldsReserved /\ BuilderOK(b)
    BY DEF KInv
  <1>2. /\ mem' = [x \in Blocks |-> mem'[x]] /\ mem'[Static(b)] = Nothing
        /\ \A x \in Blocks : x # Static(b) /\ (Live(b) => x # bld[b].data) => mem'[x] = mem[x]
    <2>1. mem' = [Freed(b) EXCEPT ![Static(b)] = Nothing]
      BY DEF DeleteBuilder
    <2> QED
      BY <1>1, <2>1, FreedIs
  <1>3. FieldsReserved'
    BY <1>1, DestroyReservesFields DEF DeleteBuilder
  <1>4. /\ phase[b] # "building" /\ phase' = [phase EXCEPT ![b] = "none"]
        /\ bld' = [bld EXCEPT ![b] = s]
        /\ UNCHANGED <<stack, off>>
    BY DEF DeleteBuilder
  <1> HIDE DEF s
  <1>5. s \in {[data |-> NULL, cap |-> 0, clean |-> 0],
               [data |-> Static(b), cap |-> StaticWords, clean |-> StaticWords]}
    BY DEF s
  <1> QED
    BY <1>2, <1>3, <1>4, <1>5, Renewed

LEMMA ResetKeeps ==
    ASSUME KInv, NEW b \in Builders, Reset(b)
    PROVE  KInv' /\ Held(b)' = Nothing /\ \A a \in Builders : a # b => Held(a)' = Held(a)
  <1> DEFINE s == [data |-> Static(b), cap |-> StaticWords, clean |-> StaticWords]
  <1>1. Maps /\ FieldsReserved /\ BuilderOK(b)
    BY DEF KInv
  <1>2. /\ mem' = [x \in Blocks |-> mem'[x]] /\ mem'[Static(b)] = Nothing
        /\ \A x \in Blocks : x # Static(b) /\ (Live(b) => x # bld[b].data) => mem'[x] = mem[x]
    <2>1. mem' = [Freed(b) EXCEPT ![Static(b)] = Nothing]
      BY DEF Reset
    <2> QED
      BY <1>1, <2>1, FreedIs
  <1>3. FieldsReserved'
    BY <1>1, DestroyReservesFields DEF Reset
  <1>4. /\ phase[b] # "building" /\ phase' = [phase EXCEPT ![b] = "open"]
        /\ bld' = [bld EXCEPT ![b] = s] /\ s.data = Static(b)
        /\ UNCHANGED <<stack, off>>
    BY DEF Reset, Initialised
  <1> HIDE DEF s
  <1>5. s \in {[data |-> NULL, cap |-> 0, clean |-> 0],
               [data |-> Static(b), cap |-> StaticWords, clean |-> StaticWords]}
    BY DEF s
  <1> QED
    BY <1>2, <1>3, <1>4, <1>5, Renewed

(* What one of two builders that swap takes over from the other.             *)
Moved(s, from, to) == IF s.data = Static(from) THEN [s EXCEPT !.data = Static(to)] ELSE s

LEMMA TakenOver ==
    ASSUME KInv, NEW a \in Builders, NEW b \in Builders, a # b, phase[b] \in {"open", "built"},
           phase'[a] = phase[b], bld'[a] = Moved(bld[b], b, a),
           mem'[Static(a)] = IF bld[b].data = Static(b) THEN mem[Static(b)] ELSE mem[Static(a)],
           \A x \in Blocks : x \notin {Static(a), Static(b)} => mem'[x] = mem[x]
    PROVE  /\ BuilderOK(a)' /\ Live(a)' /\ Memory(a)' = Memory(b) /\ Live(b)
           /\ bld'[a].data = Static(a) \/ (bld'[a].data = bld[b].data /\ bld[b].data \in HeapBlocks)
  <1>1. BuilderOK(b) /\ Live(b) /\ bld[b].data \in HeapBlocks \cup {Static(b)}
    BY BuildersAre DEF KInv, BuilderOK
  <1> DEFINE d == IF bld[b].data = Static(b) THEN Static(a) ELSE bld[b].data
  <1>2. bld[b] = [data |-> bld[b].data, cap |-> bld[b].cap, clean |-> bld[b].clean]
    BY <1>1 DEF BuilderOK
  <1>3. bld'[a] = [data |-> d, cap |-> bld[b].cap, clean |-> bld[b].clean]
    <2>1. CASE bld[b].data = Static(b)
      <3>1. bld'[a] = [bld[b] EXCEPT !.data = Static(a)]
        BY <2>1 DEF Moved
      <3>2. [[data |-> bld[b].data, cap |-> bld[b].cap, clean |-> bld[b].clean]
                EXCEPT !.data = Static(a)]
                = [data |-> Static(a), cap |-> bld[b].cap, clean |-> bld[b].clean]
        OBVIOUS
      <3> QED
        BY <1>2, <2>1, <3>1, <3>2, Zenon
    <2>2. CASE bld[b].data # Static(b)
      BY <1>2, <2>2 DEF Moved
    <2> QED
      BY <2>1, <2>2
  <1>4. d \in HeapBlocks \cup {Static(a)} /\ d # NULL /\ (d # Static(a) => d = bld[b].data /\ d \in HeapBlocks)
    BY <1>1, BlocksDiffer
  <1>5. mem'[d] = Memory(b)
    <2>1. CASE bld[b].data = Static(b)
      BY <2>1 DEF Memory
    <2>2. CASE bld[b].data # Static(b)
      <3>1. d \in Blocks /\ d \notin {Static(a), Static(b)}
        BY <1>1, <2>2, BlocksDiffer
      <3> QED
        BY <2>2, <3>1 DEF Memory
    <2> QED
      BY <2>1, <2>2
  <1> HIDE DEF d
  <1>7. Memory(a)' = Memory(b) /\ Live(a)' /\ bld'[a].data = d
    BY <1>3, <1>4, <1>5 DEF Memory, Live
  <1>8. BuilderOK(a)'
    BY <1>1, <1>3, <1>4, <1>7 DEF BuilderOK
  <1> QED
    BY <1>1, <1>4, <1>7, <1>8

LEMMA SwapKeeps ==
    ASSUME KInv, NEW a \in Builders, NEW b \in Builders, Swap(a, b)
    PROVE  /\ KInv'
           /\ Held(a)' = Held(b) /\ Held(b)' = Held(a)
           /\ \A c \in Builders : c # a /\ c # b => Held(c)' = Held(c)
  <1>1. /\ Maps /\ Apart /\ OneBuilding /\ FieldsReserved /\ \A c \in Builders : BuilderOK(c)
        /\ a # b /\ phase[a] \in {"open", "built"} /\ phase[b] \in {"open", "built"}
    BY DEF KInv, Swap
  <1>2. Static(a) \in Blocks /\ Static(b) \in Blocks /\ Static(a) # Static(b)
    BY <1>1, BlocksDiffer
  <1>3. /\ bld' = [c \in Builders |-> bld'[c]]
        /\ bld'[a] = Moved(bld[b], b, a) /\ bld'[b] = Moved(bld[a], a, b)
        /\ \A c \in Builders : c # a /\ c # b => bld'[c] = bld[c]
    <2>1. bld' = [bld EXCEPT ![a] = Moved(bld[b], b, a), ![b] = Moved(bld[a], a, b)]
      BY DEF Swap, Moved
    <2> QED
      BY <1>1, <2>1 DEF Maps
  <1>4. /\ phase' = [c \in Builders |-> phase'[c]] /\ phase'[a] = phase[b] /\ phase'[b] = phase[a]
        /\ \A c \in Builders : c # a /\ c # b => phase'[c] = phase[c]
    BY <1>1 DEF Swap, Maps
  <1>5. /\ mem' = [x \in Blocks |-> mem'[x]]
        /\ mem'[Static(a)] = IF bld[b].data = Static(b) THEN mem[Static(b)] ELSE mem[Static(a)]
        /\ mem'[Static(b)] = IF bld[a].data = Static(a) THEN mem[Static(a)] ELSE mem[Static(b)]
        /\ \A x \in Blocks : x \notin {Static(a), Static(b)} => mem'[x] = mem[x]
    <2>1. mem' = [mem EXCEPT ![Static(a)] = IF bld[b].data = Static(b) THEN mem[Static(b)] ELSE @,
                             ![Static(b)] = IF bld[a].data = Static(a) THEN mem[Static(a)] ELSE @]
      BY DEF Swap
    <2> QED
      BY <1>1, <1>2, <2>1 DEF Maps
  <1>6. /\ BuilderOK(a)' /\ Live(a)' /\ Memory(a)' = Memory(b) /\ Live(b)
        /\ bld'[a].data = Static(a) \/ (bld'[a].data = bld[b].data /\ bld[b].data \in HeapBlocks)
    BY <1>1, <1>3, <1>4, <1>5, TakenOver
  <1>7. /\ BuilderOK(b)' /\ Live(b)' /\ Memory(b)' = Memory(a) /\ Live(a)
        /\ bld'[b].data = Static(b) \/ (bld'[b].data = bld[a].data /\ bld[a].data \in HeapBlocks)
    <2>1. \A x \in Blocks : x \notin {Static(b), Static(a)} => mem'[x] = mem[x]
      BY <1>5
    <2> QED
      BY <1>1, <1>3, <1>4, <1>5, <2>1, TakenOver
  <1>8. UNCHANGED <<stack, off, wild>>
    BY DEF Swap
  <1>9. ASSUME NEW c \in Builders, c # a, c # b, Live(c)
        PROVE  /\ bld[c].data \notin {Static(a), Static(b)}
               /\ mem'[bld[c].data] = mem[bld[c].data]
               /\ Live(a) => bld[c].data # bld[a].data
               /\ Live(b) => bld[c].data # bld[b].data
    <2>1. bld[c].data \in Blocks /\ bld[c].data \in HeapBlocks \cup {Static(c)}
      BY <1>1, <1>9, BuildersAre DEF Live
    <2>2. bld[c].data \notin {Static(a), Static(b)}
      BY <1>9, <2>1, BlocksDiffer
    <2> QED
      BY <1>1, <1>5, <1>9, <2>1, <2>2 DEF Apart
  <1>10. ASSUME NEW c \in Builders PROVE BuilderOK(c)'
    <2>1. CASE c = a \/ c = b
      BY <1>6, <1>7, <2>1
    <2>2. CASE c # a /\ c # b
      BY <1>1, <1>3, <1>4, <1>8, <1>9, <2>2, OthersKept
    <2> QED
      BY <2>1, <2>2
  <1>11. Apart'
    <2> SUFFICES ASSUME NEW c \in Builders, NEW e \in Builders, c # e, Live(c)', Live(e)'
                 PROVE  bld'[c].data # bld'[e].data
      BY DEF Apart
    <2>1. Live(a) /\ Live(b) /\ bld[a].data # bld[b].data
      BY <1>1 DEF BuilderOK, Apart
    <2>2. bld'[a].data # bld'[b].data
      BY <1>1, <1>2, <1>6, <1>7, <2>1, BlocksDiffer
    <2>3. ASSUME NEW x \in Builders, x # a, x # b, Live(x)'
          PROVE  bld'[x].data # bld'[a].data /\ bld'[x].data # bld'[b].data
      <3>1. bld'[x] = bld[x] /\ Live(x)
        BY <1>3, <2>3 DEF Live
      <3> QED
        BY <1>6, <1>7, <1>9, <2>1, <2>3, <3>1
    <2>4. CASE c \in {a, b} /\ e \in {a, b}
      BY <2>2, <2>4
    <2>5. CASE c \notin {a, b} /\ e \in {a, b}
      BY <2>3, <2>5
    <2>6. CASE c \in {a, b} /\ e \notin {a, b}
      BY <2>3, <2>6
    <2>7. CASE c \notin {a, b} /\ e \notin {a, b}
      BY <1>1, <1>3, <2>7 DEF Apart, Live
    <2> QED
      BY <2>4, <2>5, <2>6, <2>7
  <1>12. OneBuilding'
    <2>1. \A c \in Builders : phase'[c] = "building" <=> phase[c] = "building"
      BY <1>1, <1>4
    <2> QED
      BY <1>1, <1>8, <2>1 DEF OneBuilding
  <1>13. Maps' /\ FieldsReserved'
    BY <1>1, <1>3, <1>4, <1>5, <1>8 DEF Maps, FieldsReserved
  <1>14. Held(a)' = Held(b) /\ Held(b)' = Held(a)
    BY <1>6, <1>7 DEF Held
  <1>15. ASSUME NEW c \in Builders, c # a, c # b PROVE Held(c)' = Held(c)
    <2>1. bld'[c] = bld[c]
      BY <1>3, <1>15
    <2>2. CASE Live(c)
      BY <1>9, <1>15, <2>1, <2>2 DEF Held, Live, Memory
    <2>3. CASE ~Live(c)
      BY <2>1, <2>3 DEF Held, Live
    <2> QED
      BY <2>2, <2>3
  <1> QED
    BY <1>10, <1>11, <1>12, <1>13, <1>14, <1>15 DEF KInv

-----------------------------------------------------------------------------
(* The invariant is kept: the instantiate functions.                         *)
LEMMA InstantiateKeeps ==
    ASSUME KInv, NEW b \in Builders, NEW k \in Kinds, Instantiate(b, k)
    PROVE  KInv'
  <1>1. /\ Maps /\ Apart /\ OneBuilding /\ FieldsReserved /\ \A c \in Builders : BuilderOK(c)
        /\ stack = <<>> /\ phase[b] = "open"
        /\ phase' = [phase EXCEPT ![b] = "building"] /\ off' = 0 /\ stack' = <<Frame(k, 0)>>
        /\ bld' = bld /\ mem' = mem /\ wild' = wild
    BY DEF KInv, Instantiate
  <1>2. \A c \in Builders : phase[c] # "building"
    BY <1>1 DEF OneBuilding
  <1>3. /\ phase' = [c \in Builders |-> phase'[c]] /\ phase'[b] = "building"
        /\ \A c \in Builders : c # b => phase'[c] = phase[c]
    BY <1>1 DEF Maps
  <1>4. /\ BuilderOK(b) /\ Live(b) /\ bld[b].cap \in Nat
        /\ DOMAIN Memory(b) = {} /\ Layout(Memory(b), bld[b].cap, bld[b].cap)
    BY <1>1 DEF BuilderOK
  <1>5. /\ stack' \in Seq(FrameSet) /\ stack' # <<>>
        /\ Building(stack', Memory(b), off', bld[b].data, bld[b].cap)
    <2>1. Memory(b) = [o \in DOMAIN Memory(b) |-> Memory(b)[o]]
      BY <1>4 DEF Layout
    <2>2. <<Frame(k, 0)>> # <<>>
      OBVIOUS
    <2> QED
      BY <1>1, <1>4, <2>1, <2>2, StartTree
  <1>6. ASSUME NEW c \in Builders PROVE BuilderOK(c)'
    <2>1. CASE c = b
      <3>1. Memory(b)' = Memory(b) /\ (Live(b)' <=> Live(b))
        BY <1>1 DEF Memory, Live
      <3> QED
        BY <1>1, <1>3, <1>4, <1>5, <2>1, <3>1 DEF BuilderOK
    <2>2. CASE c # b
      BY <1>1, <1>2, <1>3, <2>2, OthersKept
    <2> QED
      BY <2>1, <2>2
  <1>7. OneBuilding'
    BY <1>2, <1>3, <1>5 DEF OneBuilding
  <1>8. Maps' /\ Apart' /\ FieldsReserved'
    BY <1>1, <1>3, <1>5 DEF Maps, Apart, Live, FieldsReserved
  <1> QED
    BY <1>6, <1>7, <1>8 DEF KInv

(* The innermost frame, and the builder it works on.                         *)
LEMMA Innermost ==
    ASSUME KInv, stack # <<>>
    PROVE  /\ Cur \in Builders /\ phase[Cur] = "building" /\ Live(Cur) /\ BuilderOK(Cur)
           /\ bld[Cur].cap \in Nat /\ bld[Cur].data \in Blocks
           /\ stack \in Seq(FrameSet) /\ Top = stack[Len(stack)] /\ Top \in FrameSet
           /\ off \in Nat /\ Building(stack, Memory(Cur), off, bld[Cur].data, bld[Cur].cap)
           /\ FrameOK(Top, Memory(Cur))
           /\ Maps /\ Apart /\ \A a \in Builders : BuilderOK(a)
  <1>1. /\ Maps /\ Apart /\ OneBuilding /\ \A a \in Builders : BuilderOK(a)
    BY DEF KInv
  <1>2. Cur \in Builders /\ phase[Cur] = "building"
    BY <1>1, CurIs
  <1>3. /\ Live(Cur) /\ bld[Cur].cap \in Nat
        /\ Building(stack, Memory(Cur), off, bld[Cur].data, bld[Cur].cap)
    BY <1>1, <1>2 DEF BuilderOK
  <1>4. bld[Cur].data \in Blocks
    BY <1>1, <1>2, <1>3, BuildersAre DEF Live
  <1>5. stack \in Seq(FrameSet)
    BY <1>1 DEF Maps
  <1>6. Len(stack) \in 1..Len(stack) /\ Top = stack[Len(stack)] /\ Top \in FrameSet
    BY <1>5, TopIs DEF Top, Last
  <1>7. off \in Nat /\ FrameOK(Top, Memory(Cur))
    BY <1>3, <1>6 DEF Building, Frames
  <1> QED
    BY <1>1, <1>2, <1>3, <1>4, <1>5, <1>6, <1>7

LEMMA AdvancedIs ==
    ASSUME stack \in Seq(FrameSet), stack # <<>>, NEW p \in Blocks \cup {NULL}
    PROVE  Advanced(p) = Advance(stack, p) /\ Advanced(p) \in Seq(FrameSet) /\ Advanced(p) # <<>>
  <1>1. Advanced(p) = Advance(stack, p)
    BY DEF Advanced, Advance
  <1>2. Advance(stack, p) \in Seq(FrameSet) /\ Len(Advance(stack, p)) = Len(stack)
    BY AdvanceIs
  <1>3. Len(stack) >= 1 /\ Len(stack) \in Nat
    BY TopIs
  <1> QED
    BY <1>1, <1>2, <1>3

LEMMA MakeKeeps ==
    ASSUME KInv, Make
    PROVE  /\ KInv'
           /\ Cur \in Builders /\ Top.root \notin DOMAIN Held(Cur)
           /\ \E k : /\ k.id = CHOOSE x \in Ids \ alive : TRUE
                     /\ \A a \in Builders :
                           Held(a)' = IF a = Cur THEN Placed(Held(a), Top.root, k) ELSE Held(a)
  <1> DEFINE n == off + Size[Top.kind]
  <1>1. stack # <<>> /\ Running("make")
    BY DEF Make, Running
  <1>2. /\ Cur \in Builders /\ Live(Cur) /\ BuilderOK(Cur)
        /\ bld[Cur].cap \in Nat
        /\ stack \in Seq(FrameSet) /\ Top = stack[Len(stack)] /\ Top \in FrameSet
        /\ off \in Nat /\ Building(stack, Memory(Cur), off, bld[Cur].data, bld[Cur].cap)
        /\ FrameOK(Top, Memory(Cur))
        /\ Maps /\ Apart /\ \A a \in Builders : BuilderOK(a)
    BY <1>1, Innermost
  <1>3. Top.kind \in Kinds /\ Top.at \in Nat /\ n \in Nat /\ Wanted = n
    BY <1>1, <1>2, FrameIs, FamilySizes DEF Wanted
  <1>4. Top.at = 1
    <2>1. Top.at \in 1..Len(Program[Top.kind]) /\ Program[Top.kind][Top.at] = "make"
      BY <1>1, <1>2, <1>3, FamilySizes DEF Running, Statement, FrameOK
    <2> QED
      BY <1>3, <2>1, AtMake
  <1>5. PICK r \in AfterReserve(Cur, n) :
            LET data == r.bld[Cur].data
                id == CHOOSE x \in Ids \ alive : TRUE
                k == [kind |-> Top.kind, kids |-> [i \in 1 .. Recorded[Top.kind] |-> 0], id |-> id]
            IN  /\ bld' = r.bld
                /\ mem' = [r.mem EXCEPT ![data] = Placed(r.mem[data], Top.root, k)]
                /\ stack' = Advanced(data)
    BY <1>3 DEF Make
  <1> DEFINE data == r.bld[Cur].data
             id == CHOOSE x \in Ids \ alive : TRUE
             k == [kind |-> Top.kind, kids |-> [i \in 1 .. Recorded[Top.kind] |-> 0], id |-> id]
             m2 == Placed(Memory(Cur), Top.root, k)
  <1>6. off' = n /\ phase' = phase /\ wild' = wild
    BY DEF Make
  <1> HIDE DEF n
  <1>7. Reserved(Cur, r) /\ n <= r.bld[Cur].cap
    BY <1>2, <1>3, <1>5, SomeReserved
  <1>8. /\ data \in Blocks /\ r.bld[Cur].cap \in Nat /\ bld[Cur].cap <= r.bld[Cur].cap
        /\ r.mem[data] = Memory(Cur)
    BY <1>2, <1>7, BlocksDiffer DEF Reserved
  <1>9. mem' = [r.mem EXCEPT ![data] = m2] /\ bld' = r.bld
    BY <1>5, <1>8
  <1>10. stack' = Advance(stack, data) /\ stack' \in Seq(FrameSet) /\ stack' # <<>>
    BY <1>1, <1>2, <1>5, <1>8, AdvancedIs
  <1>11. Building(Advance(stack, data), m2, off + Size[Top.kind], data, r.bld[Cur].cap)
    <2>1. k = [kind |-> Top.kind, kids |-> [i \in 1 .. Recorded[Top.kind] |-> 0], id |-> id]
      OBVIOUS
    <2>2. off + Size[Top.kind] <= r.bld[Cur].cap
      BY <1>7 DEF n
    <2> HIDE DEF k, id, data
    <2> QED
      BY <1>1, <1>2, <1>4, <1>8, <2>1, <2>2, PlaceKernel
  <1>12. Building(stack', m2, off', data, r.bld[Cur].cap)
    BY <1>6, <1>10, <1>11 DEF n
  <1>13. Top.root \notin DOMAIN Memory(Cur)
    <2>1. Len(stack) >= 1 /\ stack[Len(stack)].at = 1
      BY <1>1, <1>2, <1>4, TopIs
    <2>2. Top.root = off
      BY <1>2, <2>1 DEF Building, Frames
    <2> QED
      BY <1>2, <2>2, Below DEF Building
  <1>14. k.id = CHOOSE x \in Ids \ alive : TRUE
    OBVIOUS
  <1>15. m2 = Placed(Memory(Cur), Top.root, k)
    OBVIOUS
  <1> HIDE DEF m2, k
  <1>16. /\ KInv' /\ Cur \in Builders /\ Held(Cur) = Memory(Cur)
         /\ \A a \in Builders : Held(a)' = IF a = Cur THEN m2 ELSE Held(a)
    BY <1>1, <1>6, <1>7, <1>9, <1>10, <1>12, BuildingStep
  <1>17. \A a \in Builders :
             Held(a)' = IF a = Cur THEN Placed(Held(a), Top.root, k) ELSE Held(a)
    BY <1>15, <1>16
  <1> QED
    BY <1>13, <1>14, <1>16, <1>17

(* What Record writes.                                                       *)
LEMMA RecordIs ==
    ASSUME Top \in FrameSet, NEW m, FrameOK(Top, m),
           Top.at <= Len(Program[Top.kind]),
           Program[Top.kind][Top.at] \in {"field", "first", "buffer"},
           NEW mm, NEW d, mm[d] = m, NEW o
    PROVE  LET j == RecordsBefore[Top.kind][Top.at] + 1 IN
           Record(mm, d, o)
               = [mm EXCEPT ![d] = [m EXCEPT ![Top.root] = WithKid(m[Top.root], j, o - Top.root)]]
  <1> DEFINE j == RecordsBefore[Top.kind][Top.at] + 1
             P(x) == m[Top.root].kids[x] = 0 /\ \A h \in 1..x - 1 : m[Top.root].kids[h] # 0
             i == CHOOSE x \in 1..Recorded[Top.kind] : P(x)
  <1>1. Top.kind \in Kinds /\ Top.at \in Nat /\ Top.at \in 1..Len(Program[Top.kind])
    BY FrameIs, FamilySizes DEF FrameOK
  <1>2. /\ Top.at > 1 /\ Recorded[Top.kind] = 2 /\ RecordsBefore[Top.kind][Top.at] \in {0, 1}
    BY <1>1, AtRecord
  <1>3. /\ Top.root \in DOMAIN m
        /\ \A h \in 1..2 : m[Top.root].kids[h] # 0 <=> h <= RecordsBefore[Top.kind][Top.at]
    BY <1>2 DEF FrameOK
  <1>4. j \in 1..2 /\ \A h \in 1..2 : m[Top.root].kids[h] # 0 <=> h < j
    BY <1>2, <1>3
  <1> HIDE DEF j
  <1>5. P(j)
    BY <1>4
  <1>6. \A x \in 1..2 : P(x) => x = j
    <2> SUFFICES ASSUME NEW x \in 1..2, P(x), x # j PROVE FALSE
      OBVIOUS
    <2>1. CASE x < j
      BY <1>4, <2>1
    <2>2. CASE j < x
      BY <1>4, <2>2
    <2> QED
      BY <1>4, <2>1, <2>2
  <1> HIDE DEF P
  <1>7. i = j
    BY <1>2, <1>4, <1>5, <1>6
  <1>8. i = CHOOSE x \in 1 .. Recorded[Top.kind] :
                /\ mm[d][Top.root].kids[x] = 0
                /\ \A h \in 1 .. x - 1 : mm[d][Top.root].kids[h] # 0
    BY DEF P
  <1> HIDE DEF i
  <1>9. Record(mm, d, o) = [mm EXCEPT ![d][Top.root].kids[i] = o - Top.root]
    BY <1>3, <1>8 DEF Record
  <1> DEFINE r == Top.root
             v == o - Top.root
  <1>10. Record(mm, d, o) = [mm EXCEPT ![d][r].kids[i] = v]
    BY <1>9
  <1> HIDE DEF r, v
  <1>11. Record(mm, d, o) = [mm EXCEPT ![d] = [mm[d] EXCEPT ![r] = WithKid(mm[d][r], i, v)]]
    BY <1>10 DEF WithKid
  <1> QED
    BY <1>7, <1>11 DEF j, r, v

LEMMA RunningRecord ==
    ASSUME KInv, NEW s \in {"field", "first", "buffer"}, Running(s)
    PROVE  /\ stack # <<>> /\ Top.at <= Len(Program[Top.kind])
           /\ Program[Top.kind][Top.at] = s /\ Top.kind \in Kinds
  <1>1. stack # <<>>
    BY DEF Running
  <1> QED
    BY <1>1, Innermost, FrameIs DEF Running, Statement

(* The three statements that record a child after outcome r of reserve.      *)
LEMMA RecordKeeps ==
    ASSUME KInv, NEW s \in {"field", "first", "buffer"}, Running(s),
           NEW g, g = IF s = "buffer" THEN BufferWords ELSE 0,
           NEW r, Reserved(Cur, r), off + g <= r.bld[Cur].cap,
           s = "field" => off + Prefix <= r.bld[Cur].cap,
           bld' = r.bld, mem' = Record(r.mem, r.bld[Cur].data, off + g),
           stack' = Advanced(r.bld[Cur].data), off' = off + g, phase' = phase, wild' = wild
    PROVE  KInv' /\ SameKernels
  <1> DEFINE data == r.bld[Cur].data
             cap2 == r.bld[Cur].cap
             m    == Memory(Cur)
             j    == RecordsBefore[Top.kind][Top.at] + 1
             m2   == [m EXCEPT ![Top.root] = WithKid(m[Top.root], j, (off + g) - Top.root)]
  <1>1. /\ stack # <<>> /\ Top.at <= Len(Program[Top.kind])
        /\ Program[Top.kind][Top.at] = s
    BY RunningRecord
  <1>2. /\ Cur \in Builders /\ Live(Cur) /\ BuilderOK(Cur)
        /\ bld[Cur].cap \in Nat
        /\ stack \in Seq(FrameSet) /\ Top = stack[Len(stack)] /\ Top \in FrameSet
        /\ off \in Nat /\ Building(stack, m, off, bld[Cur].data, bld[Cur].cap)
        /\ FrameOK(Top, m)
    BY <1>1, Innermost
  <1>3. /\ data \in Blocks /\ cap2 \in Nat /\ bld[Cur].cap <= cap2 /\ r.mem[data] = m
    BY <1>2, BlocksDiffer DEF Reserved
  <1>4. mem' = [r.mem EXCEPT ![data] = m2]
    <2>1. Program[Top.kind][Top.at] \in {"field", "first", "buffer"}
      BY <1>1
    <2> HIDE DEF data, m
    <2>2. Record(r.mem, data, off + g) = [r.mem EXCEPT ![data] = m2]
      BY <1>1, <1>2, <1>3, <2>1, RecordIs
    <2> QED
      BY <2>2 DEF data
  <1>5. stack' = Advance(stack, data) /\ stack' \in Seq(FrameSet) /\ stack' # <<>>
    BY <1>1, <1>2, <1>3, AdvancedIs
  <1>6. Records(Top, m, off, g, m2, cap2)
    BY <1>1 DEF Records
  <1>7. Building(stack', m2, off', data, cap2)
    <2>1. Building(Advance(stack, data), m2, off + g, data, cap2)
      <3> HIDE DEF data, cap2, m, m2
      <3> QED
        BY <1>1, <1>2, <1>3, <1>6, RecordChild
    <2> QED
      BY <1>5, <2>1
  <1>8. DOMAIN m2 = DOMAIN m /\ \A o \in DOMAIN m : m2[o].id = m[o].id
    <2> DEFINE root == Top.root
    <2>1. \A o \in DOMAIN m : KernelOK(m[o])
      BY <1>2, Below DEF Building
    <2>2. DOMAIN m2 = DOMAIN m /\ \A o \in DOMAIN m : o # root => m2[o] = m[o]
      OBVIOUS
    <2>3. ASSUME root \in DOMAIN m PROVE m2[root].id = m[root].id
      <3>1. m2[root] = WithKid(m[root], j, (off + g) - root)
        BY <2>3
      <3>2. m[root] = [kind |-> m[root].kind, kids |-> m[root].kids, id |-> m[root].id]
        BY <2>1, <2>3 DEF KernelOK
      <3> HIDE DEF j, m, m2, root
      <3> QED
        BY <3>1, <3>2 DEF WithKid
    <2> QED
      BY <2>2, <2>3
  <1> HIDE DEF m2
  <1>9. /\ KInv' /\ Held(Cur) = m
        /\ \A a \in Builders : Held(a)' = IF a = Cur THEN m2 ELSE Held(a)
    BY <1>1, <1>4, <1>5, <1>7, BuildingStep
  <1> HIDE DEF m
  <1>10. ASSUME NEW a \in Builders
         PROVE  /\ DOMAIN Held(a)' = DOMAIN Held(a)
                /\ \A o \in DOMAIN Held(a) : Held(a)'[o].id = Held(a)[o].id
                /\ phase[a] # "building" => Held(a)' = Held(a)
    <2>1. CASE a = Cur
      <3>1. Held(a)' = m2 /\ Held(a) = m
        BY <1>9, <2>1
      <3>2. phase[a] = "building"
        BY <1>1, <2>1, Innermost
      <3> QED
        BY <1>8, <3>1, <3>2
    <2>2. CASE a # Cur
      BY <1>9, <2>2
    <2> QED
      BY <2>1, <2>2
  <1>11. SameKernels
    BY <1>10 DEF SameKernels
  <1> QED
    BY <1>9, <1>11

LEMMA RecordFirstKeeps ==
    ASSUME KInv, RecordFirst
    PROVE  KInv' /\ SameKernels
  <1> DEFINE r == [bld |-> bld, mem |-> mem]
  <1>1. Running("first") /\ stack # <<>>
    BY DEF RecordFirst, Running
  <1>2. /\ Cur \in Builders /\ Live(Cur) /\ BuilderOK(Cur) /\ Maps /\ Apart
        /\ Top = stack[Len(stack)] /\ FrameOK(Top, Memory(Cur)) /\ Top \in FrameSet
        /\ off \in Nat /\ Building(stack, Memory(Cur), off, bld[Cur].data, bld[Cur].cap)
    BY <1>1, Innermost
  <1>3. Reserved(Cur, r) /\ r.bld = bld /\ r.mem = mem
    BY <1>2, NothingReserved
  <1>4. Top.self = bld[Cur].data
    <2>1. Top.kind \in Kinds /\ Top.at \in 1..Len(Program[Top.kind]) /\ Program[Top.kind][Top.at] = "first"
      BY <1>1, <1>2, RunningRecord, FamilySizes DEF FrameOK
    <2>2. Top.kind \in Expressions /\ Top.at = 2
      BY <2>1, AtRecord
    <2> QED
      BY <1>2, <2>2 DEF Building, Pointer
  <1>5. off + 0 = off /\ off <= bld[Cur].cap
    BY <1>2 DEF Building
  <1> HIDE DEF r
  <1>6. /\ bld' = r.bld /\ mem' = Record(r.mem, r.bld[Cur].data, off + 0)
        /\ stack' = Advanced(r.bld[Cur].data) /\ off' = off + 0 /\ phase' = phase /\ wild' = wild
    BY <1>3, <1>4, <1>5 DEF RecordFirst
  <1>7. 0 = (IF "first" = "buffer" THEN BufferWords ELSE 0) /\ "first" # "field"
    OBVIOUS
  <1> QED
    BY <1>1, <1>3, <1>5, <1>6, <1>7, RecordKeeps

LEMMA RecordFieldKeeps ==
    ASSUME KInv, RecordField
    PROVE  KInv' /\ SameKernels
  <1>1. Running("field") /\ stack # <<>>
    BY DEF RecordField, Running
  <1>2. /\ Cur \in Builders /\ Live(Cur) /\ Maps /\ Apart /\ \A a \in Builders : BuilderOK(a)
        /\ off \in Nat
    BY <1>1, Innermost
  <1>3. Wanted = off + Prefix /\ off + Prefix \in Nat
    BY <1>1, <1>2 DEF Wanted, Running, Prefix
  <1>4. PICK r \in AfterReserve(Cur, off + Prefix) :
            /\ bld' = r.bld
            /\ mem' = Record(r.mem, r.bld[Cur].data, off)
            /\ stack' = Advanced(r.bld[Cur].data)
    BY <1>3 DEF RecordField
  <1>5. Reserved(Cur, r) /\ off + Prefix <= r.bld[Cur].cap
    BY <1>2, <1>3, SomeReserved
  <1>6. off + 0 = off /\ off + 0 <= r.bld[Cur].cap
    BY <1>2, <1>5 DEF Prefix, Reserved
  <1>7. off' = off + 0 /\ phase' = phase /\ wild' = wild
    BY <1>6 DEF RecordField
  <1>8. 0 = (IF "field" = "buffer" THEN BufferWords ELSE 0)
    OBVIOUS
  <1>9. mem' = Record(r.mem, r.bld[Cur].data, off + 0)
    BY <1>4, <1>6
  <1> QED
    BY <1>1, <1>4, <1>5, <1>6, <1>7, <1>8, <1>9, RecordKeeps

LEMMA RecordBufferKeeps ==
    ASSUME KInv, RecordBuffer
    PROVE  KInv' /\ SameKernels
  <1>1. Running("buffer") /\ stack # <<>>
    BY DEF RecordBuffer, Running
  <1>2. /\ Cur \in Builders /\ Live(Cur) /\ Maps /\ Apart /\ \A a \in Builders : BuilderOK(a)
        /\ off \in Nat
    BY <1>1, Innermost
  <1> DEFINE n == off + BufferWords + Prefix
  <1>3. Wanted = n /\ n \in Nat
    BY <1>1, <1>2 DEF Wanted, Running, Prefix, BufferWords
  <1>4. PICK r \in AfterReserve(Cur, n) :
            /\ bld' = r.bld
            /\ mem' = Record(r.mem, r.bld[Cur].data, off + BufferWords)
            /\ stack' = Advanced(r.bld[Cur].data)
    BY <1>3 DEF RecordBuffer
  <1>5. Reserved(Cur, r) /\ n <= r.bld[Cur].cap
    BY <1>2, <1>3, SomeReserved
  <1>6. off + BufferWords <= r.bld[Cur].cap
    BY <1>2, <1>5 DEF Prefix, BufferWords, Reserved
  <1>7. off' = off + BufferWords /\ phase' = phase /\ wild' = wild
    BY DEF RecordBuffer
  <1>8. BufferWords = (IF "buffer" = "buffer" THEN BufferWords ELSE 0) /\ "buffer" # "field"
    OBVIOUS
  <1> QED
    BY <1>1, <1>4, <1>5, <1>6, <1>7, <1>8, RecordKeeps

LEMMA CallKeeps ==
    ASSUME KInv, NEW k \in Kinds, Call(k)
    PROVE  KInv'
  <1> DEFINE r == [bld |-> bld, mem |-> mem]
             f == Top
  <1>1. Running("call") /\ stack # <<>>
    BY DEF Call, Running
  <1>2. /\ Cur \in Builders /\ Live(Cur) /\ BuilderOK(Cur) /\ Maps /\ Apart
        /\ bld[Cur].cap \in Nat /\ bld[Cur].data \in Blocks
        /\ stack \in Seq(FrameSet)
        /\ f = stack[Len(stack)] /\ f \in FrameSet
        /\ off \in Nat /\ Building(stack, Memory(Cur), off, bld[Cur].data, bld[Cur].cap)
    BY <1>1, Innermost
  <1>3. Reserved(Cur, r) /\ r.bld = bld /\ r.mem = mem
    BY <1>2, NothingReserved
  <1>4. AboutToCall(f)
    BY <1>1 DEF Running, Statement, AboutToCall
  <1>5. f.self \in Blocks \cup {NULL} /\ Frame(k, off) \in FrameSet
    BY <1>2, FrameIs, FrameTyped
  <1>6. Advanced(f.self) = Advance(stack, f.self) /\ Advanced(f.self) \in Seq(FrameSet)
    BY <1>1, <1>2, <1>5, AdvancedIs
  <1>7. stack' = Append(Advance(stack, f.self), Frame(k, off))
    BY <1>6 DEF Call
  <1>8. stack' \in Seq(FrameSet) /\ stack' # <<>>
    BY <1>5, <1>6, <1>7, AppendProperties
  <1>9. /\ bld' = r.bld /\ phase' = phase /\ wild' = wild /\ off' = off /\ mem' = mem
    BY <1>3 DEF Call
  <1>10. mem' = [r.mem EXCEPT ![r.bld[Cur].data] = Memory(Cur)]
    BY <1>2, <1>3, <1>9 DEF Memory, Maps
  <1> HIDE DEF r, f
  <1>11. Building(stack', Memory(Cur), off, bld[Cur].data, bld[Cur].cap)
    BY <1>1, <1>2, <1>4, <1>7, CallChild
  <1>12. Building(stack', Memory(Cur), off', r.bld[Cur].data, r.bld[Cur].cap)
    BY <1>3, <1>9, <1>11
  <1> QED
    BY <1>1, <1>3, <1>8, <1>9, <1>10, <1>12, BuildingStep

(* The building of a tree ends, for better or worse.                         *)
LEMMA Ended ==
    ASSUME KInv, stack # <<>>, stack' = <<>>, FieldsReserved',
           NEW p \in {"built", "failed"}, phase' = [phase EXCEPT ![Cur] = p],
           mem' = [x \in Blocks |-> mem'[x]],
           \/ bld' = bld /\ mem' = mem
           \/ /\ p = "failed" /\ bld' = [bld EXCEPT ![Cur].data = NULL]
              /\ \A x \in Blocks : x # bld[Cur].data => mem'[x] = mem[x],
           p = "built" => Tree(Memory(Cur), {}) /\ \A o \in DOMAIN Memory(Cur) : Complete(Memory(Cur)[o])
    PROVE  /\ KInv'
           /\ \A a \in Builders : a # Cur => Held(a)' = Held(a)
           /\ bld' # bld => \A a \in Builders : a = Cur => Held(a)' = Nothing
  <1>1. /\ Maps /\ Apart /\ OneBuilding /\ \A a \in Builders : BuilderOK(a)
    BY DEF KInv
  <1>2. PICK b \in Builders : /\ b = Cur /\ phase[b] = "building" /\ Live(b) /\ BuilderOK(b)
                            /\ \A a \in Builders : phase[a] = "building" => a = b
    BY <1>1, CurIs, Innermost
  <1>3. /\ phase' = [a \in Builders |-> phase'[a]] /\ phase'[b] = p
        /\ \A a \in Builders : a # b => phase'[a] = phase[a] /\ phase[a] # "building"
    BY <1>1, <1>2 DEF Maps
  <1>4. bld[b] = [data |-> bld[b].data, cap |-> bld[b].cap, clean |-> bld[b].clean]
    BY <1>2 DEF BuilderOK
  <1>5. /\ bld' = [a \in Builders |-> bld'[a]]
        /\ \A a \in Builders : a # b => bld'[a] = bld[a]
        /\ \/ bld'[b] = bld[b] /\ mem' = mem
           \/ p = "failed" /\ bld'[b] = [data |-> NULL, cap |-> bld[b].cap, clean |-> bld[b].clean]
    <2>1. CASE bld' = bld /\ mem' = mem
      BY <1>1, <2>1 DEF Maps
    <2>2. CASE p = "failed" /\ bld' = [bld EXCEPT ![Cur].data = NULL]
      <3>1. bld' = [bld EXCEPT ![b] = [bld[b] EXCEPT !.data = NULL]]
        BY <1>2, <2>2
      <3>2. [[data |-> bld[b].data, cap |-> bld[b].cap, clean |-> bld[b].clean] EXCEPT !.data = NULL]
                = [data |-> NULL, cap |-> bld[b].cap, clean |-> bld[b].clean]
        OBVIOUS
      <3>3. [bld[b] EXCEPT !.data = NULL] = [data |-> NULL, cap |-> bld[b].cap, clean |-> bld[b].clean]
        BY <1>4, <3>2, Zenon
      <3> DEFINE e == [data |-> NULL, cap |-> bld[b].cap, clean |-> bld[b].clean]
      <3>4. bld' = [bld EXCEPT ![b] = e]
        BY <3>1, <3>3
      <3> HIDE DEF e
      <3>5. /\ bld' = [a \in Builders |-> bld'[a]] /\ bld'[b] = e
            /\ \A a \in Builders : a # b => bld'[a] = bld[a]
        BY <1>1, <3>4 DEF Maps
      <3> QED
        BY <2>2, <3>5 DEF e
    <2> QED
      BY <2>1, <2>2
  <1>6. ASSUME NEW a \in Builders, a # b, Live(a) PROVE mem'[bld[a].data] = mem[bld[a].data]
    <2>1. bld[a].data \in Blocks /\ bld[a].data # bld[b].data
      BY <1>1, <1>2, <1>6, BuildersAre DEF Apart, Live
    <2> QED
      BY <1>2, <2>1
  <1>7. BuilderOK(b)'
    <2>1. CASE bld'[b] = bld[b] /\ mem' = mem
      <3>1. Memory(b)' = Memory(b) /\ (Live(b)' <=> Live(b))
        BY <2>1 DEF Memory, Live
      <3>2. p = "built" => Tree(Memory(b), {}) /\ \A o \in DOMAIN Memory(b) : Complete(Memory(b)[o])
        BY <1>2
      <3> QED
        BY <1>2, <1>3, <2>1, <3>1, <3>2 DEF BuilderOK
    <2>2. CASE p = "failed" /\ bld'[b] = [data |-> NULL, cap |-> bld[b].cap, clean |-> bld[b].clean]
      <3>1. ~Live(b)'
        BY <2>2 DEF Live
      <3> QED
        BY <1>2, <1>3, <2>2, <3>1 DEF BuilderOK
    <2> QED
      BY <1>5, <2>1, <2>2
  <1>8. ASSUME NEW a \in Builders PROVE BuilderOK(a)'
    <2>1. CASE a = b
      BY <1>7, <2>1
    <2>2. CASE a # b
      BY <1>1, <1>3, <1>5, <1>6, <2>2, OthersKept
    <2> QED
      BY <2>1, <2>2
  <1>9. Apart'
    <2>1. \A a \in Builders : Live(a)' => Live(a) /\ bld'[a].data = bld[a].data
      BY <1>5 DEF Live
    <2> QED
      BY <1>1, <2>1 DEF Apart
  <1>10. OneBuilding'
    BY <1>3 DEF OneBuilding
  <1>11. Maps'
    <2>1. <<>> \in Seq(FrameSet)
      OBVIOUS
    <2> QED
      BY <1>3, <1>5, <2>1 DEF Maps
  <1>12. ASSUME NEW a \in Builders, a # b PROVE Held(a)' = Held(a)
    <2>1. bld'[a] = bld[a]
      BY <1>5, <1>12
    <2>2. CASE Live(a)
      BY <1>6, <1>12, <2>1, <2>2 DEF Held, Live, Memory
    <2>3. CASE ~Live(a)
      BY <2>1, <2>3 DEF Held, Live
    <2> QED
      BY <2>2, <2>3
  <1>13. bld' # bld => Held(b)' = Nothing
    <2>1. CASE bld'[b] = bld[b]
      <3>1. \A a \in Builders : bld'[a] = bld[a]
        BY <1>5, <2>1
      <3>2. bld' = bld
        BY <1>1, <1>5, <3>1 DEF Maps
      <3> QED
        BY <3>2
    <2>2. CASE bld'[b] = [data |-> NULL, cap |-> bld[b].cap, clean |-> bld[b].clean]
      BY <2>2 DEF Held, Live
    <2> QED
      BY <1>5, <2>1, <2>2
  <1>14. KInv'
    BY <1>8, <1>9, <1>10, <1>11 DEF KInv
  <1> QED
    BY <1>2, <1>12, <1>13, <1>14

LEMMA ReturnKeeps ==
    ASSUME KInv, Return
    PROVE  KInv'
  <1> DEFINE f == Top
  <1>1. stack # <<>> /\ f.at > Len(Program[f.kind]) /\ stack' = Front(stack)
        /\ bld' = bld /\ mem' = mem /\ wild' = wild
    BY DEF Return
  <1>2. /\ Cur \in Builders /\ Live(Cur) /\ BuilderOK(Cur) /\ Maps /\ Apart
        /\ bld[Cur].cap \in Nat /\ bld[Cur].data \in Blocks
        /\ stack \in Seq(FrameSet)
        /\ f = stack[Len(stack)]
        /\ Building(stack, Memory(Cur), off, bld[Cur].data, bld[Cur].cap)
    BY <1>1, Innermost
  <1>3. FieldsReserved'
    BY <1>1 DEF KInv, FieldsReserved
  <1>4. IF Len(stack) = 1
        THEN Tree(Memory(Cur), {}) /\ \A o \in DOMAIN Memory(Cur) : Complete(Memory(Cur)[o])
        ELSE Building(Front(stack), Memory(Cur), off, bld[Cur].data, bld[Cur].cap)
    BY <1>1, <1>2, ReturnFrame
  <1>5. CASE Len(stack) = 1
    <2>1. Front(stack) = <<>>
      BY <1>5, SubSeqEmpty DEF Front
    <2>2. phase' = [phase EXCEPT ![Cur] = "built"]
      BY <1>5 DEF Return
    <2>3. mem' = [x \in Blocks |-> mem'[x]]
      BY <1>1, <1>2 DEF Maps
    <2> QED
      BY <1>1, <1>3, <1>4, <1>5, <2>1, <2>2, <2>3, Ended
  <1>6. CASE Len(stack) # 1
    <2> DEFINE r == [bld |-> bld, mem |-> mem]
    <2>1. Reserved(Cur, r) /\ r.bld = bld /\ r.mem = mem
      BY <1>2, NothingReserved
    <2>2. Len(stack) > 1
      BY <1>1, <1>2, <1>6, TopIs
    <2>3. stack' \in Seq(FrameSet) /\ Len(stack') = Len(stack) - 1
      BY <1>1, <1>2, <2>2, FrontIs
    <2>4. stack' # <<>>
      BY <1>2, <2>2, <2>3, LenProperties
    <2>5. phase' = phase /\ off' = off
      BY <1>6 DEF Return
    <2>6. mem' = [r.mem EXCEPT ![r.bld[Cur].data] = Memory(Cur)] /\ bld' = r.bld
      BY <1>1, <1>2, <2>1 DEF Memory, Maps
    <2> HIDE DEF r, f
    <2>7. Building(stack', Memory(Cur), off', r.bld[Cur].data, r.bld[Cur].cap)
      BY <1>1, <1>4, <1>6, <2>1, <2>5
    <2> QED
      BY <1>1, <2>1, <2>3, <2>4, <2>5, <2>6, <2>7, BuildingStep
  <1> QED
    BY <1>5, <1>6

LEMMA ThrowKeeps ==
    ASSUME KInv, Throw
    PROVE  KInv'
  <1>1. /\ stack # <<>> /\ stack' = <<>> /\ phase' = [phase EXCEPT ![Cur] = "failed"]
        /\ bld' = bld /\ mem' = mem /\ wild' = wild
    BY DEF Throw, Running
  <1>2. FieldsReserved' /\ mem' = [x \in Blocks |-> mem'[x]]
    BY <1>1 DEF KInv, FieldsReserved, Maps
  <1> QED
    BY <1>1, <1>2, Ended

LEMMA ReserveFailsKeeps ==
    ASSUME KInv, ReserveFails
    PROVE  /\ KInv'
           /\ \A a \in Builders : Held(a)' = IF a = Cur THEN Nothing ELSE Held(a)
  <1>1. /\ stack # <<>> /\ stack' = <<>> /\ phase' = [phase EXCEPT ![Cur] = "failed"]
        /\ bld' = [bld EXCEPT ![Cur].data = NULL] /\ mem' = Freed(Cur) /\ Destroy(Cur)
    BY DEF ReserveFails
  <1>2. Cur \in Builders /\ BuilderOK(Cur) /\ Maps /\ FieldsReserved
    BY <1>1, Innermost DEF KInv
  <1>3. FieldsReserved'
    BY <1>1, <1>2, DestroyReservesFields
  <1>4. /\ mem' = [x \in Blocks |-> mem'[x]]
        /\ \A x \in Blocks : x # bld[Cur].data => mem'[x] = mem[x]
    BY <1>1, <1>2, BlocksDiffer DEF Freed, Maps
  <1>5. bld' # bld
    <2>1. bld'[Cur].data = NULL /\ bld[Cur].data # NULL
      BY <1>1, <1>2, Innermost DEF Maps, Live, BuilderOK
    <2> QED
      BY <2>1
  <1>6. /\ KInv'
        /\ \A a \in Builders : a # Cur => Held(a)' = Held(a)
        /\ \A a \in Builders : a = Cur => Held(a)' = Nothing
    BY <1>1, <1>3, <1>4, <1>5, Ended
  <1> QED
    BY <1>6

-----------------------------------------------------------------------------
(* The invariant holds.                                                      *)
LEMMA InitHolds == Init => KInv
  <1> SUFFICES ASSUME Init PROVE KInv
    OBVIOUS
  <1>1. \A b \in Builders : /\ bld[b] = [data |-> NULL, cap |-> 0, clean |-> 0]
                            /\ phase[b] = "none" /\ ~Live(b)
    BY DEF Init, Live
  <1>2. \A b \in Builders : BuilderOK(b)
    BY <1>1 DEF BuilderOK
  <1>3. Maps
    <2>1. <<>> \in Seq(FrameSet)
      OBVIOUS
    <2> QED
      BY <2>1 DEF Init, Maps
  <1>4. Apart /\ OneBuilding /\ FieldsReserved
    BY <1>1 DEF Init, Apart, OneBuilding, FieldsReserved
  <1> QED
    BY <1>2, <1>3, <1>4 DEF KInv

LEMMA StutterKeeps ==
    ASSUME KInv, UNCHANGED vars
    PROVE  KInv'
  <1>1. bld' = bld /\ mem' = mem /\ phase' = phase /\ stack' = stack /\ off' = off /\ wild' = wild
    BY DEF vars
  <1>2. Maps' /\ Apart' /\ OneBuilding' /\ FieldsReserved'
    BY <1>1 DEF KInv, Maps, Apart, Live, OneBuilding, FieldsReserved
  <1>3. ASSUME NEW a \in Builders PROVE BuilderOK(a)'
    BY <1>1, OthersKept DEF KInv
  <1> QED
    BY <1>2, <1>3 DEF KInv

LEMMA StepKeeps ==
    ASSUME KInv, [Next]_vars
    PROVE  KInv'
  <1>1. CASE \E b \in Builders : NewBuilder(b) \/ DeleteBuilder(b) \/ Reset(b)
    BY <1>1, NewBuilderKeeps, DeleteBuilderKeeps, ResetKeeps
  <1>2. CASE \E a, b \in Builders : Swap(a, b)
    BY <1>2, SwapKeeps
  <1>3. CASE \E b \in Builders, k \in Kinds : Instantiate(b, k)
    BY <1>3, InstantiateKeeps
  <1>4. CASE \E k \in Kinds : Call(k)
    BY <1>4, CallKeeps
  <1>5. CASE Make
    BY <1>5, MakeKeeps
  <1>6. CASE RecordFirst
    BY <1>6, RecordFirstKeeps
  <1>7. CASE RecordField
    BY <1>7, RecordFieldKeeps
  <1>8. CASE RecordBuffer
    BY <1>8, RecordBufferKeeps
  <1>9. CASE Return
    BY <1>9, ReturnKeeps
  <1>10. CASE Throw
    BY <1>10, ThrowKeeps
  <1>11. CASE ReserveFails
    BY <1>11, ReserveFailsKeeps
  <1>12. CASE UNCHANGED vars
    BY <1>12, StutterKeeps
  <1> QED
    BY <1>1, <1>2, <1>3, <1>4, <1>5, <1>6, <1>7, <1>8, <1>9, <1>10, <1>11, <1>12 DEF Next

LEMMA InvariantHolds == Spec => []KInv
  <1>1. Init => KInv
    BY InitHolds
  <1>2. KInv /\ [Next]_vars => KInv'
    BY StepKeeps
  <1> QED
    BY <1>1, <1>2, PTL DEF Spec

-----------------------------------------------------------------------------
(* The theorems.                                                             *)
LEMMA LayoutFits == KInv => KernelsFit
  <1> SUFFICES ASSUME KInv PROVE KernelsFit
    OBVIOUS
  <1>1. FieldsReserved
    BY DEF KInv
  <1>2. ASSUME NEW b \in Builders, Live(b), NEW o \in DOMAIN Memory(b)
        PROVE  /\ Words(o, Memory(b)[o]) \subseteq 0..bld[b].cap - 1
               /\ \A q \in DOMAIN Memory(b) \ {o} :
                      Words(o, Memory(b)[o]) \cap Words(q, Memory(b)[q]) = {}
    <2>1. Layout(Memory(b), bld[b].cap, bld[b].cap)
      BY <1>2 DEF KInv, BuilderOK
    <2> QED
      BY <2>1 DEF Layout
  <1> QED
    BY <1>1, <1>2 DEF KernelsFit

\* Whatever is instantiated, abandoned, swapped or reset, in whatever order, no
\* kernel or buffer overlaps another or the end of the memory the builder has
\* reserved, and a tuple's destructor reads none but zeroed memory: the offsets
\* and reservations of make, alloc_ck and the instantiate functions agree.
THEOREM KernelsNeverOverlap == Spec => []KernelsFit
  BY InvariantHolds, LayoutFits, PTL

LEMMA TreeIsComplete == KInv => TreeComplete
  <1> SUFFICES ASSUME KInv, NEW b \in Builders, phase[b] = "built"
               PROVE  LET m == Memory(b)
                          Calls == {c \in (DOMAIN m) \X (1 .. 3) : c[2] <= Len(Slots(c[1], m[c[1]]))}
                          Callee(c) == Slots(c[1], m[c[1]])[c[2]]
                      IN  /\ \A o \in DOMAIN m : Len(Slots(o, m[o])) =
                                 Recorded[m[o].kind] + (IF m[o].kind \in HasHead THEN 1 ELSE 0)
                          /\ {Callee(c) : c \in Calls} = DOMAIN m \ {0}
                          /\ \A c, d \in Calls : Callee(c) = Callee(d) => c = d
    BY DEF TreeComplete
  <1> DEFINE m == Memory(b)
             Calls == {c \in (DOMAIN m) \X (1 .. 3) : c[2] <= Len(Slots(c[1], m[c[1]]))}
             Callee(c) == Slots(c[1], m[c[1]])[c[2]]
  <1>1. /\ Layout(m, bld[b].cap, bld[b].cap) /\ Tree(m, {})
        /\ \A o \in DOMAIN m : Complete(m[o])
    BY DEF KInv, BuilderOK
  <1> HIDE DEF m
  <1>2. ASSUME NEW o \in DOMAIN m
        PROVE  /\ Slots(o, m[o]) \in Seq(Nat) /\ Len(Slots(o, m[o])) <= 3
               /\ ToSet(Slots(o, m[o])) = Looks(o, m[o])
               /\ \A i, j \in 1..Len(Slots(o, m[o])) : Slots(o, m[o])[i] = Slots(o, m[o])[j] => i = j
               /\ Len(Slots(o, m[o])) = Recorded[m[o].kind] + (IF m[o].kind \in HasHead THEN 1 ELSE 0)
    <2>1. o \in Nat /\ KernelOK(m[o]) /\ Complete(m[o])
      BY <1>1 DEF Layout
    <2> QED
      BY <2>1, SlotsAre
  <1>3. ASSUME NEW c \in Calls
        PROVE  /\ c[1] \in DOMAIN m /\ c[2] \in 1..Len(Slots(c[1], m[c[1]])) /\ c = <<c[1], c[2]>>
               /\ Callee(c) \in Looks(c[1], m[c[1]])
    <2>1. c[1] \in DOMAIN m /\ c[2] \in 1..3 /\ c = <<c[1], c[2]>>
      OBVIOUS
    <2>2. c[2] \in 1..Len(Slots(c[1], m[c[1]])) /\ c[2] \in DOMAIN Slots(c[1], m[c[1]])
      BY <1>2, <2>1, LenProperties
    <2>3. Callee(c) \in ToSet(Slots(c[1], m[c[1]]))
      BY <2>2 DEF ToSet
    <2> QED
      BY <1>2, <2>1, <2>2, <2>3
  <1>4. ASSUME NEW p \in DOMAIN m \ {0} PROVE \E c \in Calls : Callee(c) = p
    <2>1. PICK o \in DOMAIN m : p \in Looks(o, m[o])
      BY <1>1 DEF Tree
    <2>2. PICK i \in DOMAIN Slots(o, m[o]) : Slots(o, m[o])[i] = p
      BY <1>2, <2>1 DEF ToSet
    <2>3. i \in 1..Len(Slots(o, m[o])) /\ i \in 1..3 /\ i <= Len(Slots(o, m[o]))
      BY <1>2, <2>2, LenProperties
    <2> DEFINE c == <<o, i>>
    <2>4. c \in (DOMAIN m) \X (1 .. 3) /\ c[1] = o /\ c[2] = i
      BY <2>3
    <2> HIDE DEF c
    <2>5. c \in Calls /\ Callee(c) = p
      BY <2>2, <2>3, <2>4
    <2> QED
      BY <2>5
  <1>5. \A c \in Calls : Callee(c) \in DOMAIN m \ {0}
    BY <1>1, <1>3 DEF Tree
  <1>6. ASSUME NEW c \in Calls, NEW d \in Calls, Callee(c) = Callee(d) PROVE c = d
    <2>1. c[1] = d[1]
      BY <1>1, <1>3, <1>6 DEF Tree
    <2>2. c[2] = d[2]
      BY <1>2, <1>3, <1>6, <2>1
    <2> QED
      BY <1>3, <2>1, <2>2
  <1>7. {Callee(c) : c \in Calls} = DOMAIN m \ {0}
    <2> HIDE DEF Calls, Callee
    <2> QED
      BY <1>4, <1>5
  <1> QED
    BY <1>2, <1>6, <1>7 DEF m

\* A tree whose instantiate functions have all returned can be called: every
\* place where a kernel looks for a child holds one, no two kernels share a
\* child, and nothing but the root is without a parent.
THEOREM FinishedTreesAreWhole == Spec => []TreeComplete
  BY InvariantHolds, TreeIsComplete, PTL

LEMMA PointersCurrent == "dstexpr" \notin Kinds /\ KInv => NoDanglingUse
  <1> SUFFICES ASSUME "dstexpr" \notin Kinds, KInv, stack # <<>>
               PROVE  NoDanglingUse
    BY DEF NoDanglingUse, Running
  <1>1. /\ Top \in FrameSet /\ FrameOK(Top, Memory(Cur)) /\ Pointer(Top, bld[Cur].data)
    BY Innermost DEF Building
  <1>2. Top.kind \in Kinds /\ Top.kind # "dstexpr"
    BY <1>1, FrameIs
  <1>3. ASSUME NEW s, Running(s)
        PROVE  Top.at \in 1..Len(Program[Top.kind]) /\ Program[Top.kind][Top.at] = s
    BY <1>1, <1>2, <1>3, FamilySizes DEF Running, Statement, FrameOK
  <1>4. ASSUME Running("first") PROVE Top.self = bld[Cur].data
    <2>1. Top.at \in 1..Len(Program[Top.kind]) /\ Program[Top.kind][Top.at] = "first"
      BY <1>3, <1>4
    <2>2. Top.kind \in Expressions /\ Top.at = 2
      BY <1>2, <2>1, AtRecord
    <2> QED
      BY <1>1, <2>2 DEF Pointer
  <1>5. ASSUME Running("call"), Top.kind \in Expressions PROVE Top.self = bld[Cur].data
    <2>1. Top.at \in 1..Len(Program[Top.kind]) /\ Program[Top.kind][Top.at] = "call"
      BY <1>3, <1>5
    <2>2. Top.at \in {3, 5}
      BY <1>2, <1>5, <2>1, AtCall
    <2> QED
      BY <1>1, <1>5, <2>2 DEF Pointer
  <1> QED
    BY <1>2, <1>4, <1>5 DEF NoDanglingUse, Expressions

\* As long as no expression is assigned to, the instantiate functions never use
\* the pointer to their kernel after what they called has moved it: each takes
\* it again after what may have grown the buffer.
THEOREM PointersAreTakenAgain ==
    ASSUME "dstexpr" \notin Kinds
    PROVE  Spec => []NoDanglingUse
  <1>1. KInv => NoDanglingUse
    BY PointersCurrent
  <1> QED
    BY <1>1, InvariantHolds, PTL
-----------------------------------------------------------------------------
(* Destruction.  The recursion of Destroyed goes to greater offsets only,    *)
(* and ends where the memory does.                                           *)

\* One kernel's share of the recursion, f being what destroys its children.
Visit(m, f, o) ==
    IF o \notin DOMAIN m THEN <<>>
    ELSE LET slots == Slots(o, m[o])
         IN  FlattenSeq([i \in DOMAIN slots |-> f[slots[i]]]) \o <<m[o].id>>

\* The kernels destroyed by destroying what lies at each offset.
Visits(m) == CHOOSE f : f = [o \in Nat |-> Visit(m, f, o)]

OwnIds(m) == {m[o].id : o \in DOMAIN m}

\* No two kernels are the same one.
Distinct(m) == \A o, q \in DOMAIN m : m[o].id = m[q].id => o = q

\* Every kernel but the root is the child of one, whatever children are missing.
Rooted(m) ==
    /\ \A p \in DOMAIN m \ {0} : \E o \in DOMAIN m : p \in Looks(o, m[o])
    /\ \A o, q \in DOMAIN m : o # q => Looks(o, m[o]) \cap Looks(q, m[q]) = {}

LEMMA DestroyedVisits == ASSUME NEW m PROVE Destroyed(m) = Visits(m)[0]
  BY DEF Destroyed, Visits, Visit

(* Induction from the end of the memory down.                                *)
LEMMA Downward ==
    ASSUME NEW n \in Nat, NEW G,
           \A o \in Nat : o >= n => o \in G,
           \A o \in Nat : (\A q \in Nat : q > o => q \in G) => o \in G
    PROVE  \A o \in Nat : o \in G
  <1> DEFINE T == {k \in Nat : \E o \in Nat : o + k = n /\ o \notin G}
  <1>1. ASSUME NEW o \in Nat, o \notin G PROVE FALSE
    <2>1. o < n /\ n - o \in Nat /\ o + (n - o) = n
      BY <1>1
    <2>2. T # {} /\ T \in SUBSET Nat
      BY <1>1, <2>1
    <2>3. PICK k \in T : \A l \in T : k <= l
      BY <2>2, LeastExists
    <2>4. PICK p \in Nat : p + k = n /\ p \notin G
      OBVIOUS
    <2>5. ASSUME NEW q \in Nat, q > p PROVE q \in G
      <3>1. CASE q >= n
        BY <3>1
      <3>2. CASE q < n
        <4>1. n - q \in Nat /\ q + (n - q) = n /\ n - q < k
          BY <2>4, <2>5, <3>2
        <4>2. n - q \notin T
          BY <2>3, <4>1
        <4> QED
          BY <4>1, <4>2
      <3> QED
        BY <3>1, <3>2
    <2> QED
      BY <2>4, <2>5
  <1> QED
    BY <1>1

LEMMA LooksBehind ==
    ASSUME NEW o \in Nat, NEW k, KernelOK(k), NEW s \in Looks(o, k)
    PROVE  s \in Nat /\ s > o
  <1>1. k.kind \in Kinds /\ Size[k.kind] \in Nat /\ Size[k.kind] >= 2
    BY FamilySizes DEF KernelOK, Prefix
  <1>2. CASE s = o + Size[k.kind]
    BY <1>1, <1>2
  <1>3. ASSUME NEW i \in 1..Recorded[k.kind], k.kids[i] # 0, s = o + k.kids[i]
        PROVE  s \in Nat /\ s > o
    <2>1. k.kids[i] \in Nat /\ k.kids[i] >= Size[k.kind]
      BY <1>3 DEF KernelOK
    <2> QED
      BY <1>1, <1>3, <2>1
  <1> QED
    BY <1>2, <1>3 DEF Looks

(* What Layout says of the offsets of kernels.                               *)
LEMMA KernelsIn ==
    ASSUME NEW n \in Nat, NEW m, NEW z, Layout(m, n, z), NEW o \in DOMAIN m
    PROVE  o \in Nat /\ o < n /\ KernelOK(m[o])
  <1>1. o \in Nat /\ KernelOK(m[o]) /\ Words(o, m[o]) \subseteq 0..n - 1
    BY DEF Layout
  <1> QED
    BY <1>1, FirstWord

LEMMA VisitAgrees ==
    ASSUME NEW n \in Nat, NEW m, NEW z, Layout(m, n, z), NEW o \in Nat, NEW f, NEW g,
           \A s \in Nat : s > o => f[s] = g[s]
    PROVE  Visit(m, f, o) = Visit(m, g, o)
  <1>1. CASE o \notin DOMAIN m
    BY <1>1 DEF Visit
  <1>2. CASE o \in DOMAIN m
    <2> DEFINE slots == Slots(o, m[o])
    <2>1. KernelOK(m[o])
      BY <1>2, KernelsIn
    <2>2. ToSet(slots) = Looks(o, m[o])
      BY <2>1, SlotsAre
    <2>3. \A i \in DOMAIN slots : slots[i] \in Looks(o, m[o])
      BY <2>2 DEF ToSet
    <2> HIDE DEF slots
    <2>4. \A i \in DOMAIN slots : f[slots[i]] = g[slots[i]]
      BY <2>1, <2>3, LooksBehind
    <2>5. [i \in DOMAIN slots |-> f[slots[i]]] = [i \in DOMAIN slots |-> g[slots[i]]]
      BY <2>4
    <2> QED
      BY <2>5 DEF Visit, slots
  <1> QED
    BY <1>1, <1>2

(* There is a function that satisfies the equation: from one that does so    *)
(* behind an offset one is made that does so there as well.                  *)
LEMMA VisitsDefined ==
    ASSUME NEW n \in Nat, NEW m, NEW z, Layout(m, n, z)
    PROVE  Visits(m) = [o \in Nat |-> Visit(m, Visits(m), o)]
  <1> DEFINE Total(f) == f = [o \in Nat |-> f[o]]
             From(k) == \E f : Total(f) /\ \A o \in Nat : o >= k => f[o] = Visit(m, f, o)
             G == {k \in Nat : From(k)}
  <1>1. ASSUME NEW k \in Nat, k >= n PROVE k \in G
    <2> DEFINE f == [o \in Nat |-> <<>>]
    <2>1. \A o \in Nat : o >= k => f[o] = Visit(m, f, o)
      <3>1. \A o \in Nat : o >= k => o \notin DOMAIN m
        BY <1>1, KernelsIn
      <3> QED
        BY <3>1 DEF Visit
    <2> QED
      BY <2>1
  <1>2. ASSUME NEW k \in Nat, \A q \in Nat : q > k => q \in G PROVE k \in G
    <2>0. From(k + 1)
      <3>1. k + 1 \in Nat /\ k + 1 > k
        OBVIOUS
      <3>2. k + 1 \in G
        BY <1>2, <3>1
      <3> HIDE DEF From
      <3> QED
        BY <3>2
    <2>1. PICK f : Total(f) /\ \A o \in Nat : o >= k + 1 => f[o] = Visit(m, f, o)
      BY <2>0
    <2> DEFINE g == [f EXCEPT ![k] = Visit(m, f, k)]
    <2>2. Total(g) /\ g[k] = Visit(m, f, k) /\ \A o \in Nat : o # k => g[o] = f[o]
      BY <2>1
    <2> HIDE DEF g
    <2>3. ASSUME NEW o \in Nat, o >= k PROVE g[o] = Visit(m, g, o)
      <3>1. \A s \in Nat : s > o => f[s] = g[s]
        BY <2>2, <2>3
      <3>2. Visit(m, f, o) = Visit(m, g, o)
        BY <3>1, VisitAgrees
      <3>3. CASE o = k
        BY <2>2, <3>2, <3>3
      <3>4. CASE o # k
        BY <2>1, <2>2, <2>3, <3>2, <3>4
      <3> QED
        BY <3>3, <3>4
    <2> QED
      BY <2>2, <2>3
  <1> HIDE DEF G
  <1>3. \A k \in Nat : k \in G
    BY <1>1, <1>2, Downward
  <1>4. From(0)
    BY <1>3 DEF G
  <1>5. PICK f : Total(f) /\ \A o \in Nat : o >= 0 => f[o] = Visit(m, f, o)
    BY <1>4
  <1>6. f = [o \in Nat |-> Visit(m, f, o)]
    <2>1. \A o \in Nat : f[o] = Visit(m, f, o)
      BY <1>5
    <2> QED
      BY <1>5, <2>1
  <1> QED
    BY <1>6 DEF Visits

-----------------------------------------------------------------------------
(* Joining the sequences of a kernel's children.                             *)
LEMMA FlattenNone == FlattenSeq(<<>>) = <<>>
  BY DEF FlattenSeq

LEMMA FlattenOne == ASSUME NEW s, Len(s) = 1 PROVE FlattenSeq(s) = s[1]
  <1> DEFINE flat == [i \in 1..1 |-> s[1]]
             g == CHOOSE f : f = [i \in 1..1 |-> IF i = 1 THEN s[i] ELSE f[i - 1] \o s[i]]
  <1>1. flat = [i \in 1..1 |-> IF i = 1 THEN s[i] ELSE flat[i - 1] \o s[i]]
    OBVIOUS
  <1>2. g = [i \in 1..1 |-> IF i = 1 THEN s[i] ELSE g[i - 1] \o s[i]]
    BY <1>1
  <1>3. FlattenSeq(s) = g[1]
    BY DEF FlattenSeq
  <1> QED
    BY <1>2, <1>3

LEMMA FlattenTwo == ASSUME NEW s, Len(s) = 2 PROVE FlattenSeq(s) = s[1] \o s[2]
  <1> DEFINE flat == [i \in 1..2 |-> IF i = 1 THEN s[1] ELSE s[1] \o s[2]]
             g == CHOOSE f : f = [i \in 1..2 |-> IF i = 1 THEN s[i] ELSE f[i - 1] \o s[i]]
  <1>1. flat = [i \in 1..2 |-> IF i = 1 THEN s[i] ELSE flat[i - 1] \o s[i]]
    <2>1. \A i \in 1..2 : i = 1 \/ (i = 2 /\ i - 1 = 1)
      OBVIOUS
    <2>2. flat[1] = s[1]
      OBVIOUS
    <2>3. \A i \in 1..2 : flat[i] = IF i = 1 THEN s[i] ELSE flat[i - 1] \o s[i]
      BY <2>1, <2>2
    <2> QED
      BY <2>3
  <1>2. g = [i \in 1..2 |-> IF i = 1 THEN s[i] ELSE g[i - 1] \o s[i]]
    BY <1>1
  <1>3. FlattenSeq(s) = g[2]
    BY DEF FlattenSeq
  <1> HIDE DEF g
  <1>4. g[1] = s[1] /\ g[2] = g[1] \o s[2]
    BY <1>2
  <1> QED
    BY <1>3, <1>4

LEMMA FlattenThree == ASSUME NEW s, Len(s) = 3 PROVE FlattenSeq(s) = (s[1] \o s[2]) \o s[3]
  <1> DEFINE flat == [i \in 1..3 |-> IF i = 1 THEN s[1] ELSE IF i = 2 THEN s[1] \o s[2]
                                     ELSE (s[1] \o s[2]) \o s[3]]
             g == CHOOSE f : f = [i \in 1..3 |-> IF i = 1 THEN s[i] ELSE f[i - 1] \o s[i]]
  <1>1. flat = [i \in 1..3 |-> IF i = 1 THEN s[i] ELSE flat[i - 1] \o s[i]]
    <2>1. \A i \in 1..3 : i = 1 \/ (i = 2 /\ i - 1 = 1) \/ (i = 3 /\ i - 1 = 2)
      OBVIOUS
    <2>2. flat[1] = s[1] /\ flat[2] = s[1] \o s[2] /\ flat[3] = (s[1] \o s[2]) \o s[3]
      OBVIOUS
    <2> HIDE DEF flat
    <2>3. \A i \in 1..3 : flat[i] = IF i = 1 THEN s[i] ELSE flat[i - 1] \o s[i]
      BY <2>1, <2>2
    <2> QED
      BY <2>3 DEF flat
  <1>2. g = [i \in 1..3 |-> IF i = 1 THEN s[i] ELSE g[i - 1] \o s[i]]
    BY <1>1
  <1>3. FlattenSeq(s) = g[3]
    BY DEF FlattenSeq
  <1> HIDE DEF g
  <1>4. \A i \in 1..3 : g[i] = IF i = 1 THEN s[i] ELSE g[i - 1] \o s[i]
    BY <1>2
  <1>5. g[1] = s[1]
    BY <1>4
  <1>6. g[2] = g[1] \o s[2]
    <2>1. 2 \in 1..3 /\ 2 # 1 /\ 2 - 1 = 1
      OBVIOUS
    <2> QED
      BY <1>4, <2>1
  <1>7. g[3] = g[2] \o s[3]
    <2>1. 3 \in 1..3 /\ 3 # 1 /\ 3 - 1 = 2
      OBVIOUS
    <2> QED
      BY <1>4, <2>1
  <1> QED
    BY <1>3, <1>5, <1>6, <1>7

(* Two sequences without repetitions and with nothing in common.             *)
LEMMA TwoFlat ==
    ASSUME NEW S, NEW s \in Seq(S), NEW t \in Seq(S)
    PROVE  /\ s \o t \in Seq(S)
           /\ ToSet(s \o t) = ToSet(s) \cup ToSet(t)
           /\ IsInjective(s) /\ IsInjective(t) /\ ToSet(s) \cap ToSet(t) = {} => IsInjective(s \o t)
  <1> DEFINE u == s \o t
  <1>1. /\ u \in Seq(S) /\ Len(u) = Len(s) + Len(t)
        /\ \A i \in 1..Len(s) + Len(t) : u[i] = IF i <= Len(s) THEN s[i] ELSE t[i - Len(s)]
    BY ConcatProperties
  <1>2. /\ DOMAIN u = 1..Len(u) /\ DOMAIN s = 1..Len(s) /\ DOMAIN t = 1..Len(t)
        /\ Len(s) \in Nat /\ Len(t) \in Nat
    BY <1>1, LenProperties
  <1> HIDE DEF u
  <1>3. \A i \in DOMAIN u : \/ i \in DOMAIN s /\ u[i] = s[i]
                            \/ i > Len(s) /\ i - Len(s) \in DOMAIN t /\ u[i] = t[i - Len(s)]
    BY <1>1, <1>2
  <1>4. /\ \A i \in DOMAIN s : i \in DOMAIN u /\ u[i] = s[i]
        /\ \A i \in DOMAIN t : i + Len(s) \in DOMAIN u /\ u[i + Len(s)] = t[i]
    BY <1>1, <1>2
  <1>5. ToSet(u) = ToSet(s) \cup ToSet(t)
    BY <1>3, <1>4 DEF ToSet
  <1>6. ASSUME IsInjective(s), IsInjective(t), ToSet(s) \cap ToSet(t) = {}
        PROVE  IsInjective(u)
    <2> SUFFICES ASSUME NEW i \in DOMAIN u, NEW j \in DOMAIN u, u[i] = u[j]
                 PROVE  i = j
      BY DEF IsInjective
    <2>1. i \in Int /\ j \in Int
      BY <1>2, <1>1
    <2>2. CASE i \in DOMAIN s /\ u[i] = s[i] /\ j \in DOMAIN s /\ u[j] = s[j]
      BY <1>6, <2>2 DEF IsInjective
    <2>3. CASE /\ i - Len(s) \in DOMAIN t /\ u[i] = t[i - Len(s)]
               /\ j - Len(s) \in DOMAIN t /\ u[j] = t[j - Len(s)]
      <3>1. i - Len(s) = j - Len(s)
        BY <1>6, <2>3 DEF IsInjective
      <3> QED
        BY <1>2, <2>1, <3>1
    <2>4. CASE i \in DOMAIN s /\ u[i] = s[i] /\ j - Len(s) \in DOMAIN t /\ u[j] = t[j - Len(s)]
      BY <1>6, <2>4 DEF ToSet
    <2>5. CASE j \in DOMAIN s /\ u[j] = s[j] /\ i - Len(s) \in DOMAIN t /\ u[i] = t[i - Len(s)]
      BY <1>6, <2>5 DEF ToSet
    <2> QED
      BY <1>3, <2>2, <2>3, <2>4, <2>5
  <1> QED
    BY <1>1, <1>5, <1>6 DEF u

LEMMA EmptyIs == ToSet(<<>>) = {} /\ IsInjective(<<>>)
  <1>1. DOMAIN <<>> = {}
    OBVIOUS
  <1> QED
    BY <1>1 DEF ToSet, IsInjective

LEMMA Flattened ==
    ASSUME NEW S, NEW n \in 0..3, NEW parts, parts = [i \in 1..n |-> parts[i]],
           \A i \in 1..n : parts[i] \in Seq(S)
    PROVE  LET s == FlattenSeq(parts) IN
           /\ s \in Seq(S)
           /\ \A x : x \in ToSet(s) <=> \E i \in 1..n : x \in ToSet(parts[i])
           /\ (/\ \A i \in 1..n : IsInjective(parts[i])
               /\ \A i, j \in 1..n : i # j => ToSet(parts[i]) \cap ToSet(parts[j]) = {})
              => IsInjective(s)
  <1>1. parts \in Seq(Seq(S)) /\ Len(parts) = n
    OBVIOUS
  <1>2. CASE n = 0
    <2>1. parts = <<>>
      BY <1>1, <1>2
    <2>2. FlattenSeq(parts) = <<>>
      BY <2>1, FlattenNone
    <2>3. <<>> \in Seq(S) /\ ToSet(<<>>) = {} /\ IsInjective(<<>>)
      BY EmptyIs
    <2>4. 1..n = {}
      BY <1>2
    <2> QED
      BY <2>2, <2>3, <2>4
  <1>3. CASE n = 1
    BY <1>1, <1>3, FlattenOne
  <1>4. CASE n = 2
    <2>1. FlattenSeq(parts) = parts[1] \o parts[2]
      BY <1>1, <1>4, FlattenTwo
    <2>2. \A i \in 1..n : i = 1 \/ i = 2
      BY <1>4
    <2>3. parts[1] \in Seq(S) /\ parts[2] \in Seq(S) /\ 1 \in 1..n /\ 2 \in 1..n /\ 1 # 2
      BY <1>4
    <2> DEFINE a == parts[1]
               b == parts[2]
    <2>4. /\ a \o b \in Seq(S) /\ ToSet(a \o b) = ToSet(a) \cup ToSet(b)
          /\ IsInjective(a) /\ IsInjective(b) /\ ToSet(a) \cap ToSet(b) = {} => IsInjective(a \o b)
      BY <2>3, TwoFlat
    <2> QED
      BY <2>1, <2>2, <2>3, <2>4
  <1>5. CASE n = 3
    <2>1. FlattenSeq(parts) = (parts[1] \o parts[2]) \o parts[3]
      BY <1>1, <1>5, FlattenThree
    <2>2. \A i \in 1..n : i = 1 \/ i = 2 \/ i = 3
      BY <1>5
    <2>3. /\ parts[1] \in Seq(S) /\ parts[2] \in Seq(S) /\ parts[3] \in Seq(S)
          /\ 1 \in 1..n /\ 2 \in 1..n /\ 3 \in 1..n /\ 1 # 2 /\ 1 # 3 /\ 2 # 3
      BY <1>5
    <2> DEFINE a == parts[1]
               b == parts[2]
               c == parts[3]
    <2>4. /\ a \o b \in Seq(S) /\ ToSet(a \o b) = ToSet(a) \cup ToSet(b)
          /\ IsInjective(a) /\ IsInjective(b) /\ ToSet(a) \cap ToSet(b) = {} => IsInjective(a \o b)
      BY <2>3, TwoFlat
    <2> DEFINE d == a \o b
    <2>5. d \in Seq(S) /\ c \in Seq(S)
      BY <2>3, <2>4
    <2> HIDE DEF d
    <2> HIDE DEF c
    <2>6. /\ d \o c \in Seq(S) /\ ToSet(d \o c) = ToSet(d) \cup ToSet(c)
          /\ IsInjective(d) /\ IsInjective(c) /\ ToSet(d) \cap ToSet(c) = {} => IsInjective(d \o c)
      BY <2>5, TwoFlat
    <2>7. /\ FlattenSeq(parts) \in Seq(S)
          /\ ToSet(FlattenSeq(parts)) = ToSet(a) \cup ToSet(b) \cup ToSet(c)
      BY <2>1, <2>4, <2>6 DEF c, d
    <2>8. /\ \A i \in 1..n : IsInjective(parts[i])
          /\ \A i, j \in 1..n : i # j => ToSet(parts[i]) \cap ToSet(parts[j]) = {}
          => IsInjective(FlattenSeq(parts))
      <3> SUFFICES ASSUME \A i \in 1..n : IsInjective(parts[i]),
                          \A i, j \in 1..n : i # j => ToSet(parts[i]) \cap ToSet(parts[j]) = {}
                   PROVE  IsInjective(FlattenSeq(parts))
        OBVIOUS
      <3>1. /\ IsInjective(a) /\ IsInjective(b) /\ IsInjective(c)
            /\ ToSet(a) \cap ToSet(b) = {} /\ ToSet(a) \cap ToSet(c) = {} /\ ToSet(b) \cap ToSet(c) = {}
        BY <2>3 DEF c
      <3> HIDE DEF a, b, c
      <3>2. IsInjective(d) /\ ToSet(d) \cap ToSet(c) = {}
        BY <2>4, <3>1 DEF d
      <3>3. IsInjective(d \o c)
        BY <2>6, <3>1, <3>2
      <3> QED
        BY <2>1, <3>3 DEF a, b, c, d
    <2> QED
      BY <2>2, <2>3, <2>7, <2>8 DEF c
  <1> QED
    BY <1>2, <1>3, <1>4, <1>5

-----------------------------------------------------------------------------
(* What destroying a tree destroys.                                          *)

\* The kernels destroyed by destroying what lies at offset o.
Reached(m, o) == ToSet(Visits(m)[o])

LEMMA VisitsAt ==
    ASSUME NEW n \in Nat, NEW m, NEW z, Layout(m, n, z), NEW o \in Nat
    PROVE  /\ o \notin DOMAIN m => Visits(m)[o] = <<>>
           /\ o \in DOMAIN m =>
                  LET slots == Slots(o, m[o]) IN
                  Visits(m)[o] = FlattenSeq([i \in 1..Len(slots) |-> Visits(m)[slots[i]]]) \o <<m[o].id>>
  <1>1. Visits(m)[o] = Visit(m, Visits(m), o)
    BY VisitsDefined
  <1>2. ASSUME o \in DOMAIN m PROVE DOMAIN Slots(o, m[o]) = 1..Len(Slots(o, m[o]))
    <2>1. Slots(o, m[o]) \in Seq(Nat)
      BY <1>2, KernelsIn, SlotsAre
    <2> QED
      BY <2>1, LenProperties
  <1> QED
    BY <1>1, <1>2 DEF Visit

(* One kernel's share, once that of every kernel behind it is known.         *)
LEMMA ReachedFrom ==
    ASSUME NEW n \in Nat, NEW m, NEW z, Layout(m, n, z), NEW o \in DOMAIN m,
           \A s \in Nat : s > o => Visits(m)[s] \in Seq(OwnIds(m))
    PROVE  /\ Visits(m)[o] \in Seq(OwnIds(m))
           /\ \A x : x \in Reached(m, o) <=> \/ x = m[o].id
                                             \/ \E s \in Looks(o, m[o]) : x \in Reached(m, s)
           /\ (/\ \A s \in Looks(o, m[o]) : IsInjective(Visits(m)[s]) /\ m[o].id \notin Reached(m, s)
               /\ \A s, t \in Looks(o, m[o]) : s # t => Reached(m, s) \cap Reached(m, t) = {})
              => IsInjective(Visits(m)[o])
  <1> DEFINE slots == Slots(o, m[o])
             N == Len(slots)
             parts == [i \in 1..N |-> Visits(m)[slots[i]]]
             S == OwnIds(m)
             last == <<m[o].id>>
             flat == FlattenSeq(parts)
  <1>1. o \in Nat /\ KernelOK(m[o])
    BY KernelsIn
  <1>2. /\ slots \in Seq(Nat) /\ N \in 0..3 /\ ToSet(slots) = Looks(o, m[o])
        /\ \A i, j \in 1..N : slots[i] = slots[j] => i = j
    <2>1. slots \in Seq(Nat) /\ N <= 3
      BY <1>1, SlotsAre
    <2>2. N \in Nat
      BY <2>1, LenProperties
    <2> HIDE DEF slots
    <2>3. ToSet(slots) = Looks(o, m[o]) /\ \A i, j \in 1..N : slots[i] = slots[j] => i = j
      BY <1>1, SlotsAre DEF slots
    <2> HIDE DEF N
    <2>4. N \in 0..3
      BY <2>1, <2>2
    <2> QED
      BY <2>1, <2>3, <2>4
  <1>3. Visits(m)[o] = flat \o last
    BY <1>1, VisitsAt
  <1> HIDE DEF slots
  <1>4. /\ \A i \in 1..N : slots[i] \in Looks(o, m[o])
        /\ \A s \in Looks(o, m[o]) : \E i \in 1..N : s = slots[i]
    <2>1. DOMAIN slots = 1..N
      BY <1>2, LenProperties
    <2> QED
      BY <1>2, <2>1 DEF ToSet
  <1>5. \A i \in 1..N : parts[i] = Visits(m)[slots[i]] /\ parts[i] \in Seq(S)
    BY <1>1, <1>4, LooksBehind
  <1>6. parts = [i \in 1..N |-> parts[i]]
    OBVIOUS
  <1> HIDE DEF parts, N
  <1>7. /\ flat \in Seq(S)
        /\ \A x : x \in ToSet(flat) <=> \E i \in 1..N : x \in ToSet(parts[i])
        /\ (/\ \A i \in 1..N : IsInjective(parts[i])
            /\ \A i, j \in 1..N : i # j => ToSet(parts[i]) \cap ToSet(parts[j]) = {})
           => IsInjective(flat)
    <2> HIDE DEF S
    <2> QED
      BY <1>2, <1>5, <1>6, Flattened
  <1>8. last \in Seq(S) /\ ToSet(last) = {m[o].id} /\ IsInjective(last)
    <2>1. m[o].id \in S
      BY DEF OwnIds
    <2>2. last \in Seq(S) /\ DOMAIN last = {1} /\ last[1] = m[o].id
      BY <2>1
    <2> QED
      BY <2>2 DEF ToSet, IsInjective
  <1> HIDE DEF last, flat, S
  <1>9. /\ flat \o last \in Seq(S)
        /\ ToSet(flat \o last) = ToSet(flat) \cup ToSet(last)
        /\ IsInjective(flat) /\ IsInjective(last) /\ ToSet(flat) \cap ToSet(last) = {}
               => IsInjective(flat \o last)
    BY <1>7, <1>8, TwoFlat
  <1>10. \A x : x \in ToSet(flat) <=> \E s \in Looks(o, m[o]) : x \in Reached(m, s)
    BY <1>4, <1>5, <1>7 DEF Reached
  <1>11. \A x : x \in Reached(m, o) <=> \/ x = m[o].id
                                        \/ \E s \in Looks(o, m[o]) : x \in Reached(m, s)
    <2>1. Reached(m, o) = ToSet(flat) \cup {m[o].id}
      BY <1>3, <1>8, <1>9 DEF Reached
    <2> QED
      BY <1>10, <2>1
  <1>12. ASSUME \A s \in Looks(o, m[o]) : IsInjective(Visits(m)[s]) /\ m[o].id \notin Reached(m, s),
                \A s, t \in Looks(o, m[o]) : s # t => Reached(m, s) \cap Reached(m, t) = {}
         PROVE  IsInjective(Visits(m)[o])
    <2>1. \A i \in 1..N : IsInjective(parts[i])
      BY <1>4, <1>5, <1>12
    <2>2. ASSUME NEW i \in 1..N, NEW j \in 1..N, i # j PROVE ToSet(parts[i]) \cap ToSet(parts[j]) = {}
      <3>1. slots[i] # slots[j] /\ slots[i] \in Looks(o, m[o]) /\ slots[j] \in Looks(o, m[o])
        BY <1>2, <1>4, <2>2 DEF N
      <3>2. Reached(m, slots[i]) \cap Reached(m, slots[j]) = {}
        BY <1>12, <3>1
      <3> QED
        BY <1>5, <3>2 DEF Reached
    <2>3. IsInjective(flat)
      BY <1>7, <2>1, <2>2
    <2>4. ToSet(flat) \cap ToSet(last) = {}
      BY <1>8, <1>10, <1>12
    <2> QED
      BY <1>3, <1>8, <1>9, <2>3, <2>4
  <1> QED
    BY <1>3, <1>9, <1>11, <1>12 DEF S

LEMMA VisitsTyped ==
    ASSUME NEW n \in Nat, NEW m, NEW z, Layout(m, n, z)
    PROVE  \A o \in Nat : Visits(m)[o] \in Seq(OwnIds(m))
  <1> DEFINE G == {o \in Nat : Visits(m)[o] \in Seq(OwnIds(m))}
  <1>1. ASSUME NEW o \in Nat, o \notin DOMAIN m PROVE o \in G
    <2>1. <<>> \in Seq(OwnIds(m))
      OBVIOUS
    <2> QED
      BY <1>1, <2>1, VisitsAt
  <1>2. ASSUME NEW o \in Nat, o >= n PROVE o \in G
    BY <1>1, <1>2, KernelsIn
  <1>3. ASSUME NEW o \in Nat, \A q \in Nat : q > o => q \in G PROVE o \in G
    <2>1. CASE o \in DOMAIN m
      BY <1>3, <2>1, ReachedFrom
    <2> QED
      BY <1>1, <2>1
  <1> HIDE DEF G
  <1>4. \A o \in Nat : o \in G
    BY <1>2, <1>3, Downward
  <1> QED
    BY <1>4 DEF G

LEMMA ReachedIs ==
    ASSUME NEW n \in Nat, NEW m, NEW z, Layout(m, n, z), NEW o \in Nat
    PROVE  /\ o \notin DOMAIN m => Reached(m, o) = {}
           /\ o \in DOMAIN m =>
                  \A x : x \in Reached(m, o) <=> \/ x = m[o].id
                                                 \/ \E s \in Looks(o, m[o]) : x \in Reached(m, s)
  <1>1. ASSUME o \notin DOMAIN m PROVE Reached(m, o) = {}
    <2>1. Visits(m)[o] = <<>>
      BY <1>1, VisitsAt
    <2> QED
      BY <2>1 DEF Reached, ToSet
  <1>2. \A s \in Nat : s > o => Visits(m)[s] \in Seq(OwnIds(m))
    BY VisitsTyped
  <1> QED
    BY <1>1, <1>2, ReachedFrom

(* Only kernels from o on, and with a kernel the one whose child it is.      *)
LEMMA ReachedBehind ==
    ASSUME NEW n \in Nat, NEW m, NEW z, Layout(m, n, z)
    PROVE  \A o \in Nat : \A x \in Reached(m, o) : \E q \in DOMAIN m : q >= o /\ m[q].id = x
  <1> DEFINE P(o) == \A x \in Reached(m, o) : \E q \in DOMAIN m : q >= o /\ m[q].id = x
             G == {o \in Nat : P(o)}
  <1>1. ASSUME NEW o \in Nat, o \notin DOMAIN m PROVE o \in G
    BY <1>1, ReachedIs
  <1>2. ASSUME NEW o \in Nat, o >= n PROVE o \in G
    BY <1>1, <1>2, KernelsIn
  <1>3. ASSUME NEW o \in Nat, \A q \in Nat : q > o => q \in G PROVE o \in G
    <2>1. CASE o \in DOMAIN m
      <3> SUFFICES ASSUME NEW x \in Reached(m, o) PROVE \E q \in DOMAIN m : q >= o /\ m[q].id = x
        OBVIOUS
      <3>1. CASE x = m[o].id
        BY <2>1, <3>1
      <3>2. ASSUME NEW s \in Looks(o, m[o]), x \in Reached(m, s)
            PROVE  \E q \in DOMAIN m : q >= o /\ m[q].id = x
        <4>1. s \in Nat /\ s > o
          BY <2>1, <3>2, KernelsIn, LooksBehind
        <4>2. PICK q \in DOMAIN m : q >= s /\ m[q].id = x
          BY <1>3, <3>2, <4>1
        <4>3. q \in Nat
          BY KernelsIn
        <4> QED
          BY <4>1, <4>2, <4>3
      <3> QED
        BY <2>1, <3>1, <3>2, ReachedIs
    <2> QED
      BY <1>1, <2>1
  <1> HIDE DEF G
  <1>4. \A o \in Nat : o \in G
    BY <1>2, <1>3, Downward
  <1> QED
    BY <1>4 DEF G

LEMMA ReachedThrough ==
    ASSUME NEW n \in Nat, NEW m, NEW z, Layout(m, n, z), Distinct(m), NEW q \in DOMAIN m
    PROVE  \A o \in Nat : m[q].id \in Reached(m, o) /\ q # o =>
               \E p \in DOMAIN m : q \in Looks(p, m[p]) /\ m[p].id \in Reached(m, o)
  <1> DEFINE P(o) == m[q].id \in Reached(m, o) /\ q # o =>
                         \E p \in DOMAIN m : q \in Looks(p, m[p]) /\ m[p].id \in Reached(m, o)
             G == {o \in Nat : P(o)}
  <1>1. ASSUME NEW o \in Nat, o \notin DOMAIN m PROVE o \in G
    BY <1>1, ReachedIs
  <1>2. ASSUME NEW o \in Nat, o >= n PROVE o \in G
    BY <1>1, <1>2, KernelsIn
  <1>3. ASSUME NEW o \in Nat, \A i \in Nat : i > o => i \in G PROVE o \in G
    <2>1. CASE o \in DOMAIN m
      <3> SUFFICES ASSUME m[q].id \in Reached(m, o), q # o
                   PROVE  \E p \in DOMAIN m : q \in Looks(p, m[p]) /\ m[p].id \in Reached(m, o)
        OBVIOUS
      <3>1. m[q].id # m[o].id
        BY <2>1 DEF Distinct
      <3>2. PICK s \in Looks(o, m[o]) : m[q].id \in Reached(m, s)
        BY <2>1, <3>1, ReachedIs
      <3>3. s \in Nat /\ s > o
        BY <2>1, KernelsIn, LooksBehind
      <3>4. CASE q = s
        <4>1. m[o].id \in Reached(m, o)
          BY <2>1, ReachedIs
        <4> QED
          BY <2>1, <3>4, <4>1
      <3>5. CASE q # s
        <4>1. PICK p \in DOMAIN m : q \in Looks(p, m[p]) /\ m[p].id \in Reached(m, s)
          BY <1>3, <3>2, <3>3, <3>5
        <4>2. m[p].id \in Reached(m, o)
          BY <2>1, <4>1, ReachedIs
        <4> QED
          BY <4>1, <4>2
      <3> QED
        BY <3>4, <3>5
    <2> QED
      BY <1>1, <2>1
  <1> HIDE DEF G
  <1>4. \A o \in Nat : o \in G
    BY <1>2, <1>3, Downward
  <1> QED
    BY <1>4 DEF G

(* With a kernel its children are destroyed.                                 *)
LEMMA ReachedOn ==
    ASSUME NEW n \in Nat, NEW m, NEW z, Layout(m, n, z), Distinct(m),
           NEW p \in DOMAIN m, NEW q \in DOMAIN m, q \in Looks(p, m[p])
    PROVE  \A o \in Nat : m[p].id \in Reached(m, o) => m[q].id \in Reached(m, o)
  <1> DEFINE P(o) == m[p].id \in Reached(m, o) => m[q].id \in Reached(m, o)
             G == {o \in Nat : P(o)}
  <1>1. ASSUME NEW o \in Nat, o \notin DOMAIN m PROVE o \in G
    BY <1>1, ReachedIs
  <1>2. ASSUME NEW o \in Nat, o >= n PROVE o \in G
    BY <1>1, <1>2, KernelsIn
  <1>3. ASSUME NEW o \in Nat, \A i \in Nat : i > o => i \in G PROVE o \in G
    <2>1. CASE o \in DOMAIN m
      <3> SUFFICES ASSUME m[p].id \in Reached(m, o) PROVE m[q].id \in Reached(m, o)
        OBVIOUS
      <3>1. CASE m[p].id = m[o].id
        <4>1. p = o
          BY <2>1, <3>1 DEF Distinct
        <4>2. q \in Nat /\ m[q].id \in Reached(m, q)
          BY KernelsIn, ReachedIs
        <4> QED
          BY <2>1, <4>1, <4>2, ReachedIs
      <3>2. CASE m[p].id # m[o].id
        <4>1. PICK s \in Looks(o, m[o]) : m[p].id \in Reached(m, s)
          BY <2>1, <3>2, ReachedIs
        <4>2. s \in Nat /\ s > o
          BY <2>1, KernelsIn, LooksBehind
        <4>3. m[q].id \in Reached(m, s)
          BY <1>3, <4>1, <4>2
        <4> QED
          BY <2>1, <4>3, ReachedIs
      <3> QED
        BY <3>1, <3>2
    <2> QED
      BY <1>1, <2>1
  <1> HIDE DEF G
  <1>4. \A o \in Nat : o \in G
    BY <1>2, <1>3, Downward
  <1> QED
    BY <1>4 DEF G

(* Nothing is a descendant of two children of one kernel: the first kernel   *)
(* that were would be the child of an earlier one.                           *)
LEMMA ChildrenApart ==
    ASSUME NEW n \in Nat, NEW m, NEW z, Layout(m, n, z), Distinct(m), Rooted(m),
           NEW o \in DOMAIN m, NEW s \in Looks(o, m[o]), NEW t \in Looks(o, m[o]), s # t
    PROVE  Reached(m, s) \cap Reached(m, t) = {}
  <1>1. \A p, q \in DOMAIN m : p # q => Looks(p, m[p]) \cap Looks(q, m[q]) = {}
    BY DEF Rooted
  <1>2. /\ o \in Nat /\ s \in Nat /\ s > o /\ t \in Nat /\ t > o
        /\ \A p \in DOMAIN m : p \in Nat
    BY KernelsIn, LooksBehind
  <1> DEFINE T == {q \in DOMAIN m : m[q].id \in Reached(m, s) /\ m[q].id \in Reached(m, t)}
  <1>3. ASSUME T # {} PROVE FALSE
    <2>1. T \in SUBSET Nat
      BY <1>2
    <2>2. PICK q \in T : \A r \in T : q <= r
      BY <1>3, <2>1, LeastExists
    <2>3. q \in DOMAIN m /\ m[q].id \in Reached(m, s) /\ m[q].id \in Reached(m, t)
      OBVIOUS
    <2> HIDE DEF T
    <2>4. ASSUME NEW u \in {s, t}, m[o].id \in Reached(m, u) PROVE FALSE
      <3>1. PICK r \in DOMAIN m : r >= u /\ m[r].id = m[o].id
        BY <1>2, <2>4, ReachedBehind
      <3>2. r = o
        BY <3>1 DEF Distinct
      <3> QED
        BY <1>2, <3>1, <3>2
    <2>5. q # s
      <3> SUFFICES ASSUME q = s PROVE FALSE
        OBVIOUS
      <3>1. PICK p \in DOMAIN m : q \in Looks(p, m[p]) /\ m[p].id \in Reached(m, t)
        BY <1>2, <2>3, ReachedThrough
      <3>2. p = o
        BY <1>1, <3>1
      <3> QED
        BY <2>4, <3>1, <3>2
    <2>6. q # t
      <3> SUFFICES ASSUME q = t PROVE FALSE
        OBVIOUS
      <3>1. PICK p \in DOMAIN m : q \in Looks(p, m[p]) /\ m[p].id \in Reached(m, s)
        BY <1>2, <2>3, ReachedThrough
      <3>2. p = o
        BY <1>1, <3>1
      <3> QED
        BY <2>4, <3>1, <3>2
    <2>7. PICK p \in DOMAIN m : q \in Looks(p, m[p]) /\ m[p].id \in Reached(m, s)
      BY <1>2, <2>3, <2>5, ReachedThrough
    <2>8. PICK r \in DOMAIN m : q \in Looks(r, m[r]) /\ m[r].id \in Reached(m, t)
      BY <1>2, <2>3, <2>6, ReachedThrough
    <2>9. p = r
      BY <1>1, <2>7, <2>8
    <2>10. p \in T
      BY <2>7, <2>8, <2>9 DEF T
    <2>11. q > p
      BY <2>7, KernelsIn, LooksBehind
    <2>12. p \in Nat /\ q \in Nat
      BY <1>2, <2>3
    <2> QED
      BY <2>2, <2>10, <2>11, <2>12
  <1>4. ASSUME NEW x \in Reached(m, s), x \in Reached(m, t) PROVE FALSE
    <2>1. PICK q \in DOMAIN m : m[q].id = x
      BY <1>2, ReachedBehind
    <2> QED
      BY <1>3, <1>4, <2>1
  <1> QED
    BY <1>4

LEMMA VisitedOnce ==
    ASSUME NEW n \in Nat, NEW m, NEW z, Layout(m, n, z), Distinct(m), Rooted(m)
    PROVE  \A o \in Nat : IsInjective(Visits(m)[o])
  <1> DEFINE G == {o \in Nat : IsInjective(Visits(m)[o])}
  <1>1. ASSUME NEW o \in Nat, o \notin DOMAIN m PROVE o \in G
    <2>1. Visits(m)[o] = <<>>
      BY <1>1, VisitsAt
    <2> QED
      BY <2>1, EmptyIs
  <1>2. ASSUME NEW o \in Nat, o >= n PROVE o \in G
    BY <1>1, <1>2, KernelsIn
  <1>3. ASSUME NEW o \in Nat, \A q \in Nat : q > o => q \in G PROVE o \in G
    <2>1. CASE o \in DOMAIN m
      <3>1. ASSUME NEW s \in Looks(o, m[o])
            PROVE  IsInjective(Visits(m)[s]) /\ m[o].id \notin Reached(m, s)
        <4>1. s \in Nat /\ s > o
          BY <2>1, KernelsIn, LooksBehind
        <4>2. ASSUME m[o].id \in Reached(m, s) PROVE FALSE
          <5>1. PICK r \in DOMAIN m : r >= s /\ m[r].id = m[o].id
            BY <4>1, <4>2, ReachedBehind
          <5>2. r = o
            BY <2>1, <5>1 DEF Distinct
          <5> QED
            BY <4>1, <5>1, <5>2
        <4> QED
          BY <1>3, <4>1, <4>2
      <3>2. \A s, t \in Looks(o, m[o]) : s # t => Reached(m, s) \cap Reached(m, t) = {}
        BY <2>1, ChildrenApart
      <3>3. \A s \in Nat : s > o => Visits(m)[s] \in Seq(OwnIds(m))
        BY VisitsTyped
      <3> QED
        BY <2>1, <3>1, <3>2, <3>3, ReachedFrom
    <2> QED
      BY <1>1, <2>1
  <1> HIDE DEF G
  <1>4. \A o \in Nat : o \in G
    BY <1>2, <1>3, Downward
  <1> QED
    BY <1>4 DEF G

(* Destroying the root destroys every kernel, and each once.                 *)
LEMMA DestroysEach ==
    ASSUME NEW n \in Nat, NEW m, NEW z, Layout(m, n, z), Distinct(m), Rooted(m)
    PROVE  ToSet(Destroyed(m)) = OwnIds(m) /\ IsInjective(Destroyed(m))
  <1>1. Destroyed(m) = Visits(m)[0] /\ ToSet(Destroyed(m)) = Reached(m, 0)
    BY DestroyedVisits DEF Reached
  <1>2. Reached(m, 0) \subseteq OwnIds(m)
    BY ReachedBehind DEF OwnIds
  <1>3. \A p \in DOMAIN m : p \in Nat
    BY KernelsIn
  <1> DEFINE T == {q \in DOMAIN m : m[q].id \notin Reached(m, 0)}
  <1>4. ASSUME T # {} PROVE FALSE
    <2>1. PICK q \in T : \A r \in T : q <= r
      <3>1. T \in SUBSET Nat
        BY <1>3
      <3> QED
        BY <1>4, <3>1, LeastExists
    <2>2. q # 0
      <3>1. 0 \in DOMAIN m => m[0].id \in Reached(m, 0)
        BY ReachedIs
      <3> QED
        BY <3>1
    <2>3. PICK p \in DOMAIN m : q \in Looks(p, m[p])
      BY <2>2 DEF Rooted
    <2>4. p < q
      BY <2>3, KernelsIn, LooksBehind
    <2>5. m[p].id \in Reached(m, 0)
      BY <1>3, <2>1, <2>4
    <2>6. m[q].id \in Reached(m, 0)
      BY <2>3, <2>5, ReachedOn
    <2> QED
      BY <2>6
  <1>5. OwnIds(m) \subseteq Reached(m, 0)
    BY <1>4 DEF OwnIds
  <1>6. IsInjective(Destroyed(m))
    BY <1>1, VisitedOnce
  <1> QED
    BY <1>1, <1>2, <1>5, <1>6

-----------------------------------------------------------------------------
(* Whose the kernels are.                                                    *)

\* No kernel has two places, in one builder or in two.
OneOwner ==
    \A a, b \in Builders : \A o \in DOMAIN Held(a), q \in DOMAIN Held(b) :
        Held(a)[o].id = Held(b)[q].id => a = b /\ o = q

\* The kernels alive are those in the builders, and destroying the root of a
\* builder's tree would reach all of its kernels.
Ownership ==
    /\ ~again
    /\ alive \subseteq Ids
    /\ alive = UNION {OwnIds(Held(b)) : b \in Builders}
    /\ OneOwner
    /\ \A b \in Builders : /\ Rooted(Held(b))
                           /\ phase[b] = "none" => DOMAIN Held(b) = {}

LEMMA NothingHeld == DOMAIN Nothing = {} /\ OwnIds(Nothing) = {} /\ Rooted(Nothing)
  BY DEF Nothing, OwnIds, Rooted

LEMMA HeldLayout ==
    ASSUME KInv, NEW b \in Builders
    PROVE  \E n \in Nat : Layout(Held(b), n, n)
  <1>1. CASE Live(b)
    BY <1>1 DEF KInv, BuilderOK, Held
  <1>2. CASE ~Live(b)
    <2>1. Held(b) = Nothing /\ Nothing = [o \in DOMAIN Nothing |-> Nothing[o]]
      BY <1>2 DEF Held, Nothing
    <2>2. Layout(Nothing, 0, 0)
      BY <2>1, NothingHeld DEF Layout
    <2> QED
      BY <2>1, <2>2
  <1> QED
    BY <1>1, <1>2

(* Destroying a builder's tree destroys what is in the builder, and nothing  *)
(* twice.                                                                    *)
LEMMA DestroyTakesAll ==
    ASSUME KInv, Ownership, NEW b \in Builders, Destroy(b)
    PROVE  alive' = alive \ OwnIds(Held(b)) /\ ~again'
  <1>1. CASE bld[b].data = NULL
    <2>1. Held(b) = Nothing
      BY <1>1 DEF Held, Live
    <2> QED
      BY <1>1, <2>1, NothingHeld DEF Destroy, Ownership
  <1>2. CASE bld[b].data # NULL
    <2> DEFINE m == mem[bld[b].data]
               ids == Destroyed(m)
    <2>1. /\ alive' = alive \ ToSet(ids)
          /\ again' = (again \/ ~ToSet(ids) \subseteq alive \/ ~IsInjective(ids))
      BY <1>2 DEF Destroy
    <2>2. Held(b) = m
      BY <1>2 DEF Held, Live, Memory
    <2>3. Distinct(m) /\ Rooted(m)
      BY <2>2 DEF Ownership, OneOwner, Distinct
    <2>4. PICK n \in Nat : Layout(m, n, n)
      BY <2>2, HeldLayout
    <2>5. ToSet(ids) = OwnIds(m) /\ IsInjective(ids)
      BY <2>3, <2>4, DestroysEach
    <2>6. OwnIds(m) \subseteq alive
      BY <2>2 DEF Ownership
    <2> HIDE DEF ids, m
    <2> QED
      BY <2>1, <2>2, <2>5, <2>6 DEF Ownership
  <1> QED
    BY <1>1, <1>2

-----------------------------------------------------------------------------
(* The changes a step makes to who owns what.                                *)

LEMMA EachWhereItWas ==
    ASSUME Ownership, SameKernels, alive' = alive
    PROVE  OneOwner' /\ alive' = UNION {OwnIds(Held(b)') : b \in Builders}
  <1>1. ASSUME NEW b \in Builders PROVE OwnIds(Held(b)') = OwnIds(Held(b))
    BY DEF SameKernels, OwnIds
  <1>2. alive' = UNION {OwnIds(Held(b)') : b \in Builders}
    BY <1>1 DEF Ownership
  <1>3. OneOwner'
    BY DEF Ownership, OneOwner, SameKernels
  <1> QED
    BY <1>2, <1>3

LEMMA OneEmptied ==
    ASSUME Ownership, NEW b \in Builders, alive' = alive \ OwnIds(Held(b)),
           Held(b)' = Nothing, \A a \in Builders : a # b => Held(a)' = Held(a)
    PROVE  OneOwner' /\ alive' = UNION {OwnIds(Held(a)') : a \in Builders}
  <1>1. ASSUME NEW a \in Builders, a # b PROVE OwnIds(Held(a)) \cap OwnIds(Held(b)) = {}
    BY <1>1 DEF Ownership, OneOwner, OwnIds
  <1>2. OwnIds(Held(b)') = {} /\ \A a \in Builders : a # b => OwnIds(Held(a)') = OwnIds(Held(a))
    BY NothingHeld
  <1>3. alive' = UNION {OwnIds(Held(a)') : a \in Builders}
    BY <1>1, <1>2 DEF Ownership
  <1>4. ASSUME NEW a \in Builders
        PROVE  DOMAIN Held(a)' = {} \/ Held(a)' = Held(a)
    BY NothingHeld
  <1>5. OneOwner'
    BY <1>4 DEF Ownership, OneOwner
  <1> QED
    BY <1>3, <1>5

LEMMA TwoSwapped ==
    ASSUME Ownership, NEW a \in Builders, NEW b \in Builders, alive' = alive,
           Held(a)' = Held(b), Held(b)' = Held(a),
           \A c \in Builders : c # a /\ c # b => Held(c)' = Held(c)
    PROVE  OneOwner' /\ alive' = UNION {OwnIds(Held(c)') : c \in Builders}
  <1> DEFINE other(c) == IF c = a THEN b ELSE IF c = b THEN a ELSE c
  <1>1. \A c \in Builders : Held(c)' = Held(other(c)) /\ other(c) \in Builders
    OBVIOUS
  <1>2. /\ \A c, d \in Builders : other(c) = other(d) => c = d
        /\ \A c \in Builders : other(other(c)) = c
    OBVIOUS
  <1> HIDE DEF other
  <1>3. \A x : (\E c \in Builders : x \in OwnIds(Held(c)')) <=> \E c \in Builders : x \in OwnIds(Held(c))
    BY <1>1, <1>2
  <1>4. alive' = UNION {OwnIds(Held(c)') : c \in Builders}
    BY <1>3 DEF Ownership
  <1>5. OneOwner'
    BY <1>1, <1>2 DEF Ownership, OneOwner
  <1> QED
    BY <1>4, <1>5

LEMMA OneAdded ==
    ASSUME Ownership, NEW r, NEW k, k.id \notin alive, alive' = alive \cup {k.id},
           NEW b \in Builders, r \notin DOMAIN Held(b),
           \A a \in Builders : Held(a)' = IF a = b THEN Placed(Held(a), r, k) ELSE Held(a)
    PROVE  OneOwner' /\ alive' = UNION {OwnIds(Held(a)') : a \in Builders}
  <1>1. /\ DOMAIN Held(b)' = DOMAIN Held(b) \cup {r}
        /\ Held(b)'[r] = k /\ \A o \in DOMAIN Held(b) : Held(b)'[o] = Held(b)[o]
    BY DEF Placed
  <1>2. \A a \in Builders : a # b => Held(a)' = Held(a)
    OBVIOUS
  <1>3. ASSUME NEW a \in Builders, NEW o \in DOMAIN Held(a) PROVE Held(a)[o].id # k.id
    <2>1. Held(a)[o].id \in alive
      BY DEF Ownership, OwnIds
    <2> QED
      BY <2>1
  <1>4. OwnIds(Held(b)') = OwnIds(Held(b)) \cup {k.id}
    BY <1>1 DEF OwnIds
  <1>5. alive' = UNION {OwnIds(Held(a)') : a \in Builders}
    BY <1>2, <1>4 DEF Ownership
  <1>6. ASSUME NEW a \in Builders, NEW o \in DOMAIN Held(a)'
        PROVE  \/ o \in DOMAIN Held(a) /\ Held(a)'[o].id = Held(a)[o].id /\ Held(a)'[o].id # k.id
               \/ a = b /\ o = r /\ Held(a)'[o].id = k.id
    BY <1>1, <1>2, <1>3
  <1>7. OneOwner'
    BY <1>6 DEF Ownership, OneOwner
  <1> QED
    BY <1>5, <1>7

-----------------------------------------------------------------------------
(* Ownership is kept.                                                        *)

LEMMA StillOwned ==
    ASSUME Ownership, ~again', OneOwner', alive' \subseteq Ids,
           alive' = UNION {OwnIds(Held(b)') : b \in Builders},
           \A b \in Builders : /\ Rooted(Held(b)')
                               /\ phase'[b] = "none" => DOMAIN Held(b)' = {}
    PROVE  Ownership'
  BY DEF Ownership

(* The tree in progress is rooted at every stage.                            *)
LEMMA RootedInProgress ==
    ASSUME KInv', NEW b \in Builders, phase'[b] = "building"
    PROVE  Rooted(Held(b)')
  <1>1. BuilderOK(b)'
    BY DEF KInv
  <1>2. Live(b)' /\ Tree(Memory(b)', Pending(stack', off'))
    BY <1>1 DEF BuilderOK, Building
  <1>3. Held(b)' = Memory(b)'
    BY <1>2 DEF Held
  <1> QED
    BY <1>2, <1>3 DEF Tree, Rooted

LEMMA SameOwnership ==
    ASSUME KInv', Ownership, SameKernels, alive' = alive, again' = again,
           \A b \in Builders : /\ phase[b] = "building" =>
                                      phase'[b] = "building" \/ Held(b)' = Held(b)
                               /\ phase'[b] = "none" => phase[b] = "none"
    PROVE  Ownership'
  <1>1. OneOwner' /\ alive' = UNION {OwnIds(Held(b)') : b \in Builders}
    BY EachWhereItWas
  <1>2. ASSUME NEW b \in Builders
        PROVE  Rooted(Held(b)') /\ (phase'[b] = "none" => DOMAIN Held(b)' = {})
    <2>1. phase'[b] = "none" => DOMAIN Held(b)' = {}
      BY DEF Ownership, SameKernels
    <2>2. CASE Held(b)' = Held(b)
      BY <2>1, <2>2 DEF Ownership
    <2>3. CASE Held(b)' # Held(b)
      BY <2>1, <2>3, RootedInProgress DEF SameKernels
    <2> QED
      BY <2>2, <2>3
  <1> QED
    BY <1>1, <1>2, StillOwned DEF Ownership

(* Steps that leave the memory and the builders alone.                       *)
LEMMA MemoryUntouched ==
    ASSUME KInv', Ownership, bld' = bld, mem' = mem, alive' = alive, again' = again,
           \A b \in Builders : phase'[b] = "none" => phase[b] = "none"
    PROVE  Ownership'
  <1>1. \A b \in Builders : Held(b)' = Held(b)
    BY DEF Held, Live, Memory
  <1>2. SameKernels
    BY <1>1 DEF SameKernels
  <1> QED
    BY <1>1, <1>2, SameOwnership

LEMMA OneDestroyed ==
    ASSUME KInv, Ownership, NEW b \in Builders, alive' = alive \ OwnIds(Held(b)), ~again',
           Held(b)' = Nothing, \A a \in Builders : a # b => Held(a)' = Held(a),
           \A a \in Builders : a # b => phase'[a] = phase[a]
    PROVE  Ownership'
  <1>1. OneOwner' /\ alive' = UNION {OwnIds(Held(a)') : a \in Builders}
    BY OneEmptied
  <1>2. ASSUME NEW a \in Builders
        PROVE  Rooted(Held(a)') /\ (phase'[a] = "none" => DOMAIN Held(a)' = {})
    BY NothingHeld DEF Ownership
  <1>3. alive' \subseteq Ids
    BY DEF Ownership
  <1> QED
    BY <1>1, <1>2, <1>3, StillOwned

LEMMA NewBuilderOwns ==
    ASSUME KInv, Ownership, NEW b \in Builders, NewBuilder(b)
    PROVE  Ownership'
  <1>1. Held(b)' = Nothing /\ \A a \in Builders : a # b => Held(a)' = Held(a)
    BY NewBuilderKeeps
  <1>2. /\ phase[b] = "none" /\ phase' = [phase EXCEPT ![b] = "open"]
        /\ alive' = alive /\ again' = again
    BY DEF NewBuilder
  <1>3. OwnIds(Held(b)) = {}
    BY <1>2 DEF Ownership, OwnIds
  <1>4. \A a \in Builders : a # b => phase'[a] = phase[a]
    BY <1>2 DEF KInv, Maps
  <1>5. ~again' /\ alive' = alive \ OwnIds(Held(b))
    BY <1>2, <1>3 DEF Ownership
  <1> QED
    BY <1>1, <1>4, <1>5, OneDestroyed

LEMMA DeleteBuilderOwns ==
    ASSUME KInv, Ownership, NEW b \in Builders, DeleteBuilder(b)
    PROVE  Ownership'
  <1>1. Held(b)' = Nothing /\ \A a \in Builders : a # b => Held(a)' = Held(a)
    BY DeleteBuilderKeeps
  <1>2. Destroy(b) /\ phase' = [phase EXCEPT ![b] = "none"]
    BY DEF DeleteBuilder
  <1>3. alive' = alive \ OwnIds(Held(b)) /\ ~again'
    BY <1>2, DestroyTakesAll
  <1>4. \A a \in Builders : a # b => phase'[a] = phase[a]
    BY <1>2 DEF KInv, Maps
  <1> QED
    BY <1>1, <1>3, <1>4, OneDestroyed

LEMMA ResetOwns ==
    ASSUME KInv, Ownership, NEW b \in Builders, Reset(b)
    PROVE  Ownership'
  <1>1. Held(b)' = Nothing /\ \A a \in Builders : a # b => Held(a)' = Held(a)
    BY ResetKeeps
  <1>2. Destroy(b) /\ phase' = [phase EXCEPT ![b] = "open"]
    BY DEF Reset
  <1>3. alive' = alive \ OwnIds(Held(b)) /\ ~again'
    BY <1>2, DestroyTakesAll
  <1>4. \A a \in Builders : a # b => phase'[a] = phase[a]
    BY <1>2 DEF KInv, Maps
  <1> QED
    BY <1>1, <1>3, <1>4, OneDestroyed

LEMMA ReserveFailsOwns ==
    ASSUME KInv, Ownership, ReserveFails
    PROVE  Ownership'
  <1>1. /\ stack # <<>> /\ Destroy(Cur) /\ phase' = [phase EXCEPT ![Cur] = "failed"]
    BY DEF ReserveFails
  <1>2. PICK b \in Builders : b = Cur
    BY <1>1, Innermost
  <1>3. \A a \in Builders : Held(a)' = IF a = b THEN Nothing ELSE Held(a)
    BY <1>2, ReserveFailsKeeps
  <1>4. Destroy(b)
    BY <1>1, <1>2
  <1>5. alive' = alive \ OwnIds(Held(b)) /\ ~again'
    BY <1>4, DestroyTakesAll
  <1>6. \A a \in Builders : a # b => phase'[a] = phase[a]
    BY <1>1, <1>2 DEF KInv, Maps
  <1> QED
    BY <1>3, <1>5, <1>6, OneDestroyed

LEMMA SwapOwns ==
    ASSUME KInv, Ownership, NEW a \in Builders, NEW b \in Builders, Swap(a, b)
    PROVE  Ownership'
  <1>1. /\ Held(a)' = Held(b) /\ Held(b)' = Held(a)
        /\ \A c \in Builders : c # a /\ c # b => Held(c)' = Held(c)
    BY SwapKeeps
  <1>2. /\ phase[a] # "none" /\ phase[b] # "none"
        /\ phase' = [phase EXCEPT ![a] = phase[b], ![b] = phase[a]]
        /\ alive' = alive /\ again' = again
    BY DEF Swap
  <1>3. OneOwner' /\ alive' = UNION {OwnIds(Held(c)') : c \in Builders}
    BY <1>1, <1>2, TwoSwapped
  <1>4. ASSUME NEW c \in Builders
        PROVE  Rooted(Held(c)') /\ (phase'[c] = "none" => DOMAIN Held(c)' = {})
    <2>1. phase'[c] = "none" => c # a /\ c # b /\ phase[c] = "none"
      BY <1>2 DEF KInv, Maps
    <2>2. Rooted(Held(a)) /\ Rooted(Held(b)) /\ Rooted(Held(c))
      BY DEF Ownership
    <2>3. phase[c] = "none" => DOMAIN Held(c) = {}
      BY DEF Ownership
    <2> QED
      BY <1>1, <2>1, <2>2, <2>3
  <1> QED
    BY <1>2, <1>3, <1>4, StillOwned DEF Ownership

LEMMA MakeOwns ==
    ASSUME KInv, Ownership, Make
    PROVE  Ownership'
  <1> DEFINE id == CHOOSE x \in Ids \ alive : TRUE
  <1>1. /\ stack # <<>> /\ alive # Ids /\ alive' = alive \cup {id}
        /\ phase' = phase /\ again' = again
    BY DEF Make, Running
  <1>2. id \in Ids /\ id \notin alive
    BY <1>1 DEF Ownership
  <1>3. /\ KInv' /\ Cur \in Builders /\ Top.root \notin DOMAIN Held(Cur)
        /\ \E k : /\ k.id = id
                  /\ \A a \in Builders :
                         Held(a)' = IF a = Cur THEN Placed(Held(a), Top.root, k) ELSE Held(a)
    BY MakeKeeps
  <1> HIDE DEF id
  <1>4. PICK b \in Builders : b = Cur /\ phase[b] = "building"
    BY <1>1, Innermost
  <1>5. PICK r : r = Top.root
    OBVIOUS
  <1>6. PICK k : /\ k.id = id
                 /\ \A a \in Builders :
                        Held(a)' = IF a = b THEN Placed(Held(a), r, k) ELSE Held(a)
    BY <1>3, <1>4, <1>5
  <1>7. OneOwner' /\ alive' = UNION {OwnIds(Held(a)') : a \in Builders}
    <2>1. k.id \notin alive /\ alive' = alive \cup {k.id}
      BY <1>1, <1>2, <1>6
    <2>2. r \notin DOMAIN Held(b)
      BY <1>3, <1>4, <1>5
    <2>3. \A a \in Builders : Held(a)' = IF a = b THEN Placed(Held(a), r, k) ELSE Held(a)
      BY <1>6
    <2> QED
      BY <2>1, <2>2, <2>3, OneAdded
  <1>8. ASSUME NEW a \in Builders
        PROVE  Rooted(Held(a)') /\ (phase'[a] = "none" => DOMAIN Held(a)' = {})
    <2>1. CASE a = b
      BY <1>1, <1>3, <1>4, <2>1, RootedInProgress
    <2>2. CASE a # b
      BY <1>1, <1>6, <2>2 DEF Ownership
    <2> QED
      BY <2>1, <2>2
  <1> QED
    BY <1>1, <1>2, <1>7, <1>8, StillOwned DEF Ownership

LEMMA OwnershipBegins == Init => Ownership
  <1> SUFFICES ASSUME Init PROVE Ownership
    OBVIOUS
  <1>1. \A b \in Builders : Held(b) = Nothing
    BY DEF Init, Held, Live
  <1>2. alive = {} /\ ~again
    BY DEF Init
  <1> QED
    BY <1>1, <1>2, NothingHeld DEF Ownership, OneOwner

LEMMA OwnershipKept ==
    ASSUME KInv, Ownership, [Next]_vars
    PROVE  Ownership'
  <1>0. KInv'
    BY StepKeeps
  <1>1. CASE \E b \in Builders : NewBuilder(b) \/ DeleteBuilder(b) \/ Reset(b)
    BY <1>1, NewBuilderOwns, DeleteBuilderOwns, ResetOwns
  <1>2. CASE \E a, b \in Builders : Swap(a, b)
    BY <1>2, SwapOwns
  <1>3. ASSUME NEW b \in Builders, NEW k \in Kinds, Instantiate(b, k) PROVE Ownership'
    <2>1. /\ bld' = bld /\ mem' = mem /\ alive' = alive /\ again' = again
          /\ phase' = [phase EXCEPT ![b] = "building"]
      BY <1>3 DEF Instantiate
    <2>2. \A a \in Builders : phase'[a] = "none" => phase[a] = "none"
      BY <2>1 DEF KInv, Maps
    <2> QED
      BY <1>0, <2>1, <2>2, MemoryUntouched
  <1>4. CASE \E k \in Kinds : Call(k)
    <2>1. bld' = bld /\ mem' = mem /\ alive' = alive /\ again' = again /\ phase' = phase
      BY <1>4 DEF Call
    <2> QED
      BY <1>0, <2>1, MemoryUntouched
  <1>5. CASE Make
    BY <1>5, MakeOwns
  <1>6. CASE RecordFirst \/ RecordField \/ RecordBuffer
    <2>1. alive' = alive /\ again' = again /\ phase' = phase
      BY <1>6 DEF RecordFirst, RecordField, RecordBuffer
    <2>2. SameKernels
      BY <1>6, RecordFirstKeeps, RecordFieldKeeps, RecordBufferKeeps
    <2> QED
      BY <1>0, <2>1, <2>2, SameOwnership
  <1>7. CASE Return
    <2>1. /\ bld' = bld /\ mem' = mem /\ alive' = alive /\ again' = again
          /\ phase' = phase \/ phase' = [phase EXCEPT ![Cur] = "built"]
      BY <1>7 DEF Return
    <2>2. \A a \in Builders : phase'[a] = "none" => phase[a] = "none"
      BY <2>1 DEF KInv, Maps
    <2> QED
      BY <1>0, <2>1, <2>2, MemoryUntouched
  <1>8. CASE Throw
    <2>1. /\ bld' = bld /\ mem' = mem /\ alive' = alive /\ again' = again
          /\ phase' = [phase EXCEPT ![Cur] = "failed"]
      BY <1>8 DEF Throw
    <2>2. \A a \in Builders : phase'[a] = "none" => phase[a] = "none"
      BY <2>1 DEF KInv, Maps
    <2> QED
      BY <1>0, <2>1, <2>2, MemoryUntouched
  <1>9. CASE ReserveFails
    BY <1>9, ReserveFailsOwns
  <1>10. CASE UNCHANGED vars
    <2>1. bld' = bld /\ mem' = mem /\ alive' = alive /\ again' = again /\ phase' = phase
      BY <1>10 DEF vars
    <2> QED
      BY <1>0, <2>1, MemoryUntouched
  <1> QED
    BY <1>1, <1>2, <1>3, <1>4, <1>5, <1>6, <1>7, <1>8, <1>9, <1>10 DEF Next

LEMMA OwnersAreLive == Ownership => DestroyedOnce
  <1> SUFFICES ASSUME Ownership PROVE DestroyedOnce
    OBVIOUS
  <1>1. /\ \A b \in Builders : Live(b) => Held(b) = Memory(b)
        /\ \A b \in Builders : ~Live(b) => OwnIds(Held(b)) = {}
    BY NothingHeld DEF Held
  <1> DEFINE L == {b \in Builders : Live(b)}
             ids(b) == {Memory(b)[o].id : o \in DOMAIN Memory(b)}
  <1>2. alive = UNION {ids(b) : b \in L}
    <2>1. \A b \in L : ids(b) = OwnIds(Held(b))
      BY <1>1 DEF OwnIds
    <2>2. alive = UNION {OwnIds(Held(b)) : b \in Builders}
      BY DEF Ownership
    <2> HIDE DEF ids
    <2>3. \A x : (\E b \in Builders : x \in OwnIds(Held(b))) <=> \E b \in L : x \in ids(b)
      BY <1>1, <2>1
    <2> QED
      BY <2>2, <2>3
  <1>3. \A a, b \in L : \A o \in DOMAIN Memory(a), q \in DOMAIN Memory(b) :
            Memory(a)[o].id = Memory(b)[q].id => a = b /\ o = q
    BY <1>1 DEF Ownership, OneOwner
  <1> QED
    BY <1>2, <1>3 DEF DestroyedOnce, Ownership

\* Every kernel is destroyed once: base_ckernel_builder::destroy, which calls
\* the destructor of the root alone, destroys through it every kernel of the
\* tree and none twice, at whatever stage an exception, a failed reserve, a
\* reset, a swap or the end of the builder finds the tree; and until then the
\* kernel is in one place of one builder.
THEOREM EachKernelDestroyedOnce == Spec => []DestroyedOnce
  <1>1. Init => KInv /\ Ownership
    BY InitHolds, OwnershipBegins
  <1>2. KInv /\ Ownership /\ [Next]_vars => (KInv /\ Ownership)'
    BY StepKeeps, OwnershipKept
  <1>3. Ownership => DestroyedOnce
    BY OwnersAreLive
  <1> QED
    BY <1>1, <1>2, <1>3, PTL DEF Spec
=============================================================================
