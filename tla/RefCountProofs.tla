--------------------------- MODULE RefCountProofs ---------------------------
(***************************************************************************)
(* Proofs about RefCount, for any finite set of slots and any sets of      *)
(* threads and blocks.                                                     *)
(***************************************************************************)
EXTENDS RefCount, FiniteSetTheorems, SequenceTheorems, TLAPS

Holders(f, b) == {s \in Slot : f[s] = b}

LEMMA HoldersFinite ==
    ASSUME NEW f, NEW b
    PROVE  /\ IsFiniteSet(Holders(f, b))
           /\ Cardinality(Holders(f, b)) \in Nat
  <1>1. Holders(f, b) \in SUBSET Slot
    BY DEF Holders
  <1>2. IsFiniteSet(Holders(f, b))
    BY <1>1, FS_Subset, RefCountAssumption
  <1> QED
    BY <1>2, FS_CardinalityType

(* Giving an empty slot a reference to b adds one to b's holders and leaves  *)
(* every other block's alone.                                                *)
LEMMA AddHolder ==
    ASSUME NEW f \in [Slot -> Block \cup {NULL}], NEW s \in Slot, NEW b \in Block,
           f[s] = NULL
    PROVE  LET g == [f EXCEPT ![s] = b] IN
           /\ Cardinality(Holders(g, b)) = Cardinality(Holders(f, b)) + 1
           /\ \A c \in Block \ {b} : Holders(g, c) = Holders(f, c)
  <1> DEFINE g == [f EXCEPT ![s] = b]
  <1>0. b # NULL
    BY RefCountAssumption
  <1>1. Holders(g, b) = Holders(f, b) \cup {s} /\ s \notin Holders(f, b)
    BY <1>0 DEF Holders
  <1>2. Cardinality(Holders(g, b)) = Cardinality(Holders(f, b)) + 1
    BY <1>1, HoldersFinite, FS_AddElement
  <1>3. ASSUME NEW c \in Block \ {b} PROVE Holders(g, c) = Holders(f, c)
    <2>1. c # NULL
      BY RefCountAssumption
    <2> QED
      BY <2>1 DEF Holders
  <1> QED
    BY <1>2, <1>3

(* Clearing a slot that refers to b takes one away from b's holders.         *)
LEMMA RemoveHolder ==
    ASSUME NEW f \in [Slot -> Block \cup {NULL}], NEW s \in Slot, NEW b \in Block,
           f[s] = b
    PROVE  LET g == [f EXCEPT ![s] = NULL] IN
           /\ Cardinality(Holders(g, b)) = Cardinality(Holders(f, b)) - 1
           /\ Cardinality(Holders(f, b)) > 0
           /\ \A c \in Block \ {b} : Holders(g, c) = Holders(f, c)
  <1> DEFINE g == [f EXCEPT ![s] = NULL]
  <1>0. b # NULL
    BY RefCountAssumption
  <1>1. Holders(g, b) = Holders(f, b) \ {s} /\ s \in Holders(f, b)
    BY <1>0 DEF Holders
  <1>2. Cardinality(Holders(g, b)) = Cardinality(Holders(f, b)) - 1
    BY <1>1, HoldersFinite, FS_RemoveElement
  <1>3. Cardinality(Holders(f, b)) > 0
    BY <1>1, HoldersFinite, FS_EmptySet
  <1>4. ASSUME NEW c \in Block \ {b} PROVE Holders(g, c) = Holders(f, c)
    <2>1. c # NULL
      BY RefCountAssumption
    <2> QED
      BY <2>1 DEF Holders
  <1> QED
    BY <1>2, <1>3, <1>4

(* Exchanging what two slots hold changes nobody's number of holders.        *)
LEMMA ExchangeHolders ==
    ASSUME NEW f, NEW g, NEW s \in Slot, NEW r \in Slot, NEW b \in Block,
           \A x \in Slot : g[x] = IF x = s THEN f[r] ELSE IF x = r THEN f[s] ELSE f[x]
    PROVE  Cardinality(Holders(g, b)) = Cardinality(Holders(f, b))
  <1>1. \A x \in Slot : g[x] = IF x = s THEN f[r] ELSE IF x = r THEN f[s] ELSE f[x]
    OBVIOUS
  <1>2. CASE f[s] = b /\ f[r] # b
    <2>1. Holders(g, b) = (Holders(f, b) \ {s}) \cup {r}
      BY <1>1, <1>2 DEF Holders
    <2>2. s \in Holders(f, b) /\ r \notin Holders(f, b) \ {s}
      BY <1>2 DEF Holders
    <2>3. IsFiniteSet(Holders(f, b) \ {s})
          /\ Cardinality(Holders(f, b) \ {s}) = Cardinality(Holders(f, b)) - 1
      BY <2>2, HoldersFinite, FS_RemoveElement
    <2>4. Cardinality((Holders(f, b) \ {s}) \cup {r}) = Cardinality(Holders(f, b) \ {s}) + 1
      BY <2>2, <2>3, FS_AddElement
    <2>5. Cardinality(Holders(f, b)) \in Nat
      BY HoldersFinite
    <2> QED
      BY <2>1, <2>3, <2>4, <2>5
  <1>3. CASE f[s] # b /\ f[r] = b
    <2>1. Holders(g, b) = (Holders(f, b) \ {r}) \cup {s}
      BY <1>1, <1>3 DEF Holders
    <2>2. r \in Holders(f, b) /\ s \notin Holders(f, b) \ {r}
      BY <1>3 DEF Holders
    <2>3. IsFiniteSet(Holders(f, b) \ {r})
          /\ Cardinality(Holders(f, b) \ {r}) = Cardinality(Holders(f, b)) - 1
      BY <2>2, HoldersFinite, FS_RemoveElement
    <2>4. Cardinality((Holders(f, b) \ {r}) \cup {s}) = Cardinality(Holders(f, b) \ {r}) + 1
      BY <2>2, <2>3, FS_AddElement
    <2>5. Cardinality(Holders(f, b)) \in Nat
      BY HoldersFinite
    <2> QED
      BY <2>1, <2>3, <2>4, <2>5
  <1>4. CASE f[s] = b <=> f[r] = b
    <2>1. Holders(g, b) = Holders(f, b)
      BY <1>1, <1>4 DEF Holders
    <2> QED
      BY <2>1
  <1> QED
    BY <1>2, <1>3, <1>4
-----------------------------------------------------------------------------
LEMMA InitIInv == Init => IInv
  <1> SUFFICES ASSUME Init PROVE IInv
    OBVIOUS
  <1>1. TypeOK
    BY DEF Init, TypeOK
  <1>2. RefcountExact
    <2> SUFFICES ASSUME NEW b \in Block PROVE count[b] = Cardinality(Referrers(b))
      BY DEF RefcountExact
    <2>1. Referrers(b) = {}
      BY RefCountAssumption DEF Init, Referrers
    <2> QED
      BY <2>1, FS_EmptySet DEF Init
  <1>3. /\ \A b \in Block : life[b] = "live" <=> count[b] > 0
        /\ FreedOnce
        /\ FreedHoldNothing
    BY DEF Init, FreedOnce, OnStacksAreDying, OnOneStackOnce, FreedHoldNothing
  <1> QED
    BY <1>1, <1>2, <1>3 DEF IInv
-----------------------------------------------------------------------------
(* A reference is evidence that its block is live: what makes copying one,   *)
(* and reading through one, safe at any moment.                              *)
LEMMA RefersToLive ==
    ASSUME IInv, NEW s \in Slot, ref[s] # NULL
    PROVE  ref[s] \in Block /\ life[ref[s]] = "live" /\ count[ref[s]] > 0
  <1>1. ref[s] \in Block
    BY DEF IInv, TypeOK
  <1>2. Referrers(ref[s]) = Holders(ref, ref[s]) /\ s \in Referrers(ref[s])
    BY DEF Referrers, Holders
  <1>3. Cardinality(Referrers(ref[s])) # 0
    BY <1>2, HoldersFinite, FS_EmptySet
  <1>4. count[ref[s]] = Cardinality(Referrers(ref[s])) /\ count[ref[s]] \in Nat
    BY <1>1 DEF IInv, RefcountExact, TypeOK
  <1>5. count[ref[s]] > 0
    BY <1>3, <1>4
  <1> QED
    BY <1>1, <1>5 DEF IInv

LEMMA UnreferredNotHeld ==
    ASSUME IInv, NEW b \in Block, life[b] # "live"
    PROVE  count[b] = 0 /\ \A s \in Slot : ref[s] # b
  <1>1. count[b] = 0
    BY DEF IInv, TypeOK
  <1>2. ASSUME NEW s \in Slot, ref[s] = b PROVE FALSE
    BY <1>2, RefersToLive, RefCountAssumption
  <1> QED
    BY <1>1, <1>2

LEMMA LiveIsReferred ==
    ASSUME IInv, NEW b \in Block, life[b] = "live"
    PROVE  \E s \in Slot : ref[s] = b
  <1>1. count[b] > 0 /\ count[b] = Cardinality(Referrers(b))
    BY DEF IInv, RefcountExact
  <1>2. Referrers(b) # {}
    BY <1>1, FS_EmptySet
  <1> QED
    BY <1>2 DEF Referrers

LEMMA OnlyReferrer ==
    ASSUME IInv, NEW b \in Block, count[b] = 1, NEW r \in Slot, NEW s \in Slot,
           ref[r] = b, ref[s] = b
    PROVE  r = s
  <1>1. Cardinality(Referrers(b)) = 1 /\ r \in Referrers(b) /\ s \in Referrers(b)
    BY DEF IInv, RefcountExact, Referrers
  <1>2. IsFiniteSet(Referrers(b)) /\ Referrers(b) = Holders(ref, b)
    BY HoldersFinite DEF Referrers, Holders
  <1>3. IsFiniteSet(Referrers(b) \ {r}) /\ Cardinality(Referrers(b) \ {r}) = 0
    BY <1>1, <1>2, FS_RemoveElement
  <1>4. Referrers(b) \ {r} = {}
    BY <1>3, FS_EmptySet
  <1> QED
    BY <1>1, <1>4

LEMMA NewStep ==
    ASSUME IInv, NEW s \in Slot, NEW b \in Block, New(s, b)
    PROVE  IInv'
  <1> USE DEF New, Usable
  <1>1. ref[s] = NULL /\ life[b] = "free" /\ count[b] = 0
    BY UnreferredNotHeld
  <1>2. TypeOK'
    BY DEF IInv, TypeOK
  <1>3. RefcountExact'
    <2>1. Cardinality(Holders(ref', b)) = Cardinality(Holders(ref, b)) + 1
          /\ \A c \in Block \ {b} : Holders(ref', c) = Holders(ref, c)
      BY <1>1, AddHolder DEF IInv, TypeOK
    <2>2. \A c \in Block : count[c] = Cardinality(Holders(ref, c))
      BY DEF IInv, RefcountExact, Referrers, Holders
    <2>3. count'[b] = 1 /\ Cardinality(Holders(ref', b)) = 1
      BY <1>1, <2>1, <2>2 DEF IInv, TypeOK
    <2>4. \A c \in Block \ {b} : count'[c] = Cardinality(Holders(ref', c))
      BY <2>1, <2>2 DEF IInv, TypeOK
    <2> QED
      BY <2>3, <2>4 DEF RefcountExact, Referrers, Holders
  <1>4. (\A c \in Block : life[c] = "live" <=> count[c] > 0)'
    BY DEF IInv, TypeOK
  <1>5. FreedOnce'
    BY <1>1 DEF IInv, TypeOK, FreedOnce, OnStacksAreDying, OnOneStackOnce
  <1>6. FreedHoldNothing'
    BY <1>1, RefCountAssumption DEF IInv, TypeOK, FreedHoldNothing
  <1> QED
    BY <1>2, <1>3, <1>4, <1>5, <1>6 DEF IInv

LEMMA CopyStep ==
    ASSUME IInv, NEW s \in Slot, NEW r \in Slot, Copy(s, r)
    PROVE  IInv'
  <1> DEFINE b == ref[r]
  <1> USE DEF Copy, Usable
  <1>1. b \in Block /\ life[b] = "live" /\ count[b] > 0 /\ ref[s] = NULL
    BY RefersToLive
  <1>2. TypeOK'
    BY <1>1 DEF IInv, TypeOK
  <1>3. RefcountExact'
    <2>1. Cardinality(Holders(ref', b)) = Cardinality(Holders(ref, b)) + 1
          /\ \A c \in Block \ {b} : Holders(ref', c) = Holders(ref, c)
      BY <1>1, AddHolder DEF IInv, TypeOK
    <2>2. \A c \in Block : count[c] = Cardinality(Holders(ref, c))
      BY DEF IInv, RefcountExact, Referrers, Holders
    <2>3. \A c \in Block : count'[c] = Cardinality(Holders(ref', c))
      BY <1>1, <2>1, <2>2 DEF IInv, TypeOK
    <2> QED
      BY <2>3 DEF RefcountExact, Referrers, Holders
  <1>4. (\A c \in Block : life[c] = "live" <=> count[c] > 0)'
    BY <1>1 DEF IInv, TypeOK
  <1>5. FreedOnce'
    BY DEF IInv, FreedOnce, OnStacksAreDying, OnOneStackOnce
  <1>6. FreedHoldNothing'
    BY <1>1, RefCountAssumption DEF IInv, TypeOK, FreedHoldNothing
  <1> QED
    BY <1>2, <1>3, <1>4, <1>5, <1>6 DEF IInv

LEMMA ExchangeStep ==
    ASSUME IInv, NEW s \in Slot, NEW r \in Slot, Exchange(s, r)
    PROVE  IInv'
  <1> USE DEF Exchange
  <1>1. TypeOK'
    BY DEF IInv, TypeOK
  <1>2. RefcountExact'
    <2>1. \A c \in Block : count[c] = Cardinality(Holders(ref, c))
      BY DEF IInv, RefcountExact, Referrers, Holders
    <2>2. \A c \in Block : Cardinality(Holders(ref', c)) = Cardinality(Holders(ref, c))
      <3> SUFFICES ASSUME NEW c \in Block
                   PROVE  Cardinality(Holders(ref', c)) = Cardinality(Holders(ref, c))
        OBVIOUS
      <3>1. ref \in [Slot -> Block \cup {NULL}]
        BY DEF IInv, TypeOK
      <3>2. \A x \in Slot :
                ref'[x] = IF x = s THEN ref[r] ELSE IF x = r THEN ref[s] ELSE ref[x]
        BY <3>1
      <3> HIDE DEF Exchange
      <3> QED
        BY <3>2, ExchangeHolders
    <2> QED
      BY <2>1, <2>2 DEF RefcountExact, Referrers, Holders
  <1>3. FreedHoldNothing'
    BY DEF IInv, TypeOK, FreedHoldNothing
  <1> QED
    BY <1>1, <1>2, <1>3 DEF IInv, FreedOnce, OnStacksAreDying, OnOneStackOnce

LEMMA DropStep ==
    ASSUME IInv, NEW t \in Thread, NEW s \in Slot, Drop(t, s)
    PROVE  IInv'
  <1> DEFINE b == ref[s]
  <1> USE DEF Drop
  <1>1. b \in Block /\ life[b] = "live" /\ count[b] > 0 /\ count[b] \in Nat
    BY RefersToLive DEF IInv, TypeOK
  <1>2. TypeOK'
    <2>1. count' \in [Block -> Nat] /\ ref' \in [Slot -> Block \cup {NULL}]
      BY <1>1 DEF IInv, TypeOK
    <2>2. Append(dying[t], b) \in Seq(Block)
      BY <1>1, AppendProperties DEF IInv, TypeOK
    <2>3. CASE count'[b] = 0
      <3>1. /\ life' = [life EXCEPT ![b] = "dying"]
            /\ dying' = [dying EXCEPT ![t] = Append(dying[t], b)]
        BY <2>3
      <3> QED
        BY <1>1, <2>1, <2>2, <3>1 DEF IInv, TypeOK
    <2>4. CASE count'[b] # 0
      BY <2>1, <2>4 DEF IInv, TypeOK
    <2> QED
      BY <2>3, <2>4
  <1>3. RefcountExact'
    <2>1. Cardinality(Holders(ref', b)) = Cardinality(Holders(ref, b)) - 1
          /\ \A c \in Block \ {b} : Holders(ref', c) = Holders(ref, c)
      <3>1. ref \in [Slot -> Block \cup {NULL}] /\ ref' = [ref EXCEPT ![s] = NULL]
        BY DEF IInv, TypeOK
      <3> HIDE DEF Drop
      <3> QED
        BY <1>1, <3>1, RemoveHolder
    <2>2. \A c \in Block : count[c] = Cardinality(Holders(ref, c))
      BY DEF IInv, RefcountExact, Referrers, Holders
    <2>3. \A c \in Block : count'[c] = Cardinality(Holders(ref', c))
      BY <1>1, <2>1, <2>2 DEF IInv, TypeOK
    <2> QED
      BY <2>3 DEF RefcountExact, Referrers, Holders
  <1>4. (\A c \in Block : life[c] = "live" <=> count[c] > 0)'
    BY <1>1 DEF IInv, TypeOK
  <1>5. FreedOnce'
    <2>1. CASE count'[b] # 0
      BY <2>1 DEF IInv, FreedOnce, OnStacksAreDying, OnOneStackOnce
    <2>2. CASE count'[b] = 0
      <3>1. /\ life' = [life EXCEPT ![b] = "dying"]
            /\ dying' = [dying EXCEPT ![t] = Append(dying[t], b)]
        BY <2>2
      <3>2. dying[t] \in Seq(Block) /\ Len(dying[t]) \in Nat
            /\ DOMAIN dying[t] = 1..Len(dying[t])
        BY DEF IInv, TypeOK
      <3>3. /\ DOMAIN dying'[t] = 1..(Len(dying[t]) + 1)
            /\ dying'[t][Len(dying[t]) + 1] = b
            /\ \A i \in DOMAIN dying[t] : dying'[t][i] = dying[t][i]
        BY <1>1, <3>1, <3>2 DEF IInv, TypeOK
      <3>4. \A u \in Thread \ {t} : dying'[u] = dying[u]
        BY <3>1 DEF IInv, TypeOK
      <3>5. \A u \in Thread : \A i \in DOMAIN dying[u] :
                dying[u][i] # b /\ dying[u][i] \in Block /\ life[dying[u][i]] = "dying"
        BY <1>1 DEF IInv, TypeOK, FreedOnce, OnStacksAreDying
      <3>6. \A u \in Thread : \A i \in DOMAIN dying'[u] :
                \/ i \in DOMAIN dying[u] /\ dying'[u][i] = dying[u][i]
                \/ u = t /\ i = Len(dying[t]) + 1 /\ dying'[u][i] = b
        <4> SUFFICES ASSUME NEW u \in Thread, NEW i \in DOMAIN dying'[u]
                     PROVE  \/ i \in DOMAIN dying[u] /\ dying'[u][i] = dying[u][i]
                            \/ u = t /\ i = Len(dying[t]) + 1 /\ dying'[u][i] = b
          OBVIOUS
        <4> HIDE DEF Drop
        <4>1. CASE u # t
          BY <3>4, <4>1
        <4>2. CASE u = t
          <5>1. i \in 1..(Len(dying[t]) + 1)
            BY <3>3, <4>2
          <5>2. i \in 1..Len(dying[t]) \/ i = Len(dying[t]) + 1
            BY <3>2, <5>1
          <5> QED
            BY <3>2, <3>3, <4>2, <5>2
        <4> QED
          BY <4>1, <4>2
      <3>7. OnStacksAreDying'
        BY <1>1, <3>1, <3>5, <3>6 DEF OnStacksAreDying, IInv, TypeOK
      <3>8. OnOneStackOnce'
        BY <3>5, <3>6 DEF OnOneStackOnce, IInv, FreedOnce
      <3> QED
        BY <3>7, <3>8 DEF FreedOnce
    <2> QED
      BY <2>1, <2>2
  <1>6. FreedHoldNothing'
    BY <1>1, RefCountAssumption DEF IInv, TypeOK, FreedHoldNothing
  <1> QED
    BY <1>2, <1>3, <1>4, <1>5, <1>6 DEF IInv

LEMMA FreeStep ==
    ASSUME IInv, NEW t \in Thread, Free(t)
    PROVE  IInv'
  <1> DEFINE n == Len(dying[t])
             b == dying[t][n]
  <1> USE DEF Free
  <1>1. dying[t] \in Seq(Block) /\ n \in Nat \ {0} /\ DOMAIN dying[t] = 1..n
    BY EmptySeq, LenProperties DEF IInv, TypeOK
  <1>2. b \in Block /\ life[b] = "dying"
    BY <1>1 DEF IInv, TypeOK, FreedOnce, OnStacksAreDying
  <1>3. /\ life' = [life EXCEPT ![b] = "free"]
        /\ dying' = [dying EXCEPT ![t] = SubSeq(dying[t], 1, n - 1)]
        /\ \A s \in Slot : Owner[s] = b => ref[s] = NULL
    OBVIOUS
  <1>4. /\ SubSeq(dying[t], 1, n - 1) \in Seq(Block)
        /\ DOMAIN SubSeq(dying[t], 1, n - 1) = 1..(n - 1)
        /\ \A i \in 1..(n - 1) : SubSeq(dying[t], 1, n - 1)[i] = dying[t][i]
    BY <1>1, SubSeqProperties
  <1>5. TypeOK'
    BY <1>2, <1>3, <1>4 DEF IInv, TypeOK
  <1>6. (\A c \in Block : life[c] = "live" <=> count[c] > 0)'
    BY <1>2, <1>3 DEF IInv, TypeOK
  <1>7. FreedOnce'
    <2>1. \A u \in Thread : \A i \in DOMAIN dying'[u] :
              /\ i \in DOMAIN dying[u] /\ dying'[u][i] = dying[u][i]
              /\ u = t => i # n
      BY <1>1, <1>3, <1>4 DEF IInv, TypeOK
    <2>2. \A u \in Thread : \A i \in DOMAIN dying'[u] : dying'[u][i] # b
      BY <1>1, <2>1 DEF IInv, FreedOnce, OnOneStackOnce
    <2>3. OnStacksAreDying'
      BY <1>2, <1>3, <2>1, <2>2 DEF OnStacksAreDying, IInv, FreedOnce, TypeOK
    <2>4. OnOneStackOnce'
      BY <2>1 DEF OnOneStackOnce, IInv, FreedOnce
    <2> QED
      BY <2>3, <2>4 DEF FreedOnce
  <1>8. FreedHoldNothing'
    BY <1>2, <1>3 DEF IInv, TypeOK, FreedHoldNothing
  <1>9. RefcountExact'
    BY DEF IInv, RefcountExact, Referrers
  <1> QED
    BY <1>5, <1>6, <1>7, <1>8, <1>9 DEF IInv

LEMMA IInvKept == ASSUME IInv, [Next]_vars PROVE IInv'
  <1>1. CASE UNCHANGED vars
    BY <1>1 DEF vars, IInv, TypeOK, RefcountExact, Referrers, FreedOnce,
                OnStacksAreDying, OnOneStackOnce, FreedHoldNothing
  <1>2. CASE Next
    BY <1>2, NewStep, CopyStep, ExchangeStep, DropStep, FreeStep DEF Next
  <1> QED
    BY <1>1, <1>2

(* The parts of IInv together are inductive: each step is one use-count      *)
(* change, and what it reads from a slot is live because it is there.        *)
THEOREM Inductive == Spec => []IInv
  <1>1. Init => IInv
    BY InitIInv
  <1>2. IInv /\ [Next]_vars => IInv'
    BY IInvKept
  <1> QED
    BY <1>1, <1>2, PTL DEF Spec

(* m_use_count always equals the number of references that exist.            *)
THEOREM CountsAreExact == Spec => [](TypeOK /\ RefcountExact)
  <1>1. IInv => TypeOK /\ RefcountExact
    BY DEF IInv
  <1> QED
    BY <1>1, Inductive, PTL

(* Nothing refers to a block that memory_block_free has been called on.      *)
THEOREM NeverDangles == Spec => []NoDangling
  <1>1. IInv => NoDangling
    BY RefersToLive DEF NoDangling
  <1> QED
    BY <1>1, Inductive, PTL

(* Every block is freed at most once, by one thread, holding no reference.   *)
THEOREM FreesOnce == Spec => [](FreedOnce /\ FreedHoldNothing /\ NoneLingers)
  <1>1. IInv => FreedOnce /\ FreedHoldNothing /\ NoneLingers
    BY DEF IInv, NoneLingers
  <1> QED
    BY <1>1, Inductive, PTL
=============================================================================
