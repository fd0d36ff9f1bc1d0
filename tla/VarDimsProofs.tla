--------------------------- MODULE VarDimsProofs ---------------------------
(* The kernels that write var dimensions, for every size of the sources,     *)
(* every mask and every window.                                              *)
EXTENDS VarDims, FiniteSetTheorems, WellFoundedInduction, TLAPS

(* Every set of natural numbers has a least element: of the intervals from 0 *)
(* to an element of T one is minimal.                                        *)
LEMMA LeastExists ==
    ASSUME NEW T \in SUBSET Nat, T # {}
    PROVE  \E n \in T : \A m \in T : n <= m
  <1> DEFINE R == StrictSubsetOrdering(Nat)
             F == {0..n : n \in T}
  <1>1. \A n \in Nat : IsFiniteSet(0..n)
    BY FS_Interval
  <1>2. F \subseteq FiniteSubsetsOf(Nat) /\ F # {}
    <2>1. \A n \in Nat : 0..n \in SUBSET Nat
      OBVIOUS
    <2>2. \A n \in Nat : 0..n \in FiniteSubsetsOf(Nat)
      BY <1>1, <2>1 DEF FiniteSubsetsOf
    <2> QED
      BY <2>2
  <1>3. PICK x \in F : \A y \in F : ~(<<y, x>> \in R)
    <2> HIDE DEF F, R
    <2>1. IsWellFoundedOn(R, FiniteSubsetsOf(Nat))
      BY FS_StrictSubsetOrderingWellFounded DEF R
    <2> QED
      BY <1>2, <2>1, WFMin
  <1>4. PICK n \in T : x = 0..n
    OBVIOUS
  <1>5. ASSUME NEW m \in T, m < n PROVE FALSE
    <2>1. 0..m \in F /\ 0..m \subseteq 0..n /\ 0..m # 0..n
      BY <1>5
    <2>2. <<0..m, x>> \in R
      BY <2>1, <1>4 DEF StrictSubsetOrdering
    <2> QED
      BY <2>1, <2>2, <1>3
  <1> QED
    BY <1>5

(* Min of the community modules is that element.                            *)
LEMMA MinIsLeast ==
    ASSUME NEW T \in SUBSET Nat, T # {}
    PROVE  Min(T) \in T /\ \A m \in T : Min(T) <= m
  <1>1. \E n \in T : \A m \in T : n <= m
    BY LeastExists
  <1> QED
    BY <1>1 DEF Min

-----------------------------------------------------------------------------
(* How many elements of S lie below b.                                       *)
Below(S, b) == {x \in S : x < b}
Rank(S, b)  == Cardinality(Below(S, b))

LEMMA RankType ==
    ASSUME NEW S \in SUBSET Nat, NEW b \in Nat
    PROVE  /\ IsFiniteSet(Below(S, b))
           /\ Rank(S, b) \in 0..b
  <1>1. Below(S, b) \subseteq 0..b - 1
    <2> SUFFICES ASSUME NEW x \in S, x < b PROVE x \in 0..b - 1
      BY DEF Below
    <2>1. x \in Nat
      OBVIOUS
    <2> QED
      BY <2>1
  <1>2. IsFiniteSet(0..b - 1) /\ Cardinality(0..b - 1) = b
    BY FS_Interval
  <1>3. IsFiniteSet(Below(S, b)) /\ Cardinality(Below(S, b)) <= b
    BY <1>1, <1>2, FS_Subset
  <1>4. Cardinality(Below(S, b)) \in Nat
    BY <1>3, FS_CardinalityType
  <1> QED
    BY <1>3, <1>4 DEF Rank

LEMMA RankOverGap ==
    ASSUME NEW S \in SUBSET Nat, NEW a \in Nat, NEW b \in Nat, a <= b,
           \A x \in a..b - 1 : x \notin S
    PROVE  Rank(S, b) = Rank(S, a)
  <1>1. \A x \in S : x < b <=> x < a
    OBVIOUS
  <1>2. Below(S, b) = Below(S, a)
    BY <1>1 DEF Below
  <1> QED
    BY <1>2 DEF Rank

LEMMA RankOverRun ==
    ASSUME NEW S \in SUBSET Nat, NEW a \in Nat, NEW b \in Nat, a <= b,
           \A x \in a..b - 1 : x \in S
    PROVE  Rank(S, b) = Rank(S, a) + (b - a)
  <1> DEFINE run == a..b - 1
  <1>1. \A x \in S : x \in Nat
    OBVIOUS
  <1>2. Below(S, b) = Below(S, a) \cup run /\ Below(S, a) \cap run = {}
    <2>1. \A x \in S : x < b <=> x < a \/ x \in run
      BY <1>1
    <2>2. \A x \in run : x \in S /\ x < b /\ ~(x < a)
      OBVIOUS
    <2> HIDE DEF run
    <2> QED
      BY <2>1, <2>2 DEF Below
  <1>3. IsFiniteSet(run) /\ Cardinality(run) = b - a
    <2>1. b - 1 \in Int /\ a \in Int /\ (a > b - 1 <=> a = b)
      OBVIOUS
    <2>2. IsFiniteSet(run) /\ Cardinality(run) = IF a > b - 1 THEN 0 ELSE (b - 1) - a + 1
      BY <2>1, FS_Interval
    <2> QED
      BY <2>1, <2>2
  <1>4. IsFiniteSet(Below(S, a)) /\ Cardinality(Below(S, a)) \in Nat
    BY RankType, FS_CardinalityType
  <1>5. Cardinality(Below(S, b)) = Cardinality(Below(S, a)) + (b - a) - Cardinality({})
    <2> HIDE DEF run
    <2> QED
      BY <1>2, <1>3, <1>4, FS_Union
  <1>6. Cardinality({}) = 0
    BY FS_EmptySet
  <1> QED
    BY <1>4, <1>5, <1>6 DEF Rank

(* All of them, if S lies below b.                                           *)
LEMMA RankOfAll ==
    ASSUME NEW b \in Nat, NEW S, S \subseteq 0..b - 1
    PROVE  Rank(S, b) = Cardinality(S)
  <1>1. \A x \in S : x < b
    <2> SUFFICES ASSUME NEW x \in S PROVE x < b
      OBVIOUS
    <2>1. x \in 0..b - 1
      OBVIOUS
    <2> QED
      BY <2>1
  <1>2. Below(S, b) = S
    BY <1>1 DEF Below
  <1> QED
    BY <1>2 DEF Rank

LEMMA SmallMod == \A m \in Nat : \A k \in 0..m - 1 : k % m = k
  OBVIOUS
LEMMA ModOne == \A k \in Nat : k % 1 = 0
  OBVIOUS

-----------------------------------------------------------------------------
(* The inductive invariant. Masked take is the only kernel that is more than *)
(* one step; before element i of the source it has taken as many elements as *)
(* the mask has below i.                                                     *)
Taken(n) ==
    \A k \in 0..n - 1 :
        /\ data[k][1] \in op.mask
        /\ Rank(op.mask, data[k][1]) = k

Taking ==
    LET n == op.srcs[1].size IN
    /\ op.kernel = "take" /\ error = "none"
    /\ n \in Nat /\ size = n /\ op.mask \subseteq 0..n - 1
    /\ i \in 0..n /\ from = i /\ to = Rank(op.mask, i)
    /\ Taken(to)

VInv ==
    /\ size \in Nat
    /\ pc \in {"idle", "take"}
    /\ pc = "take" => Taking
    /\ Broadcasted
    /\ SelectsInOrder

-----------------------------------------------------------------------------
(* Each source has as many elements as it says, and steps from one to the    *)
(* next; only a slice of one element steps at all with a size of one.        *)
LEMMA SourceSize == ASSUME NEW s \in Sources PROVE s.size \in Nat
  BY VarDimsAssumption DEF Sources, Source, Sizes, Fixed, Var, Slice, NullVar

LEMMA SourceStride ==
    ASSUME NEW s \in Sources
    PROVE  /\ s.stride \in Nat
           /\ s.size > 1 => s.stride = 1
           /\ s.kind = "fixed" /\ s.size = 1 /\ s # Slice => s.stride = 0
  <1>1. CASE s = Slice
    BY <1>1 DEF Slice, Source
  <1>2. CASE \E n \in Sizes : s = Fixed(n)
    BY <1>2, VarDimsAssumption DEF Fixed, Source, Sizes
  <1>3. CASE \E n \in Sizes : s = Var(n)
    BY <1>3, VarDimsAssumption DEF Var, Source, Sizes
  <1>4. CASE s = NullVar
    BY <1>4 DEF NullVar, Var, Source
  <1> QED
    BY <1>1, <1>2, <1>3, <1>4 DEF Sources

(* f assigns to the n elements of a destination what broadcasting pairs with *)
(* them, but for those that a slice of one element is overrun for.           *)
Pairs(kernel, srcs, f, n) ==
    \A k \in 0..n - 1 : \A j \in DOMAIN srcs :
        ~Overruns(kernel, srcs, k) => f[k][j] = k % srcs[j].size

Fit(srcs, n) ==
    \A j \in DOMAIN srcs :
        /\ srcs[j].size \in Nat /\ srcs[j].size \in {1, n}
        /\ srcs[j].size > 1 => srcs[j].stride = 1

LEMMA ComputedPairs ==
    ASSUME NEW kernel, NEW srcs, NEW n \in Nat, Fit(srcs, n)
    PROVE  Pairs(kernel, srcs, Computed(srcs, n), n)
  <1> SUFFICES ASSUME NEW k \in 0..n - 1, NEW j \in DOMAIN srcs
               PROVE  Computed(srcs, n)[k][j] = k % srcs[j].size
    BY DEF Pairs
  <1> DEFINE s == srcs[j]
  <1>1. s.size \in {1, n} /\ s.size \in Nat /\ (s.size > 1 => s.stride = 1)
    BY DEF Fit
  <1>2. Computed(srcs, n)[k][j] = Index(s, k)
    BY DEF Computed
  <1> HIDE DEF s
  <1>3. Index(s, k) = k % s.size
    <2>1. CASE s.size = 1
      BY <2>1, ModOne DEF Index
    <2>2. CASE s.size # 1
      <3>1. s.size = n /\ s.stride = 1
        BY <1>1, <2>2
      <3>2. Index(s, k) = k
        BY <2>2, <3>1 DEF Index
      <3> QED
        BY <3>1, <3>2, SmallMod
    <2> QED
      BY <2>1, <2>2
  <1> QED
    BY <1>2, <1>3 DEF s

LEMMA SteppedPairs ==
    ASSUME NEW s \in Sources, s.kind = "fixed", NEW n \in Nat, s.size \in {1, n}
    PROVE  Pairs("strided", <<s>>, Stepped(s, n), n)
  <1> SUFFICES ASSUME NEW k \in 0..n - 1, ~(s = Slice /\ k > 0)
               PROVE  Stepped(s, n)[k][1] = k % s.size
    BY DEF Pairs, Overruns
  <1>1. Stepped(s, n)[k][1] = k * s.stride
    BY DEF Stepped
  <1>2. s.size \in Nat /\ s.stride \in Nat
    BY SourceSize, SourceStride
  <1>3. CASE s.size = 1 /\ k = 0
    <2>1. k * s.stride = 0
      BY <1>2, <1>3
    <2> QED
      BY <1>1, <1>3, <2>1, ModOne
  <1>4. CASE s.size = 1 /\ k > 0
    <2>1. s.stride = 0
      BY <1>4, SourceStride
    <2>2. k * s.stride = 0
      BY <2>1
    <2> QED
      BY <1>1, <1>4, <2>2, ModOne
  <1>5. CASE s.size # 1
    <2>1. s.size = n /\ s.size > 1
      BY <1>2, <1>5
    <2>2. k * s.stride = k
      BY <2>1, SourceStride
    <2> QED
      BY <1>1, <2>1, <2>2, SmallMod
  <1> QED
    BY <1>3, <1>4, <1>5

(* A call that ends in one step and is none of the kernels that choose       *)
(* elements keeps the invariant when what it returns is broadcast.           *)
LEMMA Ended ==
    ASSUME NEW kernel \in {"broadcast", "strided", "var", "elwise", "resize", "none"},
           NEW srcs, op' = [kernel |-> kernel, srcs |-> srcs],
           pc' = "idle", size' \in Nat,
           error' = "none" /\ kernel \in Broadcasting /\ ~null' =>
               /\ {srcs[j].size : j \in DOMAIN srcs} \subseteq {1, size'}
               /\ Pairs(kernel, srcs, data', size')
    PROVE  VInv'
  <1>1. op'.kernel = kernel /\ op'.srcs = srcs
    OBVIOUS
  <1>2. Broadcasted'
    <2>1. SizesOf' = {srcs[j].size : j \in DOMAIN srcs}
      BY <1>1 DEF SizesOf
    <2> QED
      BY <1>1, <2>1 DEF Broadcasted, Returned, Pairs, Overruns
  <1>3. SelectsInOrder'
    BY <1>1 DEF SelectsInOrder, Returned
  <1> QED
    BY <1>2, <1>3 DEF VInv

LEMMA FailsStep ==
    ASSUME NEW kernel \in {"broadcast", "strided", "var", "elwise"}, NEW srcs, NEW e,
           VInv, Fails(kernel, srcs, e), e # "none" \/ null
    PROVE  VInv'
  BY Ended DEF Fails, VInv

(* What the child kernel computes when it does not throw.                    *)
LEMMA ChildStep ==
    ASSUME NEW kernel \in {"broadcast", "strided", "var", "elwise"}, NEW srcs, NEW before,
           NEW f, NEW n \in Nat, size' = n, Fit(srcs, n), Pairs(kernel, srcs, f, n),
           ChildAssigns(kernel, srcs, before, f, n)
    PROVE  VInv'
  <1>1. PICK k \in 0..n :
            /\ op' = [kernel |-> kernel, srcs |-> srcs]
            /\ error' = IF k < n THEN "element" ELSE "none"
            /\ data' = [j \in 0..n - 1 |-> IF j < k THEN f[j] ELSE before]
            /\ pc' = "idle"
    BY DEF ChildAssigns
  <1>2. ASSUME error' = "none" PROVE Pairs(kernel, srcs, data', n)
    <2>1. k = n
      BY <1>1, <1>2
    <2>2. \A j \in 0..n - 1 : j < k
      BY <2>1
    <2>3. \A j \in 0..n - 1 : data'[j] = f[j]
      BY <1>1, <2>2
    <2> QED
      BY <2>3 DEF Pairs
  <1>3. {srcs[j].size : j \in DOMAIN srcs} \subseteq {1, n}
    BY DEF Fit
  <1> QED
    BY <1>1, <1>2, <1>3, Ended

LEMMA NewStep ==
    ASSUME NEW kernel \in {"broadcast", "strided", "var", "elwise"}, NEW srcs, NEW f,
           NEW n \in Nat, Fit(srcs, n), Pairs(kernel, srcs, f, n),
           VInv, New(kernel, srcs, n, f)
    PROVE  VInv'
  BY FailsStep, ChildStep DEF New, Allocate

LEMMA ExistingStep ==
    ASSUME NEW kernel \in {"broadcast", "strided", "var", "elwise"}, NEW srcs, NEW f,
           Fit(srcs, size), Pairs(kernel, srcs, f, size),
           VInv, Existing(kernel, srcs, f)
    PROVE  VInv'
  BY ChildStep DEF Existing, VInv

LEMMA OneSource ==
    ASSUME NEW s \in Sources, NEW n, s.size \in {1, n} PROVE Fit(<<s>>, n)
  BY SourceSize, SourceStride DEF Fit
LEMMA TwoSources ==
    ASSUME NEW s1 \in Sources, NEW s2 \in Sources, NEW n, {s1.size, s2.size} \subseteq {1, n}
    PROVE  Fit(<<s1, s2>>, n)
  BY SourceSize, SourceStride DEF Fit

-----------------------------------------------------------------------------
(* The kernels of one step.                                                  *)
LEMMA BroadcastToVarStep == ASSUME VInv, BroadcastToVar PROVE VInv'
  <1> DEFINE srcs == <<Fixed(1)>>
  <1>1. Fit(srcs, size) /\ Fit(srcs, 1)
    BY DEF Fit, Fixed, Source
  <1>2. size \in Nat
    BY DEF VInv
  <1> HIDE DEF srcs
  <1>3. CASE Existing("broadcast", srcs, Computed(srcs, size))
    BY <1>1, <1>2, <1>3, ComputedPairs, ExistingStep
  <1>4. CASE null /\ Fails("broadcast", srcs, "uninitialized")
    BY <1>4, FailsStep
  <1>5. CASE New("broadcast", srcs, 1, Computed(srcs, 1))
    BY <1>1, <1>5, ComputedPairs, NewStep
  <1> QED
    BY <1>3, <1>4, <1>5 DEF BroadcastToVar, srcs

LEMMA StridedToVarStep == ASSUME VInv, NEW s \in Sources, StridedToVar(s) PROVE VInv'
  <1>1. s.size \in Nat /\ s.kind = "fixed" /\ size \in Nat
    BY SourceSize DEF VInv, StridedToVar
  <1>2. CASE FitsAssigned(s) /\ Existing("strided", <<s>>, Stepped(s, size))
    BY <1>1, <1>2, OneSource, SteppedPairs, ExistingStep DEF FitsAssigned
  <1>3. CASE Fails("strided", <<s>>, "broadcast") \/ Fails("strided", <<s>>, "uninitialized")
    BY <1>3, FailsStep
  <1>4. CASE New("strided", <<s>>, s.size, Stepped(s, s.size))
    BY <1>1, <1>4, OneSource, SteppedPairs, NewStep
  <1> QED
    BY <1>2, <1>3, <1>4 DEF StridedToVar

LEMMA VarToVarStep == ASSUME VInv, NEW s \in Sources, VarToVar(s) PROVE VInv'
  <1>1. s.size \in Nat /\ size \in Nat
    BY SourceSize DEF VInv
  <1>2. CASE FitsAssigned(s) /\ Existing("var", <<s>>, Computed(<<s>>, size))
    BY <1>1, <1>2, OneSource, ComputedPairs, ExistingStep DEF FitsAssigned
  <1>3. CASE Fails("var", <<s>>, "broadcast") \/ Fails("var", <<s>>, "uninitialized")
    BY <1>3, FailsStep
  <1>4. CASE null /\ Fails("var", <<s>>, "none")
    BY <1>4, FailsStep
  <1>5. CASE New("var", <<s>>, s.size, Computed(<<s>>, s.size))
    BY <1>1, <1>5, OneSource, ComputedPairs, NewStep
  <1> QED
    BY <1>2, <1>3, <1>4, <1>5 DEF VarToVar

(* What the operands of an elementwise function broadcast to.                *)
LEMMA NewSizeFits ==
    ASSUME NEW s1, NEW s2, s1.size \in Nat, s2.size \in Nat, NewSize(<<s1, s2>>) # -1
    PROVE  /\ NewSize(<<s1, s2>>) \in Nat
           /\ {s1.size, s2.size} \subseteq {1, NewSize(<<s1, s2>>)}
  BY DEF NewSize, Onto

LEMMA ElwiseStep ==
    ASSUME VInv, NEW s1 \in Sources, NEW s2 \in Sources, Elwise(s1, s2) PROVE VInv'
  <1> DEFINE srcs == <<s1, s2>>
             n    == NewSize(srcs)
  <1>1. s1.size \in Nat /\ s2.size \in Nat /\ size \in Nat
    BY SourceSize DEF VInv
  <1>2. n # -1 => n \in Nat /\ Fit(srcs, n)
    BY <1>1, NewSizeFits, TwoSources
  <1>3. FitsExisting(srcs) => Fit(srcs, size)
    BY TwoSources DEF FitsExisting
  <1> HIDE DEF srcs, n
  <1>4. CASE FitsExisting(srcs) /\ Existing("elwise", srcs, Computed(srcs, size))
    BY <1>1, <1>3, <1>4, ComputedPairs, ExistingStep
  <1>5. CASE Fails("elwise", srcs, "broadcast") \/ Fails("elwise", srcs, "uninitialized")
    BY <1>5, FailsStep
  <1>6. CASE n # -1 /\ New("elwise", srcs, n, Computed(srcs, n))
    BY <1>2, <1>6, ComputedPairs, NewStep
  <1> QED
    BY <1>4, <1>5, <1>6 DEF Elwise, srcs, n

LEMMA ElwiseNullaryStep == ASSUME VInv, ElwiseNullary PROVE VInv'
  <1> DEFINE srcs == << >>
  <1>1. size \in Nat /\ Fit(srcs, size) /\ Fit(srcs, 1)
    BY DEF VInv, Fit
  <1> HIDE DEF srcs
  <1>2. CASE Existing("elwise", srcs, Computed(srcs, size))
    BY <1>1, <1>2, ComputedPairs, ExistingStep
  <1>3. CASE null /\ Fails("elwise", srcs, "uninitialized")
    BY <1>3, FailsStep
  <1>4. CASE New("elwise", srcs, 1, Computed(srcs, 1))
    BY <1>1, <1>4, ComputedPairs, NewStep
  <1> QED
    BY <1>2, <1>3, <1>4 DEF ElwiseNullary, srcs

(* A window begins within the source and ends at the element it is for.      *)
LEMMA RollingStep == ASSUME VInv, NEW s \in Sources, Rolling(s) PROVE VInv'
  <1> DEFINE n == s.size
             f == [k \in 0..n - 1 |-> RollingElement(k)]
  <1>1. n \in Nat
    BY SourceSize
  <1>2. op' = [kernel |-> "rolling", srcs |-> <<s>>] /\ pc' = "idle" /\ size' \in Nat
    BY <1>1 DEF Rolling, New, Fails, Allocate, ChildAssigns, VInv
  <1>3. Broadcasted'
    BY <1>2 DEF Broadcasted, Returned, Broadcasting
  <1>4. ASSUME error' = "none" PROVE size' = n /\ data' = f
    <2>1. Allocate(n) /\ ChildAssigns("rolling", <<s>>, Fresh, f, n)
      BY <1>4 DEF Rolling, New, Fails
    <2> HIDE DEF f
    <2>2. PICK k \in 0..n :
              /\ error' = IF k < n THEN "element" ELSE "none"
              /\ data' = [j \in 0..n - 1 |-> IF j < k THEN f[j] ELSE Fresh]
      BY <2>1 DEF ChildAssigns
    <2>3. k = n
      BY <1>1, <1>4, <2>2
    <2>4. \A j \in 0..n - 1 : j < k
      BY <1>1, <2>3
    <2>5. data' = [j \in 0..n - 1 |-> f[j]]
      BY <2>2, <2>4
    <2> QED
      BY <2>1, <2>5 DEF Allocate, f
  <1>5. SelectsInOrder'
    <2> SUFFICES ASSUME error' = "none", NEW k \in 0..n - 1
                 PROVE  IF f[k] = NAValue THEN k < Window - 1
                        ELSE f[k][1] >= 0 /\ f[k][1] + Window - 1 = k
      BY <1>2, <1>4 DEF SelectsInOrder, Returned
    <2>1. f[k] = RollingElement(k)
      OBVIOUS
    <2>2. k \in Nat /\ Window \in Nat
      BY <1>1, VarDimsAssumption
    <2>3. CASE k < Window - 1
      BY <2>1, <2>3 DEF RollingElement
    <2>4. CASE ~(k < Window - 1)
      <3>1. f[k] = <<k - Window + 1>> /\ k - Window + 1 >= 0
        BY <2>1, <2>2, <2>4 DEF RollingElement
      <3>2. f[k][1] = k - Window + 1
        BY <3>1
      <3>3. f[k] # NAValue
        BY <2>2, <3>1, <3>2 DEF NAValue
      <3> QED
        BY <2>2, <3>1, <3>2, <3>3
    <2> QED
      BY <2>3, <2>4
  <1> QED
    BY <1>2, <1>3, <1>5 DEF VInv

LEMMA ResizeStep == ASSUME VInv, NEW n \in Sizes, Resize(n) PROVE VInv'
  <1>1. op' = [kernel |-> "resize", srcs |-> << >>] /\ pc' = "idle" /\ size' \in Nat
    <2>1. n \in Nat /\ size \in Nat
      BY VarDimsAssumption DEF Sizes, VInv
    <2>2. size' = size \/ size' = n
      BY DEF Resize, Allocate
    <2> QED
      BY <2>1, <2>2 DEF Resize
  <1> QED
    BY <1>1, Ended DEF Broadcasting

-----------------------------------------------------------------------------
(* Masked take.                                                              *)
LEMMA TakeBeginStep ==
    ASSUME VInv, NEW s \in Sources, NEW mask \in SUBSET (0..s.size - 1), TakeBegin(s, mask)
    PROVE  VInv'
  <1>1. s.size \in Nat /\ size \in Nat /\ mask \subseteq 0..s.size - 1
    BY SourceSize DEF VInv
  <1>2. op' = [kernel |-> "take", srcs |-> <<s>>, mask |-> mask]
    BY DEF TakeBegin
  <1>3. op'.kernel = "take" /\ op'.srcs[1] = s /\ op'.mask = mask
    BY <1>2
  <1>4. Broadcasted'
    BY <1>3 DEF Broadcasted, Returned, Broadcasting
  <1>5. CASE error' \in {"uninitialized", "memory"} /\ pc' = pc /\ size' = size
    <2>1. SelectsInOrder'
      BY <1>3, <1>5 DEF SelectsInOrder, Returned
    <2> QED
      BY <1>1, <1>4, <1>5, <2>1 DEF VInv, TakeBegin, Idle
  <1>6. CASE error' = "none" /\ pc' = "take" /\ size' = s.size /\ i' = 0 /\ from' = 0 /\ to' = 0
    <2>1. SelectsInOrder'
      BY <1>3, <1>6 DEF SelectsInOrder, Returned
    <2>2. Rank(mask, 0) = 0
      <3>1. mask \in SUBSET Nat
        BY <1>1
      <3>2. Rank(mask, 0) \in 0..0
        BY <3>1, RankType
      <3> QED
        BY <3>2
    <2>3. Taken(0)'
      BY DEF Taken
    <2>4. Taking'
      BY <1>1, <1>3, <1>6, <2>2, <2>3 DEF Taking, Taken
    <2> QED
      BY <1>1, <1>4, <1>6, <2>1, <2>4 DEF VInv
  <1> QED
    BY <1>5, <1>6 DEF TakeBegin, Allocate

(* Between i and the end of the next run the mask has the run alone.         *)
LEMMA NextRun ==
    ASSUME VInv, pc = "take"
    PROVE  LET n     == op.srcs[1].size
               begin == Min({k \in i..n - 1 : k \in op.mask} \cup {n})
               end   == Min({k \in begin..n - 1 : k \notin op.mask} \cup {n})
           IN  /\ begin \in i..n /\ end \in begin..n
               /\ \A k \in i..begin - 1 : k \notin op.mask
               /\ \A k \in begin..end - 1 : k \in op.mask
  <1> DEFINE n     == op.srcs[1].size
             mask  == op.mask
             a     == i
             begin == Min({k \in a..n - 1 : k \in mask} \cup {n})
             end   == Min({k \in begin..n - 1 : k \notin mask} \cup {n})
  <1>1. n \in Nat /\ mask \in SUBSET (0..n - 1) /\ a \in 0..n
    BY DEF VInv, Taking
  <1> HIDE DEF n, mask, a
  <1> DEFINE T == {k \in a..n - 1 : k \in mask} \cup {n}
             U == {k \in begin..n - 1 : k \notin mask} \cup {n}
  <1>2. T \in SUBSET Nat /\ T # {}
    BY <1>1
  <1>3. begin \in T /\ \A m \in T : begin <= m
    <2> HIDE DEF T
    <2>1. Min(T) \in T /\ \A m \in T : Min(T) <= m
      BY <1>2, MinIsLeast
    <2> QED
      BY <2>1 DEF T
  <1> HIDE DEF begin
  <1>4. begin \in a..n
    BY <1>3, <1>1
  <1>5. ASSUME NEW k \in a..begin - 1, k \in mask PROVE FALSE
    <2>1. k \in T /\ k < begin
      BY <1>4, <1>5, <1>1
    <2> QED
      BY <1>3, <1>4, <1>1, <2>1
  <1>6. U \in SUBSET Nat /\ U # {}
    BY <1>4, <1>1
  <1>7. end \in U /\ \A m \in U : end <= m
    <2> HIDE DEF U
    <2>1. Min(U) \in U /\ \A m \in U : Min(U) <= m
      BY <1>6, MinIsLeast
    <2> QED
      BY <2>1 DEF U
  <1> HIDE DEF end
  <1>8. end \in begin..n
    BY <1>4, <1>7, <1>1
  <1>9. ASSUME NEW k \in begin..end - 1, k \notin mask PROVE FALSE
    <2>1. k \in U /\ k < end
      BY <1>4, <1>8, <1>9, <1>1
    <2> HIDE DEF T, U
    <2>2. end <= k
      BY <1>7, <2>1
    <2> QED
      BY <1>4, <1>8, <1>1, <2>1, <2>2
  <1> QED
    BY <1>4, <1>5, <1>8, <1>9 DEF n, mask, a, begin, end

LEMMA TakeRunStep == ASSUME VInv, TakeRun PROVE VInv'
  <1> DEFINE n     == op.srcs[1].size
             mask  == op.mask
             begin == Min({k \in i..n - 1 : k \in mask} \cup {n})
             end   == Min({k \in begin..n - 1 : k \notin mask} \cup {n})
             run   == end - begin
  <1>1. /\ op.kernel = "take" /\ error = "none" /\ n \in Nat /\ size = n
        /\ mask \subseteq 0..n - 1 /\ i \in 0..n /\ from = i
        /\ to = Rank(mask, i) /\ Taken(to)
    BY DEF VInv, Taking, TakeRun
  <1>2. /\ begin \in i..n /\ end \in begin..n
        /\ \A k \in i..begin - 1 : k \notin mask
        /\ \A k \in begin..end - 1 : k \in mask
    <2>1. pc = "take"
      BY DEF TakeRun
    <2> QED
      BY <2>1, NextRun
  <1>3. PICK m \in 0..run :
            /\ data' = [j \in 0..size - 1 |->
                           IF j \in to..to + m - 1 THEN <<from + (begin - i) + j - to>> ELSE data[j]]
            /\ error' = IF m < run THEN "element" ELSE "none"
            /\ pc'    = IF m < run THEN "idle" ELSE "take"
    BY DEF TakeRun
  <1>4. /\ pc = "take" /\ i' = end /\ from' = from + (begin - i) + run /\ to' = to + run
        /\ UNCHANGED <<null, size, offset, op>>
    BY DEF TakeRun
  <1> HIDE DEF begin, end, n, mask
  <1>5. /\ begin \in Nat /\ end \in Nat /\ run \in Nat /\ i \in Nat
        /\ mask \in SUBSET Nat /\ begin <= end /\ end <= n /\ i <= begin
    BY <1>1, <1>2
  <1>6. Rank(mask, begin) = to /\ to \in 0..begin
    BY <1>1, <1>2, <1>5, RankOverGap, RankType
  <1>7. Rank(mask, end) = to + run
    BY <1>2, <1>5, <1>6, RankOverRun
  <1>8. op'.kernel = "take" /\ op'.mask = mask /\ op'.srcs[1].size = n /\ size' = n
    BY <1>1, <1>4 DEF mask, n
  <1>9. Broadcasted'
    BY <1>8 DEF Broadcasted, Returned, Broadcasting
  <1>10. SelectsInOrder'
    <2>1. ~(pc' = "idle" /\ error' = "none")
      BY <1>3
    <2> QED
      BY <1>8, <2>1 DEF SelectsInOrder, Returned
  <1>11. CASE m < run
    BY <1>1, <1>3, <1>8, <1>9, <1>10, <1>11 DEF VInv
  <1>12. CASE ~(m < run)
    <2>1. m = run /\ pc' = "take" /\ error' = "none"
      BY <1>3, <1>5, <1>12
    <2>2. ASSUME NEW k \in 0..to + run - 1
          PROVE  data'[k][1] \in mask /\ Rank(mask, data'[k][1]) = k
      <3>1. k \in 0..size - 1
        BY <1>1, <1>5, <1>6
      <3>2. CASE k < to
        <4>1. k \in 0..to - 1 /\ k \notin to..to + m - 1
          BY <1>6, <3>2
        <4>2. data'[k] = data[k]
          BY <1>3, <3>1, <4>1
        <4> QED
          BY <1>1, <4>1, <4>2 DEF Taken, mask
      <3>3. CASE ~(k < to)
        <4> DEFINE p == begin + (k - to)
        <4>1. k \in to..to + m - 1
          BY <1>5, <1>6, <2>1, <3>3
        <4>2. data'[k] = <<from + (begin - i) + k - to>>
          BY <1>3, <3>1, <4>1
        <4>3. from + (begin - i) + k - to = p
          BY <1>1, <1>5, <1>6, <4>1
        <4>4. data'[k][1] = p
          BY <4>2, <4>3
        <4>5. p \in begin..end - 1
          BY <1>5, <1>6, <2>1, <4>1
        <4>6. p \in Nat /\ begin <= p /\ \A x \in begin..p - 1 : x \in mask
          BY <1>2, <1>5, <4>5
        <4> HIDE DEF p
        <4>7. Rank(mask, p) = to + (p - begin)
          BY <1>5, <1>6, <4>6, RankOverRun
        <4>8. to + (p - begin) = k
          BY <1>5, <1>6, <4>1 DEF p
        <4> QED
          BY <1>2, <4>4, <4>5, <4>7, <4>8
      <3> QED
        BY <3>2, <3>3
    <2>3. Taken(to)'
      <3> SUFFICES ASSUME NEW k \in 0..to' - 1
                   PROVE  data'[k][1] \in op'.mask /\ Rank(op'.mask, data'[k][1]) = k
        BY DEF Taken
      <3>1. k \in 0..to + run - 1
        BY <1>4, <1>5, <1>6
      <3> HIDE DEF run
      <3> QED
        BY <1>8, <2>2, <3>1
    <2>4. from' = end
      BY <1>1, <1>4, <1>5
    <2>5. Taking'
      BY <1>1, <1>4, <1>5, <1>7, <1>8, <2>1, <2>3, <2>4 DEF Taking
    <2> QED
      BY <1>1, <1>8, <1>9, <1>10, <2>1, <2>5 DEF VInv
  <1> QED
    BY <1>11, <1>12

LEMMA TakeEndStep == ASSUME VInv, TakeEnd PROVE VInv'
  <1> DEFINE n == op.srcs[1].size
  <1>1. /\ op.kernel = "take" /\ n \in Nat
        /\ op.mask \subseteq 0..n - 1 /\ i = n /\ to = Rank(op.mask, n) /\ Taken(to)
    BY DEF VInv, Taking, TakeEnd
  <1>2. /\ size' = to /\ data' = [k \in 0..to - 1 |-> data[k]]
        /\ pc' = "idle" /\ op' = op
    BY DEF TakeEnd, Allocate
  <1> HIDE DEF n
  <1>3. to = Cardinality(op.mask) /\ to \in Nat
    <2>1. op.mask \in SUBSET Nat
      BY <1>1
    <2> QED
      BY <1>1, <2>1, RankOfAll, RankType
  <1>4. Broadcasted'
    BY <1>1, <1>2 DEF Broadcasted, Returned, Broadcasting
  <1>5. SelectsInOrder'
    <2> SUFFICES ASSUME NEW k \in 0..to - 1
                 PROVE  /\ data'[k][1] \in op.mask
                        /\ Cardinality({m \in op.mask : m < data'[k][1]}) = k
      BY <1>1, <1>2, <1>3 DEF SelectsInOrder, Returned
    <2>1. data'[k] = data[k]
      BY <1>2
    <2> QED
      BY <1>1, <2>1 DEF Taken, Rank, Below
  <1> QED
    BY <1>2, <1>3, <1>4, <1>5 DEF VInv

-----------------------------------------------------------------------------
LEMMA InitVInv == ASSUME Init PROVE VInv
  <1>1. op.kernel = "none" /\ size = 0 /\ pc = "idle"
    BY DEF Init
  <1> QED
    BY <1>1 DEF VInv, Broadcasted, SelectsInOrder, Returned, Broadcasting

LEMMA VInvKept == ASSUME VInv, [Next]_vars PROVE VInv'
  <1>1. CASE Next
    BY <1>1, BroadcastToVarStep, ElwiseNullaryStep, StridedToVarStep, VarToVarStep,
       RollingStep, ElwiseStep, TakeBeginStep, TakeRunStep, TakeEndStep, ResizeStep DEF Next
  <1>2. CASE UNCHANGED vars
    BY <1>2 DEF vars, VInv, Taking, Taken, Broadcasted, SelectsInOrder, Returned, SizesOf
  <1> QED
    BY <1>1, <1>2

(* What a step may do to an element that has memory, and what a call that    *)
(* fails to broadcast or to get memory leaves alone.                         *)
Keeps ==
    /\ ~null /\ op'.kernel \notin {"resize", "take"} => ~null' /\ size' = size
    /\ error' \in {"broadcast", "memory"} => null' = null /\ size' = size

LEMMA FailsKeeps ==
    ASSUME NEW kernel, NEW srcs, NEW e, Fails(kernel, srcs, e) PROVE Keeps
  BY DEF Fails, Keeps

LEMMA ExistingKeeps ==
    ASSUME NEW kernel, NEW srcs, NEW f, Existing(kernel, srcs, f) PROVE Keeps
  BY DEF Existing, Keeps

LEMMA NewKeeps ==
    ASSUME null, NEW kernel, NEW srcs, NEW n, NEW f, New(kernel, srcs, n, f) PROVE Keeps
  <1>1. CASE Fails(kernel, srcs, "memory")
    BY <1>1, FailsKeeps
  <1>2. CASE ~Fails(kernel, srcs, "memory")
    <2>1. error' \in {"element", "none"}
      BY <1>2 DEF New, ChildAssigns
    <2> QED
      BY <2>1 DEF Keeps
  <1> QED
    BY <1>1, <1>2

LEMMA NextKeeps == ASSUME VInv, [Next]_vars PROVE Keeps
  <1>1. CASE BroadcastToVar
    BY <1>1, FailsKeeps, ExistingKeeps, NewKeeps DEF BroadcastToVar
  <1>2. CASE ElwiseNullary
    BY <1>2, FailsKeeps, ExistingKeeps, NewKeeps DEF ElwiseNullary
  <1>3. ASSUME NEW s \in Sources, StridedToVar(s) PROVE Keeps
    BY <1>3, FailsKeeps, ExistingKeeps, NewKeeps DEF StridedToVar
  <1>4. ASSUME NEW s \in Sources, VarToVar(s) PROVE Keeps
    BY <1>4, FailsKeeps, ExistingKeeps, NewKeeps DEF VarToVar
  <1>5. ASSUME NEW s \in Sources, Rolling(s) PROVE Keeps
    BY <1>5, FailsKeeps, NewKeeps DEF Rolling
  <1>6. ASSUME NEW s1 \in Sources, NEW s2 \in Sources, Elwise(s1, s2) PROVE Keeps
    BY <1>6, FailsKeeps, ExistingKeeps, NewKeeps DEF Elwise
  <1>7. ASSUME NEW s \in Sources, NEW mask \in SUBSET (0..s.size - 1), TakeBegin(s, mask)
        PROVE  Keeps
    BY <1>7 DEF TakeBegin, Keeps
  <1>8. CASE TakeRun
    <2>1. op'.kernel = "take"
      BY <1>8 DEF TakeRun, VInv, Taking
    <2>2. error' \in {"element", "none"}
      BY <1>8 DEF TakeRun
    <2> QED
      BY <2>1, <2>2 DEF Keeps
  <1>9. CASE TakeEnd
    <2>1. op'.kernel = "take" /\ error' = "none"
      BY <1>9 DEF TakeEnd, VInv, Taking
    <2> QED
      BY <2>1 DEF Keeps
  <1>10. ASSUME NEW n \in Sizes, Resize(n) PROVE Keeps
    BY <1>10 DEF Resize, Keeps
  <1>11. CASE UNCHANGED vars
    BY <1>11 DEF vars, Keeps
  <1> QED
    BY <1>1, <1>2, <1>3, <1>4, <1>5, <1>6, <1>7, <1>8, <1>9, <1>10, <1>11 DEF Next

-----------------------------------------------------------------------------
(* Whatever broadcast_to_var_assign_ck, strided_to_var_assign_ck,            *)
(* var_assign_ck and elwise_ck assign to a var dimension is what             *)
(* broadcasting pairs with its elements (var_dim_assignment_kernels.cpp,     *)
(* elwise.hpp), but for what the second of them reads behind a slice of one  *)
(* element.                                                                  *)
THEOREM BroadcastsElementwise == Spec => []Broadcasted
  <1>1. Init => VInv
    BY InitVInv
  <1>2. VInv /\ [Next]_vars => VInv'
    BY VInvKept
  <1>3. VInv => Broadcasted
    BY DEF VInv
  <1> QED
    BY <1>1, <1>2, <1>3, PTL DEF Spec

(* masked_take_ck keeps exactly the masked elements, in their order, and a   *)
(* window of var_rolling_ck stays within its source (take.cpp, rolling.cpp). *)
THEOREM TakesInOrder == Spec => []SelectsInOrder
  <1>1. Init => VInv
    BY InitVInv
  <1>2. VInv /\ [Next]_vars => VInv'
    BY VInvKept
  <1>3. VInv => SelectsInOrder
    BY DEF VInv
  <1> QED
    BY <1>1, <1>2, <1>3, PTL DEF Spec

(* An element of a var dimension that has memory keeps it, and its size,     *)
(* whatever is assigned to it; a call that fails to broadcast or to get      *)
(* memory changes neither                                                    *)
(* (var_dim_assignment_kernels.cpp, elwise.hpp).                             *)
THEOREM AssignmentsKeepSize == Spec => SizeKept
  <1>1. Init => VInv
    BY InitVInv
  <1>2. VInv /\ [Next]_vars => VInv'
    BY VInvKept
  <1>3. VInv /\ [Next]_vars => [Keeps]_vars
    BY NextKeeps
  <1>4. Spec => [][Keeps]_vars
    BY <1>1, <1>2, <1>3, PTL DEF Spec
  <1> QED
    BY <1>4 DEF SizeKept, Keeps
=============================================================================
