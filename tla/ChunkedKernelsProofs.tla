------------------------ MODULE ChunkedKernelsProofs ------------------------
(* The kernels that work in chunks write what they must, for every size of a *)
(* chunk, every number of elements and every pattern of missing and failing  *)
(* elements.                                                                 *)
EXTENDS ChunkedKernels, FiniteSetTheorems, WellFoundedInduction, TLAPS

(* Every set of natural numbers has a least element: of the intervals from 0 *)
(* to an element of T one is minimal.                                        *)
LEMMA LeastExists ==
    ASSUME NEW T \in SUBSET Nat, T # {}
    PROVE  \E n \in T : \A m \in T : n <= m
  <1> DEFINE R == StrictSubsetOrdering(Nat)
             F == {0..n : n \in T}
  <1>1. \A n \in Nat : IsFiniteSet(0..n)
    BY FS_Interval
  <1>2. F \subseteq FiniteSubsetsOf(Nat) /\ F # {}
    <2>1. \A n \in Nat : 0..n \in SUBSET Nat
      OBVIOUS
    <2>2. \A n \in Nat : 0..n \in FiniteSubsetsOf(Nat)
      BY <1>1, <2>1 DEF FiniteSubsetsOf
    <2> QED
      BY <2>2
  <1>3. PICK x \in F : \A y \in F : ~(<<y, x>> \in R)
    <2> HIDE DEF F, R
    <2>1. IsWellFoundedOn(R, FiniteSubsetsOf(Nat))
      BY FS_StrictSubsetOrderingWellFounded DEF R
    <2> QED
      BY <1>2, <2>1, WFMin
  <1>4. PICK n \in T : x = 0..n
    OBVIOUS
  <1>5. ASSUME NEW m \in T, m < n PROVE FALSE
    <2>1. 0..m \in F /\ 0..m \subseteq 0..n /\ 0..m # 0..n
      BY <1>5
    <2>2. <<0..m, x>> \in R
      BY <2>1, <1>4 DEF StrictSubsetOrdering
    <2> QED
      BY <2>1, <2>2, <1>3
  <1> QED
    BY <1>5

(* Min of the community modules is that element.                            *)
LEMMA MinIsLeast ==
    ASSUME NEW T \in SUBSET Nat, T # {}
    PROVE  Min(T) \in T /\ \A m \in T : Min(T) <= m
  <1>1. \E n \in T : \A m \in T : n <= m
    BY LeastExists
  <1> QED
    BY <1>1 DEF Min

(* The first number from a up to b that is not in S, and b if there is none. *)
LEMMA FirstUpTo ==
    ASSUME NEW a \in Nat, NEW b \in Nat, a <= b, NEW S
    PROVE  LET n == Min({i \in a..b - 1 : i \in S} \cup {b}) IN
           /\ n \in a..b
           /\ \A i \in a..n - 1 : i \notin S
           /\ n < b => n \in S
  <1> DEFINE T == {i \in a..b - 1 : i \in S} \cup {b}
             n == Min(T)
  <1>1. T \in SUBSET Nat /\ T # {}
    OBVIOUS
  <1>2. n \in T /\ \A m \in T : n <= m
    BY <1>1, MinIsLeast
  <1> HIDE DEF n
  <1>3. n \in a..b /\ (n < b => n \in S)
    BY <1>2
  <1>4. ASSUME NEW i \in a..n - 1, i \in S PROVE FALSE
    <2>1. i \in T
      BY <1>3, <1>4
    <2> QED
      BY <1>2, <1>3, <1>4, <2>1
  <1> QED
    BY <1>3, <1>4 DEF n

(* What buffered_ck and option_to_option_ck can do: not go on after a chunk, *)
(* and buffered_ck not keep pointers in its buffers.                         *)
OneChunkOnly ==
    \A c \in Calls :
        /\ c.kernel \in {"buffered", "option_to_option"} => c.count <= Chunk
        /\ c.kernel = "buffered" => ~c.zeroinit

-----------------------------------------------------------------------------
(* The inductive invariant.                                                  *)
RightIn(o) ==
    \A i \in DOMAIN o :
        o[i] # Unwritten =>
            /\ i < call.count
            /\ o[i] = Expected(i)
            /\ o[i] = NA => call.kernel # "option_to_value"

FilledTo(o, n) == \A i \in 0..n - 1 : o[i] = Expected(i)

Types ==
    /\ call \in Calls /\ count \in 0..call.count /\ left \in Nat
    /\ out = [i \in 0..MaxCount - 1 |-> out[i]]
    /\ buf = [j \in 0..Chunk - 1 |-> buf[j]]

(* After whole chunks: option_to_value_ck, buffered_kernel_extra and         *)
(* chain_kernel.                                                             *)
ByChunks ==
    /\ pc \in IF call.kernel = "option_to_value" THEN {"loop", "assign"} ELSE {"loop", "second"}
    /\ dst = call.count - count /\ src = dst * call.stride
    /\ FilledTo(out, dst)
    /\ pc # "loop" => count > 0 /\ left = ChunkSize
    /\ pc = "assign" => \A j \in 0..left - 1 : Expected(dst + j) # NA
    /\ pc = "second" => \A j \in 0..left - 1 : buf[j] = Expected(dst + j)
    /\ call.kernel = "chain" /\ call.zeroinit /\ pc = "loop" /\ count > 0 =>
           \A j \in 0..Chunk - 1 : buf[j] # Stale

(* Within the only chunk of option_to_option_ck, after whole runs.           *)
ByRuns ==
    /\ pc \in {"loop", "available", "missing"}
    /\ pc = "loop" /\ count > 0 => count = call.count /\ arg = 0 /\ dst = 0
    /\ pc = "loop" /\ count = 0 => FilledTo(out, call.count)
    /\ pc # "loop" =>
           /\ count = 0 /\ arg = 0 /\ dst \in Nat /\ at = dst /\ dst + left = call.count
           /\ src = dst * call.stride /\ FilledTo(out, dst)

(* The only chunk of buffered_ck.                                            *)
Buffered ==
    /\ pc \in {"loop", "child"}
    /\ count > 0 => count = call.count /\ src = 0 /\ arg = 0 /\ dst = 0
    /\ count = 0 => pc = "loop" /\ FilledTo(out, call.count)
    /\ pc = "child" => left = count /\ \A j \in 0..left - 1 : buf[j] = Expected(j)

ThrewRightly ==
    \E p \in Extent(call) :
        p \in call.bad \/ (p \in call.missing /\ call.kernel = "option_to_value")

CInv ==
    /\ Types
    /\ RightIn(out)
    /\ pc = "done" => FilledTo(out, call.count)
    /\ pc = "thrown" => ThrewRightly
    /\ ~Finished =>
          /\ call.kernel \in {"option_to_value", "expression", "chain"} => ByChunks
          /\ call.kernel = "option_to_option" => ByRuns
          /\ call.kernel = "buffered" => Buffered

-----------------------------------------------------------------------------
(* Calls and what they must write.                                           *)
LEMMA CallFacts ==
    ASSUME call \in Calls
    PROVE  /\ call.count \in 0..MaxCount /\ call.stride \in {0, 1}
           /\ call.kernel \in Kernels /\ call.bad \subseteq Nat /\ call.missing \subseteq Nat
           /\ Chunk \in Nat \ {0} /\ MaxCount \in Nat
  BY ChunkAssumption, CallsAssumption

LEMMA ExpectedFacts ==
    ASSUME call \in Calls, NEW i \in 0..call.count - 1
    PROVE  /\ Expected(i) \in Nat \cup {NA}
           /\ Expected(i) \notin {Unwritten, Stale, Null}
           /\ Expected(i) \in call.bad => \E p \in Extent(call) : p \in call.bad
           /\ Expected(i) = NA => \E p \in Extent(call) : p \in call.missing
  <1>1. i * call.stride \in Extent(call) /\ i * call.stride \in Nat
    BY CallFacts DEF Extent
  <1>2. \/ Expected(i) = i * call.stride
        \/ Expected(i) = NA /\ i * call.stride \in call.missing
    BY <1>1 DEF Expected, Source, Missing
  <1>3. NA \notin Nat /\ NA \notin {Unwritten, Stale, Null}
    BY DEF NA, Unwritten, Stale, Null
  <1>4. \A m \in Nat : m \notin {Unwritten, Stale, Null}
    BY DEF Unwritten, Stale, Null
  <1> QED
    BY <1>1, <1>2, <1>3, <1>4, CallFacts

LEMMA ElementsAre ==
    ASSUME call \in Calls, NEW d \in Nat, NEW n \in Nat, NEW p, p = d * call.stride
    PROVE  \A j \in 0..n - 1 : Elements(p, n)[j] = Expected(d + j)
  <1>1. \A j \in 0..n - 1 : p + j * call.stride = (d + j) * call.stride
    BY CallFacts
  <1> QED
    BY <1>1 DEF Elements, Expected

LEMMA ProcessedUpTo ==
    ASSUME NEW f, NEW n \in Nat
    PROVE  /\ Processed(f, n) \in 0..n
           /\ Processed(f, n) < n => f[Processed(f, n)] \in call.bad
  <1> DEFINE S == {j \in 0..n - 1 : f[j] \in call.bad}
             T == {j \in 0..n - 1 : j \in S} \cup {n}
  <1>1. Processed(f, n) = Min(T)
    <2>1. T = {j \in 0..n - 1 : f[j] \in call.bad} \cup {n}
      OBVIOUS
    <2> QED
      BY <2>1 DEF Processed
  <1>2. Min(T) \in 0..n /\ (Min(T) < n => Min(T) \in S)
    <2> HIDE DEF S
    <2> QED
      BY FirstUpTo
  <1> QED
    BY <1>1, <1>2

LEMMA ChunkFits ==
    ASSUME Types
    PROVE  ChunkSize \in 0..count /\ ChunkSize \in 0..Chunk /\ (count > 0 => ChunkSize > 0)
  BY CallFacts DEF Types, ChunkSize, Least

(* k elements are written behind the d that have been.                       *)
LEMMA Written ==
    ASSUME Types, RightIn(out), NEW d \in Nat, FilledTo(out, d),
           NEW k \in Nat, d + k <= call.count, NEW f,
           \A j \in 0..k - 1 : f[j] = Expected(d + j),
           call.kernel = "option_to_value" => \A j \in 0..k - 1 : Expected(d + j) # NA,
           out' = Write(out, d, f, k)
    PROVE  /\ RightIn(out') /\ FilledTo(out', d + k)
           /\ out' = [i \in 0..MaxCount - 1 |-> out'[i]]
  <1>1. /\ DOMAIN out = 0..MaxCount - 1 /\ call.count \in 0..MaxCount /\ MaxCount \in Nat
        /\ call \in Calls
    BY CallFacts DEF Types
  <1>2. out' = [i \in 0..MaxCount - 1 |-> IF i \in d..d + k - 1 THEN f[i - d] ELSE out[i]]
    BY <1>1 DEF Write
  <1>3. \A i \in d..d + k - 1 : i - d \in 0..k - 1 /\ d + (i - d) = i /\ i \in 0..call.count - 1
    BY <1>1
  <1>4. \A i \in d..d + k - 1 :
            /\ i \in DOMAIN out' /\ out'[i] = Expected(i)
            /\ call.kernel = "option_to_value" => Expected(i) # NA
    <2> SUFFICES ASSUME NEW i \in d..d + k - 1
                 PROVE  /\ i \in DOMAIN out' /\ out'[i] = Expected(i)
                        /\ call.kernel = "option_to_value" => Expected(i) # NA
      OBVIOUS
    <2>1. i - d \in 0..k - 1 /\ d + (i - d) = i /\ i \in 0..MaxCount - 1
      BY <1>1, <1>3
    <2>2. f[i - d] = Expected(d + (i - d))
      BY <2>1
    <2>3. call.kernel = "option_to_value" => Expected(d + (i - d)) # NA
      BY <2>1
    <2> QED
      BY <1>2, <2>1, <2>2, <2>3
  <1>5. \A i \in 0..MaxCount - 1 : i \notin d..d + k - 1 => out'[i] = out[i]
    BY <1>2
  <1>6. DOMAIN out' = 0..MaxCount - 1
    BY <1>2
  <1>7. RightIn(out')
    BY <1>1, <1>3, <1>4, <1>5, <1>6 DEF RightIn
  <1>8. FilledTo(out', d + k)
    <2> SUFFICES ASSUME NEW i \in 0..d + k - 1 PROVE out'[i] = Expected(i)
      BY DEF FilledTo
    <2>1. CASE i \in d..d + k - 1
      BY <1>4, <2>1
    <2>2. CASE i \notin d..d + k - 1
      <3>1. i \in 0..d - 1 /\ i \in 0..MaxCount - 1
        BY <1>1, <2>2
      <3> QED
        BY <1>5, <2>2, <3>1 DEF FilledTo
    <2> QED
      BY <2>1, <2>2
  <1> QED
    BY <1>2, <1>6, <1>7, <1>8

LEMMA AssignedOut ==
    ASSUME Types, RightIn(out), dst \in Nat, FilledTo(out, dst),
           NEW n \in Nat, dst + n <= call.count, NEW f,
           \A j \in 0..n - 1 : f[j] = Expected(dst + j),
           call.kernel = "option_to_value" => \A j \in 0..n - 1 : Expected(dst + j) # NA,
           NEW next, AssignOut(f, n, next)
    PROVE  /\ RightIn(out') /\ out' = [i \in 0..MaxCount - 1 |-> out'[i]]
           /\ pc' \in {next, "thrown"}
           /\ \/ pc' = next /\ FilledTo(out', dst + n)
              \/ pc' = "thrown" /\ ThrewRightly
  <1> DEFINE k == Processed(f, n)
  <1>1. k \in 0..n /\ (k < n => f[k] \in call.bad)
    BY ProcessedUpTo
  <1>2. out' = Write(out, dst, f, k) /\ pc' = IF k < n THEN "thrown" ELSE next
    BY DEF AssignOut
  <1> HIDE DEF k
  <1>3. /\ RightIn(out') /\ FilledTo(out', dst + k)
        /\ out' = [i \in 0..MaxCount - 1 |-> out'[i]]
    <2>1. k \in Nat /\ dst + k <= call.count /\ \A j \in 0..k - 1 : j \in 0..n - 1
      BY <1>1, CallFacts DEF Types
    <2>2. /\ \A j \in 0..k - 1 : f[j] = Expected(dst + j)
          /\ call.kernel = "option_to_value" => \A j \in 0..k - 1 : Expected(dst + j) # NA
      BY <2>1
    <2> QED
      BY <1>2, <2>1, <2>2, Written
  <1>4. CASE k < n
    <2>1. k \in 0..n - 1 /\ dst + k \in 0..call.count - 1 /\ call \in Calls
      BY <1>1, <1>4, CallFacts DEF Types
    <2>2. Expected(dst + k) \in call.bad
      BY <1>1, <1>4, <2>1
    <2>3. ThrewRightly
      BY <2>1, <2>2, ExpectedFacts DEF ThrewRightly
    <2> QED
      BY <1>2, <1>3, <1>4, <2>3
  <1>5. CASE k = n
    BY <1>2, <1>3, <1>5
  <1> QED
    BY <1>1, <1>4, <1>5

LEMMA SameCall ==
    ASSUME call' = call
    PROVE  /\ \A i : Expected(i)' = Expected(i)
           /\ RightIn(out') => RightIn(out)'
           /\ ThrewRightly => ThrewRightly'
           /\ OneChunkOnly' = OneChunkOnly
  BY DEF Expected, Source, Extent, Missing, RightIn, ThrewRightly, OneChunkOnly

-----------------------------------------------------------------------------
(* The steps.  Working is the part of the invariant a step begins with.      *)
Working(k) == CInv /\ ~Finished /\ call.kernel = k

LEMMA InitCInv == Init => CInv
  <1> SUFFICES ASSUME Init PROVE CInv
    OBVIOUS
  <1>1. /\ call \in Calls /\ pc = "loop" /\ count = call.count /\ left = 0 /\ at = 0
        /\ src = 0 /\ arg = 0 /\ dst = 0
    BY DEF Init
  <1>2. call.count \in Nat /\ call.stride \in {0, 1} /\ call.kernel \in Kernels
    BY <1>1, CallFacts
  <1>3. Types
    BY <1>1, <1>2 DEF Types, Init
  <1>4. RightIn(out)
    BY DEF Init, RightIn
  <1>5. FilledTo(out, 0) /\ (call.count = 0 => FilledTo(out, call.count))
    BY DEF FilledTo
  <1>6. call.kernel = "chain" => \A j \in 0..Chunk - 1 : buf[j] # Stale
    BY DEF Init, Stale, Null
  <1>7. call.kernel \in {"option_to_value", "expression", "chain"} => ByChunks
    BY <1>1, <1>2, <1>5, <1>6 DEF ByChunks
  <1>8. call.kernel = "option_to_option" => ByRuns
    BY <1>1, <1>5 DEF ByRuns
  <1>9. call.kernel = "buffered" => Buffered
    BY <1>1, <1>5 DEF Buffered
  <1> QED
    BY <1>1, <1>3, <1>4, <1>7, <1>8, <1>9 DEF CInv, Finished

LEMMA ReturnStep == ASSUME CInv, Return PROVE CInv'
  <1>1. /\ pc = "loop" /\ count = 0 /\ pc' = "done"
        /\ UNCHANGED <<call, count, left, at, src, arg, dst, buf, out>>
    BY DEF Return
  <1>2. call \in Calls /\ call.kernel \in Kernels /\ call.count \in Nat
    BY CallFacts DEF CInv, Types
  <1>3. FilledTo(out, call.count)
    <2>1. CASE call.kernel \in {"option_to_value", "expression", "chain"}
      BY <1>1, <1>2, <2>1 DEF CInv, Finished, ByChunks
    <2>2. CASE call.kernel = "option_to_option"
      BY <1>1, <2>2 DEF CInv, Finished, ByRuns
    <2>3. CASE call.kernel = "buffered"
      BY <1>1, <2>3 DEF CInv, Finished, Buffered
    <2> QED
      BY <1>2, <2>1, <2>2, <2>3 DEF Kernels
  <1>4. Types' /\ RightIn(out)'
    BY <1>1, SameCall DEF CInv, Types
  <1>5. FilledTo(out, call.count)'
    BY <1>1, <1>3, SameCall DEF FilledTo
  <1> QED
    BY <1>1, <1>4, <1>5 DEF CInv, Finished

(* What is to be shown of a step that writes n elements or throws.           *)
LEMMA Advances ==
    ASSUME Types, call' = call, Types', RightIn(out'),
           \/ pc' = "thrown" /\ ThrewRightly
           \/ /\ ~Finished'
              /\ call.kernel \in {"option_to_value", "expression", "chain"} => ByChunks'
              /\ call.kernel = "option_to_option" => ByRuns'
              /\ call.kernel = "buffered" => Buffered'
    PROVE  CInv'
  <1>1. RightIn(out)' /\ (ThrewRightly => ThrewRightly')
    BY SameCall
  <1>2. CASE pc' = "thrown" /\ ThrewRightly
    BY <1>1, <1>2 DEF CInv, Finished
  <1>3. CASE ~Finished'
    BY <1>1, <1>3 DEF CInv, Finished
  <1> QED
    BY <1>2, <1>3

LEMMA CheckAvailableStep == ASSUME CInv, CheckAvailable PROVE CInv'
  <1>1. /\ call.kernel = "option_to_value" /\ pc = "loop" /\ count > 0
        /\ left' = ChunkSize
        /\ pc' = IF \E j \in 0..ChunkSize - 1 : Elements(src, ChunkSize)[j] = NA
                 THEN "thrown" ELSE "assign"
        /\ UNCHANGED <<call, count, at, src, arg, dst, buf, out>>
    BY DEF CheckAvailable
  <1>2. /\ Types /\ RightIn(out) /\ ByChunks /\ call \in Calls /\ count \in 0..call.count
        /\ call.count \in Nat
    BY <1>1, CallFacts DEF CInv, Types, Finished
  <1>3. dst \in Nat /\ dst = call.count - count /\ src = dst * call.stride /\ FilledTo(out, dst)
    BY <1>2 DEF ByChunks
  <1>4. ChunkSize \in 0..count
    BY <1>2, ChunkFits
  <1>5. \A j \in 0..ChunkSize - 1 : Elements(src, ChunkSize)[j] = Expected(dst + j)
    BY <1>2, <1>3, <1>4, ElementsAre
  <1>6. ChunkSize' = ChunkSize
    BY <1>1 DEF ChunkSize, Least
  <1>7. Types'
    BY <1>1, <1>2, <1>4 DEF Types
  <1>8. CASE \E j \in 0..ChunkSize - 1 : Elements(src, ChunkSize)[j] = NA
    <2>1. PICK j \in 0..ChunkSize - 1 : Expected(dst + j) = NA
      BY <1>5, <1>8
    <2>2. dst + j \in 0..call.count - 1
      BY <1>2, <1>3, <1>4
    <2>3. ThrewRightly
      BY <1>1, <1>2, <2>1, <2>2, ExpectedFacts DEF ThrewRightly
    <2> QED
      BY <1>1, <1>2, <1>7, <1>8, <2>3, Advances
  <1>9. CASE ~(\E j \in 0..ChunkSize - 1 : Elements(src, ChunkSize)[j] = NA)
    <2>1. pc' = "assign"
      BY <1>1, <1>9
    <2>2. \A j \in 0..ChunkSize - 1 : Expected(dst + j) # NA
      BY <1>5, <1>9
    <2>3. ByChunks'
      BY <1>1, <1>3, <1>6, <2>1, <2>2, SameCall DEF ByChunks, FilledTo
    <2> QED
      BY <1>1, <1>2, <1>7, <2>1, <2>3, Advances DEF Finished
  <1> QED
    BY <1>8, <1>9

LEMMA AssignValuesStep == ASSUME CInv, AssignValues PROVE CInv'
  <1>1. /\ call.kernel = "option_to_value" /\ pc = "assign"
        /\ AssignOut(Elements(src, left), left, "loop")
        /\ dst' = dst + left
        /\ src' = src + left * call.stride
        /\ count' = count - left
        /\ UNCHANGED <<call, left, at, arg, buf>>
    BY DEF AssignValues
  <1>2. /\ Types /\ RightIn(out) /\ ByChunks /\ call \in Calls /\ count \in 0..call.count
        /\ call.count \in Nat /\ call.stride \in {0, 1}
    BY <1>1, CallFacts DEF CInv, Types, Finished
  <1>3. /\ dst \in Nat /\ dst = call.count - count /\ src = dst * call.stride /\ FilledTo(out, dst)
        /\ left = ChunkSize /\ \A j \in 0..left - 1 : Expected(dst + j) # NA
    BY <1>1, <1>2 DEF ByChunks
  <1>4. left \in 0..count
    BY <1>2, <1>3, ChunkFits
  <1>5. \A j \in 0..left - 1 : Elements(src, left)[j] = Expected(dst + j)
    BY <1>2, <1>3, <1>4, ElementsAre
  <1>6. /\ RightIn(out') /\ out' = [i \in 0..MaxCount - 1 |-> out'[i]]
        /\ \/ pc' = "loop" /\ FilledTo(out', dst + left)
           \/ pc' = "thrown" /\ ThrewRightly
    <2>1. left \in Nat /\ dst + left <= call.count
      BY <1>2, <1>3, <1>4
    <2> QED
      BY <1>1, <1>2, <1>3, <1>5, <2>1, AssignedOut
  <1>7. count' \in 0..call.count /\ dst' = call.count - count' /\ src' = dst' * call.stride
    BY <1>1, <1>2, <1>3, <1>4
  <1>8. Types'
    BY <1>1, <1>2, <1>6, <1>7 DEF Types
  <1>9. pc' = "loop" /\ FilledTo(out', dst + left) => ByChunks'
    BY <1>1, <1>7, SameCall DEF ByChunks, FilledTo
  <1> QED
    BY <1>1, <1>2, <1>6, <1>8, <1>9, Advances DEF Finished

LEMMA FirstKernelStep == ASSUME CInv, FirstKernel PROVE CInv'
  <1> DEFINE n == ChunkSize
             f == Elements(src, n)
             b == IF call.kernel = "expression" THEN Zeroed(buf, n) ELSE buf
             g == [j \in 0..n - 1 |-> IF call.zeroinit /\ b[j] = Stale THEN Garbage ELSE f[j]]
             k == Processed(f, n)
  <1>1. /\ call.kernel \in {"expression", "chain"} /\ pc = "loop" /\ count > 0
        /\ left' = n
        /\ buf' = Write(b, 0, g, k)
        /\ pc' = IF k < n THEN "thrown" ELSE "second"
        /\ UNCHANGED <<call, count, at, src, arg, dst, out>>
    BY DEF FirstKernel, Buffering
  <1>2. /\ Types /\ RightIn(out) /\ ByChunks /\ call \in Calls /\ count \in 0..call.count
        /\ call.count \in Nat /\ Chunk \in Nat
    BY <1>1, CallFacts DEF CInv, Types, Finished
  <1>3. dst \in Nat /\ dst = call.count - count /\ src = dst * call.stride /\ FilledTo(out, dst)
    BY <1>2 DEF ByChunks
  <1>4. n \in 0..count /\ n \in 0..Chunk
    BY <1>2, ChunkFits
  <1>5. \A j \in 0..n - 1 : f[j] = Expected(dst + j)
    BY <1>2, <1>3, <1>4, ElementsAre
  <1>6. k \in 0..n /\ (k < n => f[k] \in call.bad)
    BY <1>4, ProcessedUpTo
  <1>7. DOMAIN b = 0..Chunk - 1 /\ (call.zeroinit => \A j \in 0..n - 1 : b[j] # Stale)
    <2>1. DOMAIN buf = 0..Chunk - 1
      BY <1>2 DEF Types
    <2>2. CASE call.kernel = "expression"
      BY <1>2, <1>4, <2>1, <2>2 DEF Zeroed, Null, Stale
    <2>3. CASE call.kernel = "chain"
      BY <1>1, <1>2, <1>4, <2>1, <2>3 DEF ByChunks
    <2> QED
      BY <1>1, <2>2, <2>3
  <1> HIDE DEF b
  <1>8. \A j \in 0..n - 1 : g[j] = f[j]
    BY <1>7
  <1>9. n' = n
    BY <1>1 DEF ChunkSize, Least
  <1> HIDE DEF n, f, g, k
  <1>10. buf' = [i \in 0..Chunk - 1 |-> IF i \in 0..k - 1 THEN g[i] ELSE b[i]]
    <2>1. \A i \in 0..Chunk - 1 : (i \in 0..0 + k - 1 <=> i \in 0..k - 1) /\ i - 0 = i
      BY <1>2, <1>6
    <2> QED
      BY <1>1, <1>7, <2>1 DEF Write
  <1>11. Types'
    BY <1>1, <1>2, <1>4, <1>10 DEF Types
  <1>12. CASE k < n
    <2>1. k \in 0..n - 1 /\ dst + k \in 0..call.count - 1
      BY <1>2, <1>3, <1>4, <1>6, <1>12
    <2>2. ThrewRightly
      BY <1>2, <1>5, <1>6, <1>12, <2>1, ExpectedFacts DEF ThrewRightly
    <2> QED
      BY <1>1, <1>2, <1>11, <1>12, <2>2, Advances
  <1>13. CASE k = n
    <2>1. pc' = "second"
      BY <1>1, <1>4, <1>13
    <2>2. \A j \in 0..n - 1 : buf'[j] = Expected(dst + j)
      <3> SUFFICES ASSUME NEW j \in 0..n - 1 PROVE buf'[j] = Expected(dst + j)
        OBVIOUS
      <3>1. j \in 0..Chunk - 1 /\ j \in 0..k - 1
        BY <1>2, <1>4, <1>13
      <3>2. buf'[j] = g[j]
        BY <1>10, <3>1
      <3> QED
        BY <1>5, <1>8, <3>2
    <2>3. ByChunks'
      BY <1>1, <1>3, <1>9, <2>1, <2>2, SameCall DEF ByChunks, FilledTo, n
    <2> QED
      BY <1>1, <1>2, <1>11, <2>1, <2>3, Advances DEF Finished
  <1> QED
    BY <1>4, <1>6, <1>12, <1>13

LEMMA SecondKernelStep == ASSUME CInv, SecondKernel PROVE CInv'
  <1>1. /\ call.kernel \in {"expression", "chain"} /\ pc = "second"
        /\ out' = Write(out, dst, buf, left)
        /\ buf' = IF call.kernel = "expression" THEN ResetBuffers(buf)
                  ELSE IF count > left THEN Zeroed(ResetBuffers(buf), Chunk) ELSE buf
        /\ dst' = dst + left
        /\ src' = src + left * call.stride
        /\ count' = count - left
        /\ pc' = "loop"
        /\ UNCHANGED <<call, left, at, arg>>
    BY DEF SecondKernel, Buffering
  <1>2. /\ Types /\ RightIn(out) /\ ByChunks /\ call \in Calls /\ count \in 0..call.count
        /\ call.count \in Nat /\ call.stride \in {0, 1} /\ Chunk \in Nat
    BY <1>1, CallFacts DEF CInv, Types, Finished
  <1>3. /\ dst \in Nat /\ dst = call.count - count /\ src = dst * call.stride /\ FilledTo(out, dst)
        /\ left = ChunkSize /\ \A j \in 0..left - 1 : buf[j] = Expected(dst + j)
    BY <1>1, <1>2 DEF ByChunks
  <1>4. left \in 0..count
    BY <1>2, <1>3, ChunkFits
  <1>5. /\ RightIn(out') /\ out' = [i \in 0..MaxCount - 1 |-> out'[i]]
        /\ FilledTo(out', dst + left)
    <2>1. left \in Nat /\ dst + left <= call.count
      BY <1>2, <1>3, <1>4
    <2> QED
      BY <1>1, <1>2, <1>3, <2>1, Written
  <1>6. count' \in 0..call.count /\ dst' = call.count - count' /\ src' = dst' * call.stride
    BY <1>1, <1>2, <1>3, <1>4
  <1>7. buf' = [j \in 0..Chunk - 1 |-> buf'[j]]
    BY <1>1, <1>2 DEF Types, ResetBuffers, Zeroed
  <1>8. call.kernel = "chain" /\ call.zeroinit /\ count' > 0 =>
            \A j \in 0..Chunk - 1 : buf'[j] # Stale
    <2> SUFFICES ASSUME call.kernel = "chain", call.zeroinit, count' > 0
                 PROVE  \A j \in 0..Chunk - 1 : buf'[j] # Stale
      OBVIOUS
    <2>1. count > left
      BY <1>1, <1>2, <1>4
    <2>2. buf' = Zeroed(ResetBuffers(buf), Chunk)
      BY <1>1, <2>1
    <2>3. \A j \in 0..Chunk - 1 : buf'[j] = Null
      BY <1>2, <2>2 DEF Types, ResetBuffers, Zeroed
    <2> QED
      BY <2>3 DEF Null, Stale
  <1>9. Types'
    BY <1>1, <1>2, <1>5, <1>6, <1>7 DEF Types
  <1>10. ByChunks'
    BY <1>1, <1>5, <1>6, <1>8, SameCall DEF ByChunks, FilledTo
  <1> QED
    BY <1>1, <1>2, <1>5, <1>9, <1>10, Advances DEF Finished

-----------------------------------------------------------------------------
(* The runs of option_to_option_ck.                                          *)
LEMMA BeginOptionsStep == ASSUME OneChunkOnly, CInv, BeginOptions PROVE CInv'
  <1>1. /\ call.kernel = "option_to_option" /\ pc = "loop" /\ count > 0
        /\ left' = ChunkSize /\ count' = count - ChunkSize /\ src' = arg /\ at' = 0
        /\ pc' = "available"
        /\ UNCHANGED <<call, arg, dst, buf, out>>
    BY DEF BeginOptions
  <1>2. /\ Types /\ RightIn(out) /\ ByRuns /\ call \in Calls
        /\ call.count \in Nat /\ call.stride \in {0, 1} /\ Chunk \in Nat
    BY <1>1, CallFacts DEF CInv, Types, Finished
  <1>3. count = call.count /\ arg = 0 /\ dst = 0 /\ count <= Chunk
    BY <1>1, <1>2 DEF ByRuns, OneChunkOnly
  <1>4. ChunkSize = count /\ count' = 0 /\ left' = call.count
    BY <1>1, <1>2, <1>3 DEF ChunkSize, Least
  <1>5. Types'
    BY <1>1, <1>2, <1>4 DEF Types
  <1>6. ByRuns'
    BY <1>1, <1>2, <1>3, <1>4, SameCall DEF ByRuns, FilledTo
  <1> QED
    BY <1>1, <1>2, <1>5, <1>6, Advances DEF Finished

LEMMA RunIsSome ==
    ASSUME at \in Nat, left \in Nat, NEW a
    PROVE  /\ RunEnd(a) \in at..at + left
           /\ \A i \in at..RunEnd(a) - 1 : Available(i) = a
  <1> DEFINE S == {i \in at..at + left - 1 : Available(i) # a}
             T == {i \in at..at + left - 1 : i \in S} \cup {at + left}
  <1>1. RunEnd(a) = Min(T)
    <2>1. T = {i \in at..at + left - 1 : Available(i) # a} \cup {at + left}
      OBVIOUS
    <2> QED
      BY <2>1 DEF RunEnd
  <1>2. Min(T) \in at..at + left /\ \A i \in at..Min(T) - 1 : i \notin S
    <2>1. T \in SUBSET Nat /\ T # {} /\ at + left \in T
      OBVIOUS
    <2>2. \A i \in T : i \in at..at + left
      OBVIOUS
    <2>3. \A i \in S : i \in T
      OBVIOUS
    <2> HIDE DEF S, T
    <2>5. Min(T) \in T /\ \A m \in T : Min(T) <= m
      BY <2>1, MinIsLeast
    <2> QED
      BY <2>2, <2>3, <2>5
  <1> HIDE DEF T
  <1>3. \A i \in at..Min(T) - 1 : i \in at..at + left - 1
    BY <1>2
  <1> QED
    BY <1>1, <1>2, <1>3

(* Where the run the kernel is at lies.                                      *)
LEMMA AtRun ==
    ASSUME CInv, call.kernel = "option_to_option", pc \in {"available", "missing"}, NEW a
    PROVE  LET n == RunEnd(a) - at IN
           /\ n \in 0..left /\ left \in Nat /\ dst \in Nat /\ dst + n <= call.count
           /\ \A j \in 0..n - 1 : Elements(src, n)[j] = Expected(dst + j)
           /\ \A j \in 0..n - 1 : (Expected(dst + j) # NA) = a
           /\ Types /\ RightIn(out) /\ FilledTo(out, dst) /\ at = dst /\ count = 0 /\ arg = 0
           /\ dst + left = call.count /\ src = dst * call.stride
           /\ call \in Calls /\ call.stride \in {0, 1} /\ call.count \in Nat
  <1> DEFINE n == RunEnd(a) - at
  <1>1. /\ Types /\ RightIn(out) /\ ByRuns /\ call \in Calls /\ left \in Nat
        /\ call.count \in Nat /\ call.stride \in {0, 1}
    BY CallFacts DEF CInv, Types, Finished
  <1>2. /\ count = 0 /\ arg = 0 /\ dst \in Nat /\ at = dst /\ dst + left = call.count
        /\ src = dst * call.stride /\ FilledTo(out, dst)
    BY <1>1 DEF ByRuns
  <1>3. RunEnd(a) \in at..at + left /\ \A i \in at..RunEnd(a) - 1 : Available(i) = a
    BY <1>1, <1>2, RunIsSome
  <1>4. n \in 0..left /\ dst + n <= call.count
    BY <1>1, <1>2, <1>3
  <1>5. \A j \in 0..n - 1 : Elements(src, n)[j] = Expected(dst + j)
    BY <1>1, <1>2, <1>4, ElementsAre
  <1>6. \A j \in 0..n - 1 : (Expected(dst + j) # NA) = a
    <2> SUFFICES ASSUME NEW j \in 0..n - 1 PROVE (Expected(dst + j) # NA) = a
      OBVIOUS
    <2>1. dst + j \in at..RunEnd(a) - 1
      BY <1>1, <1>2, <1>3, <1>4
    <2>2. arg + (dst + j) * call.stride = (dst + j) * call.stride
      BY <1>1, <1>2
    <2> QED
      BY <1>3, <2>1, <2>2 DEF Available, Expected
  <1> QED
    BY <1>1, <1>2, <1>4, <1>5, <1>6

(* A run has been dealt with, and the chunk has or has not.                  *)
LEMMA RunDone ==
    ASSUME CInv, call.kernel = "option_to_option", pc \in {"available", "missing"}, NEW a,
           NEW n, n = RunEnd(a) - at,
           dst' = dst + n, left' = left - n, at' = at + n, UNCHANGED <<call, count, buf>>,
           n # left => src' = src + n * call.stride /\ arg' = arg,
           RightIn(out'), FilledTo(out', dst + n),
           out' = [i \in 0..MaxCount - 1 |-> out'[i]],
           pc' = IF n = left THEN "loop" ELSE IF pc = "available" THEN "missing" ELSE "available"
    PROVE  CInv'
  <1>1. /\ n \in 0..left /\ left \in Nat /\ dst \in Nat /\ Types
        /\ at = dst /\ count = 0 /\ arg = 0
        /\ dst + left = call.count /\ src = dst * call.stride
        /\ call.stride \in {0, 1} /\ call.count \in Nat
    BY AtRun
  <1>0. n \in Nat /\ left - n \in Nat
    BY <1>1
  <1>2. left' \in Nat /\ dst' \in Nat /\ dst' + left' = call.count /\ at' = dst'
    BY <1>0, <1>1
  <1>3. Types'
    BY <1>1, <1>2 DEF Types
  <1>4. CASE n = left
    <2>1. pc' = "loop" /\ FilledTo(out', call.count)
      BY <1>1, <1>4
    <2>2. ByRuns'
      BY <1>1, <2>1, SameCall DEF ByRuns, FilledTo
    <2> QED
      BY <1>1, <1>3, <2>1, <2>2, Advances DEF Finished
  <1>5. CASE n # left
    <2>1. src' = src + n * call.stride /\ arg' = arg
      BY <1>5
    <2>4. src' = dst' * call.stride
      BY <1>1, <2>1
    <2>2. pc' \in {"available", "missing"}
      BY <1>5
    <2>3. ByRuns'
      BY <1>1, <1>2, <1>5, <2>1, <2>2, <2>4, SameCall DEF ByRuns, FilledTo
    <2> QED
      BY <1>1, <1>3, <2>2, <2>3, Advances DEF Finished
  <1> QED
    BY <1>4, <1>5

LEMMA AvailableRunStep == ASSUME CInv, AvailableRun PROVE CInv'
  <1> DEFINE n == RunEnd(TRUE) - at
             next == IF n = left THEN "loop" ELSE "missing"
  <1>1. /\ call.kernel = "option_to_option" /\ pc = "available"
        /\ AssignOut(Elements(src, n), n, next)
        /\ dst' = dst + n
        /\ src' = IF n = left THEN src ELSE src + n * call.stride
        /\ arg' = IF n = left /\ call.stride # 0 THEN Wild ELSE arg
        /\ left' = left - n
        /\ at' = at + n
        /\ UNCHANGED <<call, count, buf>>
    BY DEF AvailableRun
  <1>2. /\ n \in 0..left /\ left \in Nat /\ dst \in Nat /\ dst + n <= call.count
        /\ \A j \in 0..n - 1 : Elements(src, n)[j] = Expected(dst + j)
        /\ Types /\ RightIn(out) /\ FilledTo(out, dst)
    BY <1>1, AtRun
  <1> HIDE DEF n
  <1>3. /\ RightIn(out') /\ out' = [i \in 0..MaxCount - 1 |-> out'[i]]
        /\ \/ pc' = next /\ FilledTo(out', dst + n)
           \/ pc' = "thrown" /\ ThrewRightly
    <2> HIDE DEF next
    <2>1. n \in Nat
      BY <1>2
    <2> QED
      BY <1>1, <1>2, <2>1, AssignedOut
  <1>4. CASE pc' = next /\ FilledTo(out', dst + n)
    BY <1>1, <1>3, <1>4, RunDone DEF n
  <1>5. CASE pc' = "thrown" /\ ThrewRightly
    <2>1. Types'
      BY <1>1, <1>2, <1>3 DEF Types
    <2> QED
      BY <1>1, <1>2, <1>3, <1>5, <2>1, Advances
  <1> QED
    BY <1>3, <1>4, <1>5

LEMMA MissingRunStep == ASSUME CInv, MissingRun PROVE CInv'
  <1> DEFINE n == RunEnd(FALSE) - at
             f == [j \in 0..n - 1 |-> NA]
  <1>1. /\ call.kernel = "option_to_option" /\ pc = "missing"
        /\ out' = Write(out, dst, f, n)
        /\ dst' = dst + n
        /\ src' = src + n * call.stride
        /\ left' = left - n
        /\ at' = at + n
        /\ pc' = IF n = left THEN "loop" ELSE "available"
        /\ UNCHANGED <<call, count, arg, buf>>
    BY DEF MissingRun
  <1>2. /\ n \in 0..left /\ left \in Nat /\ dst \in Nat /\ dst + n <= call.count
        /\ \A j \in 0..n - 1 : (Expected(dst + j) # NA) = FALSE
        /\ Types /\ RightIn(out) /\ FilledTo(out, dst)
    BY <1>1, AtRun
  <1>3. \A j \in 0..n - 1 : f[j] = Expected(dst + j)
    BY <1>2
  <1> HIDE DEF n, f
  <1>4. /\ RightIn(out') /\ FilledTo(out', dst + n)
        /\ out' = [i \in 0..MaxCount - 1 |-> out'[i]]
    <2>1. n \in Nat
      BY <1>2
    <2> QED
      BY <1>1, <1>2, <1>3, <2>1, Written
  <1> QED
    BY <1>1, <1>4, RunDone DEF n

-----------------------------------------------------------------------------
(* buffered_ck.                                                              *)
LEMMA FillBuffersStep == ASSUME OneChunkOnly, CInv, FillBuffers PROVE CInv'
  <1> DEFINE n == ChunkSize
             f == Elements(arg, n)
             k == Processed(f, n)
  <1>1. /\ call.kernel = "buffered" /\ pc = "loop" /\ count > 0
        /\ left' = n
        /\ buf' = Write(ResetBuffers(buf), 0, Filled(f), k)
        /\ pc' = IF k < n THEN "thrown" ELSE "child"
        /\ UNCHANGED <<call, count, at, src, arg, dst, out>>
    BY DEF FillBuffers
  <1>2. /\ Types /\ RightIn(out) /\ Buffered /\ call \in Calls
        /\ call.count \in Nat /\ call.stride \in {0, 1} /\ Chunk \in Nat
    BY <1>1, CallFacts DEF CInv, Types, Finished
  <1>3. /\ count = call.count /\ src = 0 /\ arg = 0 /\ dst = 0
        /\ count <= Chunk /\ ~call.zeroinit
    BY <1>1, <1>2 DEF Buffered, OneChunkOnly
  <1>4. n = count
    BY <1>2, <1>3 DEF ChunkSize, Least
  <1>5. \A j \in 0..n - 1 : f[j] = Expected(j)
    <2>1. arg = 0 * call.stride /\ n \in Nat
      BY <1>2, <1>3, <1>4
    <2>2. \A j \in 0..n - 1 : Elements(arg, n)[j] = Expected(0 + j)
      BY <1>2, <2>1, ElementsAre
    <2>3. \A j \in 0..n - 1 : 0 + j = j
      BY <2>1
    <2> QED
      BY <2>2, <2>3
  <1>6. k \in 0..n /\ (k < n => f[k] \in call.bad)
    BY <1>2, <1>3, <1>4, ProcessedUpTo
  <1>7. /\ DOMAIN f = 0..n - 1 /\ Filled(f) = [j \in DOMAIN f |-> f[j]]
        /\ ResetBuffers(buf) = buf /\ DOMAIN buf = 0..Chunk - 1
    BY <1>2, <1>3 DEF Filled, ResetBuffers, Types, Elements
  <1> HIDE DEF n, f, k
  <1>8. buf' = [i \in 0..Chunk - 1 |-> IF i \in 0..k - 1 THEN f[i] ELSE buf[i]]
    <2>1. \A i \in 0..Chunk - 1 : (i \in 0..0 + k - 1 <=> i \in 0..k - 1) /\ i - 0 = i
      BY <1>2, <1>3, <1>4, <1>6
    <2>2. \A i \in 0..k - 1 : i \in DOMAIN f
      BY <1>2, <1>3, <1>4, <1>6, <1>7
    <2> QED
      BY <1>1, <1>7, <2>1, <2>2 DEF Write
  <1>9. Types'
    BY <1>1, <1>2, <1>3, <1>4, <1>8 DEF Types
  <1>10. CASE k < n
    <2>1. k \in 0..call.count - 1 /\ k \in 0..n - 1
      BY <1>2, <1>3, <1>4, <1>6, <1>10
    <2>2. ThrewRightly
      BY <1>2, <1>5, <1>6, <1>10, <2>1, ExpectedFacts DEF ThrewRightly
    <2> QED
      BY <1>1, <1>2, <1>9, <1>10, <2>2, Advances
  <1>11. CASE k = n
    <2>1. pc' = "child"
      BY <1>1, <1>2, <1>3, <1>4, <1>11
    <2>2. \A j \in 0..n - 1 : buf'[j] = Expected(j)
      BY <1>2, <1>3, <1>4, <1>5, <1>8, <1>11
    <2>3. Buffered'
      BY <1>1, <1>2, <1>3, <1>4, <2>1, <2>2, SameCall DEF Buffered
    <2> QED
      BY <1>1, <1>2, <1>9, <2>1, <2>3, Advances DEF Finished
  <1> QED
    BY <1>2, <1>3, <1>4, <1>6, <1>10, <1>11

LEMMA BufferedChildStep == ASSUME OneChunkOnly, CInv, BufferedChild PROVE CInv'
  <1> DEFINE direct == Elements(src, left)
             pairs  == [j \in 0..left - 1 |-> IF buf[j] = direct[j] THEN buf[j] ELSE Garbage]
  <1>1. /\ call.kernel = "buffered" /\ pc = "child"
        /\ out' = Write(out, dst, pairs, left)
        /\ buf' = Write(ResetBuffers(buf), 0, Filled(Elements(arg, left)), left)
        /\ src' = src + left * call.stride
        /\ count' = count - left
        /\ pc' = "loop"
        /\ UNCHANGED <<call, left, at, arg, dst>>
    BY DEF BufferedChild
  <1>2. /\ Types /\ RightIn(out) /\ Buffered /\ call \in Calls
        /\ call.count \in Nat /\ call.stride \in {0, 1} /\ Chunk \in Nat /\ left \in Nat
    BY <1>1, CallFacts DEF CInv, Types, Finished
  <1>3. /\ left = count /\ count = call.count /\ src = 0 /\ arg = 0 /\ dst = 0
        /\ \A j \in 0..left - 1 : buf[j] = Expected(j)
    BY <1>1, <1>2 DEF Buffered, Types
  <1>4. src = 0 * call.stride /\ \A j \in 0..left - 1 : 0 + j = j
    BY <1>2, <1>3
  <1>5. \A j \in 0..left - 1 : direct[j] = Expected(0 + j)
    BY <1>2, <1>4, ElementsAre
  <1>6. \A j \in 0..left - 1 : pairs[j] = Expected(0 + j)
    BY <1>3, <1>4, <1>5
  <1> HIDE DEF pairs, direct
  <1>7. FilledTo(out, 0)
    BY DEF FilledTo
  <1>8. /\ RightIn(out') /\ FilledTo(out', 0 + left)
        /\ out' = [i \in 0..MaxCount - 1 |-> out'[i]]
    <2>1. 0 \in Nat /\ 0 + left <= call.count
      BY <1>2, <1>3
    <2>2. out' = Write(out, 0, pairs, left)
      BY <1>1, <1>3
    <2> QED
      BY <1>1, <1>2, <1>6, <1>7, <2>1, <2>2, Written
  <1>9. count' = 0 /\ FilledTo(out', call.count)
    BY <1>1, <1>2, <1>3, <1>8
  <1>10. buf' = [j \in 0..Chunk - 1 |-> buf'[j]]
    BY <1>1, <1>2 DEF Write, ResetBuffers, Types
  <1>11. Types'
    BY <1>1, <1>2, <1>8, <1>9, <1>10 DEF Types
  <1>12. Buffered'
    BY <1>1, <1>9, SameCall DEF Buffered, FilledTo
  <1> QED
    BY <1>1, <1>2, <1>8, <1>11, <1>12, Advances DEF Finished

-----------------------------------------------------------------------------
LEMMA CInvKept == ASSUME OneChunkOnly, CInv, [Next]_vars PROVE CInv'
  <1>1. CASE Step
    BY <1>1, ReturnStep, CheckAvailableStep, AssignValuesStep, BeginOptionsStep,
       AvailableRunStep, MissingRunStep, FirstKernelStep, SecondKernelStep, FillBuffersStep,
       BufferedChildStep DEF Step
  <1>2. CASE UNCHANGED vars
    <2>1. UNCHANGED <<call, pc, count, left, at, src, arg, dst, buf, out>>
      BY <1>2 DEF vars
    <2>2. ChunkSize' = ChunkSize
      BY <2>1 DEF ChunkSize, Least
    <2> QED
      BY <2>1, <2>2, SameCall DEF CInv, Types, Finished, ByChunks, ByRuns, Buffered, FilledTo
  <1> QED
    BY <1>1, <1>2 DEF Next, Rest

(* What the strided functions of option_to_value_ck, option_to_option_ck,    *)
(* buffered_kernel_extra, chain_kernel and buffered_ck have written at any   *)
(* moment is what each element must be, nothing is written behind the last   *)
(* element, and an NA never reaches a destination that is not an option.     *)
THEOREM WritesOnlyWhatIsRight == OneChunkOnly => (Spec => []WrittenIsRight)
  <1> SUFFICES ASSUME OneChunkOnly PROVE Spec => []WrittenIsRight
    OBVIOUS
  <1>1. Init => CInv
    BY InitCInv
  <1>2. CInv /\ [Next]_vars => CInv'
    BY CInvKept
  <1>3. CInv => WrittenIsRight
    BY DEF CInv, RightIn, WrittenIsRight
  <1> QED
    BY <1>1, <1>2, <1>3, PTL DEF Spec

(* A strided call of these kernels that returns has assigned every element,  *)
(* and one that throws has met an element it cannot assign.                  *)
THEOREM ReturnsElementwise == OneChunkOnly => (Spec => []Elementwise)
  <1> SUFFICES ASSUME OneChunkOnly PROVE Spec => []Elementwise
    OBVIOUS
  <1>1. Init => CInv
    BY InitCInv
  <1>2. CInv /\ [Next]_vars => CInv'
    BY CInvKept
  <1>3. CInv => Elementwise
    BY DEF CInv, FilledTo, ThrewRightly, Elementwise
  <1> QED
    BY <1>1, <1>2, <1>3, PTL DEF Spec
=============================================================================
