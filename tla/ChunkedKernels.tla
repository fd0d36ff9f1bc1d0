--------------------------- MODULE ChunkedKernels ---------------------------
(* The strided functions of the kernels that work in chunks of               *)
(* DYND_BUFFER_CHUNK_SIZE elements: assignments from option types, the       *)
(* buffered expression assignment, chains and buffered arrfuncs.             *)
(*                                                                           *)
(* A pointer into the source or destination is the number of elements it is  *)
(* away from its start.  A child kernel is one step: it processes elements   *)
(* in order and may throw at one of them, what it wrote before stays.        *)
EXTENDS Integers, FiniteSets, FiniteSetsExt

CONSTANTS
    Chunk,     \* DYND_BUFFER_CHUNK_SIZE
    MaxCount,  \* bound on the elements of a call
    Calls      \* the calls made: kernel, count, source stride and what is in the source

Kernels == {"option_to_value", "option_to_option", "expression", "chain", "buffered"}

ASSUME ChunkAssumption == Chunk \in Nat \ {0} /\ MaxCount \in Nat
ASSUME CallsAssumption ==
    Calls \subseteq [kernel   : Kernels,
                     count    : 0..MaxCount,
                     stride   : {0, 1},
                     missing  : SUBSET (0..MaxCount - 1),  \* elements that are NA
                     bad      : SUBSET (0..MaxCount - 1),  \* elements whose assignment throws
                     zeroinit : BOOLEAN]                   \* the buffer's type keeps pointers

VARIABLES
    call,   \* the call being executed
    pc,     \* the next statement of it
    count,  \* elements not begun
    left,   \* elements of the chunk not processed
    at,     \* position in the array of availability flags
    src,    \* src0 or src_copy: source pointer
    arg,    \* src[0] as the next chunk reads it
    dst,    \* destination pointer
    buf,    \* temporary buffer
    out     \* destination elements

vars == <<call, pc, count, left, at, src, arg, dst, buf, out>>

\* What is not the number of a source element
Unwritten == -1
NA        == -2
Garbage   == -3
Null      == -4   \* a buffer element set to zero
Stale     == -5   \* a buffer element that points to memory given back
Wild      == -1000

Least(a, b) == IF a < b THEN a ELSE b

(* ---- memory --------------------------------------------------------------*)
Extent(c)  == {i * c.stride : i \in 0..c.count - 1}
Missing(p) == p \in call.missing

\* What is read through a source pointer
Source(p) == IF p \notin Extent(call) THEN Garbage
             ELSE IF Missing(p) THEN NA ELSE p

\* Elements p, p + stride, ... as a child sees them
Elements(p, n) == [j \in 0..n - 1 |-> Source(p + j * call.stride)]

\* How many of n elements a child gets through before it throws
Processed(f, n) == Min({j \in 0..n - 1 : f[j] \in call.bad} \cup {n})

Write(mem, d, f, n) == [i \in DOMAIN mem |-> IF i \in d..d + n - 1 THEN f[i - d] ELSE mem[i]]

\* Assigning into a buffer element of a type with pointers expects it to be
\* null: a stale pointer would be written through.
Filled(f) == [j \in DOMAIN f |-> IF call.zeroinit /\ buf[j] = Stale THEN Garbage ELSE f[j]]

\* arrmeta_reset_buffers gives back the memory the elements point to
ResetBuffers(b) == IF call.zeroinit
                   THEN [j \in DOMAIN b |-> IF b[j] = Null THEN Null ELSE Stale] ELSE b

Zeroed(b, n) == IF call.zeroinit THEN [j \in DOMAIN b |-> IF j < n THEN Null ELSE b[j]] ELSE b

Init ==
    /\ call \in Calls
    /\ pc = "loop" /\ count = call.count /\ left = 0 /\ at = 0
    /\ src = 0 /\ arg = 0 /\ dst = 0
    \* buffers of expressions lie in the zeroed kernel builder, of chains in an
    \* empty array; those of buffered_ck come from new char[]
    /\ buf = [j \in 0..Chunk - 1 |-> IF call.kernel = "buffered" THEN Stale ELSE Null]
    /\ out = [i \in 0..MaxCount - 1 |-> Unwritten]

ChunkSize == Least(count, Chunk)

\* The loop ends
Return ==
    /\ pc = "loop" /\ count = 0
    /\ pc' = "done"
    /\ UNCHANGED <<call, count, left, at, src, arg, dst, buf, out>>

\* Assigning f to n elements of the destination; next says where it goes on
AssignOut(f, n, next) ==
    LET k == Processed(f, n) IN
    /\ out' = Write(out, dst, f, k)
    /\ pc' = IF k < n THEN "thrown" ELSE next

(* ---- option_to_value_ck --------------------------------------------------*)
\* Mutant: only the first element of a chunk is looked at.
CheckAvailableFirst ==
    /\ call.kernel = "option_to_value" /\ pc = "loop" /\ count > 0
    /\ left' = ChunkSize
    /\ pc' = IF Source(src) = NA THEN "thrown" ELSE "assign"
    /\ UNCHANGED <<call, count, at, src, arg, dst, buf, out>>

CheckAvailable ==
    /\ call.kernel = "option_to_value" /\ pc = "loop" /\ count > 0
    /\ left' = ChunkSize
    /\ pc' = IF \E j \in 0..ChunkSize - 1 : Elements(src, ChunkSize)[j] = NA
             THEN "thrown" ELSE "assign"
    /\ UNCHANGED <<call, count, at, src, arg, dst, buf, out>>

AssignValues ==
    /\ call.kernel = "option_to_value" /\ pc = "assign"
    /\ AssignOut(Elements(src, left), left, "loop")
    /\ dst' = dst + left
    /\ src' = src + left * call.stride
    /\ count' = count - left
    /\ UNCHANGED <<call, left, at, arg, buf>>

(* ---- option_to_option_ck -------------------------------------------------*)
\* The flags of a chunk are those of the elements from src[0] on
Available(i) == Source(arg + i * call.stride) # NA

BeginOptions ==
    /\ call.kernel = "option_to_option" /\ pc = "loop" /\ count > 0
    /\ left' = ChunkSize
    /\ count' = count - ChunkSize
    /\ src' = arg
    /\ at' = 0
    /\ pc' = "available"
    /\ UNCHANGED <<call, arg, dst, buf, out>>

\* memchr: the first flag from "at" on that is not like the run, or the end
RunEnd(isAvailable) ==
    Min({i \in at..at + left - 1 : Available(i) # isAvailable} \cup {at + left})

\* Mutant: a run of available values is followed by another one.
AvailableRunAgain ==
    LET n == RunEnd(TRUE) - at IN
    /\ call.kernel = "option_to_option" /\ pc = "available"
    /\ AssignOut(Elements(src, n), n, IF n = left THEN "loop" ELSE "available")
    /\ dst' = dst + n
    /\ src' = IF n = left THEN src ELSE src + n * call.stride
    /\ arg' = IF n = left /\ call.stride # 0 THEN Wild ELSE arg
    /\ left' = left - n
    /\ at' = at + n
    /\ UNCHANGED <<call, count, buf>>

\* A run of available values; one that ends the chunk advances src, the
\* pointer to the array of source pointers, in place of src_copy.
AvailableRun ==
    LET n == RunEnd(TRUE) - at IN
    /\ call.kernel = "option_to_option" /\ pc = "available"
    /\ AssignOut(Elements(src, n), n, IF n = left THEN "loop" ELSE "missing")
    /\ dst' = dst + n
    /\ src' = IF n = left THEN src ELSE src + n * call.stride
    /\ arg' = IF n = left /\ call.stride # 0 THEN Wild ELSE arg
    /\ left' = left - n
    /\ at' = at + n
    /\ UNCHANGED <<call, count, buf>>

\* A run of missing values
MissingRun ==
    LET n == RunEnd(FALSE) - at IN
    /\ call.kernel = "option_to_option" /\ pc = "missing"
    /\ out' = Write(out, dst, [j \in 0..n - 1 |-> NA], n)
    /\ dst' = dst + n
    /\ src' = src + n * call.stride
    /\ left' = left - n
    /\ at' = at + n
    /\ pc' = IF n = left THEN "loop" ELSE "available"
    /\ UNCHANGED <<call, count, arg, buf>>

(* ---- buffered_kernel_extra and chain_kernel ------------------------------*)
Buffering == call.kernel \in {"expression", "chain"}

\* src to buffer. The expression kernel zeroes the elements it will use.
FirstKernel ==
    LET n == ChunkSize
        f == Elements(src, n)
        b == IF call.kernel = "expression" THEN Zeroed(buf, n) ELSE buf
        g == [j \in 0..n - 1 |-> IF call.zeroinit /\ b[j] = Stale THEN Garbage ELSE f[j]]
        k == Processed(f, n)
    IN
    /\ Buffering /\ pc = "loop" /\ count > 0
    /\ left' = n
    /\ buf' = Write(b, 0, g, k)
    /\ pc' = IF k < n THEN "thrown" ELSE "second"
    /\ UNCHANGED <<call, count, at, src, arg, dst, out>>

\* Mutant: the chain does not zero its buffer between chunks.
SecondKernelNotZeroed ==
    /\ Buffering /\ pc = "second"
    /\ out' = Write(out, dst, buf, left)
    /\ buf' = ResetBuffers(buf)
    /\ dst' = dst + left
    /\ src' = src + left * call.stride
    /\ count' = count - left
    /\ pc' = "loop"
    /\ UNCHANGED <<call, left, at, arg>>

\* buffer to dst, and on to the next chunk. The chain resets its buffer,
\* zeroing all of it, only when another chunk follows.
SecondKernel ==
    /\ Buffering /\ pc = "second"
    /\ out' = Write(out, dst, buf, left)
    /\ buf' = IF call.kernel = "expression" THEN ResetBuffers(buf)
              ELSE IF count > left THEN Zeroed(ResetBuffers(buf), Chunk) ELSE buf
    /\ dst' = dst + left
    /\ src' = src + left * call.stride
    /\ count' = count - left
    /\ pc' = "loop"
    /\ UNCHANGED <<call, left, at, arg>>

(* ---- buffered_ck: one buffered source, read through arg, and one that is  *)
(* ---- not, read through src; an element of the result is the pair          *)
FillBuffers ==
    LET n == ChunkSize
        f == Elements(arg, n)
        k == Processed(f, n)
    IN
    /\ call.kernel = "buffered" /\ pc = "loop" /\ count > 0
    /\ left' = n
    /\ buf' = Write(ResetBuffers(buf), 0, Filled(f), k)
    /\ pc' = IF k < n THEN "thrown" ELSE "child"
    /\ UNCHANGED <<call, count, at, src, arg, dst, out>>

\* After the child the buffered sources are assigned once more; only the
\* pointers of the others move.
BufferedChild ==
    LET direct == Elements(src, left)
        pairs  == [j \in 0..left - 1 |-> IF buf[j] = direct[j] THEN buf[j] ELSE Garbage]
    IN
    /\ call.kernel = "buffered" /\ pc = "child"
    /\ out' = Write(out, dst, pairs, left)
    /\ buf' = Write(ResetBuffers(buf), 0, Filled(Elements(arg, left)), left)
    /\ src' = src + left * call.stride
    /\ count' = count - left
    /\ pc' = "loop"
    /\ UNCHANGED <<call, left, at, arg, dst>>

Step == \/ Return
        \/ CheckAvailable \/ AssignValues
        \/ BeginOptions \/ AvailableRun \/ MissingRun
        \/ FirstKernel \/ SecondKernel
        \/ FillBuffers \/ BufferedChild

Finished == pc \in {"done", "thrown"}

\* The call has returned
Rest == Finished /\ UNCHANGED vars

Next == Step \/ Rest

Spec     == Init /\ [][Next]_vars
FairSpec == Spec /\ WF_vars(Step)

(* ---- properties ----------------------------------------------------------*)
Expected(i) == Source(i * call.stride)

\* A strided call that returns has assigned each of its count elements, whether
\* they fill less than a chunk, whole chunks or a part of the last one; one that
\* throws has met an element that cannot be assigned (strided of
\* option_to_value_ck, option_to_option_ck, buffered_kernel_extra, chain_kernel,
\* buffered_ck).
Elementwise ==
    /\ pc = "done" => \A i \in 0..call.count - 1 : out[i] = Expected(i)
    /\ pc = "thrown" => \E p \in Extent(call) :
           p \in call.bad \/ (p \in call.missing /\ call.kernel = "option_to_value")

\* At every moment, and so after an exception, what has been written is what
\* the element must be, nothing lies behind the last element, and an NA never
\* reaches a destination that is not an option.
WrittenIsRight ==
    \A i \in DOMAIN out :
        out[i] # Unwritten =>
            /\ i < call.count
            /\ out[i] = Expected(i)
            /\ out[i] = NA => call.kernel # "option_to_value"

\* Every call ends, with a result or an exception: each turn of the loops, of
\* the one over runs of option_to_option_ck too, consumes elements.
CallEnds == <>Finished
=============================================================================
