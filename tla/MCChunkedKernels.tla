-------------------------- MODULE MCChunkedKernels --------------------------
(* Calls of the chunked kernels for TLC: every count up to two chunks and    *)
(* one element, every pattern of missing values, one element that throws.    *)
EXTENDS ChunkedKernels

MCChunk    == 2
MCMaxCount == 2 * MCChunk + 1

AllCalls ==
    UNION {[kernel   : Kernels,
            count    : {n},
            stride   : {0, 1},
            missing  : SUBSET (0..n - 1),
            bad      : {{}} \cup {{i} : i \in 0..n - 1},
            zeroinit : BOOLEAN] : n \in 0..MCMaxCount}

\* NA values come only from options, and flat kernels keep no buffer
Meaningful(c) ==
    /\ c.missing # {} => c.kernel \in {"option_to_value", "option_to_option"}
    /\ c.zeroinit => c.kernel \in {"expression", "chain", "buffered"}
    /\ c.missing \cap c.bad = {}

\* buffered_ck and option_to_option_ck do not go on correctly after one chunk,
\* and buffered_ck does not clear buffers that hold pointers
SoundCalls == {c \in AllCalls :
    /\ Meaningful(c)
    /\ c.kernel \in {"buffered", "option_to_option"} => c.count <= MCChunk
    /\ c.kernel = "buffered" => ~c.zeroinit}

LongOptionCalls == {c \in AllCalls : Meaningful(c) /\ c.kernel = "option_to_option"}
=============================================================================
