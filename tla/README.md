# A verification of libdynd

libdynd is a C++11 library of dynamically typed, multi-dimensional arrays
(`src/README.md`, `src/docs`). This directory keeps TLA+ models of the parts
of it that are hard to test and easy to get wrong: who owns which memory and
when it goes, what a growing block of memory keeps, how trees of kernels are
assembled in a buffer that moves, how kernels that work in chunks and on
elements of variable size reach every element, and what the conversions,
comparisons, reductions, type matching and iterators compute at their
boundaries, whether a type written as text is read as that type, and whether a
date is the day that is meant. TLC checks each model on small instances; TLAPS
proves the theorems of section 5 for every instance.

## 1. The parts of the system

| part | state it keeps | operations | talks to |
|---|---|---|---|
| memory blocks (`memblock/memory_block.*`) | an atomic use count and a kind per block | `memory_block_incref`, `memory_block_decref`, `memory_block_free`, `memory_block_ptr` | every part that holds data |
| arrays (`array.*`, `view.cpp`, `memblock/array_memory_block.*`) | a block with type, arrmeta, data pointer, data reference, access flags | `empty`, `at_array`, `view`, `eval*`, `flag_as_immutable`, `groupby`, ... | memory blocks, types, kernels |
| growing POD memory (`memblock/pod_memory_block.cpp`, `zeroinit_memory_block.cpp`) | malloc'ed chunks, the current chunk's free part, a total | `allocate`, `resize`, `finalize`, `reset` | string, bytes and var-dim types |
| growing object memory (`memblock/objectarray_memory_block.cpp`) | chunks of constructed elements | the same | var dims of types with destructors |
| executable memory (`memblock/executable_memory_block_*.cpp`) | code chunks | `allocate`, `resize` | code generation |
| memory-mapped files (`memblock/memmap_memory_block.cpp`) | a mapping | map, unmap | arrays |
| types (`types/*`) | immutable reference-counted type objects, their arrmeta | construct, copy, reset, finalize, destruct arrmeta; index; compare; promote | arrays, memory blocks |
| kernel builder and kernels (`kernels/*`) | a tree of function/destructor records in one growing buffer | `instantiate` functions build it, `reserve` moves it, the root's destructor takes it down | types, arrays, arrfuncs |
| arrfuncs (`func/*`) | a function table, dispatch tables, a global registry | resolve the destination type, instantiate, call | kernels, types |
| evaluation (`eval/*`, `vm/*`) | temporary buffers, register programs | evaluate expressions | kernels |
| iteration (`iter/*`, `array_iter.hpp`, `dim_iter.cpp`) | a position, a buffer, references | next chunk, seek, restart | arrays, kernels |
| shapes (`shape_tools.*`) | none | broadcast, strides, axis permutations | arrays, types |
| parsing and formatting (`parser_util`, `json_*`, `datashape_*`) | a position in text | parse, print | types, arrays |
| numbers, dates, strings (`int128`, `float16`, `date_util`, `string_encodings`) | none | arithmetic, conversion | kernels |

How they interact. Nearly everything is ownership passed by hand: an array holds
a reference to the block with its data, its arrmeta holds references to the
blocks its strings and var dims live in, freeing the last one runs destructors
of the type, which drop further references. Blocks for strings and var dims hand
out ranges to the assignment kernels. Kernels call each other through a buffer
that the building of any of them may move.

What is hard in it:

* **Interleaving.** Use counts are atomic and arrays are shared between threads;
  a count reaching zero in one thread starts a cascade while others copy and
  drop references. Nothing else is synchronised.
* **Order within an operation.** Arrays are put together field by field with
  exceptions possible between fields; flags are set after references.
* **Aliasing and staleness.** Immutability is decided from use counts at one
  moment; a kernel pointer is valid until the next `reserve`; a range may be
  resized only while it is the last one.
* **Partial failure.** `malloc` fails inside growth; an instantiate function
  throws with half of its tree built.
* **Boundaries.** Alignment at the end of a chunk, a kernel that ends exactly at
  the builder's capacity.

What makes each part correct:

* memory blocks: a count equals the references held, nothing refers to a freed
  block, each block is freed once, everything unreachable is freed;
* arrays: all of their steps are legal uses of the counts; an immutable array
  is never writable through another and stays immutable;
* growing memory: ranges lie in owned chunks, never share bytes, keep their
  contents, alignment and (zeroinit) initial zeros;
* kernel builder: kernels never overlap, a finished tree is whole, an abandoned
  one is destroyed exactly once, no pointer is used after a move;
* chunked kernels: every element is assigned once and right, also behind the last
  whole chunk, and up to an element that throws;
* var dimensions: broadcasting pairs the right elements, an element that has
  memory keeps its size, and nothing of a failed allocation stays;
* builtin values: a conversion gives the value or throws as its error mode
  promises, comparison and sorting go by value across types, promotion loses no
  operand's range without saying so;
* reductions: any lifting over dimensions equals a fold over the elements, in the
  order the function needs;
* type matching: a pattern matches exactly its instances, and one binding of its
  variables explains all of its occurrences;
* shapes and layouts: an index selects the elements a sequence would, a new array
  like another keeps the order of its axes;
* strings and iterators: the sequence of code points or elements that comes out is
  the one that went in, whatever the buffer's size;
* datashapes: what is printed for a type, and what may be written for it, is read
  as that type;
* dates and times: days, ticks and fields are the same instant, and a text is read
  as the instant it says, or refused.

## 2. Modules and how they correspond to the code

| module | models | how |
|---|---|---|
| `RefCount` | the contract of `memory_block_incref` / `decref` / `free` | slots (variables and fields of blocks) refer to blocks; taking, copying, exchanging and dropping a reference are atomic; a block whose count reaches zero is *dying* until its fields are dropped |
| `RefCountProofs` | | theorems about `RefCount` |
| `MemoryBlocks` | `memory_block_ptr`, `nd::array` and the arrmeta of eight array types | `life`, `kind`, `count` are the block header; `ref` maps each variable and each field (`meta1`, `meta2`, `data`) to the block referred to; `typ` and `flags` are the array's type and access flags; `todo` is what is left of the operation a thread is in, one reference or flag at a time; `dying` is the stack of `memory_block_free` calls of a thread |
| `MemoryBlocksProofs` | | theorems about `MemoryBlocks`: every step is a legal use of a count |
| `ArraySharingProofs` | | theorems about `MemoryBlocks`: which blocks arrays share |
| `Allocator` | the promise of `memory_block_pod_allocator_api`: separate byte strings that grow and shrink | abstract |
| `PodMemoryBlock` | `pod_memory_block.cpp`, `zeroinit_memory_block.cpp` | integers as addresses, the three pointers, the total and the chunk list as in the code; `ranges` are the pointer pairs users hold, `mem` the bytes |
| `PodMemoryBlockProofs` | | theorems about `PodMemoryBlock` |
| `CKernelBuilder` | `ckernel_builder.hpp`, `ckernel_prefix.hpp`, `base_kernel.hpp` and five families of kernels | `bld` holds `m_data`, `m_capacity` and how far memory is zeroed; `mem` what lies in each block of memory; `stack` the running instantiate functions with their captured kernel pointer; `off` the threaded `ckb_offset`. Each family is the list of its statements that touch the builder (`Program`) |
| `CKernelBuilderProofs` | | theorems about `CKernelBuilder` |
| `ChunkedKernels` | the strided functions of `buffered_ck`, `chain_ck`, `option_to_option_ck`, `option_to_value_ck` and the expression assignment | one call is a sequence of statements (`pc`); pointers are counts of elements; a child kernel is one step that processes elements in order and may throw at one of them |
| `ChunkedKernelsProofs` | | theorems about `ChunkedKernels` |
| `VarDims` | one element of a var dimension and the kernels that write it: assignment from scalars, strided and var dimensions, elementwise functions, masked take, rolling windows, `var_dim_element_initialize` and `_resize` | `null`, `size` and `offset` are the element; `data` says what each element was computed from; `op`, `pc` and `error` are the call |
| `VarDimsProofs` | | theorems about `VarDims` |
| `Calls` | | one call of a function and the set of its possible outcomes |
| `BuiltinValues` | builtin types, their ranges and roundings | integers of `Width` bits, reals of `Precision` significant bits, NaN and infinities |
| `BuiltinAssignment` | `single_assigner_builtin`, `is_lossless_assignment` | one operator per error mode |
| `BuiltinComparison` | `single_comparison_builtin` | the seven comparisons across all pairs of types |
| `TypePromotion` | `promote_types_arithmetic` | |
| `BuiltinOperations` | | the properties and calls of the four modules above |
| `Reduction` | `lift_reduction`, `make_lifted_reduction_ckernel`, the associative adapter | the tree of kernels by dimension, folding symbols so that order can be seen |
| `TypeMatching` | `ndt::pattern_match`, `type_substitution`, dimension fragments | types as a sequence of dimensions and a data type |
| `Layouts` | `apply_single_linear_index`, `broadcast_input_shapes`, `strides_to_axis_perm`, strides of `empty_like`, `view` of bytes | |
| `StringEncodings` | the `next` and `append` functions of `string_encodings.cpp` | sequences of code units |
| `StringConversion` | string assignment kernels, growth of blockref strings, `string_range_as_utf8_string` | |
| `DimIter` | the strided and buffered `dim_iter` | scripts of next and seek against the sequence of elements |
| `Datashape` | `print_type` of the types, `datashape_parser.cpp` | types as nested records, datashapes as sequences of tokens; one operator per function of the parser, and a table of what `parse_datashape` finds at each place instead of its recursion (it depends on the tokens behind that place and on the types named so far) |
| `Calendar` | `date_ymd`, `time_hmst`, `datetime_struct`, the setters and property kernels of their types, the replace kernel, units since an epoch | days and ticks as integers, fields as records; a second has `10^TickDigits` ticks |
| `CalendarProofs` | | theorems about `Calendar` |
| `DateTexts` | `date_parser.cpp`, `time_parser.cpp`, `datetime_parser.cpp`, `to_str`, `set_from_utf8_string` and the kernels between strings and the three types | a text is a sequence of digits, signs and words; a format is a sequence of items, each of which moves the parser's state on or fails; a variable the code never set is any of `Unset` |
| `PureFunctions` | | the functions without state together |
| `MCRefCount`, `MCMemoryBlocks`, `MCPodMemoryBlock`, `MCCKernelBuilder`, `MCChunkedKernels`, `MCVarDims`, `MCFunctions` | | instances for TLC |

Composition: `MemoryBlocks` instances `RefCount` under a mapping that forgets
kinds, flags and the structure of operations; `PodMemoryBlock` instances
`Allocator` under a mapping that reads the bytes of each range out of memory.
`StringConversion` is built from `StringEncodings`, `BuiltinOperations` from the
three modules of values, and `PureFunctions` composes all functions without
state.

A function whose result depends on its arguments alone has no interleavings. Its
module has one action per function: `call` is set once, in the initial state, to
any of the calls the instance names, and the action sets `outcome` to what the
translated code gives (`<<value>>`, or what it throws). The property, an
invariant on answered calls, compares that with a definition of what the function
is for, which is written without looking at the code's steps: a set of values, a
fold, a selected subsequence, the existence of a substitution.

The families of `CKernelBuilder`, which differ in when memory for a child is
reserved and where its offset is kept:

| family | stands for | children |
|---|---|---|
| leaf | builtin assignments and the like | none |
| elwise | `elwise_ck`, strided and var-dim assignments, chains | one, right behind the kernel, destroyed unconditionally, nothing reserved for it |
| tuple | `make_tuple_unary_op_ckernel` | two fields (bound), each reserved, then recorded |
| option | `option_to_option_ck` | one right behind, two reserved and recorded |
| srcexpr, dstexpr | `make_expression_assignment_kernel`, its source and destination branches | the first recorded without reserving, then a buffer, the second reserved and recorded; the destination branch reads the buffer's size through the kernel pointer after the first child was built |

Sizes are the real ones in words of 8 bytes (the builder's own array is 16
words), because whether a kernel ends exactly at the capacity is the question.

## 3. What the runs check

| run | instance | shows |
|---|---|---|
| `refcount_contract` | `MCRefCount.cfg` | counts equal references, no dangling reference, freed once |
| `blocks_views` | one thread, 3 variables, 4 blocks; fixed, string and var-of-string arrays, views, indexing, bytes, external data | every micro-step is a legal use of the counts; no island of blocks keeps itself alive; an immutable array's storage has no writer |
| `blocks_eval` | the same size; var dims, tuples of pointers, groupby, eval in all its forms | the same refinement; the buffers of an immutable array have no writer; an immutable array stays so |
| `blocks_threads` | two threads, two variables each, 3 blocks; var dims and var of strings | the refinement under interleaving; every operation ends, and with it every free it began |
| `pod_memory_block` | a zeroinit block; two ranges, sizes 0, 1, 5, alignments 1, 4, initial chunk of 4 bytes; malloc fails at will | ranges aligned, inside chunks and apart; refinement of `Allocator`, with every new byte zero |
| `ckernel_build` | two builders, up to 5 kernels, five families; every error, every failed malloc, growth in place or by moving, swap, reset, delete | no overlap, complete trees, destruction exactly once, no use of a moved kernel |
| `chunked_kernels` | chunks of 2, counts to 5, all patterns of missing values, one element that throws | every element once and right; what a failed call wrote is right; a call ends |
| `option_chunks` | violation | options longer than one chunk are assigned from the wrong place |
| `var_dims` | sizes to 3, a window of 2; every call may throw at any point | broadcasting, order of taken elements, an element with memory keeps its size |
| `one_element_slices` | violation | a slice of one element assigned to a longer var-dim element is not repeated |
| `functions` | `MCFunctions.cfg` | `AssignAsPromised`, `LosslessKeepsValue`, `ComparedAndSorted`, `PromotedAlike`: builtin values; `ReducesAsFold`; `MatchesInstances`, `EllipsisBroadcasts`: type matching; `SlicesSelect`, `BroadcastsTogether`, `LaidOut`: layouts; `StringsConverted`; `IteratesElements`; `DatashapesRoundtrip`; `CalendarExact`: days, ticks and fields; `TextsRead`: dates, times and datetimes as they are written |
| `empty_like_ends` | violation | the layout of an array like one with two trailing dimensions of size one is searched for without end |

Why the bounds are enough.

* Blocks: an array with two buffers, one more array that shares one of them and
  a view take four blocks and three variables; a cascade three deep takes three.
  Kinds of operations are switched on by `Features` so that each run has those
  that interact. Variables, blocks and threads are interchangeable, hence the
  symmetry (not in the run with liveness properties).
* POD memory: with an initial chunk of 4 bytes, sizes 0, 1 and 5 give
  allocations that fit, that fit only unaligned, that do not fit, a resize in
  place, down to nothing, and one that moves; chunk addresses are chosen so that
  every order of chunks in memory occurs. The run takes a zero-initialised block,
  which promises more: a plain one differs only in clearing nothing, and
  `RefinesAllocatorSpec` is proved of both.
* Kernels: three elwise kernels leave one word of the builder's own array, so
  five kernels reach the heap and a move within the heap; four words beyond each
  capacity is where the families differ. While one builder holds a tree the other
  builds leaves only (`SecondKinds`), which covers three of the four cases of
  `swap`; the fourth, two buffers on the heap, exchanges pointers.
* Chunks: with `Chunk = 2`, counts 0 to 5 are nothing, less than a chunk, whole
  chunks, and two whole chunks and a rest; each element is missing or not, and
  each may be the one that throws.
* Var dimensions: `MaxSize = 3` has empty elements, one element (which
  broadcasts), and two different sizes that do not; any sequence of calls follows
  on any other. Sources of one element come with a stride of zero, as they are laid
  out, and with one that is not, as slices have it.
* Values: integers of 2, 3, 5 and 7 bits stand for 8 to 64 bits and reals of 3
  and 5 significant bits for `float` and `double`, so that some integers of both
  sizes are not representable in the smaller or in either real type, as in the
  program; samples lie on, just above and just below every boundary of a type.
* Shapes: up to three dimensions of sizes 0 to 3 with strides of either sign and
  zero. Patterns and candidates: up to three dimensions of every kind, with each
  kind of variable occurring twice.
* Strings: the code points at which some form changes its length, malformed and
  cut-off units in every encoding, and strings of nine characters, for which a
  blockref string has to grow more than once.
* Datashapes: every type without parts, and types of up to four parts in one
  another, which puts each construct in each place of each other; every type as it
  is printed, with its defaults written out, in its other forms, and by a name. A
  quoted name has one character of each way to escape.
* Dates: every day of the years at which the rules of leap years change, in each of
  the four cycles, around year 0 and the epoch, and the ends of the 16 bits a year
  has. With two digits of ticks a day is 8,640,000 ticks, so that 240 days to either
  side of the epoch fit the integers of TLC; all quotients and remainders are of the
  same signs as with seven digits. Fields are replaced in the days around the end of
  January and of February and in NA; datetimes are made of three dates around the epoch
  and of all times; values within a thousand units of it are converted. TLC's integers are also the reason why the 64-bit
  range of ticks is not explored.
* Texts: fifteen dates, each of which is an edge of some format (a month that is a day
  as well, May, years of six digits, a leap day, the first and last year of a window),
  eleven times, all orders of ambiguous fields, no window, one that slides (the year of
  reading is 2015) and a fixed one, with checks and without, through the type and
  through the kernel. The letters of a word are one symbol.
* Iterators: up to five elements and buffers of up to five, in scripts of up to
  four calls of next, seek and restart.

What the instances leave out because the code is known to go wrong there, so that
the rest can be checked, is named where it is left out. `SoundCalls`
(`MCChunkedKernels`) keeps `buffered_ck` and `option_to_option_ck` to one chunk
and `buffered_ck` to buffers without pointers. `Broadcasted` leaves out the elements
that are read behind a slice of one element (`Overruns`). The other exclusions are operators
or guards with a comment: conversions whose check lets a value just beyond the
range pass (`Gap`) or that store before they throw (`WritesFirst`), comparisons
of integers with reals that round them (`Miscompares`), promotion of `float16`
and `float128` (`Odd`), fixed strings that end exactly in a terminator
the code refuses, types that have no datashape (`NoDatashape`, which the property
shows to be exactly those), texts of the Postgres form whose hour reads as a year
(`HourIsYear`), UTF-8 that ends within a character, and buffers of no elements.
Each has a hazard in `PROJECT.json` with the line. The constants reproduce more:
`SelfAssign = "any"` (self assignment of `memory_block_ptr` frees its block),
`ResetAfterFailure = TRUE` (a POD block then hands out memory from the null
address), `Kinds` with `"dstexpr"` (a kernel pointer read after the builder
moved), `Features` with `"groupby"` under `ImmutableNotWritable` (operands of a
groupby array stay writable elsewhere). In `ckernel_build`, a destructor that
looks beyond the zeroed memory is assumed to find no destructor there.

Lines starting with `Mutant:` above a definition mark a deliberately wrong
version of the next one; the specifications never use them.

Fairness. `FairSpec` of `MemoryBlocks` assumes that a thread which has begun an
operation runs on: weak fairness of `Continue(t)` for each thread. `FairSpec` of
`ChunkedKernels` assumes that a call which has been made runs on: weak fairness
of its steps. There are no locks in the modelled code and no step of it waits
for another thread, so this is what any scheduler that runs every runnable
thread gives. Nothing is assumed about threads starting operations.

## 4. Findings

Three, each a run whose expectation is a violation, with the lines quoted in
`PROJECT.json`:

* `option_chunks`: `option_to_option_ck::strided` advances the pointer to the
  array of source pointers, not the source pointer, after each run of available
  values, so an option assignment longer than one chunk does not assign
  elementwise;
* `empty_like_ends`: `reorder_default_constructed_strides`, which lays out an array
  like another, looks for the innermost stride that is not zero and does not move
  on when the last two dimensions have one element;
* `one_element_slices`: `strided_to_var_assign_ck` broadcasts a source of one element
  by the stride it happens to have. That is zero for a dimension laid out with one
  element, but a slice of one element keeps the stride of the dimension it was cut
  from, and its neighbours, or what lies outside the array, are copied. `var_assign_ck`
  and `elwise_ck` of var dimensions put a stride of zero themselves; strided to
  strided assignment (`fixed_dim_type.cpp:548`) and `elwise_ck` of fixed dimensions
  (`elwise.hpp:374`), which are not modelled, read the same way.

Divergences that an instance can show by changing a constant are listed at the
end of the bounds in section 3; suspicions that no property covers are hazards
with a note.

## 5. What is proved

The theorems hold for every value of the constants that satisfies the named
assumptions of the modules and, where one is given, the hypothesis of the
theorem. Each but the last rests on one inductive invariant, which is named here
with the reason for its parts.

**Reference counting** (`RefCountProofs`, invariant `IInv`), for any set of
threads and blocks and any finite set of slots:

* `CountsAreExact`: the count of a block is the number of slots that refer to it;
* `NeverDangles`: no slot refers to a block that is being freed or has been;
* `FreesOnce`: a block is being freed by one thread at most and once, a freed
  block holds no reference, and no live block has a count of zero.

Exactness of the count carries the argument: a decrement reaches zero only when
no slot is left, so freeing cannot leave a reference behind. The counting lemmas
(one more or one fewer slot changes the cardinality by one) need the set of slots
to be finite.

**Arrays** (`MemoryBlocksProofs`, invariant `MInv`), for any threads, variables,
blocks and sets of operations:

* `ImplementsRefCount`: every micro-step of every array operation is a legal use
  of the counts, that is, `MemoryBlocks` implements `RefCount`;
* `ArraysNeverDangle`: hence no variable or field refers to a freed block;
* `ImmutableStaysImmutable`: an array that has become immutable is so until it is
  freed.

`MInv` adds to `IInv` what an operation in progress may rely on: an array under
construction is referred to by one variable of its thread and nothing else, it is
not made of references to itself, the slots an operation will write are empty by
the time it does, variables and flags are written last, and an array that still
waits for its flags is not immutable. Hypothesis `SafeSelfAssign`: a variable is
not copy-assigned to itself, or only when others share its block and there is one
thread. `operator=` releases the old block before it reads the pointer, so that
without this the theorem is false (and TLC says so with `SelfAssign = "any"`).

**What arrays share** (`ArraySharingProofs`, invariant `Sharing` on top of `MInv`),
under the same hypothesis:

* `NothingIsIslanded`: every set of live blocks has a reference from outside it, so
  counting references reclaims whatever nobody can reach;
* `ImmutableBuffersSafe`: no writable array has storage in common with an immutable
  one that is not of groupby type;
* `ImmutableIsNotWritable`: nor with any immutable one, in a program that makes no
  groupby arrays (`"groupby" \notin Features`). The hypothesis is needed: with
  groupby arrays TLC finds the property violated.

None of the three is inductive. `NoIsland` follows from `Acyclic`, that every set of
blocks has one that no field of the set refers to, which a step keeps because
fields are filled in only of an array that no field yet refers to. For the
other two what an array *is made of* (`All`) has to include what it is about to
refer to, since its flags may be written before its fields are (`FromData`,
`ViewAsBytes`) or after (`View`, `IndexVar`). `Separate` says that these sets of a
writable and of an immutable array are disjoint; the other conjuncts are why it
stays so: an array that waits to be flagged by `eval_copy` or `eval_immutable`
shares nothing (`WaitsAlone`); no variable holds a buffer of an immutable array, from
which `make_strided_array_from_data` could make a writable one (`Unheld`); an array
that will get the flags of another is made of that one's blocks (`CopiesOK`); and an
array refers to blocks only through the fields its type has (`FieldsFit`), so that the
counts `flag_as_immutable` looks at are all there are.

**POD memory** (`PodMemoryBlockProofs`, invariants `PInv` and `RInv`), for any
address space, sizes, alignments and pattern of malloc failures:

* `MemoryIsOwnedAndUnshared`: every range handed out lies inside a chunk the block
  owns, and no two ranges share a byte;
* `MemoryIsAligned`: every range begins at a multiple of the alignment it was
  asked for with;
* `RefinesAllocatorSpec`: the block implements `Allocator`: what a range holds is
  changed by its holder alone, kept when it grows or moves, and zero at first
  where zeros are promised.

No half of the first is inductive. `PInv` adds that chunks are apart, that the
current pointers lie in the newest chunk, and that no range reaches into the free
part of it: what `allocate` hands out next is therefore nobody's, and `resize` in
place extends only over nobody's bytes. `RInv` adds that ranges are in order
and inside memory, which the copy of a moved range needs. Alignment rounding is
used only through what it returns being a multiple and not going down. Hypothesis
of the first and the third, `~ResetAfterFailure`: reset is not called after a failed
malloc, since the code then hands out memory from the null address.

**Kernel builder** (`CKernelBuilderProofs`, invariants `KInv` and `Ownership`), for any set of
builders, any nesting of kernels of the families in section 2, and any errors and
failed mallocs on the way:

* `KernelsNeverOverlap`: kernels and their buffers lie inside the builder's memory
  and share no word;
* `FinishedTreesAreWhole`: in a tree that was built without error every child
  offset leads to a kernel, and every kernel but the root is the child of one;
* `PointersAreTakenAgain`: no kernel is written through a pointer into memory that
  has moved since;
* `EachKernelDestroyedOnce`: a kernel alive is held by one builder in one place, and
  the destructor of the root finds every kernel of the tree, finished or abandoned,
  and none twice.

The heart of `KInv` is the threaded offset: everything placed lies below it, what
the next kernel writes lies at it. The frames of the running instantiate functions
say which children each kernel has recorded by the statement its function is at,
and that outer functions wait in a call; an incomplete kernel is the root of some
frame, so when the last frame returns none is left. The tree holds but for the one
offset the innermost function has promised and not filled (`Pending`). `Apart`
(live builders do not share memory) keeps one builder's growth from touching
another. Hypothesis of the third: `"dstexpr"` is not among `Kinds`. The destination
branch of `make_expression_assignment_kernel` reads the buffer's size through a
pointer taken before its first child was built, as section 3 says.

The fourth needs to know what `Destroyed` returns, the recursive visit of a tree from
its root. In every state of `KInv` a kernel looks for its children only at greater
offsets (`LooksBehind`), so facts about the visit of each subtree follow by descent
on the offset (`Downward`: of the offsets where a fact fails, within the memory's
bounds, there is a greatest). By such descents the recursive function is defined
(`VisitsDefined`), the subtrees of two children have no kernel in common
(`ChildrenApart`), and the root reaches every kernel, once (`DestroysEach`). The
last holds because each kernel but the root is the child of one (`Rooted`, part of
`Ownership`); this also holds in the middle of a construction, where `TreeComplete`
says nothing. `Ownership` adds that nothing was destroyed twice so far and that the
kernels alive are those the builders hold, no two of them the same (`OneOwner`).

**Chunked kernels** (`ChunkedKernelsProofs`, invariant `CInv`), for any chunk
size, count, pattern of missing values and throwing element:

* `WritesOnlyWhatIsRight`: whatever a call has written, also one that throws in the
  middle, is right;
* `ReturnsElementwise`: a call that returns has assigned every element, and right;
  one that throws has met an element that cannot be assigned.

`CInv` says of each function how far its three pointers have come at each statement
(by whole chunks, by runs of available values, or through the buffer) and that
exactly the elements before that have been assigned. Hypothesis `OneChunkOnly`:
`option_to_option_ck` and `buffered_ck` are given no more than one chunk, and the
latter no buffer with pointers, as in `SoundCalls`; the run `option_chunks` shows what happens otherwise.

**Var dimensions** (`VarDimsProofs`, invariant `VInv`), for any sizes, windows,
masks and points at which a call throws, with no hypothesis:

* `BroadcastsElementwise`: an assignment or elementwise call that succeeds pairs the
  elements broadcasting says, but for those `strided_to_var_assign_ck` reads behind a
  slice of one element (`Overruns`; the first element of the slice is right);
* `TakesInOrder`: a masked take keeps the elements whose mask is set, in order, and
  a rolling window ends at the element it is for;
* `AssignmentsKeepSize`: only resizing and taking change the size of an element that
  has memory, and a call that fails to broadcast or to get memory changes nothing.

For the masked take `VInv` counts: the next place to write is the number of masked
elements before the source element the loop is at.

**Dates and ticks** (`CalendarProofs`), for any number of ticks in a second and any
days, dates, times, instants, replacements, units and epochs:

* `DatesAndTicks`: what the calendar answers is right (`CalendarExact`). A day of the
  years that 16 bits hold is split into a date that exists and is counted back to it,
  with its day of the week and of the year; a date is counted exactly if it exists;
  replacing fields gives the date asked for or throws, but for the cases the property
  names; ticks are split into fields that make them up again, on both sides of the
  epoch; fields that were accepted are read back; a value in other units is the same
  instant, rounded down, unless the result happens to be the number that stands for NA.

The theorem is about `CalendarSpec`, the calendar's calls by themselves: the run checks
`CalendarExact` in `PureFunctions`, which no proof can use because other modules of it
are recursive. There is no inductive invariant to find, since a call is one step; the
argument is arithmetic. Neither way of the code to count, cycles of 400, 100 and 4
years forward or quotients rounded toward zero back, looks like the definition, the
number of leap days before a year. Each cycle is shown to leave the year and the days
since its start right, so that `set_from_days` finds the year and then the month;
`to_days` is shown equal to the count on both of its branches; and as years and
months follow one another without gaps, a day has one date only, which joins the two.
The ticks rest on what the quotients and remainders of C++ give for negative numbers.

The assumptions say what is given. `TickDigitsAssumption`: a second has a positive
number of ticks (the prover knows nothing of powers, so it is said of `10^TickDigits`
as well). `CalendarInputs`: fields are integers; a year given to `replace` or `set_cal`
is one of 16 bits, which the code narrows it to; the day of an instant is in these
years, as it is for the 64 bits of ticks the library keeps; a unit is so many ticks, or
so many of it are a tick. Numbers have no other width here: an overflow of the 32 bits
of days or the 64 of ticks is neither modelled nor excluded, and NA is the least
integer of 32 bits for ticks too.

The least-number principle, which the proofs about kernel trees, chunks and var
dimensions cite (`LeastExists`, `MinIsLeast`, `FirstUpTo`), is proved in each of these
modules as far as it is used there.

Only model-checked:

* liveness, which these proofs do not reach: `OperationsEnd` (`MemoryBlocks`),
  `CallEnds` (`ChunkedKernels`);
* all of `PureFunctions` but `CalendarExact`: most of it is recursive, over values,
  types or texts of any size; promotion, comparison and the conversions of builtin
  values have no proof yet.

## 6. Not modelled, and the plan

Components without a model are listed in `PROJECT.json` with the reason. Planned,
in this order:

1. Theorems about functions that need no recursion: promotion, comparison and the
   conversions of `BuiltinOperations`.
2. `ObjectArray`: the object-array block as an implementation of `Allocator`
   with destructors.
3. References held by `dim_iter` and `string_iter`, composed with `RefCount`.
4. `int128` over narrow limbs; business days, and the texts that name a unit and an
   epoch, on the tokens of `DateTexts`.
5. `Multidispatch`: ordering of signatures by specificity, ambiguities.
6. The JSON parser, on the tokens of `Datashape`.

Not planned: code generation, memory-mapped files, registration of scalar
functions, wrappers of external libraries, error messages. They are system calls,
tables or formatting without a state worth exploring.
