# SymCC/SYMROS: a TLA+ verification development

SymCC is a compiler pass together with a run-time library. A program compiled
with it computes, next to every value, a symbolic expression over the bytes of
its input, and hands the conditions of its branches to a solver (the *backend*)
in order to find inputs that take other paths. Two drivers put this to use: a
Rust program that feeds a fuzzer, and a shell script that works without one.
SYMROS is a fork that logs the constraints of the path it is on.

This directory holds TLA+ modules that model the parts of the system whose
correctness depends on sequences of operations, TLC configurations that check
them on small instances, and proofs for TLAPS.

    tlc -workers 2 -config MCShadowMemory.cfg MCShadowMemory
    tlapm ShadowMemoryProofs.tla

## Inventory

| Component | State | Operations | Interaction | What is hard |
|---|---|---|---|---|
| Shadow memory (`runtime/include/Shadow.h`, `runtime/src/RuntimeCommon.cpp`) | `g_shadow_pages`: page address -> array of expressions | `_sym_memcpy/memset/memmove`, `_sym_read_memory`, `_sym_write_memory`, `_sym_make_symbolic`, `isConcrete` | called by instrumented code and by the libc wrappers | pages appear while iterators with cached pointers walk over them; overlapping regions; page boundaries; stale expressions |
| Libc wrappers, memory (`runtime/src/LibcWrappers.cpp` 405-590) | none of their own | `memcpy`, `memset`, `bzero`, `memmove`, `bcopy`, `strncpy`, `strchr`, `memcmp`, `bcmp` | replace the libc functions; push path constraints | concrete outcome and symbolic constraint must be about the same bytes |
| Libc wrappers, input (same file, 53-403) | `inputFileDescriptor`, `inputOffset` | `open`, `read`, `fread`, `fgets`, `getc`, `ungetc`, seeks, `mmap` | shadow the position the kernel or the stream keeps | the two positions drift apart |
| Fuzzing helper (`util/symcc_fuzzing_helper`) | `State`: coverage map, processed files, statistics; queue directories on disk | pick the best test case, run SymCC, evaluate new test cases with afl-showmap | reads the fuzzer's queue, writes its own, which the fuzzer imports | the fuzzer works at the same time; every step can fail; restarts |
| Pure concolic execution (`util/pure_concolic_execution.sh`) | directories `next`, `cur`, `symcc_out`; `analyzed_inputs` | import, run, schedule new test cases | runs the target under `timeout` | termination; name lookup by `grep`; leftovers in `symcc_out` |
| Simple backend (`runtime/src/backends/simple`) | solver scopes, `string_eq_constraints`, `string_taken`, `allocatedExpressions`, `stdinBytes` | expression builders, `_sym_push_path_constraint_with_loc`, `_sym_feasible`, `_sym_get_input_byte` | called by instrumented code | scopes left open, constraints collected over several calls, out-of-order bytes |
| Call protocol (`RuntimeCommon.cpp` 37-103, `Symbolizer.cpp` 29-41, 364-398, 497-510) | `g_return_value`, `g_function_arguments` | set and get parameter and return expressions | between caller and callee | one side may not be instrumented |
| Garbage collection (`GarbageCollection.cpp`, both backends) | `expressionRegions`, `allocatedExpressions` | register a region, collect | walks shadow memory; frees what the table owned | roots that are missing; memory that is used again |
| Derived builders (`RuntimeCommon.cpp` 40-66, 193-451) | none | saturating and overflow arithmetic, funnel shifts, insert, extract, byte swap | called by instrumented code | width and sign at the boundaries, byte order |
| Memory input and configuration (`RuntimeCommon.cpp` 463-534, `Config.cpp`) | `g_config.input`, one static offset per function | `loadConfig`, `symcc_make_symbolic` and its variants | make variables in the backend | several counters for one set of variables |
| Instrumentation pass (`compiler/Symbolizer.cpp`, `Pass.cpp`) | `symbolicExpressions`, `expressionUses`, the number of the next branch | one visitor per instruction | emits the run-time calls | short-circuiting of concrete computations |
| Numeric checks (`compiler/Overflow.cpp`, `FPOverflow.cpp`) | thresholds and tolerances | one chain of blocks per arithmetic instruction | run before the Symbolizer, which pushes their conditions | limits that wrap; checks that disturb the program |
| QSYM backend | `allocatedExpressions`, `inputs_` | calls into QSYM | - | the library is not part of the repository |
| Pass registration, loop unrolling | - | - | - | thin layers, see below |

`PROJECT.json` lists the hazards of this code, each at its line, with the
properties that would catch it.

## Modules

### Shadow memory: `SymExpr`, `ShadowMemory`, `FlatShadow`

`SymExpr` says what the rest needs to know of expressions (a variable per input
byte, constants, and 32-bit zero extensions as `getc` returns them), and
defines memory regions. A wide expression is the sequence of its bytes.

`ShadowMemory` follows the code closely. `sm` is the map of shadow pages and
their content; memory that no page covers holds garbage, so that the clearing of
a new page matters. A call of the program (`sym_memcpy`, `sym_memmove`, `sym_memset`,
`strncpy`, `sym_write_memory`, ...) changes concrete memory and sets up a loop
`op`; `CopyStep`, `CopyBackwardStep` and `WriteStep` are the iterations of
`std::copy`, `std::copy_backward` and `std::fill`, each with the page creation
and the pointer refresh of the iterators' `++` and `--`. `op.cached` says
whether the read iterator holds a pointer. Calls for which `isConcrete` allows a
short cut have no loop. Since the runtime is called synchronously by a
single-threaded program, nothing else happens during a loop.

`FlatShadow` is the abstract specification: one map from addresses to
expressions that each call updates at once. `ShadowMemory` implements it under
the mapping that, during a loop, shows the map the call is going to leave
(`goal`, a history variable fixed when the call begins) and the pages' content
otherwise (`Flat`). The calls appear in both under the same name, so the
refinement says which update each call has to make.

Properties: `IndInv` (with the loop invariant), `ConcolicConsistency` (each symbolic
byte evaluates, under the input of this execution, to the byte in memory),
`RegisterConsistency` (the same for loaded values in both byte orders),
`PathConstraintsHold` (what `memcmp`, `bcmp` and `strchr` push is true),
`ShadowsAreBytes`, `LoopStepsWriteOneByte`, `ImplementsFlatShadow` and
`CallsReturn`.

### Libc wrappers for the input: `LibcInput`

The kernel's position of every descriptor is modelled next to the wrappers'
`inputFileDescriptor` and `inputOffset`, and so is the stream that may lie on top of
it: `streams` says which bytes it has read ahead of the program, as many as it likes, and
whether a character was pushed back into it that is not the one before it in the
file. `Position` is where the program's next byte comes from. The input is standard input (a
file or a pipe) or a file that is opened; `FileAt` says which file a path leads to,
and `NameIn` in which paths the name of the input occurs, since `maybeSetInputFile`
looks for it with `strstr`. A buffer holds values and expressions (offsets of
input bytes).

The wrappers do not get everything right, and the repository does not claim it. The
history variable `exact` turns FALSE when the program does one of the following, and the
properties are stated up to that point:

- it opens another file whose path contains the name of the input, or one that gets the
  number of the input's closed descriptor (`close` is not wrapped);
- it calls `read` or `lseek` while a stream on the same descriptor holds bytes;
- it pushes back another character than the one it has read, or rewinds a pipe;
- `fgets` meets the end of the file, a zero byte, or a stale expression at the
  terminator; `fread` reads an item partly;
- it maps the input with `mmap`, which gives all bytes the variable of the offset behind
  the mapping and moves `inputOffset`, or it makes an anonymous mapping (descriptor -1)
  while the wrappers have no descriptor yet, which passes for the input.

Properties: `OffsetIsPosition`, `ExactExpressionsMatch`, `OthersStayConcrete`. Failing calls change
nothing and are stuttering steps.

### Fuzzing helper: `FuzzingHelper`

One action per step of the main loop: `Start` (with the refusal of an existing
directory), `Pick`, `Run`, `ProcessTest` for each new test case, `Finish`. `copy_testcase` is two
steps, `CreateFile` and `FillFile`, because `fs::copy` creates the file under its final name and
then fills it; `partial` are the files in between. Wherever the
code says `?`, `expect`, `bail!` or `panic!`, there is an alternative that ends
the process (`Exit`) and leaves the files as they are, half-written ones included; `Restart` is the user
starting it again. The fuzzer (external) adds and removes files and imports the
helper's queue by ascending id, with the content that it finds. Coverage maps are sets of edges: the classified
hit counts of a map are bits, and `merge` is a bitwise or.

`NothingOverlooked` says what the fuzzer can count on: of every file whose id it has gone past
it has a copy, of the whole file or of what was there of it. It cannot count on more. A fuzzer that
imports between the two steps gets an empty or partial file and will not look at the id
again, so that the test case is lost to it; writing to a temporary name and renaming the
file would prevent this.

### Pure concolic execution: `PureConcolic`

One action per generation (`Generation`: import and switch) and per execution (`RunOn`). A
generated file is named by its hash; two files with one hash are one file.
`Occurs` is the relation "this name, taken for a regular expression, is found by grep in a line
with that name"; hashes all have the same length and occur only in themselves. A seed's name need not be
found in itself (`a[1]` is not); the names that are found are called `Plain`. The script notes a
file with another name, but never recognises it again and imports it into every generation, so it
runs the target on it without end. `RunsAtMostTwice` is therefore about plain names, and `ComesToRest` about
input directories that hold no others; `MaxRuns` is where the count of the other names' executions
stops. Not modelled are names that grep takes for an option (`-x`) and seeds that are named by
the hash of a test case.

### Instrumentation and calls: `Instrumentation`

The pass decides at compile time, from the entries of `symbolicExpressions`,
which code to emit, and the emitted code decides at run time, from null
pointers, what to compute. `Instrumentation` executes an arbitrary program: each
step is one instruction on any registers, with all the code that its visitor
emits and that `shortCircuitExpressionUses` wraps around it. A value carries its
compile-time status (`entry`: absent, null or dynamic) and its run-time
expression. Registers are SSA values of type i1, integer or pointer, or
floating point; the instructions themselves (what `add` computes) are constants
of the module. There is one action per visitor, plus calls from and to
functions that are not instrumented; `seen` are the flags `loop_seen` that SYMROS
adds to loop tests, one set per activation of a function.

An expression is its solver sort and its meaning, a function from possible
inputs to words. Three history fields of a value state what it should be: `den`,
its value had the program run on another input along the same path and accessed the same
memory; `opaque`, it comes from code the instrumentation does not see, or through a
pointer from there; `foreign`, it was given an
expression that was meant for something else. `alive` is the set of inputs that
take the present path and access the same cells on it, and `pushed` the set of those that satisfy the path
constraints.

Loads and stores go through a pointer that may be symbolic. The code reads or writes the one
cell of this execution and pushes no constraint on the address, because the calls of
`tryAlternative` in `visitLoadInst` and `visitStoreInst` are commented out (`Symbolizer.cpp` 717
and 732). Inputs for which the address is another one leave `alive` and are kept in
`hist.strayed`. So for `if (table[in])` the path constraints are those of one entry of the table:
other values of `in` may satisfy them and not take the path.

Properties: `ExpressionsMatch` (sort and present value), `ExpressionsExact`
(meaning for all other inputs on the path: short-circuiting and erased PHI nodes
lose nothing), `PathIsFeasible`, `PathIsDescribed` (the constraints are true of
all inputs in `alive`, and of no others but those that have strayed, unless a symbolic loop test was
passed over), `ForeignByCallback`. The constraints are those that the code hands
to the backend.

A function has one parameter. An address computation with several indices, or
an intrinsic, is one instruction with two operands. Comparisons of i1 values are for equality only (`EqualityOnly`): LLVM turns the others into logical
operations, and the builders of the order predicates would be given Booleans. Branches of a loop whose condition
can not be symbolic are ordinary branches: their flag makes no difference.
Conversions between i1 and floating point, for which the pass emits no
conversion of the sort, are left out.

### The runtime library around the instrumentation

Five modules share no state with each other. `MCRuntime` puts them
into one specification in which a behaviour chooses one of them and leaves the
others in their initial states; each property is about one module, so nothing
is lost by this, and the state spaces add up instead of multiplying.

`ExprBuilders` holds the builders that are algorithms of their own. A term is its
width and its value under the present input, the solver's functions are
operators on terms, and the derived builders are written on top of them as in
`RuntimeCommon.cpp`; their loops over bytes and fields are recursive functions. Powers of two are a recursive function
as well (`Pow2`), about which more can be proved than about `^`; `MCRuntime` assumes that the two agree. An action calls one builder on any arguments; `call` and `result`
are what it was asked and what it returned. `BuildersAreExact` compares with a
definition that is independent of the code: clamping of the mathematical result,
the bytes of an object in memory, the outcomes a floating-point predicate
accepts. The builders do not match it everywhere; `KnownDeviation` lists where,
and the property holds in all other cases:

- the limits of 64-bit integers: `(uint64_t)1 << 64` is undefined, and on
  processors that take the count modulo 64 the mask is 0;
- `_sym_build_ushl_sat` decides on signed overflow, so it saturates when it
  should not, and the other way round;
- `_sym_build_mul_overflow` of unsigned numbers looks at the topmost bit of the
  product only and misses smaller overflows;
- `buildOverflowResult` puts the flag of `{iN, i1}` into the last byte on
  big-endian machines, and byte-swaps an odd number of bytes (which asserts) on others;
- `_sym_build_float_ordered_not_equal` is true of NaN;
- the funnel shifts extract with the bounds of the bit range swapped, for which
  the solver returns an error.

Two things are excluded by `BuildersAssumption`. One is integers wider than `uint64_t` (i128, which
`createValueExpression` handles): the builders with limits compute them in a `uint64_t`, and for such integers
they would all deviate in the way of the first item. The other is fields of three or another odd number of bytes: a field of a struct that has more than one
byte has an even number of them, as those of the usual types do; `_sym_build_bswap` asserts it.

`NumericChecks` has the passes that SYMROS adds. `OverflowCheckerPass` instruments a
function, `ExecuteInt` and `ExecuteFP` execute one of its instructions, and each
`Check...` action is one block behind it: it pushes its condition as a path
constraint and goes on to the next (`Successor`). Undefined behaviour (division by zero, the
least integer divided by -1) may trap or give any value. The tolerance of the
integer checks is any integer, since `setSementicTolerance` assigns the threshold instead
and the member stays uninitialised; under the new pass manager no tolerance is set for
floating point either. `ChecksAreExact` says that the overflow checks are taken exactly if
there is an overflow, of the signed or the unsigned range; `ChecksAreTransparent`
that the checks neither stop the program (except for -1 times the least integer, where the
check of the multiplication divides the one by the other) nor are skipped (except
`min_bound_check` of integers, which no block leads to), and that the two selects by which the check of a
multiplication guards its divisions push what they have chosen (`selects`; a constant factor
folds one of them). The Symbolizer numbers the conditional branches, selects and switches of a
function in one sequence, the passes' own included: first those of the program, then eight branches and up to two selects
per integer operation, then those of the floating-point checks (`ID`, `NextID`). `SlotsIdentifyBranches` says that the
slot of a branch, its number plus a thousand per kind of check, decodes to that number and kind as long
as a function has at most a thousand numbers, and that without this two different places share a slot only
if their numbers are a thousand apart, or if both are loop tests. A division is checked
after it was executed, so the optimiser may drop the check of its divisor.

`PathConstraints` is `_sym_push_path_constraint_with_loc` of the simple backend. `scopes` is the
solver's stack, `pieces` the constraints that a string comparison (in
`symros_string.hpp`, external) has collected so far; each call is an action. A constraint is known by
its value under the present input. The vectors hold no reference to the
constraints they collect, which may therefore denote anything later unless the
program holds them too (`live`). `QueriesDescribeTheRun` is about what the log says to its reader: every query that is
logged is about one decision, the many scopes that unfinished comparisons leave
open hold nothing, and what is logged is true of the run with the right outcome.
For string comparisons the last part has two conditions: the constraints are
still referenced, and a size check was collected before: `string_taken` is
initially false, and a size check that is concrete neither sets it nor clears the vectors.
The logged constraint is the one that the branch has taken. Comments, README and tests of the repository
speak of the alternative instead, which this function does not ask for: finding 5.

`InputVariables` has the configuration, the functions that make memory symbolic,
and the two backends' `_sym_get_input_byte`: the vector of the simple backend, whose
variables are named after its length, and `inputs_` of the QSYM backend. `std::generate` calls
them for each byte of an object in turn; `VectorAfter` and `pushInputBytes` state the effect of
all these calls at once, `GetInputByte` and `pushInputByte` that of one. `MCRuntime` assumes
(`BytesInTurn`, which TLC evaluates) that they agree for small lengths, and two theorems say so for
all. `BytesHaveVariables`
says that two bytes share a variable only where the code makes them, which is
where `symcc_make_symbolic` and `symcc_make_symbolic_with_type` are both used (each
counts from 0), that a byte is without a variable only if a later byte of the
file was read before it, and that the recorded input is the one the program saw.

`ExpressionTable` models `registerExpression`, the registered regions and
`_sym_collect_garbage`. Client code holds bare pointers in cells; an address that the
QSYM backend frees may be used for another expression. The QSYM backend registers
every expression; of the leaves, the simple backend registers numbers and no input bytes, Booleans or
null pointers (`LeafRegistered`), and a builder of either may return an expression that exists already.
`sym_initialize` may find that no input is wanted (QSYM's initialisation is skipped) or that there is no
output directory (the process exits). The simple backend erases an expression from its table without giving its reference back, so it
frees nothing. `RootsStayValid`: a pointer that some root held at every
collection since it was obtained denotes the same expression still (in the QSYM backend, one that is in the
table), and a builder throws only if some pointer was not held. Operands are never null: the
instrumentation calls a builder only with expressions. The
expressions of arguments and return values are in no root: they are cells
that are never registered.

## Runs

| Run | Bounds | What it shows |
|---|---|---|
| `shadow_pages` | 4 addresses on pages of 2 bytes, regions of up to 3 bytes, input `<<1, 0>>`, symbolic fills | loops over regions that cross a page, overlap, and touch pages with and without shadow |
| `load_store` | the same memory, values of 1 and 2 bytes, other operations on single bytes | loads and stores in both byte orders, mixed with everything else |
| `fill_bytes` (violation) | as `shadow_pages` | finding 1 |
| `libc_input` | an input of 3 bytes with a newline, another file of 1 byte, paths to each with and without the input's name, 2 descriptors, a buffer of 2 bytes; `Tracking`, `OneInUse` | all sequences of calls up to the first one the wrappers do not support |
| `fuzzing_helper` | 3 files (one without an id in its name), 1 edge, up to 2 test cases from one file and 1 from the others | all interleavings with the fuzzer (between creating and filling a file, too), all failures, restarts |
| `pure_concolic` | 3 seeds (one whose name is part of a hash, one not found in itself), 2 contents, up to 2 test cases per execution | all outputs, failures and late seeds |
| `pure_concolic_seeds` (violation) | the same, without the seed that is not found in itself | finding 2 |
| `instrumentation` | 4 registers of 3 types, 2 cells that depend on the input, words of 1 bit, which are the addresses as well, 2 inputs, calls of depth 2, executions of 5 instructions; at most 2 registers in use at a time (`FewBusy`; a suspended function with any in use counts as one, and so does memory that was overwritten) | all programs of this size |
| `callback_result` (violation) | the same | finding 3 |
| `loop_tests` (violation) | the same | finding 4 |
| `runtime_library` | bytes of 2 bits, a `uint64_t` of 4 bits, integers of 2 and 4 bits, structs with a gap and with padding; `Half` = 4 (3-bit integers), `Stride` = 10, infinity at rank 5; 3 pieces, 4 scopes, lines up to 25; a file of 3 bytes, calls of up to 2; 3 addresses, 2 places in the program and 1 in shadow memory, 3 expressions | the five modules of the runtime library, each in all orders of its calls |
| `queries` (violation) | the same | finding 5 |

The bounds are enough for the cases that matter: two pages make a region that
crosses a boundary and one that ends on it; regions of two bytes overlap by one;
two input bytes of different value tell byte orders and offsets apart; three
files of different scores with at most two test cases let ids, maps and
statistics grow while others wait. Coverage grows from nothing to an empty map and to one edge, and what
more edges could do is in the theorems. The set of files is finite, so `InputsAreProcessed` does not
speak of a fuzzer that keeps adding files with better scores: those may keep a file waiting for ever. A byte has two values, because only equality
with zero and with each other matters. In `Instrumentation` two inputs are
enough because every property speaks of the present input and one other at a
time, and five instructions suffice for a load, a call, two decisions and a
use; nothing about the length of executions is left open, since the theorems
below hold for all of them. In `runtime_library` integers of one and of two bytes, the larger as wide as
`uint64_t`, meet every case of the builders that depends on a width; all operands are
tried, so the limits of the range are among them. Functions with up to 21 numbers
exceed a `Stride` of 10, so that slots do collide. Three
pieces complete a comparison in two ways and leave others unfinished. Three
expressions suffice to free one, use its address again and then the old
pointer. Addresses, and the cells outside of shadow memory, are symmetric. The
program may stop there (a trap, an exception), so deadlock is not checked. The constraint `Tracking` of
`LibcInput` stops at states with `exact = FALSE`, which are still checked; `OneInUse` leaves out programs that have
something in the buffer and a character in hand at once. The theorems have neither bound.

Each property of a passing run is accompanied by a mutant, a plausible mistake in the
code (an uncleared page, a copy in the wrong direction, an id that is not
advanced, ...), under which TLC finds it violated. The operators are called `Mutant...`
and stand right before the definition they replace.

### Fairness

`ShadowMemory`: weak fairness of the loop steps, since the runtime runs to
completion once it is called. `FuzzingHelper`: weak fairness of the loop's
actions; SymCC runs under `timeout -k 5` and afl-showmap with `-t 5000`, so neither blocks
the helper. Failures, restarts and the fuzzer are not fair. `PureConcolic`: weak fairness
of the loop's two steps; the target runs under `timeout`. The other modules
need none: they state what holds after any sequence of calls, and every call of the library returns in one step.

### Findings

1. `memset` with a symbolic character stores a 32-bit expression in the shadow
   of bytes, against the assertion in `Shadow.h` ("Shadow memory always
   represents bytes"). A load of such a byte then has the wrong width.
2. `pure_concolic_execution.sh` never imports a seed whose name is a part of an
   analysed name.
3. The result of an uninstrumented function that has called back into
   instrumented code (`qsort`, for example) gets the expression that the last
   callback returned. `handleFunctionCall` clears the return expression before
   the call, so that the result is "an opaque concrete value", but not after
   the callbacks. Parameters of a callback likewise get expressions meant for
   the uninstrumented function.
4. A loop test is pushed once per activation of its function, and the flag is
   set even if that evaluation was concrete. `test/loop.c` expects five
   alternative inputs from one loop.
5. The simple backend asserts, logs and drops the constraint that a branch has taken. It
   never asks the solver for the alternative, as a comment in the function, the README of the repository
   and the tests of the simple backend have it ("Found diverging input").

Other places where the code does less than one might expect are part of the models, and the
properties are stated around them: `mmap`, `strstr` and mixed calls in `LibcInput` (`exact`), files that the fuzzer imports
half-written in `FuzzingHelper` (`partial`), names that are no plain regular expressions in `PureConcolic`
(`Plain`), addresses in `Instrumentation` (`hist.strayed`), and the deviations of the builders in `ExprBuilders`
(`KnownDeviation`).

## Proofs

TLAPS proves the following for all values of the constants.

`ShadowMemoryProofs`: `Invariance` (`IndInv` and `PathConstraintsHold`), from
which `TypeCorrect`, `Consistency` and `PushedConstraintsHold` follow, and `Refinement` (`Spec =>
ImplementsFlatShadow`), for every input, page size and memory size. The assumptions
are those on the constants in `SymExpr` and `ShadowMemory`: sizes are natural
numbers, a page is not empty, the input is a function from offsets to bytes.
`ConcolicConsistency` alone is not inductive: in the middle of a loop the shadow
is neither the old nor the new one. The invariant therefore speaks of `goal`,
which agrees with memory at all times, and `LoopInvariant` ties the pages to
it: outside of the bytes still to be written they agree, and a copy will still find
each pending expression at its source. The last part is where the overlap and the cached
null pointer come in (`IterView`): a page that the loop itself creates under its
read iterator is invisible to it, and holds nothing that it should see. The
direction of the copy keeps the write iterator away from what is still to be
read. The proof has one lemma per action; facts about `getOrCreateShadow`,
`Copied`, `Written` and `isConcrete` are lemmas of their own. `RegistersAgree` is a part
of `IndInv`. `OneByteAtATime` (the action property `LoopStepsWriteOneByte`) says of every
action that it keeps what a reader sees (`Kept`) or stores one expression (`Wrote`).
`OnlyBytesAreStored` proves `ShadowsAreBytes` if `SymbolicFill` is FALSE, that is, for programs
that never pass a symbolic int to `memset`; finding 1 shows that the condition is needed. Its
invariant `BytesInv` adds that the loop in progress writes bytes and that the last loaded value
consists of bytes.

`LibcInputProofs`: `LibcTypes`, `OffsetIsRight`, `ExpressionsAreRight` and the action
property `OthersAreConcrete`, for any files and paths, any number of descriptors, any read-ahead and any length of the
buffer. The assumptions are that descriptors are natural numbers and that a file is a finite
sequence of bytes. `OffsetIsPosition` and `ExactExpressionsMatch` are inductive together with
the types and with `StreamInStep` (`LibcInv`): an expression is made from the offset, so the one needs the other;
the position has to be within the file for the bytes that are read to exist; and what a stream holds has to
end where the kernel goes on, or the bytes behind it would be others than the wrappers count. `Stepped` and
`Aligned` describe how a call moves kernel and stream, `TakeSteps` and `SeekSteps` that the stream's functions keep them
aligned. The proof
has shown that `inputOffset` is a natural number only while `exact` holds: once the wrappers have lost
track, `ungetc` may take it below 0 (in the code, a `uint64_t`, it wraps). `TypeOK` says so; a run
does not go on after that point and could not tell.

`FuzzingHelperProofs`: `RunOnce` (`InputsRunOnce`), `HelperTypes`, `CoverageIsWitnessed`,
`QueueIsNew`, `FuzzerOverlooksNothing`, `CrashesReachTheQueue`, `StatisticsAreRight` and the action
property `FilesAreKept`, for any finite set of files, any edges, any behaviour of the fuzzer and any
number of failures and restarts. The invariant for `RunOnce`, `HelperInv`, adds that a running
helper has its directory, that nothing was run before the directory existed, and that a
file outside of `processed_files` has been run only if it is the current one. The others rest on
`FilesInv`. Its part `DiskInv` is about the files alone and survives the end of the process: ids are
bounded, a helper without a directory has left nothing, the fuzzer has imported all it has
passed, whole or in part, and every map adds coverage. Its part `LoopInv` is about the running process: the next
ids are above those in use and not below what the fuzzer has seen but for the file that is being filled (`IdsInv`), the bitmap is the union of
the maps in the queue and of the one that is being copied, crashes and their copies are equally many (`CopyInv`), and
the statistics count (`StatsInv`). If copying a test case fails, its coverage is merged into the bitmap already
and nothing witnesses it; the process ends there, so what `LoopInv` says is over and
`DiskInv` is what a restart finds, which is why they are separate.
`Added` is what `copy_testcase` does to a directory; `AddedIsDir` and `AddedMap` say what follows for
ids, sizes and coverage. `Max` is pinned down by the well-foundedness of the natural numbers.

`PureConcolicProofs`: `ScriptTypes`, `AtMostTwice` and `NoTestcaseLost`. A pending plain name has
been run at most once, and one that is not in `analyzed_inputs` never.

`InstrumentationProofs`: `Invariance` (`IndInv`), from which the five properties of
`Instrumentation` follow, for all sets of words, inputs, registers and
instructions and all lengths of executions. The assumptions say that the constants have their types.
The properties are not inductive alone. A null expression is right only if
the value is the same on all live inputs (`Exact`), the unchecked use of the
only input of unknown concreteness is right only because an entry that is absent
or null has no expression (first conjunct of `Sane`), and an uninstrumented
function returns null only because before the first callback no frame but
the caller's can be on top of the stack (last conjunct of `IndInv`). `OperandRight`
shows that the slow path uses a right expression for each operand, `BuildRight`
and `OneRight` lift it to builders and conversions, `ConcreteGood` and `CallGood`
to results. `AccessKeeps` is what loads and stores have in common: this execution never strays, so it stays in
`alive`, and what leaves `alive` is in `hist.strayed`. `AssignKeeps`, `ControlKeeps` and `FunctionKeeps` are the three
shapes of a step; `SaneIn` restates `Sane` with the state it depends on as
parameters, so that narrowing `alive` is one lemma.

`NumericChecksProofs`: `ChecksAreExactAlways`, `ChecksAreTransparentAlways` and
`SlotsIdentifyBranchesAlways`, for every `Half` (2^31 in the code), every `Stride` (1000 in the
code), all thresholds and tolerances and all functions, of any length. `NumericInv` says how far the
checks of an instruction have got: the blocks behind it form one path (`Path`), the pushed
conditions are those of a prefix of it, and each of them is right (`Right`) for the operands. The
arithmetic is in lemmas: `RemainderIs` and `WrapNear` reduce the machine's sums and
differences to case distinctions; the product needs the quotient that
the check computes to give the factor back exactly if the product is in range. For the
slots, `BeforeCounts`, `IntNumbersCount` and `IDsDiffer` show that `ID` numbers the branches, selects and switches of a function
injectively and below `NextID`, and `SlotIs` splits a slot into that number and the kind of check.

`BackendProofs`, the path constraints: `QueriesDescribeTheRunAlways`, for any number of scopes,
collected constraints and lines. The invariant `PathInv` adds that all scopes are empty
between calls, that a collected pair is a constraint and its negation, and that
`string_taken` is the conjunction of the collected equalities once a size check has
set it; without the last part the outcome that is logged with a comparison could not be tied
to its pieces.

`BackendProofs`, the input variables: `BytesHaveVariablesAlways`, for inputs and objects of any
length and any order of reads. `VariablesInv` ties the symbolic bytes to the vectors (`Held`),
says that the names in a vector ascend and never exceed their place (`Ascending`), that a place with
another name than its own has a witness (`Explained`), and that file and memory input never mix
(`Source`), since `loadConfig` decides once: the bytes of a file have the values of the file
however often they are read, and the functions for memory input never skip a place.
`ObjectsInTurn` and `RecordedInTurn` justify that a call is one step: if the backend's function is
called for each byte of an object in turn, what is left in the end is `VectorAfter` and
`pushInputBytes`, by induction over the length of the object.

`BackendProofs`, the garbage collection: `RootsStayValidAlways`, for any addresses, cells and
number of expressions. `TableInv` adds that the operands of every expression, and
everything in the table, are allocated, and that outside of the QSYM backend no
pointer ever becomes invalid. The heart is `CollectRight`: what a collection
leaves is closed under operands (`OwnedClosed`), so that a pointer outside of
`stale` keeps its expression, and an address is given out again only if
no such pointer leads to it.

`ExprBuildersProofs`: `BuildersAreExactAlways`, for integers of every width up to that of `uint64_t`,
whatever that is, for every size of a byte, every struct and all values. The assumptions are that a
width is positive and at most `HostBits`, that the fields of a struct ascend, do not overlap and lie within it,
and that a field of more than one byte has an even number of them, which `_sym_build_bswap` asserts. The
property is an invariant of single calls, so it needs no strengthening; the work is in what a
call computes. It goes in four layers.

1. `Induction`: a set of natural numbers that holds 0 and each successor is all of them, since `WFMin` gives
   the rest a least element. It takes a set where the library's induction theorems take an
   operator, and is therefore usable here; sets of the form "all n for which ..." stand for the
   statements. `Pow2Defined` and `LoopExists` show with it that the recursive functions
   are what they say, which TLA+ does not give for free (a recursive function is a `CHOOSE`), and
   `Pow2Sum` that powers add up.
2. Numbers of w bits: `IntegerSame` and `IntegerEqual` (constants are equal if the numbers differ by a
   multiple of 2^w), from which `IntegerArithmetic`, `SignedIs`, `BitIs` and the limits
   (`LimitsAre`) follow. Then one lemma per builder: `SignedAddAndSub`, `UnsignedAdd`, `UnsignedSub`,
   `SignedShift`, `UnsignedShift`, `AbsoluteValue`, and for the flag of an overflow `OneMoreBit` and
   `TwiceTheBits`. Each has the negation of a known deviation as a hypothesis exactly where
   the code deviates.
3. Bytes: `Holds(t, n, f)` says that a term consists of the bytes f[0] to f[n - 1]. Concatenation,
   extraction in both orders, byte swap, zero bytes and insertion are shown to hold what they should
   (`ConcatHolds`, `RangeHolds`, `ReversedHolds`, `SwapHolds`, `ZerosHold`, `InsertHolds`), and a
   term is determined by its bytes (`HoldsUnique`).
4. Structs: `StructHolds` is an induction over the fields that `createValueExpression` has appended;
   `ExtractedIs` and `InsertedHolds` are about `extractvalue` and `insertvalue` on its result.

Only model-checked: liveness (`CallsReturn`, `InputsAreProcessed`,
`ComesToRest`, `DistinctSeedsAreAnalysed`), which is out of the prover's reach. All other
properties of the passing runs are theorems.

## Not modelled

- QSYM itself: a submodule that is not part of the repository, with everything
  the QSYM backend hands to it (expression builders, path constraints, the
  test-case handler).
- Pass registration, loop unrolling and declarations of runtime functions: no
  behaviour over time. Of the configuration, everything that does not decide
  the kind of input.
- Floating-point arithmetic and conversions between floating point and
  integers: out of TLC's reach. The comparisons and the checks need only the
  order of the numbers.
- Builders that no code calls (`_sym_build_..._int`), and the code behind the
  unconditional return of `_sym_push_path_constraint`.
- Exceptions, the notifications of calls and blocks with the hashes the simple
  backend logs for them, and the lowering of inline assembly.
- `malloc`, `calloc` and `ntohl`, and `tryAlternative`, which the wrappers call and the instrumentation
  does not: they hand one equation to the backend, or swap bytes, and keep no state.
- `_sym_push_path_constraint`, which `memcmp` and `strchr` call, does nothing in
  the simple backend; `PathConstraintsHold` is about what they hand to it.
- Logging, wording of messages, solver times.

## Plan

Done: shadow memory with its abstract specification, the wrappers for memory and
for the input, the two drivers, the instrumentation with calls, and the runtime
library around it (builders, numeric checks, path constraints, input variables,
tables of expressions), each with proofs of all its safety properties. What would come next: the
expressions of floating-point bits and of conversions between i1 and floating point in
`Instrumentation`, and a backend module next to QSYM once its source is at hand.
