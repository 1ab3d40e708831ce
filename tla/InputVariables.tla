---------------------------- MODULE InputVariables ----------------------------
(***************************************************************************)
(* Where input variables come from: the configuration, the functions that      *)
(* make memory symbolic, and the two backends' _sym_get_input_byte.  The        *)
(* simple backend keeps the variables it has made in a vector and names them    *)
(* after its length; the QSYM backend names them after the offset and records   *)
(* the concrete byte.                                                         *)
(***************************************************************************)
EXTENDS Integers, Sequences

CONSTANTS Byte,    \* the values of a byte
          File,    \* the input file: a sequence of bytes
          MaxLen   \* bound: the bytes one call makes symbolic

ASSUME InputAssumption == File \in Seq(Byte) /\ MaxLen \in Nat \ {0}

\* Bound: memory input is as long as the file at most.
MaxOffset == Len(File)

\* The ways into _sym_get_input_byte: the libc wrappers with a position in the
\* file, and the three functions for memory input.
Interface == {"file", "plain", "typed", "prefix"}

VARIABLES input,      \* g_config.input
          bytes,      \* the two vectors of variables, by name
          inputs,     \* inputs_ of the QSYM solver: the recorded input
          offset,     \* the static inputOffset of each function
          symbolic    \* the bytes that are symbolic now

inputVars == <<input, bytes, inputs, offset, symbolic>>

NoVariable == -1
Flag == {"unset", "on", "off", "other"}

InputInit ==
  /\ input = "unknown"
  /\ bytes = [v \in {"stdin", "prefix"} |-> << >>]
  /\ inputs = << >>
  /\ offset = [i \in Interface |-> 0]
  /\ symbolic = {}

\* loadConfig: a flag that is neither yes nor no, or two kinds of input at once,
\* end the program; SYMCC_NO_SYMBOLIC_INPUT overrules both.
LoadConfig ==
  \E file \in BOOLEAN, memory, none \in Flag :
    LET Bad == memory = "other" \/ (memory = "on" /\ file) \/ none = "other"
    IN /\ input = "unknown"
       /\ input' = CASE Bad -> "thrown"
                     [] ~Bad /\ none = "on" -> "none"
                     [] ~Bad /\ none # "on" /\ memory = "on" -> "memory"
                     [] ~Bad /\ none # "on" /\ memory # "on" ->
                          IF file THEN "file" ELSE "stdin"
       /\ UNCHANGED <<bytes, inputs, offset, symbolic>>

\* _sym_get_input_byte of the simple backend on its vector: beyond the end, the
\* variable has the name of the first free place and the places that are skipped
\* are null.  A name is the number in it.
GetInputByte(vec, off) ==
  IF off < Len(vec) THEN vec
  ELSE Append([i \in 1..off |-> IF i <= Len(vec) THEN vec[i] ELSE NoVariable],
              Len(vec))

\* EnhancedQsymSolver::pushInputByte: resize fills up with 0.
pushInputByte(ins, off, value) ==
  [i \in 1..(IF Len(ins) <= off THEN off + 1 ELSE Len(ins)) |->
     IF i = off + 1 THEN value ELSE IF i <= Len(ins) THEN ins[i] ELSE 0]

Longer(vec, n) == IF Len(vec) < n THEN n ELSE Len(vec)

\* std::generate calls them for each byte of an object in turn.  What is left in
\* the end, for the offsets from first to first + n - 1: only the first of them can
\* skip places, and each further variable has the name of its own place.
VectorAfter(vec, first, n) ==
  [i \in 1..Longer(vec, first + n) |->
     CASE i <= Len(vec) -> vec[i]
       [] i > Len(vec) /\ i <= first -> NoVariable
       [] i > Len(vec) /\ i = first + 1 -> Len(vec)
       [] i > Len(vec) /\ i > first + 1 -> i - 1]

\* The same for the recorded input.
pushInputBytes(ins, first, values) ==
  [i \in 1..Longer(ins, first + Len(values)) |->
     CASE i > first /\ i <= first + Len(values) -> values[i - first]
       [] i <= first /\ i > Len(ins) -> 0
       [] ~(i > first /\ i <= first + Len(values)) /\ i <= Len(ins) -> ins[i]]

\* The vector that a function keeps its variables in.
VectorOf(via) == IF via = "prefix" THEN "prefix" ELSE "stdin"

\* _sym_make_symbolic and its variants: the bytes of an object from `first` on,
\* one variable each.
MakeSymbolic(via, first, values) ==
  LET vec == VectorOf(via)
      after == VectorAfter(bytes[vec], first, Len(values))
  IN /\ bytes' = [bytes EXCEPT ![vec] = after]
     /\ inputs' = pushInputBytes(inputs, first, values)
     /\ symbolic' = symbolic \cup
          {[via |-> via, off |-> first + i - 1, value |-> values[i],
            var |-> after[first + i], in |-> vec] : i \in DOMAIN values}

Values == UNION {[1..n -> Byte] : n \in 1..MaxLen}

\* A wrapper reads the input wherever its position is; the file stays the same.
ReadFile ==
  \E first \in 0..(MaxOffset - 1), n \in 1..MaxLen :
    /\ input \in {"file", "stdin"} /\ first + n <= MaxOffset
    /\ MakeSymbolic("file", first,
                    SubSeq(File, first + 1, first + n))
    /\ UNCHANGED <<input, offset>>

\* Mutant: the position advances by one, whatever the length.
MutantMakeSymbolic(via) ==
  \E values \in Values :
    /\ input = "memory" /\ offset[via] + Len(values) <= MaxOffset
    /\ MakeSymbolic(via, offset[via], values)
    /\ offset' = [offset EXCEPT ![via] = @ + 1]
    /\ UNCHANGED input

\* symcc_make_symbolic, _with_type and _with_prefix: each counts on its own.
symcc_make_symbolic(via) ==
  \E values \in Values :
    /\ input = "memory" /\ offset[via] + Len(values) <= MaxOffset
    /\ MakeSymbolic(via, offset[via], values)
    /\ offset' = [offset EXCEPT ![via] = @ + Len(values)]
    /\ UNCHANGED input

\* They throw if the configuration has another kind of input.
MakeSymbolicThrows ==
  /\ input \in {"file", "stdin", "none"}
  /\ input' = "thrown"
  /\ UNCHANGED <<bytes, inputs, offset, symbolic>>

InputNext ==
  \/ LoadConfig
  \/ ReadFile
  \/ symcc_make_symbolic("plain")
  \/ symcc_make_symbolic("typed")
  \/ symcc_make_symbolic("prefix")
  \/ MakeSymbolicThrows

-------------------------------------------------------------------------------
\* Each symbolic byte has a variable of its own, and the recorded input is the
\* one the program has seen.  In the simple backend two bytes share a variable
\* only if they are the same byte of the file or were made symbolic through
\* symcc_make_symbolic and symcc_make_symbolic_with_type, which count alike;
\* a byte is without a variable only if a later one of the file was read before
\* it, and no variable has a number above its offset.  In the QSYM backend all of
\* this holds as long as a single function makes memory symbolic.
\* (_sym_get_input_byte, pushInputByte, symcc_make_symbolic...)
BytesHaveVariables ==
  /\ \A s, t \in symbolic :
       s # t /\ s.in = t.in /\ s.var = t.var /\ s.var # NoVariable =>
         {s.via, t.via} = {"plain", "typed"} /\ s.off = t.off
  /\ \A s \in symbolic :
       /\ s.var <= s.off
       /\ s.via # "file" => s.var = s.off
       /\ s.var # s.off => \E t \in symbolic : t.off >= s.off /\ t.var # NoVariable
                             /\ t.var < t.off
  /\ (\A s, t \in symbolic : s.via = t.via) =>
       \A s \in symbolic : inputs[s.off + 1] = s.value
  /\ \A s \in symbolic : s.off < Len(inputs)
==============================================================================
