----------------------------- MODULE ExprBuilders -----------------------------
(***************************************************************************)
(* The expression builders that are algorithms of their own: saturating      *)
(* arithmetic, arithmetic with overflow, aggregates, byte swaps, funnel      *)
(* shifts (RuntimeCommon.cpp, createValueExpression) and the floating-point  *)
(* comparisons (the simple backend), on top of the solver's bit-vector       *)
(* functions.                                                                *)
(*                                                                         *)
(* A term is its width and the value it has under the input of the           *)
(* execution, a Boolean term is its truth value.  The sizes are scaled: a    *)
(* byte has ByteBits bits, and uint64_t has HostBits.                        *)
(***************************************************************************)
EXTENDS Integers, Sequences

CONSTANTS ByteBits,  \* 8 in the code
          HostBits,  \* 64 in the code: the width of uint64_t
          Width,     \* the widths of integers in the program
          Layout,    \* struct types: their size and their fields
          Finite,    \* the floating-point values other than NaN
          NaN

ASSUME BuildersAssumption ==
  /\ ByteBits \in Nat \ {0}
  /\ HostBits \in Nat /\ Width \subseteq 1..HostBits
  /\ Layout \subseteq [size : Nat, fields : Seq([off : Nat, size : Nat \ {0}])]
  /\ \A l \in Layout : \A i \in DOMAIN l.fields :
       /\ l.fields[i].size = 1 \/ l.fields[i].size % 2 = 0  \* bswap asserts it
       /\ l.fields[i].off + l.fields[i].size <= l.size
       /\ \A j \in DOMAIN l.fields : i < j =>
            l.fields[i].off + l.fields[i].size <= l.fields[j].off
  /\ Finite \subseteq Int /\ NaN \notin Finite

VARIABLES call,    \* the builder that has been called last, and its arguments
          result   \* what it has returned

builderVars == <<call, result>>

\* The null pointer, as the solver returns it after an error, and the end of
\* the program in a failed assertion.
NoTerm == [w |-> 0, v |-> 0]
Abort == [w |-> 0, v |-> 1]

\* Powers of two.
Pow2[n \in Nat] == IF n = 0 THEN 1 ELSE 2 * Pow2[n - 1]

-------------------------------------------------------------------------------
(* The functions of the solver, one builder each.                             *)

sym_build_integer(v, w) == [w |-> w, v |-> v % Pow2[w]]

Signed(t) == IF t.v >= Pow2[t.w - 1] THEN t.v - Pow2[t.w] ELSE t.v

sym_build_add(a, b) == sym_build_integer(a.v + b.v, a.w)
sym_build_sub(a, b) == sym_build_integer(a.v - b.v, a.w)
sym_build_mul(a, b) == sym_build_integer(a.v * b.v, a.w)

sym_build_unsigned_rem(a, b) ==
  IF b.v = 0 THEN a ELSE sym_build_integer(a.v % b.v, a.w)

sym_build_shift_left(a, b) ==
  sym_build_integer(IF b.v >= a.w THEN 0 ELSE a.v * Pow2[b.v], a.w)
sym_build_logical_shift_right(a, b) ==
  sym_build_integer(IF b.v >= a.w THEN 0 ELSE a.v \div Pow2[b.v], a.w)
\* \div rounds down, which is what shifting in copies of the sign does.
sym_build_arithmetic_shift_right(a, b) ==
  sym_build_integer(Signed(a) \div Pow2[IF b.v >= a.w THEN a.w ELSE b.v], a.w)

sym_build_signed_less_equal(a, b) == Signed(a) <= Signed(b)
sym_build_signed_greater_equal(a, b) == Signed(a) >= Signed(b)
sym_build_unsigned_greater_equal(a, b) == a.v >= b.v
sym_build_equal(a, b) == a = b
sym_build_not_equal(a, b) == ~(a = b)
sym_build_ite(c, a, b) == IF c THEN a ELSE b

sym_build_sext(a, n) == sym_build_integer(Signed(a), a.w + n)
sym_build_zext(a, n) == sym_build_integer(a.v, a.w + n)
sym_build_bool_to_bit(c) ==
  sym_build_ite(c, sym_build_integer(1, 1), sym_build_integer(0, 1))
sym_build_bit_to_bool(t) == sym_build_not_equal(t, sym_build_integer(0, t.w))

sym_concat_helper(a, b) == [w |-> a.w + b.w, v |-> a.v * Pow2[b.w] + b.v]

\* Bits first down to last.  The solver reports an error, and the builder
\* returns null, if there are none.
sym_extract_helper(t, first, last) ==
  IF first < last \/ first >= t.w THEN NoTerm
  ELSE sym_build_integer(t.v \div Pow2[last], (first - last) + 1)

-------------------------------------------------------------------------------
(* Bytes: the first byte of memory is the most significant one of a term.     *)

\* The n bytes of t from byte i on.
ByteRange(t, i, n) ==
  sym_extract_helper(t, t.w - i * ByteBits - 1, t.w - (i + n) * ByteBits)

sym_build_extract(t, offset, length, le) ==
  LET reversed[i \in 0..(length - 1)] ==
        IF i = 0 THEN ByteRange(t, offset, 1)
        ELSE sym_concat_helper(ByteRange(t, offset + i, 1), reversed[i - 1])
  IN IF le THEN reversed[length - 1] ELSE ByteRange(t, offset, length)

\* bswap reverses the bytes of an even number of them.
BswapApplies(t) == t.w % (2 * ByteBits) = 0
sym_build_bswap(t) == sym_build_extract(t, 0, t.w \div ByteBits, TRUE)

\* Mutant: the piece after the inserted one starts where that one does.
MutantInsert(target, t, offset, le) ==
  LET bytes == t.w \div ByteBits
      after == (target.w \div ByteBits) - offset - bytes
      piece == IF le /\ t.w > ByteBits THEN sym_build_bswap(t) ELSE t
      front == IF offset = 0 THEN piece
               ELSE sym_concat_helper(
                      sym_build_extract(target, 0, offset, FALSE), piece)
  IN IF after = 0 THEN front
     ELSE sym_concat_helper(front,
            sym_build_extract(target, offset, after, FALSE))

sym_build_insert(target, t, offset, le) ==
  LET bytes == t.w \div ByteBits
      after == (target.w \div ByteBits) - offset - bytes
      piece == IF le /\ t.w > ByteBits THEN sym_build_bswap(t) ELSE t
      front == IF offset = 0 THEN piece
               ELSE sym_concat_helper(
                      sym_build_extract(target, 0, offset, FALSE), piece)
  IN IF after = 0 THEN front
     ELSE sym_concat_helper(front,
            sym_build_extract(target, offset + bytes, after, FALSE))

sym_build_zero_bytes(n) ==
  LET zero == sym_build_integer(0, ByteBits)
      zeros[i \in 0..(n - 1)] ==
        IF i = 0 THEN zero ELSE sym_concat_helper(zeros[i - 1], zero)
  IN zeros[n - 1]

\* createValueExpression for a struct in a register: its fields in the order of
\* memory, with zeros in the gaps between them and at the end.
createStructExpression(layout, values, le) ==
  LET Appended(e, t) == IF e = NoTerm THEN t ELSE sym_concat_helper(e, t)
      Padded(e, n) == IF n > 0 THEN Appended(e, sym_build_zero_bytes(n)) ELSE e
      Field(i) == sym_build_integer(values[i], layout.fields[i].size * ByteBits)
      InMemory(i) == IF le /\ layout.fields[i].size > 1
                     THEN sym_build_bswap(Field(i)) ELSE Field(i)
      built[i \in 0..Len(layout.fields)] ==
        IF i = 0 THEN [e |-> NoTerm, off |-> 0]
        ELSE [e   |-> Appended(Padded(built[i - 1].e,
                                      layout.fields[i].off - built[i - 1].off),
                               InMemory(i)),
              off |-> layout.fields[i].off + layout.fields[i].size]
      all == built[Len(layout.fields)]
  IN Padded(all.e, layout.size - all.off)

visitExtractValueInst(t, field, le) ==
  sym_build_extract(t, field.off, field.size, le)
visitInsertValueInst(t, new, field, le) ==
  sym_build_insert(t, sym_build_integer(new, field.size * ByteBits),
                   field.off, le)
-------------------------------------------------------------------------------
(* Saturating arithmetic.                                                     *)

\* (uint64_t)1 << w.  Shifting by the width of the type is undefined: the build
\* may produce `one`, which is 0 or, on a processor that takes the count modulo
\* the width, 1.
ShiftedOne(w, one) == IF w < HostBits THEN Pow2[w] ELSE one
Mask(w, one) == (ShiftedOne(w, one) - 1) % Pow2[HostBits]

buildMinSignedInt(w) == sym_build_integer(Pow2[w - 1], w)
buildMaxSignedInt(w, one) == sym_build_integer(Mask(w, one) \div 2, w)
buildMaxUnsignedInt(w, one) == sym_build_integer(Mask(w, one), w)

\* The common part of sadd_sat and ssub_sat: `wide` is the exact result.
SignedSaturated(wide, narrow, one) ==
  LET min == buildMinSignedInt(narrow.w)
      max == buildMaxSignedInt(narrow.w, one)
  IN sym_build_ite(sym_build_signed_less_equal(wide, sym_build_sext(min, 1)),
       min,
       sym_build_ite(
         sym_build_signed_greater_equal(wide, sym_build_sext(max, 1)),
         max, narrow))

sym_build_sadd_sat(a, b, one) ==
  SignedSaturated(sym_build_add(sym_build_sext(a, 1), sym_build_sext(b, 1)),
                  sym_build_add(a, b), one)

sym_build_ssub_sat(a, b, one) ==
  SignedSaturated(sym_build_sub(sym_build_sext(a, 1), sym_build_sext(b, 1)),
                  sym_build_sub(a, b), one)

sym_build_uadd_sat(a, b, one) ==
  LET wide == sym_build_add(sym_build_zext(a, 1), sym_build_zext(b, 1))
  IN sym_build_ite(sym_build_bit_to_bool(sym_extract_helper(wide, a.w, a.w)),
                   buildMaxUnsignedInt(a.w, one), sym_build_add(a, b))

sym_build_usub_sat(a, b) ==
  sym_build_ite(sym_build_unsigned_greater_equal(a, b), sym_build_sub(a, b),
                sym_build_integer(0, a.w))

sym_build_shift_left_overflow(a, b) ==
  sym_build_not_equal(
    sym_build_arithmetic_shift_right(sym_build_shift_left(a, b), b), a)

sym_build_sshl_sat(a, b, one) ==
  sym_build_ite(sym_build_shift_left_overflow(a, b),
    sym_build_ite(
      sym_build_bit_to_bool(sym_extract_helper(a, a.w - 1, a.w - 1)),
      buildMinSignedInt(a.w), buildMaxSignedInt(a.w, one)),
    sym_build_shift_left(a, b))

sym_build_ushl_sat(a, b, one) ==
  sym_build_ite(sym_build_shift_left_overflow(a, b),
                buildMaxUnsignedInt(a.w, one), sym_build_shift_left(a, b))

sym_build_abs(a) ==
  sym_build_ite(sym_build_signed_greater_equal(a, sym_build_integer(0, a.w)),
                a, sym_build_sub(sym_build_integer(0, a.w), a))

FunnelAmount(c) == sym_build_unsigned_rem(c, sym_build_integer(c.w, c.w))

\* The result is cut out with the bounds the wrong way round.
sym_build_funnel_shift_left(a, b, c) ==
  sym_extract_helper(sym_build_shift_left(sym_concat_helper(a, b),
                                          FunnelAmount(c)), 0, c.w)
sym_build_funnel_shift_right(a, b, c) ==
  sym_extract_helper(sym_build_logical_shift_right(sym_concat_helper(a, b),
                                                   FunnelAmount(c)), 0, c.w)

-------------------------------------------------------------------------------
(* Arithmetic with overflow: {iN, i1} as it lies in memory.                   *)

buildOverflowResult(t, overflow, le) ==
  LET inMemory == IF le THEN sym_build_bswap(t) ELSE t
      flag == sym_build_zext(sym_build_bool_to_bit(overflow), ByteBits - 1)
      padding == sym_build_zero_bytes((t.w \div ByteBits) - 1)
  IN sym_concat_helper(inMemory,
       CASE t.w = ByteBits        -> flag
         [] t.w # ByteBits /\ le  -> sym_concat_helper(flag, padding)
         [] t.w # ByteBits /\ ~le -> sym_concat_helper(padding, flag))

TopBit(t) == sym_extract_helper(t, t.w - 1, t.w - 1)

Extended(t, signed, n) ==
  IF signed THEN sym_build_sext(t, n) ELSE sym_build_zext(t, n)

\* The common part of add, sub and mul: `wide` is the result of the operation at
\* more bits, of which the topmost one shows the overflow of unsigned numbers.
OverflowOf(wide, narrow, signed) ==
  IF signed
  THEN sym_build_not_equal(wide, sym_build_sext(narrow, wide.w - narrow.w))
  ELSE sym_build_equal(TopBit(wide), sym_build_integer(1, 1))

sym_build_add_overflow(a, b, signed, le) ==
  LET wide == sym_build_add(Extended(a, signed, 1), Extended(b, signed, 1))
      narrow == sym_build_add(a, b)
  IN buildOverflowResult(narrow, OverflowOf(wide, narrow, signed), le)
sym_build_sub_overflow(a, b, signed, le) ==
  LET wide == sym_build_sub(Extended(a, signed, 1), Extended(b, signed, 1))
      narrow == sym_build_sub(a, b)
  IN buildOverflowResult(narrow, OverflowOf(wide, narrow, signed), le)
sym_build_mul_overflow(a, b, signed, le) ==
  LET wide == sym_build_mul(Extended(a, signed, a.w), Extended(b, signed, a.w))
      narrow == sym_build_mul(a, b)
  IN buildOverflowResult(narrow, OverflowOf(wide, narrow, signed), le)

-------------------------------------------------------------------------------
(* Floating-point comparisons.  The solver's are false if an operand is NaN.   *)

Float == Finite \cup {NaN}

float_ordered_greater_than(a, b) == a # NaN /\ b # NaN /\ a > b
float_ordered_greater_equal(a, b) == a # NaN /\ b # NaN /\ a >= b
float_ordered_less_than(a, b) == a # NaN /\ b # NaN /\ a < b
float_ordered_less_equal(a, b) == a # NaN /\ b # NaN /\ a <= b
float_ordered_equal(a, b) == a # NaN /\ b # NaN /\ a = b
float_ordered_not_equal(a, b) == ~float_ordered_equal(a, b)

float_unordered(a, b) == a = NaN \/ b = NaN
float_ordered(a, b) == ~float_unordered(a, b)

float_unordered_greater_than(a, b) ==
  a = NaN \/ b = NaN \/ float_ordered_greater_than(a, b)
float_unordered_greater_equal(a, b) ==
  a = NaN \/ b = NaN \/ float_ordered_greater_equal(a, b)
float_unordered_less_than(a, b) ==
  a = NaN \/ b = NaN \/ float_ordered_less_than(a, b)
float_unordered_less_equal(a, b) ==
  a = NaN \/ b = NaN \/ float_ordered_less_equal(a, b)
float_unordered_equal(a, b) ==
  a = NaN \/ b = NaN \/ float_ordered_equal(a, b)
float_unordered_not_equal(a, b) ==
  a = NaN \/ b = NaN \/ float_ordered_not_equal(a, b)

-------------------------------------------------------------------------------
(* The calls.  Each starts from nothing and leaves its result in `result`.    *)

NoCall == [fn |-> "none"]

Term(w) == [w : {w}, v : 0..(Pow2[w] - 1)]

Saturating == {"sadd_sat", "ssub_sat", "uadd_sat", "usub_sat", "sshl_sat",
               "ushl_sat", "abs"}
Overflowing == {"add_overflow", "sub_overflow", "mul_overflow"}
Comparison == {"ogt", "oge", "olt", "ole", "oeq", "one", "ord",
               "ugt", "uge", "ult", "ule", "ueq", "une", "uno"}

SaturatingTerm(c) ==
  CASE c.fn = "sadd_sat" -> sym_build_sadd_sat(c.a, c.b, c.one)
    [] c.fn = "ssub_sat" -> sym_build_ssub_sat(c.a, c.b, c.one)
    [] c.fn = "uadd_sat" -> sym_build_uadd_sat(c.a, c.b, c.one)
    [] c.fn = "usub_sat" -> sym_build_usub_sat(c.a, c.b)
    [] c.fn = "sshl_sat" -> sym_build_sshl_sat(c.a, c.b, c.one)
    [] c.fn = "ushl_sat" -> sym_build_ushl_sat(c.a, c.b, c.one)
    [] c.fn = "abs"      -> sym_build_abs(c.a)

OverflowTerm(c) ==
  CASE c.fn = "add_overflow" -> sym_build_add_overflow(c.a, c.b, c.signed, c.le)
    [] c.fn = "sub_overflow" -> sym_build_sub_overflow(c.a, c.b, c.signed, c.le)
    [] c.fn = "mul_overflow" -> sym_build_mul_overflow(c.a, c.b, c.signed, c.le)

FunnelTerm(c) ==
  IF c.fn = "fshl"
  THEN sym_build_funnel_shift_left(c.a, c.b, c.c)
  ELSE sym_build_funnel_shift_right(c.a, c.b, c.c)

ComparisonTerm(c) ==
  CASE c.fn = "ogt" -> float_ordered_greater_than(c.a, c.b)
    [] c.fn = "oge" -> float_ordered_greater_equal(c.a, c.b)
    [] c.fn = "olt" -> float_ordered_less_than(c.a, c.b)
    [] c.fn = "ole" -> float_ordered_less_equal(c.a, c.b)
    [] c.fn = "oeq" -> float_ordered_equal(c.a, c.b)
    [] c.fn = "one" -> float_ordered_not_equal(c.a, c.b)
    [] c.fn = "ord" -> float_ordered(c.a, c.b)
    [] c.fn = "ugt" -> float_unordered_greater_than(c.a, c.b)
    [] c.fn = "uge" -> float_unordered_greater_equal(c.a, c.b)
    [] c.fn = "ult" -> float_unordered_less_than(c.a, c.b)
    [] c.fn = "ule" -> float_unordered_less_equal(c.a, c.b)
    [] c.fn = "ueq" -> float_unordered_equal(c.a, c.b)
    [] c.fn = "une" -> float_unordered_not_equal(c.a, c.b)
    [] c.fn = "uno" -> float_unordered(c.a, c.b)

BuildersInit == call = NoCall /\ result = NoTerm

\* A shift by the width or more gives a poison value and is not looked at.
BuildSaturating ==
  \E fn \in Saturating, w \in Width, one \in {0, 1} : \E a, b \in Term(w) :
    /\ call = NoCall
    /\ fn \in {"sshl_sat", "ushl_sat"} => b.v < w
    /\ call' = [fn |-> fn, a |-> a, b |-> b, one |-> one]
    /\ result' = SaturatingTerm(call')

\* The little-endian layout needs a byte swap, which asserts that the number of
\* bytes is even.
BuildOverflow ==
  \E fn \in Overflowing, w \in Width, signed, le \in BOOLEAN :
  \E a, b \in Term(w) :
    /\ call = NoCall
    /\ w % ByteBits = 0
    /\ call' = [fn |-> fn, a |-> a, b |-> b, signed |-> signed, le |-> le]
    /\ result' = IF le /\ ~BswapApplies(a) THEN Abort ELSE OverflowTerm(call')

BuildFunnelShift ==
  \E fn \in {"fshl", "fshr"}, a, b, c \in Term(ByteBits) :
    /\ call = NoCall
    /\ call' = [fn |-> fn, a |-> a, b |-> b, c |-> c]
    /\ result' = FunnelTerm(call')

\* A struct in a register, and a field of it read or replaced.
FieldValue(f) == 0..(Pow2[f.size * ByteBits] - 1)
StructValues(l) ==
  {v \in [DOMAIN l.fields -> UNION {FieldValue(l.fields[i]) :
                                      i \in DOMAIN l.fields}] :
     \A i \in DOMAIN l.fields : v[i] \in FieldValue(l.fields[i])}

BuildAggregate ==
  \E l \in Layout, le \in BOOLEAN : \E values \in StructValues(l) :
  LET struct == createStructExpression(l, values, le)
  IN /\ call = NoCall
     /\ \/ /\ call' = [fn |-> "struct", l |-> l, values |-> values, le |-> le]
           /\ result' = struct
        \/ \E i \in DOMAIN l.fields :
             /\ call' = [fn |-> "extractvalue", l |-> l, values |-> values,
                         le |-> le, i |-> i]
             /\ result' = visitExtractValueInst(struct, l.fields[i], le)
        \/ \E i \in DOMAIN l.fields : \E new \in FieldValue(l.fields[i]) :
             /\ call' = [fn |-> "insertvalue", l |-> l, values |-> values,
                         le |-> le, i |-> i, new |-> new]
             /\ result' = visitInsertValueInst(struct, new, l.fields[i], le)

CompareFloats ==
  \E fn \in Comparison, a, b \in Float :
    /\ call = NoCall
    /\ call' = [fn |-> fn, a |-> a, b |-> b]
    /\ result' = ComparisonTerm(call')

\* The program goes on with the result.
BuilderReturns == call # NoCall /\ call' = NoCall /\ result' = NoTerm

BuildersNext ==
  \/ BuildSaturating
  \/ BuildOverflow
  \/ BuildFunnelShift
  \/ BuildAggregate
  \/ CompareFloats
  \/ BuilderReturns

-------------------------------------------------------------------------------
(* What the calls should return, from the language reference of LLVM.         *)

Clamped(x, lo, hi) == IF x < lo THEN lo ELSE IF x > hi THEN hi ELSE x
ClampedSigned(x, w) ==
  sym_build_integer(Clamped(x, -(Pow2[w - 1]), Pow2[w - 1] - 1), w)
ClampedUnsigned(x, w) == sym_build_integer(Clamped(x, 0, Pow2[w] - 1), w)

ExpectedSaturating(c) ==
  LET w == c.a.w
  IN CASE c.fn = "sadd_sat" -> ClampedSigned(Signed(c.a) + Signed(c.b), w)
       [] c.fn = "ssub_sat" -> ClampedSigned(Signed(c.a) - Signed(c.b), w)
       [] c.fn = "uadd_sat" -> ClampedUnsigned(c.a.v + c.b.v, w)
       [] c.fn = "usub_sat" -> ClampedUnsigned(c.a.v - c.b.v, w)
       [] c.fn = "sshl_sat" -> ClampedSigned(Signed(c.a) * Pow2[c.b.v], w)
       [] c.fn = "ushl_sat" -> ClampedUnsigned(c.a.v * Pow2[c.b.v], w)
       [] c.fn = "abs" ->
            sym_build_integer(IF Signed(c.a) < 0 THEN -Signed(c.a)
                              ELSE Signed(c.a), w)

\* Byte k of a value in memory, and of a struct with its padding.
ByteOf(x, size, k, le) ==
  (x \div Pow2[ByteBits * (IF le THEN k ELSE size - 1 - k)]) % Pow2[ByteBits]
StructImage(l, values, le) ==
  [k \in 0..(l.size - 1) |->
     LET at == {i \in DOMAIN l.fields :
                  k \in l.fields[i].off..(l.fields[i].off + l.fields[i].size - 1)}
     IN IF at = {} THEN 0
        ELSE LET i == CHOOSE i \in at : TRUE
             IN ByteOf(values[i], l.fields[i].size, k - l.fields[i].off, le)]

\* A term holds the bytes of an object in the order of memory.
IsImage(t, size, image) ==
  /\ t.w = size * ByteBits
  /\ \A k \in 0..(size - 1) : ByteOf(t.v, size, k, FALSE) = image[k]

ExactResult(c) ==
  LET Num(t) == IF c.signed THEN Signed(t) ELSE t.v
  IN CASE c.fn = "add_overflow" -> Num(c.a) + Num(c.b)
       [] c.fn = "sub_overflow" -> Num(c.a) - Num(c.b)
       [] c.fn = "mul_overflow" -> Num(c.a) * Num(c.b)
Overflows(c) ==
  LET lo == IF c.signed THEN -(Pow2[c.a.w - 1]) ELSE 0
  IN ~(ExactResult(c) \in lo..(lo + Pow2[c.a.w] - 1))

\* {iN, i1}: the number, then the flag in a byte of its own, then padding.
OverflowImage(c) ==
  LET n == c.a.w \div ByteBits
  IN [k \in 0..(2 * n - 1) |->
        CASE k < n -> ByteOf(ExactResult(c), n, k, c.le)
          [] k = n -> IF Overflows(c) THEN 1 ELSE 0
          [] k > n -> 0]

ExpectedAggregate(c) ==
  CASE c.fn = "struct" ->
         IsImage(result, c.l.size, StructImage(c.l, c.values, c.le))
    [] c.fn = "insertvalue" ->
         IsImage(result, c.l.size,
                 StructImage(c.l, [c.values EXCEPT ![c.i] = c.new], c.le))
    [] c.fn = "extractvalue" ->
         result = sym_build_integer(c.values[c.i],
                                    c.l.fields[c.i].size * ByteBits)

\* The outcome of comparing two numbers, and the outcomes a predicate accepts.
Order(a, b) == CASE a = NaN \/ b = NaN -> "u"
                 [] a # NaN /\ b # NaN /\ a < b -> "lt"
                 [] a # NaN /\ b # NaN /\ a = b -> "eq"
                 [] a # NaN /\ b # NaN /\ a > b -> "gt"
Accepts ==
  LET Un(S) == S \cup {"u"}
  IN [ogt |-> {"gt"}, oge |-> {"gt", "eq"}, olt |-> {"lt"},
      ole |-> {"lt", "eq"}, oeq |-> {"eq"}, one |-> {"lt", "gt"},
      ord |-> {"lt", "eq", "gt"}, ugt |-> Un({"gt"}), uge |-> Un({"gt", "eq"}),
      ult |-> Un({"lt"}), ule |-> Un({"lt", "eq"}), ueq |-> Un({"eq"}),
      une |-> Un({"lt", "gt"}), uno |-> Un({})]

\* The calls that are known to return something else: the limits of uint64_t,
\* where the mask is shifted out; shifts of unsigned numbers, which are checked
\* for signed overflow; products whose excess misses the topmost bit; the
\* layout of {iN, i1} for big-endian machines, and for odd numbers of bytes on
\* others, where bswap asserts; "one" of NaN; and funnel shifts.
KnownDeviation(c) ==
  \/ /\ c.fn \in {"sadd_sat", "ssub_sat", "uadd_sat", "sshl_sat", "ushl_sat"}
     /\ c.a.w = HostBits /\ c.one = 1
  \/ /\ c.fn = "ushl_sat"
     /\ LET n == c.a.v * Pow2[c.b.v] >= Pow2[c.a.w]
            s == Signed(c.a) * Pow2[c.b.v] \in -(Pow2[c.a.w - 1])..(Pow2[c.a.w - 1] - 1)
        IN n <=> s
  \/ /\ c.fn = "mul_overflow" /\ ~c.signed
     /\ c.a.v * c.b.v \in Pow2[c.a.w]..(Pow2[2 * c.a.w - 1] - 1)
  \/ c.fn \in Overflowing /\ c.le /\ ~BswapApplies(c.a)
  \/ c.fn \in Overflowing /\ ~c.le /\ c.a.w > ByteBits /\ Overflows(c)
  \/ c.fn = "one" /\ NaN \in {c.a, c.b}
  \/ c.fn \in {"fshl", "fshr"}

\* Apart from the known deviations each builder returns the term that has the
\* value the program computes: saturation at the right limit, the overflow flag
\* and each byte of an aggregate in its place, NaN on the right side of every
\* comparison.  (_sym_build_sadd_sat ... _sym_build_abs, _sym_build_insert,
\* _sym_build_extract, createValueExpression, _sym_build_float_*)
BuildersAreExact ==
  \/ call = NoCall
  \/ KnownDeviation(call)
  \/ call.fn \in Saturating /\ result = ExpectedSaturating(call)
  \/ /\ call.fn \in Overflowing
     /\ IsImage(result, 2 * (call.a.w \div ByteBits), OverflowImage(call))
  \/ /\ call.fn \in {"struct", "insertvalue", "extractvalue"}
     /\ ExpectedAggregate(call)
  \/ call.fn \in Comparison /\ result = (Order(call.a, call.b) \in Accepts[call.fn])
==============================================================================
