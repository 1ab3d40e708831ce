------------------------------- MODULE SymExpr -------------------------------
(***************************************************************************)
(* Symbolic expressions, as far as shadow memory tells them apart.          *)
(*                                                                         *)
(* The backends hand out opaque pointers (SymExpr); the null pointer means  *)
(* "this value is concrete".  Shadow memory stores one 8-bit expression per *)
(* byte, and wider expressions only enter and leave it cut into bytes, so a *)
(* wide expression is the sequence of its byte expressions, least           *)
(* significant first, and <<>> is the null pointer in that place.           *)
(***************************************************************************)
EXTENDS Integers, Sequences

CONSTANTS Input,      \* the concrete input of the execution: offset -> byte
          MaxByte,    \* a byte is a number in 0..MaxByte
          MaxAddr     \* addresses are 0..MaxAddr

Byte == 0..MaxByte
Offset == DOMAIN Input

ASSUME InputAssumption ==
  /\ MaxByte \in Nat
  /\ MaxAddr \in Nat
  /\ Input \in [Offset -> Byte]
  /\ Offset \subseteq Nat

\* The null pointer: no symbolic expression, the value is concrete.
Null == [kind |-> "null", arg |-> 0]

\* _sym_get_input_byte: the variable that stands for one byte of the input.
InputByte(k) == [kind |-> "input", arg |-> k]

\* _sym_build_integer(v, 8): a concrete byte as an expression.
ConstByte(v) == [kind |-> "const", arg |-> v]

\* The zero extension to int of an input byte, as getc returns it: it has the
\* value of the byte but is 32 bits wide.
WideByte(k) == [kind |-> "wide", arg |-> k]

ByteExpr == {InputByte(k) : k \in Offset} \cup {ConstByte(v) : v \in Byte}
Expr == ByteExpr \cup {WideByte(k) : k \in Offset}

\* The value of an expression under the input that drives this execution.
Eval(e) == IF e.kind = "const" THEN e.arg ELSE Input[e.arg]

\* A path constraint: all bytes of l equal those of r, or (rel = "ne") not all.
Holds(c) ==
  (c.rel = "eq") <=> \A i \in DOMAIN c.l : Eval(c.l[i]) = Eval(c.r[i])

\* A shadow entry agrees with the concrete byte it shadows.
Agrees(e, v) == e # Null => Eval(e) = v

-------------------------------------------------------------------------------
(* Memory regions.  The shadow iterators also touch the byte after a region,  *)
(* so a region ends at least one byte before the end of modelled memory.      *)

Addr == 0..MaxAddr

IsRegion(a, n) == a + n \in Addr
Within(x, a, n) == a <= x /\ x < a + n
Disjoint(a, n, b, m) == a + n <= b \/ b + m <= a

\* The map f after the bytes [s, s + n) are copied, all at once, to [d, d + n).
Copied(f, d, s, n) ==
  [a \in Addr |-> IF Within(a, d, n) THEN f[s + (a - d)] ELSE f[a]]

\* The map f after the sequence data is stored from d on.
Written(f, d, data) ==
  [a \in Addr |-> IF Within(a, d, Len(data)) THEN data[(a - d) + 1] ELSE f[a]]

Filled(e, n) == [i \in 1..n |-> e]

\* The address of the i-th byte, counted from the least significant one.
ByteAddr(a, n, i, le) == IF le THEN a + (i - 1) ELSE a + (n - i)

\* The bytes in memory order of a value given least significant byte first.
InMemoryOrder(f, le) ==
  [j \in 1..Len(f) |-> IF le THEN f[j] ELSE f[Len(f) + 1 - j]]
-------------------------------------------------------------------------------
(* The calls of the program, as shadow memory's contract names them.          *)

NoCall == [f |-> "none"]

\* Copy n bytes from s to d, then clear pad bytes.
CopyCall(d, s, n, pad) ==
  [f |-> "copy", d |-> d, s |-> s, n |-> n, pad |-> pad]

\* New bytes from a on, with the expressions data.
AssignCall(a, data) == [f |-> "assign", d |-> a, data |-> data]

LoadCall(a, n, le) == [f |-> "load", d |-> a, n |-> n, le |-> le]
StoreCall(a) == [f |-> "store", d |-> a]

\* Are the n bytes at a and at b equal?
CompareCall(a, b, n) == [f |-> "compare", d |-> a, s |-> b, n |-> n]

\* Does c, with expression e, follow the n bytes at a?
SearchCall(a, n, c, e) == [f |-> "search", d |-> a, n |-> n, c |-> c, e |-> e]
==============================================================================
