--------------------------- MODULE MCInstrumentation ---------------------------
(* An instance of Instrumentation for TLC: words of one bit, two cells of    *)
(* memory, one of which depends on the input, two possible inputs, and one or   *)
(* two instructions of each kind.                                               *)
EXTENDS Instrumentation, TLC

CONSTANTS x, y, c, f, cell1, cell2

MCReg == {x, y, c, f}
MCType == x :> "iN" @@ y :> "iN" @@ c :> "i1" @@ f :> "fp"
MCLiteral == x :> 1 @@ y :> 1 @@ c :> 1 @@ f :> 1
MCContent == cell1 :> [i \in Input |-> i] @@ cell2 :> [i \in Input |-> 1 - i]
MCAt == 1 :> cell1 @@ 0 :> cell2

Binary(on, to, F(_, _)) ==
  [on |-> on, to |-> to, f |-> [w \in [1..2 -> Word] |-> F(w[1], w[2])]]
Unary(on, to, F(_)) ==
  [on |-> on, to |-> to, f |-> [w \in [1..1 -> Word] |-> F(w[1])]]

MCArith == {Binary("iN", "iN", LAMBDA a, b : (a + b) % 2),
            Binary("i1", "i1", LAMBDA a, b : (a + b) % 2)}
MCCompare == {Binary("iN", "i1", LAMBDA a, b : IF a < b THEN 1 ELSE 0),
              Binary("i1", "i1", LAMBDA a, b : IF a = b THEN 1 ELSE 0)}
MCConvert == {Unary("iN", "fp", LAMBDA a : (a + 1) % 2),
              Unary("fp", "iN", LAMBDA a : (a + 1) % 2),
              Unary("i1", "iN", LAMBDA a : a % 2),
              Unary("iN", "iN", LAMBDA a : a % 2)}
Symmetric == Permutations({x, y})

\* The bound on the exploration: few registers in use at a time, and one fewer once
\* memory has been overwritten.
Busy(r) == Cardinality({q \in Reg : r[q] # Fresh[q]})
FewBusy ==
  LET suspended == {k \in DOMAIN stack : Busy(stack[k].regs) > 0}
      overwritten == \E k \in Cell : mem[k].den # Content[k] \/ mem[k].opaque
  IN Busy(regs) + Cardinality(suspended) + (IF overwritten THEN 1 ELSE 0) <= 2

MCLowBit == [w \in Word |-> w % 2]
===============================================================================
