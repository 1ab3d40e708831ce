---------------------------- MODULE NumericChecks ----------------------------
(***************************************************************************)
(* The checks that OverflowChecker and FPOverflowChecker put behind          *)
(* arithmetic instructions, and the slots by which the Symbolizer tells the   *)
(* branches of a function apart.                                             *)
(*                                                                         *)
(* A check is a branch in a block of its own whose two edges lead to the next *)
(* block, so that it only serves to have its condition pushed as a path       *)
(* constraint.  A function is instrumented first, and then its instructions    *)
(* are executed.  Integers have the range of the code with 2^31 scaled to     *)
(* Half; floating-point numbers are ranks in their order, the operations on   *)
(* them external.                                                            *)
(***************************************************************************)
EXTENDS Integers, Sequences, FiniteSets

CONSTANTS Half,         \* 2^31 in the code
          Threshold,    \* what the two pass managers set: 10 and 100
          Garbage,      \* what an int that is never assigned may hold
          Infinity,     \* the rank of infinity; that of 0 is 0
          FPThreshold,  \* the rank of 100.0
          FPTolerance,  \* the rank of 1e-5, and what the double may hold
          NotANumber,
          Stride,       \* 1000 in the code
          Function      \* the functions: sequences of instructions

IntOp == {"Add", "Sub", "Mul", "UDiv", "SDiv"}
FPOp == {"FAdd", "FSub", "FMul", "FDiv", "FRem"}
\* "MulConst" stands for a multiplication by a constant, "Fast" for an FPOp with
\* the flags nnan and ninf, "i64" for integer arithmetic on any other type, "Loop"
\* for the branch that leaves a loop, "Switch" for one whose condition has an
\* expression; only such a one is instrumented.
IntInst == IntOp \cup {"MulConst"}
Own == {"Branch", "Loop", "Select", "Switch"}
Instruction == IntInst \cup FPOp \cup Own \cup {"Fast", "i64"}

ASSUME NumericAssumption ==
  /\ Half \in Nat \ {0, 1} /\ Infinity \in Nat /\ Infinity > 2
  /\ Threshold \subseteq 0..(Half - 1) /\ Garbage \subseteq Int
  /\ FPThreshold \in 1..(Infinity - 2)
  /\ NotANumber \notin Int
  /\ FPTolerance \subseteq (-Infinity..Infinity) \cup {NotANumber}
  /\ Stride \in Nat \ {0}
  /\ \A f \in Function : f \in Seq(Instruction)

VARIABLES body,     \* the instructions of the function, in order
          checker,  \* the limits the checks of this function were built with
          block,    \* the block that is executed
          inst,     \* the arithmetic instruction that is executed
          selects,  \* the path constraints that the selects in its check have pushed
          pushed    \* those that its checks have pushed after them: check and outcome

numericVars == <<body, checker, block, inst, selects, pushed>>

Modulus == 2 * Half
Value == 0..(Modulus - 1)
FPValue == (-Infinity..Infinity) \cup {NotANumber}

Nothing == [op |-> "none"]

-------------------------------------------------------------------------------
(* Integers of the machine.                                                   *)

Wrap(x) == x % Modulus
SignedValue(v) == IF v >= Half THEN v - Modulus ELSE v

Abs(x) == IF x < 0 THEN -x ELSE x
\* Division towards zero.
Quotient(x, y) == LET q == Abs(x) \div Abs(y)
                  IN IF (x < 0) = (y < 0) THEN q ELSE -q

\* sdiv and udiv by zero and the sdiv of the least integer by -1 are undefined:
\* they trap, or give whatever the processor gives.
DivisionTraps(op, a, b) ==
  \/ op \in {"UDiv", "SDiv"} /\ b = 0
  \/ op = "SDiv" /\ a = Half /\ b = Modulus - 1

Results(op, a, b) ==
  CASE op = "Add"  -> {Wrap(a + b)}
    [] op = "Sub"  -> {Wrap(a - b)}
    [] op = "Mul"  -> {Wrap(a * b)}
    [] op \in {"UDiv", "SDiv"} /\ DivisionTraps(op, a, b) -> Value
    [] op = "UDiv" /\ b # 0 -> {a \div b}
    [] op = "SDiv" /\ ~DivisionTraps("SDiv", a, b) ->
         {Wrap(Quotient(SignedValue(a), SignedValue(b)))}

\* icmp sgt and slt; ugt and ult are those of the numbers themselves.
SGT(x, y) == SignedValue(x) > SignedValue(y)
SLT(x, y) == SignedValue(x) < SignedValue(y)

IntMax == Half - 1
IntMin == Half

-------------------------------------------------------------------------------
(* The conditions of the integer checks.                                      *)

getAddOverflowCondition(a, b) ==
  LET positive == SGT(b, 0) /\ SGT(a, Wrap(IntMax - b))
      negative == SLT(b, 0) /\ SLT(a, Wrap(IntMin - b))
  IN positive \/ negative \/ Wrap(a + b) < a

\* Mutant: the limits of an addition.
MutantSubOverflow(a, b) ==
  LET positive == SLT(b, 0) /\ SGT(a, Wrap(IntMax - b))
      negative == SGT(b, 0) /\ SLT(a, Wrap(IntMin - b))
  IN positive \/ negative \/ a < b

getSubOverflowCondition(a, b) ==
  LET positive == SLT(b, 0) /\ SGT(a, Wrap(IntMax + b))
      negative == SGT(b, 0) /\ SLT(a, Wrap(IntMin + b))
  IN positive \/ negative \/ a < b

\* The quotient is compared with b; a divisor of 0 is replaced by 1.
MulDivisor(a) == IF a # 0 THEN a ELSE 1
getMulOverflowCondition(a, b, quotient) ==
  LET signed == a # 0 /\ quotient # b
      unsigned == b # 0 /\ a > (Modulus - 1) \div MulDivisor(b)
  IN signed \/ unsigned

\* The conditions on the result.  The largest values are the literals of the
\* code, one short of the limits of the type, less the tolerance.
BoundCondition(b, res) ==
  LET tolerance == checker.tolerance
  IN CASE b = "signed_bound_check"   -> SGT(res, Wrap(checker.threshold))
       [] b = "unsigned_bound_check" -> res > Wrap(checker.threshold)
       [] b = "signed_minus_bound_check" -> SLT(res, Wrap(-checker.threshold))
       [] b = "max_bound_check" -> res > Wrap((Modulus - 2) - tolerance)
       [] b = "min_bound_check" -> res < Wrap(tolerance)
       [] b = "signed_max_bound_check" ->
            SGT(res, Wrap((Half - 2) - tolerance))
       [] b = "signed_min_bound_check" ->
            SLT(res, Wrap(tolerance - (Half - 1)))

-------------------------------------------------------------------------------
(* The conditions of the floating-point checks: ordered comparisons, false if  *)
(* an operand is NaN.                                                         *)

OGT(x, y) == x # NotANumber /\ y # NotANumber /\ x > y
OLT(x, y) == x # NotANumber /\ y # NotANumber /\ x < y
OEQ(x, y) == x # NotANumber /\ y # NotANumber /\ x = y

getOverflowCond(res) == OEQ(res, Infinity) \/ OEQ(res, -Infinity)

\* The largest number less the tolerance is that number again unless the
\* tolerance is of its size; the smallest one plus the tolerance is the
\* tolerance unless that is 0.
Largest == Infinity - 1
LargestLess(t) ==
  CASE t = NotANumber   -> NotANumber
    [] t = Infinity     -> -Infinity
    [] t \in {-Infinity, -Largest} -> Infinity
    [] t = Largest      -> 0
    [] t \in (1 - Largest)..(Largest - 1) -> Largest
SmallestPlus(t) == IF t = 0 THEN 1 ELSE t

FPCondition(b, op, divisor, res) ==
  LET tolerance == checker.fpTolerance
  IN CASE b = "overflow_check" -> getOverflowCond(res)
       [] b = "bound_check"    -> OGT(res, FPThreshold)
       [] b = "devided_by_zero_check" -> op = "FDiv" /\ OEQ(divisor, 0)
       [] b = "minus_bound_check" -> OLT(res, -FPThreshold)
       [] b = "max_bound_check"   -> OGT(res, LargestLess(tolerance))
       [] b = "min_bound_check"   -> OLT(res, SmallestPlus(tolerance))
-------------------------------------------------------------------------------
(* The blocks, in the order they are created, and the one each leads to.       *)

IntBlocks == <<"overflow_check", "signed_bound_check", "unsigned_bound_check",
               "signed_minus_bound_check", "max_bound_check", "min_bound_check",
               "signed_max_bound_check", "signed_min_bound_check">>

FPBlocks == <<"overflow_check", "devided_by_zero_check", "bound_check",
              "minus_bound_check", "max_bound_check", "min_bound_check">>

\* Mutant: the bound check leads past the checks after it.
MutantSuccessor(op, b) ==
  IF op \in IntOp
  THEN CASE b = "overflow_check"         -> "signed_bound_check"
         [] b = "signed_bound_check"     -> "unsigned_bound_check"
         [] b = "unsigned_bound_check"   -> "max_bound_check"
         [] b = "max_bound_check"        -> "signed_max_bound_check"
         [] b = "signed_max_bound_check" -> "signed_min_bound_check"
         [] b = "signed_min_bound_check" -> "origin_cont"
  ELSE CASE b = "overflow_check"         -> "bound_check"
         [] b = "bound_check"            -> "devided_by_zero_check"
         [] b = "devided_by_zero_check"  -> "minus_bound_check"
         [] b = "minus_bound_check"      -> "max_bound_check"
         [] b = "max_bound_check"        -> "min_bound_check"
         [] b = "min_bound_check"        -> "origin_cont"

\* No block leads to the min_bound_check of integers.
Successor(op, b) ==
  IF op \in IntOp
  THEN CASE b = "overflow_check"           -> "signed_bound_check"
         [] b = "signed_bound_check"       -> "unsigned_bound_check"
         [] b = "unsigned_bound_check"     -> "signed_minus_bound_check"
         [] b = "signed_minus_bound_check" -> "max_bound_check"
         [] b = "max_bound_check"          -> "signed_max_bound_check"
         [] b = "signed_max_bound_check"   -> "signed_min_bound_check"
         [] b = "signed_min_bound_check"   -> "origin_cont"
  ELSE CASE b = "overflow_check"           -> "bound_check"
         [] b = "bound_check"              -> "devided_by_zero_check"
         [] b = "devided_by_zero_check"    -> "minus_bound_check"
         [] b = "minus_bound_check"        -> "max_bound_check"
         [] b = "max_bound_check"          -> "min_bound_check"
         [] b = "min_bound_check"          -> "origin_cont"

-------------------------------------------------------------------------------
(* Slots.  The Symbolizer numbers branches, selects and switches in the order  *)
(* of the blocks: the program's own first, then the checks of integers, then   *)
(* those of floating-point numbers.                                           *)

CheckedBy(op) == CASE op \in IntInst -> IntBlocks
                   [] op \in FPOp  -> FPBlocks
                   [] op \notin IntInst \cup FPOp -> << >>

\* The overflow check of a multiplication has a select for each factor in front of
\* its branch; IRBuilder folds that of a constant.
Selects(op) == IF op = "Mul" THEN 2 ELSE IF op = "MulConst" THEN 1 ELSE 0

Before(i, ops) == Cardinality({j \in 1..(i - 1) : body[j] \in ops})
All(ops) == Before(Len(body) + 1, ops)

\* A site is something that is numbered: its instruction, and its position among
\* that one's checks (0: it is the program's own; negative: a select in front of the
\* first check).
Site == {s \in (1..Len(body)) \X (-2..Len(IntBlocks)) :
           IF body[s[1]] \in Own THEN s[2] = 0
           ELSE \/ s[2] \in 1..Len(CheckedBy(body[s[1]]))
                \/ s[2] < 0 /\ s[2] >= -Selects(body[s[1]])}

\* The numbers taken by the checks of the integer instructions before the i-th.
IntNumbers(i) ==
  Len(IntBlocks) * Before(i, IntInst) + 2 * Before(i, {"Mul"}) + Before(i, {"MulConst"})

ID(s) ==
  LET i == s[1]
      own == All(Own)
  IN CASE body[i] \in Own -> Before(i, Own)
       [] body[i] \in IntInst ->
            own + IntNumbers(i) + Selects(body[i]) + (IF s[2] < 0 THEN s[2] ELSE s[2] - 1)
       [] body[i] \in FPOp ->
            own + IntNumbers(Len(body) + 1)
              + Len(FPBlocks) * Before(i, FPOp) + (s[2] - 1)

NextID == All(Own) + IntNumbers(Len(body) + 1) + Len(FPBlocks) * All(FPOp)

\* The multiple of Stride that the metadata of a check select.
CheckType(op, k) ==
  IF op \in IntInst
  THEN <<IF op \in {"UDiv", "SDiv"} THEN 2 ELSE 1, 3, 4, 8, 9, 10, 11, 12>>[k]
  ELSE <<5, 6, 7, 13, 14, 15>>[k]

\* Mutant: the checks of negative and of greatest values share a number.
MutantSlot(s) ==
  LET op == body[s[1]]
  IN CASE op = "Loop" -> -1
       [] op # "Loop" /\ s[2] <= 0 -> ID(s)
       [] op # "Loop" /\ s[2] > 0  ->
            ID(s) + Stride * (IF CheckType(op, s[2]) \in {8, 9} THEN 8
                              ELSE CheckType(op, s[2]))

Slot(s) ==
  LET op == body[s[1]]
  IN CASE op = "Loop" -> -1
       [] op # "Loop" /\ s[2] <= 0 -> ID(s)
       [] op # "Loop" /\ s[2] > 0  -> ID(s) + Stride * CheckType(op, s[2])
-------------------------------------------------------------------------------
(* The passes, and the execution of what they produce.                        *)

NumericInit ==
  /\ body = << >> /\ checker = Nothing
  /\ block = "none" /\ inst = Nothing /\ selects = << >> /\ pushed = << >>

\* Both pass managers leave sementic_tolerance of the integer checks unassigned:
\* setSementicTolerance assigns the threshold.
OverflowCheckerPass ==
  /\ block = "none"
  /\ body' \in Function
  /\ \E th \in Threshold, t \in Garbage, ft \in FPTolerance :
       checker' = [threshold |-> th, tolerance |-> t, fpTolerance |-> ft]
  /\ block' = "origin"
  /\ UNCHANGED <<inst, selects, pushed>>

\* The instruction comes first, then its checks: a division that traps is never
\* checked.
Operation(i) == IF body[i] = "MulConst" THEN "Mul" ELSE body[i]
Constant(i) == IF body[i] = "MulConst" THEN {{"a"}, {"b"}} ELSE {{}}

ExecuteInt ==
  \E i \in DOMAIN body, a, b \in Value :
    /\ block = "origin" /\ body[i] \in IntInst
    /\ \E res \in Results(Operation(i), a, b), constant \in Constant(i) :
         inst' = [op |-> Operation(i), a |-> a, b |-> b, res |-> res,
                  constant |-> constant]
    /\ \/ block' = "overflow_check"
       \/ DivisionTraps(Operation(i), a, b) /\ block' = "trap"
    /\ UNCHANGED <<body, checker, selects, pushed>>

\* What the processor may return for a divisor: external.
FPResults(op, divisor) ==
  CASE divisor = NotANumber -> {NotANumber}
    [] op = "FDiv" /\ divisor = 0 -> {-Infinity, Infinity, NotANumber}
    [] op = "FRem" /\ divisor = 0 -> {NotANumber}
    [] op = "FRem" /\ divisor \notin {0, NotANumber} ->
         FPValue \ {-Infinity, Infinity}
    [] op # "FRem" /\ ~(op = "FDiv" /\ divisor = 0) /\ divisor # NotANumber ->
         FPValue

ExecuteFP ==
  \E i \in DOMAIN body, divisor \in FPValue :
    /\ block = "origin" /\ body[i] \in FPOp
    /\ \E res \in FPResults(body[i], divisor) :
         inst' = [op |-> body[i], b |-> divisor, res |-> res]
    /\ block' = "overflow_check"
    /\ UNCHANGED <<body, checker, selects, pushed>>

Checked(taken) ==
  /\ pushed' = Append(pushed, [check |-> block, taken |-> taken])
  /\ block' = Successor(inst.op, block)
  /\ UNCHANGED <<body, checker, inst>>

CheckAddSub ==
  /\ block = "overflow_check" /\ inst.op \in {"Add", "Sub"}
  /\ Checked(IF inst.op = "Add" THEN getAddOverflowCondition(inst.a, inst.b)
             ELSE getSubOverflowCondition(inst.a, inst.b))
  /\ UNCHANGED selects

\* The check of a multiplication divides, and may trap itself.  The selects that
\* avoid a division by zero push their conditions: the first before the division,
\* the second after it.
SelectOn(factor, x) == IF factor \in inst.constant THEN << >> ELSE <<x # 0>>

CheckMul ==
  LET a == MulDivisor(inst.a)
  IN /\ block = "overflow_check" /\ inst.op = "Mul"
     /\ \/ /\ \E q \in Results("SDiv", inst.res, a) :
                  Checked(getMulOverflowCondition(inst.a, inst.b, q))
           /\ selects' = SelectOn("a", inst.a) \o SelectOn("b", inst.b)
        \/ /\ DivisionTraps("SDiv", inst.res, a) /\ block' = "trap"
           /\ selects' = SelectOn("a", inst.a)
           /\ UNCHANGED <<body, checker, inst, pushed>>

\* The optimiser may take it for granted, after a division, that the divisor is
\* not 0.
CheckDivisor ==
  /\ block = "overflow_check" /\ inst.op \in {"UDiv", "SDiv"}
  /\ \E taken \in {inst.b = 0, FALSE} : Checked(taken)
  /\ UNCHANGED selects

CheckBound ==
  /\ inst.op \in IntOp /\ block \in {IntBlocks[k] : k \in 2..Len(IntBlocks)}
  /\ Checked(BoundCondition(block, inst.res))
  /\ UNCHANGED selects

CheckFP ==
  /\ inst.op \in FPOp /\ block \in {FPBlocks[k] : k \in 1..Len(FPBlocks)}
  /\ Checked(FPCondition(block, inst.op, inst.b, inst.res))
  /\ UNCHANGED selects

\* The program goes on behind the instruction.
Continue ==
  /\ block = "origin_cont"
  /\ block' = "origin" /\ inst' = Nothing /\ selects' = << >> /\ pushed' = << >>
  /\ UNCHANGED <<body, checker>>

NumericNext ==
  \/ OverflowCheckerPass
  \/ ExecuteInt
  \/ ExecuteFP
  \/ CheckAddSub
  \/ CheckMul
  \/ CheckDivisor
  \/ CheckBound
  \/ CheckFP
  \/ Continue

-------------------------------------------------------------------------------
Taken(check) == \E k \in DOMAIN pushed :
                  pushed[k].check = check /\ pushed[k].taken
Passed(check) == \E k \in DOMAIN pushed : pushed[k].check = check

Exact(op, x, y) == CASE op = "Add" -> x + y
                     [] op = "Sub" -> x - y
                     [] op = "Mul" -> x * y
Overflow(op, a, b) ==
  \/ Exact(op, a, b) \notin Value
  \/ Exact(op, SignedValue(a), SignedValue(b)) \notin -Half..(Half - 1)

\* The first check of an addition, subtraction or multiplication is taken
\* exactly if the mathematical result leaves the signed or the unsigned range,
\* that of a division only if the divisor is 0; fp_overflow exactly if the
\* result is infinite; and a result that is not a number is noticed by no check
\* but that of the divisor.  (getAddOverflowCondition ...
\* getDividedByZeroCondition, FPOverflowChecker::getOverflowCond)
ChecksAreExact ==
  /\ inst.op \in {"Add", "Sub", "Mul"} /\ Passed("overflow_check") =>
       (Taken("overflow_check") <=> Overflow(inst.op, inst.a, inst.b))
  /\ inst.op \in {"UDiv", "SDiv"} /\ Taken("overflow_check") => inst.b = 0
  /\ inst.op \in FPOp /\ Passed("overflow_check") =>
       (Taken("overflow_check") <=> inst.res \in {-Infinity, Infinity})
  /\ inst.op \in FPOp /\ inst.res = NotANumber =>
       \A b \in {FPBlocks[k] : k \in 1..Len(FPBlocks)} :
         Taken(b) => /\ b = "devided_by_zero_check"
                     /\ inst.op = "FDiv" /\ inst.b = 0

\* The checks do not change what the program does: it stops only where the
\* instruction itself may trap, except that the check of a multiplication of -1
\* and the least integer divides the one by the other; and it goes on only when
\* every check has been passed once, except for the check of the least unsigned
\* value, whose block is never entered.  A path constraint is pushed for each
\* number that was given out for the instruction, but for that check, and none
\* before a trap but that of the first select.
\* (OverflowChecker::visitBinaryOperator, FPOverflowChecker::visitBinaryOperator,
\* getMulOverflowCondition)
ChecksAreTransparent ==
  /\ block = "trap" =>
       /\ pushed = << >>
       /\ \/ DivisionTraps(inst.op, inst.a, inst.b) /\ selects = << >>
          \/ /\ inst.op = "Mul" /\ inst.a = Modulus - 1 /\ inst.b = Half
             /\ \A k \in DOMAIN selects : k = 1 /\ selects[k]
  /\ block = "origin_cont" =>
       LET all == {CheckedBy(inst.op)[k] : k \in DOMAIN CheckedBy(inst.op)}
           skipped == IF inst.op \in IntOp THEN {"min_bound_check"} ELSE {}
       IN /\ {pushed[k].check : k \in DOMAIN pushed} = all \ skipped
          /\ Len(pushed) = Cardinality(all \ skipped)
          /\ Len(selects) = IF inst.op \in IntOp /\ inst.constant # {}
                              THEN Selects("MulConst") ELSE Selects(inst.op)

\* As long as a function has no more than Stride branches, selects and switches,
\* those in its checks included, the slot of one that leaves no loop names it and
\* the kind of check it is; two of them get the same slot only if they are Stride
\* numbers or more apart, the loops excepted.
\* (Symbolizer::visitBranchInst, visitSelectInst, visitSwitchInst)
SlotsIdentifyBranches ==
  block = "origin" /\ inst = Nothing =>
    \A s, t \in Site :
      /\ body[s[1]] # "Loop" /\ NextID <= Stride =>
           /\ Slot(s) % Stride = ID(s)
           /\ Slot(s) \div Stride =
                IF s[2] <= 0 THEN 0 ELSE CheckType(body[s[1]], s[2])
      /\ s # t /\ Slot(s) = Slot(t) =>
           \/ body[s[1]] = "Loop" /\ body[t[1]] = "Loop"
           \/ ID(s) - ID(t) >= Stride \/ ID(t) - ID(s) >= Stride
==============================================================================
