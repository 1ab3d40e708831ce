---------------------------- MODULE Instrumentation ----------------------------
(***************************************************************************)
(* What the instrumentation of compiler/Symbolizer.cpp makes a program      *)
(* compute: next to each value an expression or null, and next to each      *)
(* branch a path constraint.                                                *)
(*                                                                         *)
(* The program is arbitrary: each step executes one instruction on any      *)
(* registers, with the code that its visitor emits and that                 *)
(* shortCircuitExpressionUses rewrites.  The decisions of the compiler      *)
(* depend on whether a value has an entry in symbolicExpressions; `entry`   *)
(* keeps that with the value.                                               *)
(*                                                                         *)
(* An expression is its sort and its meaning, the value it has under each   *)
(* possible input.  The history fields of a value say what it would be had  *)
(* the program run on another input along the same path and accessed the    *)
(* same memory (`den`), whether the instrumentation cannot know that        *)
(* (`opaque`: it comes from code without instrumentation, or through a      *)
(* pointer from there), and whether it has been given an expression that    *)
(* was meant for something else (`foreign`).                                *)
(***************************************************************************)
EXTENDS Integers, Sequences, FiniteSets

CONSTANTS Input,     \* the possible inputs
          theInput,  \* the one the program runs on
          Word,      \* values, of integers as well as the bits of floats
          Reg,       \* the registers of a function (SSA values)
          Type,      \* their types: "i1", "iN" or "fp"
          Literal,   \* the compile-time constant a register stands for at first
          Cell,      \* memory
          At,        \* the cell that an address refers to
          Content,   \* what the input puts into memory: cell -> input -> word
          Arith,     \* binary operators, and intrinsics with two operands
          Compare,   \* predicates of icmp and fcmp
          Convert,   \* unary operators, casts, and intrinsics with one operand
          LowBit,    \* the truncation of a word to i1
          Case,      \* the case values of a switch
          LoopTest,  \* the branches that leave a loop from its header or latch
          Null,      \* the null pointer in place of an expression
          MaxDepth,  \* bound on nested calls
          MaxSteps   \* bound on the length of an execution

Types == {"i1", "iN", "fp"}
Sort == {"bool", "bit", "bv", "fp", "error"}
Meaning == [Input -> Word]
Expr == [sort : Sort, den : Meaning]

\* An instruction: its operand and result types, and what it computes.
Instruction(n) == [on : Types, to : Types, f : [[1..n -> Word] -> Word]]

\* A predicate that only tells equal operands from different ones.
EqualityOnly(f) ==
  \A w, v \in [1..2 -> Word] : (w[1] = w[2] <=> v[1] = v[2]) => f[w] = f[v]

ASSUME InstrumentationAssumption ==
  /\ theInput \in Input
  /\ 0 \in Word
  /\ Type \in [Reg -> Types]
  /\ Literal \in [Reg -> Word]
  /\ Content \in [Cell -> Meaning] /\ At \in [Word -> Cell]
  /\ Arith \subseteq Instruction(2) /\ \A o \in Arith : o.on = o.to
  /\ Compare \subseteq Instruction(2)
  /\ \A o \in Compare : o.to = "i1" /\ (o.on = "i1" => EqualityOnly(o.f))
  /\ Convert \subseteq Instruction(1)
  /\ LowBit \in [Word -> Word]
  /\ Case \subseteq Word
  /\ Null \notin Expr
  /\ MaxDepth \in Nat /\ MaxSteps \in Nat

VARIABLES regs,       \* the registers of the function that is executing
          seen,       \* its loop_seen flags
          stack,      \* suspended functions, the last caller at the end
          inside,     \* "code": instrumented code executes, or "external"
          mem,        \* memory and its shadow
          parameter,  \* g_function_arguments[0]
          return,     \* g_return_value
          pushed,     \* the inputs that satisfy all path constraints pushed
          alive,      \* history: the inputs that take the path taken so far and
                      \* access the same cells on it
          hist,       \* history: what has happened on the path
          steps       \* the length of the execution

vars == <<regs, seen, stack, inside, mem, parameter, return, pushed, alive,
          hist, steps>>

\* "absent": no entry in symbolicExpressions.  "null": an entry that
\* finalizePHINodes has replaced by the null constant.  "dynamic": the
\* expression is computed at run time.
Entry == {"absent", "null", "dynamic"}

Value == [val : Word, entry : Entry, expr : Expr \cup {Null}, den : Meaning,
          opaque : BOOLEAN, foreign : BOOLEAN]

\* A suspended function: instrumented code that waits for the result of a call,
\* or an uninstrumented function ("external") that has called back.
Frame == [kind : {"code", "external"}, regs : [Reg -> Value],
          seen : SUBSET LoopTest, used : BOOLEAN]

SortOf(t) == CASE t = "i1" -> "bool" [] t = "iN" -> "bv" [] t = "fp" -> "fp"

Constantly(v) == [i \in Input |-> v]

-------------------------------------------------------------------------------
(* Expressions of the run-time library.  Each builder expects operands of a  *)
(* certain sort; a wrong one is an error of the solver.  The conversions can *)
(* be called with null.                                                      *)

Sorted(e, from, to) ==
  IF e = Null THEN Null
  ELSE [sort |-> IF e.sort = from THEN to ELSE "error", den |-> e.den]

BoolToBit(e) == Sorted(e, "bool", "bit")
BitToBool(e) == Sorted(e, "bit", "bool")
ZExtBit(e) == Sorted(e, "bit", "bv")
BitsToFloat(e) == Sorted(e, "bv", "fp")
FloatToBits(e) == Sorted(e, "fp", "bv")

TruncToBit(e) ==
  IF e = Null THEN Null
  ELSE [sort |-> IF e.sort = "bv" THEN "bit" ELSE "error",
        den  |-> [i \in Input |-> LowBit[e.den[i]]]]

\* createValueExpression: the constant for a concrete value of a type.
createValueExpression(v, t) == [sort |-> SortOf(t), den |-> Constantly(v)]

\* convertBitVectorExprForType and convertExprForTypeToBitVectorExpr: between
\* the sorts of registers and that of memory.
convertBitVectorExprForType(e, t) ==
  CASE t = "fp" -> BitsToFloat(e)
    [] t = "i1" -> BitToBool(TruncToBit(e))
    [] t = "iN" -> e

convertExprForTypeToBitVectorExpr(e, t) ==
  CASE t = "fp" -> FloatToBits(e)
    [] t = "i1" -> ZExtBit(BoolToBit(e))
    [] t = "iN" -> e

-------------------------------------------------------------------------------
(* The code that shortCircuitExpressionUses puts around a computation whose   *)
(* inputs are the registers args.                                             *)

\* Mutant: the fast path is taken when one of the inputs is concrete.
MutantSomeConcrete(args) == \E k \in DOMAIN args : regs[args[k]].expr = Null

AllConcrete(args) == \A k \in DOMAIN args : regs[args[k]].expr = Null

numUnknownConcreteness(args) ==
  Cardinality({k \in DOMAIN args : regs[args[k]].entry = "dynamic"})

\* The expression the slow path uses for an input: a new one if the input is
\* known to be concrete, the input's own if it is the only one that can be
\* symbolic, and otherwise whatever a null check says.
Operand(args, k) ==
  LET v == regs[args[k]]
      new == createValueExpression(v.val, Type[args[k]])
  IN CASE v.entry # "dynamic" -> new
       [] v.entry = "dynamic" /\ numUnknownConcreteness(args) = 1 -> v.expr
       [] v.entry = "dynamic" /\ numUnknownConcreteness(args) # 1 ->
            IF v.expr = Null THEN new ELSE v.expr

\* A builder that takes operands of one sort, in the slow path.
Build(args, f, from, to) ==
  [sort |-> IF \A k \in DOMAIN args : Operand(args, k).sort = from
              THEN to ELSE "error",
   den  |-> [i \in Input |-> f[[k \in DOMAIN args |-> Operand(args, k).den[i]]]]]

\* The concrete result and its history.
Concrete(args, f, entry, e) ==
  [val     |-> f[[k \in DOMAIN args |-> regs[args[k]].val]],
   entry   |-> entry,
   expr    |-> e,
   den     |-> [i \in Input |-> f[[k \in DOMAIN args |-> regs[args[k]].den[i]]]],
   opaque  |-> \E k \in DOMAIN args : regs[args[k]].opaque,
   foreign |-> \E k \in DOMAIN args : regs[args[k]].foreign]

ShortCircuit(args, e) == IF AllConcrete(args) THEN Null ELSE e

\* forceBuildRuntimeCall: the computation is always emitted; buildRuntimeCall:
\* only if some input has an entry.
forceBuildRuntimeCall(args, f, e) ==
  Concrete(args, f, "dynamic", ShortCircuit(args, e))

buildRuntimeCall(args, f, e) ==
  IF \A k \in DOMAIN args : regs[args[k]].entry = "absent"
    THEN Concrete(args, f, "absent", Null)
    ELSE forceBuildRuntimeCall(args, f, e)

-------------------------------------------------------------------------------
Step == steps < MaxSteps /\ steps' = steps + 1
Running == inside = "code" /\ Step

OfType(t) == {r \in Reg : Type[r] = t}

\* The instruction gives dst a value and does nothing else.
Assign(dst, v) ==
  /\ Running
  /\ regs' = [regs EXCEPT ![dst] = v]
  /\ UNCHANGED <<seen, stack, inside, mem, parameter, return, pushed, alive, hist>>

\* What an instruction leaves that the compiler does not understand: no entry,
\* and a value of which nothing is known.
Concretized(v) ==
  [val |-> v, entry |-> "absent", expr |-> Null, den |-> Constantly(v),
   opaque |-> TRUE, foreign |-> FALSE]

Vector(a) == [k \in 1..1 |-> a]
Pair(a, b) == [k \in 1..2 |-> IF k = 1 THEN a ELSE b]
lowBit == [w \in [1..1 -> Word] |-> LowBit[w[1]]]
identity == [w \in [1..1 -> Word] |-> w[1]]

-------------------------------------------------------------------------------
(* Computations *)

\* Mutant: Booleans are treated like other integers.
MutantNoBoolHandler(t) == IF t = "fp" THEN "fp" ELSE "bv"

\* The builder for an operator depends on its opcode, and for "and", "or" and
\* "xor" on whether the operands are Booleans.
BinaryHandler(t) == IF t = "i1" THEN "bool" ELSE SortOf(t)

visitBinaryOperator(o) ==
  \E a, b \in OfType(o.on), dst \in OfType(o.to) :
    LET h == BinaryHandler(o.on)
    IN Assign(dst, buildRuntimeCall(Pair(a, b), o.f, Build(Pair(a, b), o.f, h, h)))

visitCmpInst(o) ==
  \E a, b \in OfType(o.on), dst \in OfType("i1") :
    Assign(dst, buildRuntimeCall(Pair(a, b), o.f,
                                 Build(Pair(a, b), o.f, SortOf(o.on), "bool")))

\* Unary operators, intrinsics with one operand, and the conversions from and to
\* floating-point values.
visitConversion(o) ==
  /\ "i1" \notin {o.on, o.to} /\ "fp" \in {o.on, o.to}
  /\ \E a \in OfType(o.on), dst \in OfType(o.to) :
       Assign(dst, buildRuntimeCall(Vector(a), o.f,
                     Build(Vector(a), o.f, SortOf(o.on), SortOf(o.to))))

\* Zero and sign extension.  A Boolean is made a bit first, and in that case the
\* computation is emitted even for a constant.
visitCastInst(o) ==
  /\ o.on \in {"i1", "iN"} /\ o.to = "iN"
  /\ \E a \in OfType(o.on), dst \in OfType("iN") :
       IF o.on = "i1"
         THEN LET bit == BoolToBit(Operand(Vector(a), 1))
                  ext == [sort |-> ZExtBit(bit).sort,
                          den  |-> [i \in Input |-> o.f[[k \in 1..1 |-> bit.den[i]]]]]
              IN Assign(dst, forceBuildRuntimeCall(Vector(a), o.f, ext))
         ELSE Assign(dst, buildRuntimeCall(Vector(a), o.f,
                                           Build(Vector(a), o.f, "bv", "bv")))

\* Truncation to a Boolean.
visitTruncInst ==
  \E a \in OfType("iN"), dst \in OfType("i1") :
    Assign(dst, IF regs[a].entry = "absent"
                  THEN Concrete(Vector(a), lowBit, "absent", Null)
                  ELSE forceBuildRuntimeCall(Vector(a), lowBit,
                         BitToBool(TruncToBit(Operand(Vector(a), 1)))))

\* Integers to floating point with the same bits, and back.  On the way back the
\* computation is registered without the instruction it belongs to.
visitBitCastInst ==
  \E a \in OfType("iN"), b \in OfType("fp") :
    \/ Assign(b, buildRuntimeCall(Vector(a), identity,
                                  BitsToFloat(Operand(Vector(a), 1))))
    \/ Assign(a, [Concrete(Vector(b), identity, "absent", Null)
                    EXCEPT !.opaque = @ \/ regs[b].expr # Null])

\* Casts between pointers and integers, llvm.expect, and address arithmetic with
\* zero indices: the entry is copied.
visitPointerCast == \E a, dst \in OfType("iN") : Assign(dst, regs[a])

\* Inline assembly, and instructions and intrinsics that are not handled.
visitInstruction == \E dst \in Reg, v \in Word : Assign(dst, Concretized(v))

\* Address arithmetic on a pointer and an index that is not the constant zero:
\* unless neither has an entry, the computation is always emitted.
visitGetElementPtrInst(o) ==
  /\ o.on = "iN"
  /\ \E base, index, dst \in OfType("iN") :
       LET args == Pair(index, base)
       IN Assign(dst, IF \A k \in 1..2 : regs[args[k]].entry = "absent"
                        THEN Concrete(args, o.f, "absent", Null)
                        ELSE forceBuildRuntimeCall(args, o.f, Build(args, o.f, "bv", "bv")))

\* Mutant: a node is erased when any of its incoming values is a constant.
MutantEraseAnyPHI(from, other) ==
  IF regs[from].entry = "absent" \/ regs[other].entry = "absent" THEN "null" ELSE "dynamic"

\* finalizePHINodes: once the function has been visited, a node none of whose
\* incoming values has an entry is replaced by null.
finalizePHINodes(from, other) ==
  IF regs[from].entry = "absent" /\ regs[other].entry = "absent" THEN "null" ELSE "dynamic"

\* A PHI node takes its value and its expression from the edge it was reached by.
visitPHINode(t) ==
  \E dst, from, other \in OfType(t) :
    Assign(dst, [regs[from] EXCEPT !.entry = finalizePHINodes(from, other)])

-------------------------------------------------------------------------------
(* Memory *)

\* The cell that is accessed through the pointer p, and whether the instrumentation
\* knows what the pointer would be for other inputs.
Target(p) == At[regs[p].val]
Known(p) == ~regs[p].opaque /\ ~regs[p].foreign

\* The expression of an address is not looked at: inputs on the path may stray to
\* other cells, and nothing is pushed that excludes them.
Strays(p) == IF Known(p) THEN {i \in alive : At[regs[p].den[i]] # Target(p)} ELSE {}
Access(p) ==
  /\ Running
  /\ alive' = alive \ Strays(p)
  /\ hist' = [hist EXCEPT !.strayed = @ \cup Strays(p)]
  /\ UNCHANGED <<seen, stack, inside, parameter, return, pushed>>

visitLoadInst(dst, p) ==
  LET t == Type[dst]
      Bits(w) == IF t = "i1" THEN LowBit[w] ELSE w
      m == mem[Target(p)]
  IN /\ Access(p)
     /\ regs' = [regs EXCEPT ![dst] =
          [val     |-> Bits(m.val),
           entry   |-> "dynamic",
           expr    |-> convertBitVectorExprForType(m.expr, t),
           den     |-> [i \in Input |-> Bits(m.den[i])],
           opaque  |-> m.opaque \/ ~Known(p),
           foreign |-> m.foreign]]
     /\ UNCHANGED mem

\* What is stored in the cell of this execution.  Through a pointer of which nothing
\* is known, another input may have overwritten any cell.
Stored(a) == [regs[a] EXCEPT !.entry = "dynamic",
                             !.expr = IF regs[a].entry = "absent" THEN Null
                                      ELSE convertExprForTypeToBitVectorExpr(@, Type[a])]
Overwritten(m, a, p) ==
  [(IF m = Target(p) THEN Stored(a) ELSE mem[m]) EXCEPT !.opaque = @ \/ ~Known(p)]

visitStoreInst(a, p) ==
  /\ Access(p)
  /\ mem' = [m \in Cell |-> Overwritten(m, a, p)]
  /\ UNCHANGED regs

-------------------------------------------------------------------------------
(* Control flow *)

\* The inputs that agree with this execution on whether the words that m gives
\* them satisfy P.
Agreeing(P(_), m, v) == {i \in Input : P(m[i]) <=> P(v)}

IsTrue(w) == w # 0

\* pushPathConstraintWithLoc, short-circuited if the condition is concrete.
pushPathConstraint(c) ==
  IF regs[c].expr = Null THEN pushed
  ELSE pushed \cap Agreeing(IsTrue, regs[c].expr.den, regs[c].val)

\* Which other inputs go the same way, and whether instrumentation can know.
Decide(c) ==
  /\ alive' = alive \cap Agreeing(IsTrue, regs[c].den, regs[c].val)
  /\ hist' = [hist EXCEPT !.opaque = @ \/ regs[c].opaque,
                           !.foreign = @ \/ regs[c].foreign]

\* Mutant: the condition of a select is not pushed.
MutantSelectUnpushed(c, dst, t, f) ==
  /\ Running
  /\ LET chosen == IF IsTrue(regs[c].val) THEN regs[t] ELSE regs[f]
     IN regs' = [regs EXCEPT ![dst] = [chosen EXCEPT !.entry = "dynamic"]]
  /\ Decide(c)
  /\ UNCHANGED <<seen, stack, inside, mem, parameter, return, pushed>>

visitSelectInst(c, dst, t, f) ==
  /\ Running
  /\ pushed' = pushPathConstraint(c)
  /\ LET chosen == IF IsTrue(regs[c].val) THEN regs[t] ELSE regs[f]
         absent == regs[t].entry = "absent" /\ regs[f].entry = "absent"
     IN regs' = [regs EXCEPT ![dst] =
                   [chosen EXCEPT !.entry = IF absent THEN "absent" ELSE "dynamic"]]
  /\ Decide(c)
  /\ UNCHANGED <<seen, stack, inside, mem, parameter, return>>

visitBranchInst(c) ==
  /\ Running
  /\ pushed' = pushPathConstraint(c)
  /\ Decide(c)
  /\ UNCHANGED <<regs, seen, stack, inside, mem, parameter, return>>

\* The branch that decides whether a loop goes on, if its condition can be
\* symbolic: only the first evaluation in each activation of the function is
\* pushed, whether it is symbolic or not.
visitLoopBranch(c, l) ==
  /\ Running
  /\ regs[c].entry = "dynamic"
  /\ pushed' = IF l \in seen THEN pushed ELSE pushPathConstraint(c)
  /\ seen' = seen \cup {l}
  /\ alive' = alive \cap Agreeing(IsTrue, regs[c].den, regs[c].val)
  /\ hist' = [hist EXCEPT !.opaque = @ \/ regs[c].opaque,
                           !.foreign = @ \/ regs[c].foreign,
                           !.skipped = @ \/ (l \in seen /\ regs[c].expr # Null)]
  /\ UNCHANGED <<regs, stack, inside, mem, parameter, return>>

\* Mutant: every case is pushed as taken.
MutantSwitchTaken(c) ==
  LET Same(m, v) == {i \in Input : \A w \in Case : m[i] = w <=> v = w}
  IN /\ Running
     /\ pushed' = IF regs[c].expr = Null THEN pushed
                  ELSE {i \in pushed : \A w \in Case : regs[c].expr.den[i] = w}
     /\ alive' = alive \cap Same(regs[c].den, regs[c].val)
     /\ hist' = [hist EXCEPT !.opaque = @ \/ regs[c].opaque,
                              !.foreign = @ \/ regs[c].foreign]
     /\ UNCHANGED <<regs, seen, stack, inside, mem, parameter, return>>

\* One constraint per case, whichever is taken.
visitSwitchInst(c) ==
  LET Same(m, v) == {i \in Input : \A w \in Case : m[i] = w <=> v = w}
  IN /\ Running
     /\ pushed' = IF regs[c].expr = Null THEN pushed
                  ELSE pushed \cap Same(regs[c].expr.den, regs[c].val)
     /\ alive' = alive \cap Same(regs[c].den, regs[c].val)
     /\ hist' = [hist EXCEPT !.opaque = @ \/ regs[c].opaque,
                              !.foreign = @ \/ regs[c].foreign]
     /\ UNCHANGED <<regs, seen, stack, inside, mem, parameter, return>>

-------------------------------------------------------------------------------
(* Functions *)

\* Registers before their instruction is executed: compile-time constants.
Fresh == [r \in Reg |->
           [val |-> Literal[r], entry |-> "absent", expr |-> Null,
            den |-> Constantly(Literal[r]), opaque |-> FALSE, foreign |-> FALSE]]

\* symbolizeFunctionArguments: the parameter has whatever expression is in the
\* global array.
Enter(p, arg, expr) ==
  [Fresh EXCEPT ![p] = [arg EXCEPT !.entry = "dynamic", !.expr = expr]]

\* Mutant: the return expression of an earlier call is left in place.
MutantCallKeepsReturn(a, used) ==
  /\ Running
  /\ Len(stack) < MaxDepth
  /\ parameter' = regs[a].expr
  /\ stack' = Append(stack, [kind |-> "code", regs |-> regs, seen |-> seen, used |-> used])
  /\ seen' = {}
  /\ UNCHANGED <<mem, return, pushed, alive, hist>>

\* handleFunctionCall: the caller passes the argument's expression, and clears
\* the return expression if it is going to use the result.
handleFunctionCall(a, used) ==
  /\ Running
  /\ Len(stack) < MaxDepth
  /\ parameter' = regs[a].expr
  /\ return' = IF used THEN Null ELSE return
  /\ stack' = Append(stack, [kind |-> "code", regs |-> regs, seen |-> seen, used |-> used])
  /\ seen' = {}
  /\ UNCHANGED <<mem, pushed, alive, hist>>

visitCallInst(a, used) ==
  /\ handleFunctionCall(a, used)
  /\ \E p \in OfType(Type[a]) : regs' = Enter(p, regs[a], parameter')
  /\ UNCHANGED inside

\* The callee is not instrumented.
CallExternal(a, used) ==
  /\ handleFunctionCall(a, used)
  /\ inside' = "external"
  /\ regs' = Fresh

\* An uninstrumented function calls an instrumented one, with an argument of its
\* own.
Callback ==
  /\ inside = "external" /\ Step
  /\ Len(stack) < MaxDepth
  /\ \E p \in Reg, v \in Word :
       regs' = Enter(p, [Concretized(v) EXCEPT !.foreign = parameter # Null], parameter)
  /\ stack' = Append(stack, [kind |-> "external", regs |-> Fresh, seen |-> {}, used |-> FALSE])
  /\ inside' = "code"
  /\ hist' = [hist EXCEPT !.callback = TRUE]
  /\ UNCHANGED <<seen, mem, parameter, return, pushed, alive>>

\* The caller goes on with its own registers and flags.
Resume ==
  /\ stack # <<>>
  /\ stack' = SubSeq(stack, 1, Len(stack) - 1)
  /\ seen' = stack[Len(stack)].seen
  /\ inside' = stack[Len(stack)].kind
  /\ UNCHANGED <<mem, parameter, pushed, alive, hist>>

\* If it uses the result, it reads the return expression, which clears it.
Deliver(t, result, expr) ==
  LET top == stack[Len(stack)]
  IN IF top.used
       THEN /\ \E dst \in OfType(t) :
                 regs' = [top.regs EXCEPT ![dst] =
                            [result EXCEPT !.entry = "dynamic", !.expr = expr]]
            /\ return' = Null
       ELSE regs' = top.regs /\ return' = expr

\* A return with a value sets the return expression, also to null.
visitReturnInst(a) ==
  /\ Running
  /\ Resume
  /\ Deliver(Type[a], regs[a], regs[a].expr)

\* A return without a value leaves it alone.
visitReturnVoid ==
  /\ Running
  /\ Resume
  /\ ~stack[Len(stack)].used
  /\ regs' = stack[Len(stack)].regs
  /\ UNCHANGED return

\* So does an uninstrumented function.
ExternalReturn ==
  /\ inside = "external" /\ Step
  /\ Resume
  /\ \E t \in Types, v \in Word :
       Deliver(t, [Concretized(v) EXCEPT !.foreign = return # Null], return)

-------------------------------------------------------------------------------
\* Memory holds symbolic bytes, see _sym_make_symbolic; main has no symbolic
\* parameters.
Init ==
  /\ regs = Fresh /\ seen = {} /\ stack = <<>> /\ inside = "code"
  /\ mem = [m \in Cell |->
             [val |-> Content[m][theInput], entry |-> "dynamic",
              expr |-> [sort |-> "bv", den |-> Content[m]], den |-> Content[m],
              opaque |-> FALSE, foreign |-> FALSE]]
  /\ parameter = Null /\ return = Null
  /\ pushed = Input /\ alive = Input
  /\ hist = [opaque |-> FALSE, foreign |-> FALSE, skipped |-> FALSE, callback |-> FALSE,
             strayed |-> {}]
  /\ steps = 0

Compute ==
  \/ \E o \in Arith : visitBinaryOperator(o) \/ visitGetElementPtrInst(o)
  \/ \E o \in Compare : visitCmpInst(o)
  \/ \E o \in Convert : visitConversion(o) \/ visitCastInst(o)
  \/ visitTruncInst
  \/ visitBitCastInst
  \/ visitPointerCast
  \/ visitInstruction
  \/ \E t \in Types : visitPHINode(t)

Memory == \E r \in Reg, p \in OfType("iN") : visitLoadInst(r, p) \/ visitStoreInst(r, p)

Control ==
  \/ \E c \in OfType("i1") :
       \/ visitBranchInst(c)
       \/ \E l \in LoopTest : visitLoopBranch(c, l)
       \/ \E t \in Types : \E dst, p, q \in OfType(t) : visitSelectInst(c, dst, p, q)
  \/ \E c \in OfType("iN") : visitSwitchInst(c)

Functions ==
  \/ \E a \in Reg, used \in BOOLEAN : visitCallInst(a, used) \/ CallExternal(a, used)
  \/ Callback
  \/ \E a \in Reg : visitReturnInst(a)
  \/ visitReturnVoid
  \/ ExternalReturn

Next == Compute \/ Memory \/ Control \/ Functions

Spec == Init /\ [][Next]_vars

-------------------------------------------------------------------------------
(* Properties *)

TypeOK ==
  /\ regs \in [Reg -> Value]
  /\ seen \subseteq LoopTest
  /\ stack \in Seq(Frame)
  /\ inside \in {"code", "external"}
  /\ mem \in [Cell -> Value]
  /\ parameter \in Expr \cup {Null} /\ return \in Expr \cup {Null}
  /\ pushed \subseteq Input /\ alive \subseteq Input
  /\ hist \in [opaque : BOOLEAN, foreign : BOOLEAN, skipped : BOOLEAN, callback : BOOLEAN,
               strayed : SUBSET Input]
  /\ steps \in Nat

\* All values of the program, with the sort their expressions must have.
Everywhere(P(_, _)) ==
  /\ \A r \in Reg : P(regs[r], SortOf(Type[r]))
  /\ \A k \in DOMAIN stack : \A r \in Reg : P(stack[k].regs[r], SortOf(Type[r]))
  /\ \A m \in Cell : P(mem[m], "bv")

\* What the instrumentation takes a value to be under an input.
Believed(v, i) == IF v.expr = Null THEN v.val ELSE v.expr.den[i]

Matches(v, sort) ==
  ~v.foreign /\ v.expr # Null => v.expr.sort = sort /\ v.expr.den[theInput] = v.val

Exact(v, sort) ==
  ~v.foreign /\ ~v.opaque => \A i \in alive : Believed(v, i) = v.den[i]

\* Each expression has the sort of its value's type (an i1 is a Boolean, memory
\* holds bit vectors) and, under the input the program runs on, the value itself.
ExpressionsMatch == Everywhere(Matches)

\* Short-circuiting loses nothing: a value without an expression is the same for
\* every input that takes this path and accesses the same cells, and an expression
\* says what the program would compute for it, as long as everything is instrumented.
ExpressionsExact == Everywhere(Exact)

\* The path constraints are true of the input the program runs on; the backends
\* would otherwise be "asserting infeasible path constraints".
PathIsFeasible == ~hist.foreign => theInput \in pushed

\* The path constraints describe the path: an input that takes it and accesses the
\* same cells satisfies them.  An input that satisfies them takes it, unless a
\* symbolic loop test was passed over, or the input has strayed: in if (table[in])
\* the constraints know one entry of the table, and nothing of other values of in.
PathIsDescribed ==
  ~hist.opaque /\ ~hist.foreign =>
    /\ alive \subseteq pushed
    /\ ~hist.skipped => pushed \subseteq alive \cup hist.strayed

\* Each symbolic decision of a loop is one more alternative input: the test
\* test/loop.c counts five of them. So no input that satisfies the constraints
\* leaves the path at a decision, with or without loops.
EveryDecisionIsPushed ==
  ~hist.opaque /\ ~hist.foreign => pushed \subseteq alive \cup hist.strayed

\* Callers clear the return expression and set those of the parameters, so a
\* value gets an expression that was meant for another one only if
\* uninstrumented code has called back.
Own(v, sort) == ~v.foreign
ForeignByCallback == ~hist.callback => Everywhere(Own) /\ ~hist.foreign

\* The result of an uninstrumented function is "an opaque concrete value", as
\* the comment in handleFunctionCall has it.
OpaqueResultsAreConcrete ==
  inside = "external" /\ stack[Len(stack)].used => return = Null

\* What makes the properties inductive: only a value with a dynamic entry has an
\* expression, a value is what it would be under the present input, and before the
\* first callback the return expression is null while a caller waits for it.
Sane(v, sort) ==
  /\ v.entry # "dynamic" => v.expr = Null
  /\ v.den[theInput] = v.val
  /\ Matches(v, sort)
  /\ Exact(v, sort)
  /\ hist.callback \/ ~v.foreign

IndInv ==
  /\ TypeOK
  /\ Everywhere(Sane)
  /\ theInput \in alive
  /\ PathIsFeasible
  /\ PathIsDescribed
  /\ hist.callback \/ ~hist.foreign
  /\ ~hist.callback =>
       /\ \A k \in DOMAIN stack : stack[k].kind = "code"
       /\ inside = "external" /\ stack # <<>> /\ stack[Len(stack)].used => return = Null
===============================================================================
