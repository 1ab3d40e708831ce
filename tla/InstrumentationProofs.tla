------------------------- MODULE InstrumentationProofs -------------------------
(* Proofs about Instrumentation: IndInv is an invariant for all sets of inputs, *)
(* words, registers and instructions.                                           *)
EXTENDS Instrumentation, FiniteSetTheorems, TLAPS

\* A value that may stand in a place of a given sort.
Good(v, sort) == v \in Value /\ Sane(v, sort)

\* The operands of a computation.
Args(args, n) == n \in {1, 2} /\ args \in [1..n -> Reg]

NoneForeign(args) == \A k \in DOMAIN args : ~regs[args[k]].foreign
AllExact(args) == \A k \in DOMAIN args : ~regs[args[k]].foreign /\ ~regs[args[k]].opaque

\* An expression that is right for the result of f on args.
RightFor(e, args, f, sort) ==
  /\ e \in Expr
  /\ NoneForeign(args) =>
       /\ e.sort = sort
       /\ e.den[theInput] = f[[k \in DOMAIN args |-> regs[args[k]].val]]
  /\ AllExact(args) =>
       \A i \in alive : e.den[i] = f[[k \in DOMAIN args |-> regs[args[k]].den[i]]]

LEMMA SortOfType == \A t \in Types : SortOf(t) \in Sort
  BY DEF Types, SortOf, Sort

LEMMA RegsGood ==
  ASSUME IndInv, NEW r \in Reg
  PROVE  Good(regs[r], SortOf(Type[r]))
  BY DEF IndInv, TypeOK, Everywhere, Good

\* The expression that the slow path uses for an operand is right for it.
RightOperand(o, v, sort) ==
  /\ o \in Expr
  /\ ~v.foreign => o.sort = sort /\ o.den[theInput] = v.val
  /\ ~v.foreign /\ ~v.opaque => \A i \in alive : o.den[i] = v.den[i]

LEMMA OperandRight ==
  ASSUME IndInv, NEW n, NEW args, Args(args, n), ~AllConcrete(args), NEW k \in 1..n
  PROVE  RightOperand(Operand(args, k), regs[args[k]], SortOf(Type[args[k]]))
<1> DEFINE v == regs[args[k]]
           new == createValueExpression(v.val, Type[args[k]])
           D == {j \in DOMAIN args : regs[args[j]].entry = "dynamic"}
<1>1. args[k] \in Reg /\ DOMAIN args = 1..n /\ Type[args[k]] \in Types
  BY InstrumentationAssumption DEF Args
<1>2. v \in Value /\ Sane(v, SortOf(Type[args[k]]))
  BY <1>1, RegsGood DEF Good
<1>3. new \in Expr /\ new.sort = SortOf(Type[args[k]]) /\ \A i \in Input : new.den[i] = v.val
  BY <1>1, <1>2, SortOfType DEF createValueExpression, Expr, Constantly, Value, Meaning
<1>4. theInput \in Input /\ alive \subseteq Input
  BY InstrumentationAssumption DEF IndInv, TypeOK
<1>5. ASSUME v.entry = "dynamic", numUnknownConcreteness(args) = 1
      PROVE  v.expr # Null
  <2>1. PICK j \in 1..n : regs[args[j]].expr # Null
    BY <1>1 DEF AllConcrete
  <2>2. regs[args[j]].entry = "dynamic"
    BY <2>1, RegsGood DEF Args, Good, Sane
  <2>3. IsFiniteSet(D)
    <3>1. IsFiniteSet(1..n)
      BY FS_Interval DEF Args
    <3> QED BY <3>1, <1>1, FS_Subset
  <2>4. \E d : D = {d}
    BY <2>3, <1>5, FS_Singleton DEF numUnknownConcreteness
  <2>5. k \in D /\ j \in D
    BY <1>1, <1>5, <2>2
  <2> QED BY <2>1, <2>4, <2>5
<1>6. Operand(args, k) = (IF v.entry = "dynamic" /\ v.expr # Null THEN v.expr ELSE new)
  <2>1. CASE v.entry # "dynamic"
    BY <2>1 DEF Operand
  <2>2. CASE v.entry = "dynamic" /\ numUnknownConcreteness(args) = 1
    BY <2>2, <1>5 DEF Operand
  <2>3. CASE v.entry = "dynamic" /\ numUnknownConcreteness(args) # 1
    BY <2>3 DEF Operand
  <2> QED BY <2>1, <2>2, <2>3
<1>7. CASE v.entry = "dynamic" /\ v.expr # Null
  BY <1>2, <1>6, <1>7 DEF RightOperand, Value, Sane, Matches, Exact, Believed
<1>8. CASE ~(v.entry = "dynamic" /\ v.expr # Null)
  <2>1. v.expr = Null /\ Operand(args, k) = new
    BY <1>2, <1>6, <1>8 DEF Sane
  <2> QED BY <1>2, <1>3, <1>4, <2>1 DEF RightOperand, Sane, Exact, Believed
<1> QED BY <1>7, <1>8

\* A builder that is given operands of the sort it expects is right.
LEMMA BuildRight ==
  ASSUME IndInv, NEW n, NEW args, Args(args, n), ~AllConcrete(args),
         NEW t \in Types, \A k \in 1..n : Type[args[k]] = t,
         NEW f \in [[1..n -> Word] -> Word], NEW to \in Sort
  PROVE  RightFor(Build(args, f, SortOf(t), to), args, f, to)
<1> DEFINE e == Build(args, f, SortOf(t), to)
           O(i) == [k \in DOMAIN args |-> Operand(args, k).den[i]]
<1>1. DOMAIN args = 1..n /\ theInput \in Input /\ alive \subseteq Input
  BY InstrumentationAssumption DEF Args, IndInv, TypeOK
<1>2. \A k \in 1..n : RightOperand(Operand(args, k), regs[args[k]], SortOf(t))
  BY OperandRight
<1>3. \A i \in Input : O(i) \in [1..n -> Word]
  BY <1>1, <1>2 DEF RightOperand, Expr, Meaning
<1>4. e \in Expr /\ \A i \in Input : e.den[i] = f[O(i)]
  BY <1>3 DEF Build, Expr, Meaning, Sort
<1>5. ASSUME NoneForeign(args)
      PROVE  e.sort = to /\ O(theInput) = [k \in DOMAIN args |-> regs[args[k]].val]
  <2>1. \A k \in 1..n : Operand(args, k).sort = SortOf(t)
                        /\ Operand(args, k).den[theInput] = regs[args[k]].val
    BY <1>1, <1>2, <1>5 DEF RightOperand, NoneForeign
  <2> QED BY <1>1, <2>1 DEF Build
<1>6. ASSUME AllExact(args), NEW i \in alive
      PROVE  O(i) = [k \in DOMAIN args |-> regs[args[k]].den[i]]
  <2>1. \A k \in 1..n : Operand(args, k).den[i] = regs[args[k]].den[i]
    BY <1>1, <1>2, <1>6 DEF RightOperand, AllExact
  <2> QED BY <1>1, <2>1
<1> QED BY <1>1, <1>4, <1>5, <1>6 DEF RightFor

-------------------------------------------------------------------------------
(* Sane and its use in IndInv, with the state it depends on as parameters.       *)

SaneIn(v, sort, live, called) ==
  /\ v.entry # "dynamic" => v.expr = Null
  /\ v.den[theInput] = v.val
  /\ ~v.foreign /\ v.expr # Null => v.expr.sort = sort /\ v.expr.den[theInput] = v.val
  /\ ~v.foreign /\ ~v.opaque =>
       \A i \in live : (IF v.expr = Null THEN v.val ELSE v.expr.den[i]) = v.den[i]
  /\ called \/ ~v.foreign

Bank(R, live, called) == \A r \in Reg : SaneIn(R[r], SortOf(Type[r]), live, called)

Banks(R, S, M, live, called) ==
  /\ Bank(R, live, called)
  /\ \A k \in DOMAIN S : Bank(S[k].regs, live, called)
  /\ \A m \in Cell : SaneIn(M[m], "bv", live, called)

LEMMA SaneIsSaneIn == \A v, sort : Sane(v, sort) <=> SaneIn(v, sort, alive, hist.callback)
  BY DEF Sane, SaneIn, Matches, Exact, Believed

LEMMA EverywhereIsBanks == Everywhere(Sane) <=> Banks(regs, stack, mem, alive, hist.callback)
  BY DEF Everywhere, Sane, SaneIn, Matches, Exact, Believed, Bank, Banks

LEMMA EverywhereIsBanksNext ==
  Everywhere(Sane)' <=> Banks(regs', stack', mem', alive', hist'.callback)
  BY DEF Everywhere, Sane, SaneIn, Matches, Exact, Believed, Bank, Banks

\* What is known of a value stays known when fewer inputs are left and after a
\* callback.
LEMMA SaneNarrows ==
  ASSUME NEW A, NEW B, B \subseteq A, NEW p, NEW q, p => q
  PROVE  \A v, sort : SaneIn(v, sort, A, p) => SaneIn(v, sort, B, q)
  BY DEF SaneIn

LEMMA BanksNarrow ==
  ASSUME NEW A, NEW B, B \subseteq A, NEW p, NEW q, p => q,
         NEW R, NEW S, NEW M, Banks(R, S, M, A, p)
  PROVE  Banks(R, S, M, B, q)
  BY SaneNarrows DEF Banks, Bank

\* The result of an instruction is as it should be if its expression is, and it
\* has none only if its operands have none.
LEMMA ConcreteGood ==
  ASSUME IndInv, NEW n, NEW args, Args(args, n),
         NEW f \in [[1..n -> Word] -> Word], NEW sort, NEW entry \in Entry,
         NEW e, entry # "dynamic" => e = Null,
         e = Null \/ RightFor(e, args, f, sort), e = Null => AllConcrete(args)
  PROVE  Good(Concrete(args, f, entry, e), sort)
<1> DEFINE w == Concrete(args, f, entry, e)
           V == [k \in DOMAIN args |-> regs[args[k]].val]
           D(i) == [k \in DOMAIN args |-> regs[args[k]].den[i]]
<1>1. DOMAIN args = 1..n /\ theInput \in Input /\ alive \subseteq Input
  BY InstrumentationAssumption DEF Args, IndInv, TypeOK
<1>2. \A k \in 1..n : Good(regs[args[k]], SortOf(Type[args[k]]))
  BY RegsGood DEF Args
<1>3. V \in [1..n -> Word] /\ \A i \in Input : D(i) \in [1..n -> Word]
  BY <1>1, <1>2 DEF Good, Value, Meaning
<1>4. D(theInput) = V
  BY <1>1, <1>2 DEF Good, Sane
<1>5. /\ w.val = f[V] /\ w.entry = entry /\ w.expr = e
      /\ \A i \in Input : w.den[i] = f[D(i)]
      /\ w.foreign <=> ~NoneForeign(args)
      /\ w.foreign \/ w.opaque <=> ~AllExact(args)
  BY DEF Concrete, NoneForeign, AllExact
<1>6. e \in Expr \cup {Null}
  BY DEF RightFor
<1>7. w \in Value
  <2>1. w.opaque \in BOOLEAN /\ w.foreign \in BOOLEAN
    BY DEF Concrete
  <2>2. w.val \in Word /\ w.den \in Meaning
    BY <1>3 DEF Concrete, Meaning
  <2> QED BY <1>5, <1>6, <2>1, <2>2 DEF Concrete, Value
<1>8. Matches(w, sort)
  BY <1>5 DEF Matches, RightFor
<1>9. Exact(w, sort)
  <2>1. ASSUME e = Null, AllExact(args), NEW i \in alive
        PROVE  V = D(i)
    BY <1>1, <1>2, <2>1 DEF AllConcrete, AllExact, Good, Sane, Exact, Believed
  <2> QED BY <1>1, <1>5, <2>1 DEF Exact, Believed, RightFor
<1>10. hist.callback \/ ~w.foreign
  BY <1>1, <1>2, <1>5 DEF NoneForeign, Good, Sane
<1> QED BY <1>1, <1>4, <1>5, <1>7, <1>8, <1>9, <1>10 DEF Good, Sane

LEMMA AbsentGood ==
  ASSUME IndInv, NEW n, NEW args, Args(args, n),
         NEW f \in [[1..n -> Word] -> Word], NEW sort,
         \A k \in DOMAIN args : regs[args[k]].entry = "absent"
  PROVE  Good(Concrete(args, f, "absent", Null), sort)
<1>1. AllConcrete(args)
  BY RegsGood DEF AllConcrete, Args, Good, Sane
<1> QED BY <1>1, ConcreteGood DEF Entry

LEMMA CallGood ==
  ASSUME IndInv, NEW n, NEW args, Args(args, n),
         NEW f \in [[1..n -> Word] -> Word], NEW sort, NEW e,
         ~AllConcrete(args) => RightFor(e, args, f, sort)
  PROVE  /\ Good(forceBuildRuntimeCall(args, f, e), sort)
         /\ Good(buildRuntimeCall(args, f, e), sort)
<1>1. Good(forceBuildRuntimeCall(args, f, e), sort)
  <2> DEFINE g == ShortCircuit(args, e)
  <2>1. CASE AllConcrete(args)
    <3>1. g = Null
      BY <2>1 DEF ShortCircuit
    <3> QED BY <2>1, <3>1, ConcreteGood DEF forceBuildRuntimeCall, Entry
  <2>2. CASE ~AllConcrete(args)
    <3>1. g = e /\ RightFor(e, args, f, sort) /\ e # Null
      BY <2>2, InstrumentationAssumption DEF ShortCircuit, RightFor
    <3>2. "dynamic" \in Entry
      BY DEF Entry
    <3>3. Good(Concrete(args, f, "dynamic", e), sort)
      <4> HIDE DEF g
      <4> QED BY ONLY IndInv, Args(args, n), f \in [[1..n -> Word] -> Word], <3>1, <3>2, ConcreteGood
    <3> QED BY <3>1, <3>3 DEF forceBuildRuntimeCall
  <2> QED BY <2>1, <2>2
<1> QED BY <1>1, AbsentGood DEF buildRuntimeCall

-------------------------------------------------------------------------------
(* The steps *)

\* An instruction that only assigns a register, to a value as it should be.
LEMMA AssignKeeps ==
  ASSUME IndInv, NEW dst \in Reg, NEW v, Good(v, SortOf(Type[dst])), Assign(dst, v)
  PROVE  IndInv'
<1>1. TypeOK'
  BY DEF Assign, Running, Step, IndInv, TypeOK, Good
<1>2. Everywhere(Sane)'
  <2>1. SaneIn(v, SortOf(Type[dst]), alive, hist.callback)
    BY SaneIsSaneIn DEF Good
  <2>2. Banks(regs, stack, mem, alive, hist.callback)
    BY EverywhereIsBanks DEF IndInv
  <2>3. Bank(regs', alive, hist.callback)
    BY <2>1, <2>2 DEF Assign, IndInv, TypeOK, Banks, Bank
  <2>4. Banks(regs', stack', mem', alive', hist'.callback)
    BY <2>2, <2>3 DEF Assign, Banks
  <2> QED BY <2>4, EverywhereIsBanksNext
<1> QED BY <1>1, <1>2 DEF Assign, IndInv, PathIsFeasible, PathIsDescribed

LEMMA InstructionArgs ==
  ASSUME NEW a \in Reg, NEW b \in Reg
  PROVE  /\ Args(Pair(a, b), 2) /\ DOMAIN Pair(a, b) = 1..2
         /\ Pair(a, b)[1] = a /\ Pair(a, b)[2] = b
         /\ Args(Vector(a), 1) /\ DOMAIN Vector(a) = 1..1 /\ Vector(a)[1] = a
  BY DEF Args, Pair, Vector

\* Instructions with two operands.
LEMMA BinaryKeeps ==
  ASSUME IndInv, NEW o \in Arith \cup Compare,
         \/ o \in Arith /\ (visitBinaryOperator(o) \/ visitGetElementPtrInst(o))
         \/ o \in Compare /\ visitCmpInst(o)
  PROVE  IndInv'
<1>1. /\ o.on \in Types /\ o.to \in Types /\ o.f \in [[1..2 -> Word] -> Word]
      /\ o \in Arith => o.on = o.to
      /\ o \in Compare => o.to = "i1"
  BY InstrumentationAssumption DEF Instruction
<1>2. SortOf(o.on) \in Sort /\ SortOf(o.to) \in Sort /\ SortOf("i1") = "bool" /\ SortOf("iN") = "bv"
  BY <1>1, SortOfType DEF SortOf
<1>3. ASSUME NEW a \in OfType(o.on), NEW b \in OfType(o.on), NEW to \in Sort
      PROVE  LET e == Build(Pair(a, b), o.f, SortOf(o.on), to)
             IN /\ Good(buildRuntimeCall(Pair(a, b), o.f, e), to)
                /\ Good(forceBuildRuntimeCall(Pair(a, b), o.f, e), to)
  <2>1. /\ Args(Pair(a, b), 2)
        /\ \A k \in 1..2 : Type[Pair(a, b)[k]] = o.on
    BY InstructionArgs DEF OfType
  <2>2. ~AllConcrete(Pair(a, b)) =>
          RightFor(Build(Pair(a, b), o.f, SortOf(o.on), to), Pair(a, b), o.f, to)
    BY <1>1, <2>1, BuildRight
  <2> QED BY <1>1, <2>1, <2>2, CallGood
<1>4. CASE o \in Arith /\ visitBinaryOperator(o)
  <2>1. BinaryHandler(o.on) = SortOf(o.to)
    BY <1>1, <1>2, <1>4 DEF BinaryHandler
  <2>2. PICK a \in OfType(o.on), b \in OfType(o.on), dst \in OfType(o.to) :
          Assign(dst, buildRuntimeCall(Pair(a, b), o.f,
                        Build(Pair(a, b), o.f, SortOf(o.on), SortOf(o.to))))
    BY <1>1, <1>4, <2>1 DEF visitBinaryOperator
  <2> QED BY <1>2, <1>3, <2>2, AssignKeeps DEF OfType
<1>5. CASE o \in Arith /\ visitGetElementPtrInst(o)
  <2>1. PICK base \in OfType("iN"), index \in OfType("iN"), dst \in OfType("iN") :
          LET args == Pair(index, base)
          IN Assign(dst, IF \A k \in 1..2 : regs[args[k]].entry = "absent"
                           THEN Concrete(args, o.f, "absent", Null)
                           ELSE forceBuildRuntimeCall(args, o.f, Build(args, o.f, "bv", "bv")))
    BY <1>5 DEF visitGetElementPtrInst
  <2> DEFINE args == Pair(index, base)
  <2>2. o.on = "iN" /\ base \in Reg /\ index \in Reg /\ dst \in Reg /\ Type[dst] = "iN"
    BY <1>5 DEF visitGetElementPtrInst, OfType
  <2>3. CASE \A k \in 1..2 : regs[args[k]].entry = "absent"
    <3>1. Args(args, 2) /\ DOMAIN args = 1..2
      BY <2>2, InstructionArgs
    <3>2. Good(Concrete(args, o.f, "absent", Null), SortOf("iN"))
      <4> HIDE DEF args
      <4> QED BY <1>1, <2>3, <3>1, AbsentGood
    <3> QED BY <2>1, <2>2, <2>3, <3>2, AssignKeeps
  <2>4. CASE ~\A k \in 1..2 : regs[args[k]].entry = "absent"
    BY <1>2, <1>3, <2>1, <2>2, <2>4, AssignKeeps
  <2> QED BY <2>3, <2>4
<1>6. CASE o \in Compare /\ visitCmpInst(o)
  <2>1. PICK a \in OfType(o.on), b \in OfType(o.on), dst \in OfType("i1") :
          Assign(dst, buildRuntimeCall(Pair(a, b), o.f,
                        Build(Pair(a, b), o.f, SortOf(o.on), "bool")))
    BY <1>6 DEF visitCmpInst
  <2> QED BY <1>2, <1>3, <2>1, AssignKeeps DEF OfType, Sort
<1> QED BY <1>4, <1>5, <1>6

\* A conversion of one operand.
LEMMA OneRight ==
  ASSUME IndInv, NEW a \in Reg, ~AllConcrete(Vector(a)),
         NEW f \in [[1..1 -> Word] -> Word], NEW to, NEW e \in Expr,
         Operand(Vector(a), 1).sort = SortOf(Type[a]) => e.sort = to,
         \A i \in Input : e.den[i] = f[Vector(Operand(Vector(a), 1).den[i])]
  PROVE  RightFor(e, Vector(a), f, to)
<1> DEFINE o == Operand(Vector(a), 1)
<1>1. Args(Vector(a), 1) /\ DOMAIN Vector(a) = 1..1 /\ Vector(a)[1] = a /\ 1 \in 1..1
  BY InstructionArgs
<1>2. RightOperand(Operand(Vector(a), 1), regs[a], SortOf(Type[a]))
  BY <1>1, OperandRight
<1>3. theInput \in Input /\ alive \subseteq Input
  BY InstrumentationAssumption DEF IndInv, TypeOK
<1>4. ASSUME NoneForeign(Vector(a))
      PROVE  /\ e.sort = to
             /\ e.den[theInput] = f[[k \in DOMAIN Vector(a) |-> regs[Vector(a)[k]].val]]
  <2>1. o.sort = SortOf(Type[a]) /\ o.den[theInput] = regs[a].val
    BY <1>1, <1>2, <1>4 DEF NoneForeign, RightOperand
  <2>2. [k \in DOMAIN Vector(a) |-> regs[Vector(a)[k]].val] = Vector(o.den[theInput])
    BY <1>1, <2>1 DEF Vector
  <2> QED BY <1>3, <2>1, <2>2
<1>5. ASSUME AllExact(Vector(a)), NEW i \in alive
      PROVE  e.den[i] = f[[k \in DOMAIN Vector(a) |-> regs[Vector(a)[k]].den[i]]]
  <2>1. o.den[i] = regs[a].den[i]
    BY <1>1, <1>2, <1>5 DEF AllExact, RightOperand
  <2>2. [k \in DOMAIN Vector(a) |-> regs[Vector(a)[k]].den[i]] = Vector(o.den[i])
    BY <1>1, <2>1 DEF Vector
  <2> QED BY <1>3, <2>2
<1> QED BY <1>4, <1>5 DEF RightFor

\* The operand of such a conversion is an expression.
LEMMA OperandExpr ==
  ASSUME IndInv, NEW a \in Reg, ~AllConcrete(Vector(a))
  PROVE  /\ Operand(Vector(a), 1) \in Expr /\ Operand(Vector(a), 1) # Null
         /\ Operand(Vector(a), 1).den \in Meaning
  BY InstructionArgs, OperandRight, InstrumentationAssumption DEF RightOperand, Expr

\* Unary operators and casts.
LEMMA ConvertKeeps ==
  ASSUME IndInv, NEW o \in Convert, visitConversion(o) \/ visitCastInst(o)
  PROVE  IndInv'
<1>1. o.on \in Types /\ o.to \in Types /\ o.f \in [[1..1 -> Word] -> Word]
  BY InstrumentationAssumption DEF Instruction
<1>2. SortOf(o.to) \in Sort /\ SortOf("i1") = "bool" /\ SortOf("iN") = "bv"
  BY <1>1, SortOfType DEF SortOf
<1>3. ASSUME NEW a \in OfType(o.on)
      PROVE  Good(buildRuntimeCall(Vector(a), o.f,
                    Build(Vector(a), o.f, SortOf(o.on), SortOf(o.to))), SortOf(o.to))
  <2>1. Args(Vector(a), 1) /\ \A k \in 1..1 : Type[Vector(a)[k]] = o.on
    BY InstructionArgs DEF OfType
  <2>2. ~AllConcrete(Vector(a)) =>
          RightFor(Build(Vector(a), o.f, SortOf(o.on), SortOf(o.to)), Vector(a), o.f, SortOf(o.to))
    BY <1>1, <1>2, <2>1, BuildRight
  <2> QED BY <1>1, <2>1, <2>2, CallGood
<1>4. CASE visitConversion(o)
  BY <1>3, <1>4, AssignKeeps DEF visitConversion, OfType
<1>5. CASE visitCastInst(o) /\ o.on # "i1"
  <2>1. o.on = "iN" /\ o.to = "iN"
    BY <1>5 DEF visitCastInst
  <2> QED BY <1>2, <1>3, <1>5, <2>1, AssignKeeps DEF visitCastInst, OfType
<1>6. CASE visitCastInst(o) /\ o.on = "i1"
  <2> DEFINE bit(a) == BoolToBit(Operand(Vector(a), 1))
             ext(a) == [sort |-> ZExtBit(bit(a)).sort,
                        den  |-> [i \in Input |-> o.f[[k \in 1..1 |-> bit(a).den[i]]]]]
  <2>1. PICK a \in OfType("i1"), dst \in OfType("iN") :
          Assign(dst, forceBuildRuntimeCall(Vector(a), o.f, ext(a)))
    BY <1>6 DEF visitCastInst
  <2>2. a \in Reg /\ Type[a] = "i1" /\ dst \in Reg /\ Type[dst] = "iN" /\ Args(Vector(a), 1)
    BY <2>1, InstructionArgs DEF OfType
  <2>3. ASSUME ~AllConcrete(Vector(a))
        PROVE  RightFor(ext(a), Vector(a), o.f, "bv")
    <3> DEFINE p == Operand(Vector(a), 1)
    <3>1. p \in Expr /\ p # Null /\ p.den \in Meaning
      BY <2>2, <2>3, OperandExpr
    <3>2. bit(a) = [sort |-> IF p.sort = "bool" THEN "bit" ELSE "error", den |-> p.den]
      BY <3>1 DEF BoolToBit, Sorted
    <3>3. bit(a) \in Expr /\ bit(a) # Null
      BY <3>1, <3>2, InstrumentationAssumption DEF Expr, Sort
    <3>4. ext(a).sort \in Sort /\ (p.sort = "bool" => ext(a).sort = "bv")
      BY <3>2, <3>3 DEF ZExtBit, Sorted, Sort
    <3>5. \A i \in Input : ext(a).den[i] = o.f[Vector(p.den[i])]
      BY <3>2 DEF Vector
    <3>6. ext(a).den \in Meaning
      <4>1. \A i \in Input : [k \in 1..1 |-> bit(a).den[i]] \in [1..1 -> Word]
        BY <3>1, <3>2 DEF Meaning
      <4>2. ext(a).den = [i \in Input |-> o.f[[k \in 1..1 |-> bit(a).den[i]]]]
        OBVIOUS
      <4> HIDE DEF ext, bit
      <4> QED BY <1>1, <4>1, <4>2 DEF Meaning
    <3>7. ext(a) \in Expr
      BY <3>4, <3>6 DEF Expr
    <3> HIDE DEF ext, bit
    <3> QED BY <1>1, <1>2, <2>2, <2>3, <3>4, <3>5, <3>7, OneRight
  <2> HIDE DEF ext, bit
  <2>4. Good(forceBuildRuntimeCall(Vector(a), o.f, ext(a)), "bv")
    BY <1>1, <2>2, <2>3, CallGood
  <2> QED BY <1>2, <2>1, <2>2, <2>4, AssignKeeps
<1> QED BY <1>4, <1>5, <1>6

\* Truncation to a Boolean, and integers and floating point with the same bits.
LEMMA BitsKeep ==
  ASSUME IndInv, visitTruncInst \/ visitBitCastInst
  PROVE  IndInv'
<1>1. /\ lowBit \in [[1..1 -> Word] -> Word] /\ identity \in [[1..1 -> Word] -> Word]
      /\ LowBit \in [Word -> Word]
  BY InstrumentationAssumption DEF lowBit, identity
<1>2. SortOf("i1") = "bool" /\ SortOf("iN") = "bv" /\ SortOf("fp") = "fp"
  BY DEF SortOf
<1>3. \A w \in Word : lowBit[Vector(w)] = LowBit[w] /\ identity[Vector(w)] = w
  BY DEF lowBit, identity, Vector
<1>4. CASE visitTruncInst
  <2> DEFINE e(a) == BitToBool(TruncToBit(Operand(Vector(a), 1)))
  <2>1. PICK a \in OfType("iN"), dst \in OfType("i1") :
          Assign(dst, IF regs[a].entry = "absent"
                        THEN Concrete(Vector(a), lowBit, "absent", Null)
                        ELSE forceBuildRuntimeCall(Vector(a), lowBit, e(a)))
    BY <1>4 DEF visitTruncInst
  <2>2. /\ a \in Reg /\ Type[a] = "iN" /\ dst \in Reg /\ Type[dst] = "i1"
        /\ Args(Vector(a), 1) /\ \A k \in DOMAIN Vector(a) : Vector(a)[k] = a
    BY <2>1, InstructionArgs DEF OfType
  <2>3. ASSUME ~AllConcrete(Vector(a))
        PROVE  RightFor(e(a), Vector(a), lowBit, "bool")
    <3> DEFINE p == Operand(Vector(a), 1)
               q == [sort |-> IF p.sort = "bv" THEN "bit" ELSE "error",
                     den  |-> [i \in Input |-> LowBit[p.den[i]]]]
    <3>1. p \in Expr /\ p # Null /\ p.den \in Meaning
      BY <2>2, <2>3, OperandExpr
    <3>2. TruncToBit(p) = q
      BY <3>1 DEF TruncToBit
    <3>3. q.den \in Meaning
      BY <1>1, <3>1 DEF Meaning
    <3>4. q \in Expr /\ q # Null
      BY <3>3, InstrumentationAssumption DEF Expr, Sort
    <3>5. e(a) = [sort |-> IF q.sort = "bit" THEN "bool" ELSE "error", den |-> q.den]
      BY <3>2, <3>4 DEF BitToBool, Sorted
    <3>6. e(a) \in Expr
      BY <3>3, <3>5 DEF Expr, Sort
    <3>7. \A i \in Input : e(a).den[i] = lowBit[Vector(p.den[i])]
      BY <1>3, <3>1, <3>5 DEF Meaning
    <3>8. p.sort = "bv" => e(a).sort = "bool"
      BY <3>5
    <3> HIDE DEF e
    <3> QED BY <1>1, <1>2, <2>2, <2>3, <3>6, <3>7, <3>8, OneRight
  <2> HIDE DEF e
  <2>4. Good(forceBuildRuntimeCall(Vector(a), lowBit, e(a)), "bool")
    BY <1>1, <2>2, <2>3, CallGood
  <2>5. regs[a].entry = "absent" => Good(Concrete(Vector(a), lowBit, "absent", Null), "bool")
    BY <1>1, <2>2, AbsentGood
  <2> QED BY <1>2, <2>1, <2>2, <2>4, <2>5, AssignKeeps
<1>5. CASE visitBitCastInst
  <2> DEFINE e(a) == BitsToFloat(Operand(Vector(a), 1))
             back(b) == [Concrete(Vector(b), identity, "absent", Null)
                           EXCEPT !.opaque = @ \/ regs[b].expr # Null]
  <2>1. PICK a \in OfType("iN"), b \in OfType("fp") :
          \/ Assign(b, buildRuntimeCall(Vector(a), identity, e(a)))
          \/ Assign(a, back(b))
    BY <1>5 DEF visitBitCastInst
  <2>2. /\ a \in Reg /\ Type[a] = "iN" /\ b \in Reg /\ Type[b] = "fp"
        /\ Args(Vector(a), 1) /\ Args(Vector(b), 1)
        /\ DOMAIN Vector(b) = 1..1 /\ \A k \in DOMAIN Vector(b) : Vector(b)[k] = b
    BY <2>1, InstructionArgs DEF OfType
  <2>3. ASSUME ~AllConcrete(Vector(a))
        PROVE  RightFor(e(a), Vector(a), identity, "fp")
    <3> DEFINE p == Operand(Vector(a), 1)
    <3>1. p \in Expr /\ p # Null /\ p.den \in Meaning
      BY <2>2, <2>3, OperandExpr
    <3>2. e(a) = [sort |-> IF p.sort = "bv" THEN "fp" ELSE "error", den |-> p.den]
      BY <3>1 DEF BitsToFloat, Sorted
    <3>3. e(a) \in Expr
      BY <3>1, <3>2 DEF Expr, Sort
    <3>4. \A i \in Input : e(a).den[i] = identity[Vector(p.den[i])]
      BY <1>3, <3>1, <3>2 DEF Meaning
    <3>5. p.sort = "bv" => e(a).sort = "fp"
      BY <3>2
    <3> HIDE DEF e
    <3> QED BY <1>1, <1>2, <2>2, <2>3, <3>3, <3>4, <3>5, OneRight
  <2>4. Good(buildRuntimeCall(Vector(a), identity, e(a)), "fp")
    <3> HIDE DEF e
    <3> QED BY <1>1, <2>2, <2>3, CallGood
  <2>5. Good(back(b), "bv")
    <3> DEFINE w == regs[b]
    <3>1. Good(w, "fp")
      BY <1>2, <2>2, RegsGood
    <3>2. /\ w \in Value /\ w.den \in Meaning /\ theInput \in Input /\ alive \subseteq Input
          /\ \A i \in Input : w.den[i] \in Word
      BY <3>1, InstrumentationAssumption DEF Good, Value, Meaning, IndInv, TypeOK
    <3>3. [k \in DOMAIN Vector(b) |-> regs[Vector(b)[k]].val] = Vector(w.val)
      BY <2>2 DEF Vector
    <3>4. \A i \in Input : [k \in DOMAIN Vector(b) |-> regs[Vector(b)[k]].den[i]]
                             = Vector(w.den[i])
      BY <2>2 DEF Vector
    <3>5. Concrete(Vector(b), identity, "absent", Null).val = w.val
      BY <1>3, <3>2, <3>3 DEF Concrete, Value
    <3>6. Concrete(Vector(b), identity, "absent", Null).den = w.den
      <4>1. \A i \in Input : identity[[k \in DOMAIN Vector(b) |-> regs[Vector(b)[k]].den[i]]] = w.den[i]
        BY <1>3, <3>2, <3>4
      <4>2. w.den = [i \in Input |-> w.den[i]]
        BY <3>2 DEF Meaning
      <4> QED BY <4>1, <4>2 DEF Concrete
    <3>7. /\ Concrete(Vector(b), identity, "absent", Null).opaque = w.opaque
          /\ Concrete(Vector(b), identity, "absent", Null).foreign = w.foreign
      <4>1. 1 \in DOMAIN Vector(b) /\ w.opaque \in BOOLEAN /\ w.foreign \in BOOLEAN
        BY <2>2, <3>2 DEF Value
      <4>2. /\ (\E k \in DOMAIN Vector(b) : regs[Vector(b)[k]].opaque) <=> w.opaque
            /\ (\E k \in DOMAIN Vector(b) : regs[Vector(b)[k]].foreign) <=> w.foreign
        BY <2>2, <4>1
      <4> QED BY <4>1, <4>2 DEF Concrete
    <3>8. /\ back(b).val = w.val /\ back(b).entry = "absent" /\ back(b).expr = Null
          /\ back(b).den = w.den /\ back(b).foreign = w.foreign
      BY <3>5, <3>6, <3>7 DEF Concrete
    <3>9. back(b).opaque = (w.opaque \/ w.expr # Null)
      BY <3>7 DEF Concrete
    <3>10. back(b) \in Value
      <4> DEFINE c == Concrete(Vector(b), identity, "absent", Null)
                 lost == c.opaque \/ w.expr # Null
      <4>1. c.val \in Word /\ c.den \in Meaning /\ c.opaque \in BOOLEAN /\ c.foreign \in BOOLEAN
        BY <3>2, <3>5, <3>6, <3>7 DEF Value
      <4>2. c \in Value
        BY <4>1 DEF Concrete, Value, Entry
      <4>3. back(b) = [c EXCEPT !.opaque = lost] /\ lost \in BOOLEAN
        OBVIOUS
      <4> HIDE DEF c, lost, back
      <4> QED BY <4>2, <4>3 DEF Value
    <3> HIDE DEF back
    <3>11. Exact(back(b), "bv")
      BY <3>1, <3>2, <3>8, <3>9 DEF Good, Sane, Exact, Believed
    <3> QED BY <3>1, <3>8, <3>10, <3>11 DEF Good, Sane, Matches
  <2> HIDE DEF e, back
  <2> QED BY <1>2, <2>1, <2>2, <2>4, <2>5, AssignKeeps
<1> QED BY <1>4, <1>5

\* Instructions that copy a value, and those that are not handled.
LEMMA CopyKeeps ==
  ASSUME IndInv, visitPointerCast \/ visitInstruction \/ \E t \in Types : visitPHINode(t)
  PROVE  IndInv'
<1>1. CASE visitPointerCast
  BY <1>1, RegsGood, AssignKeeps DEF visitPointerCast, OfType
<1>2. CASE visitInstruction
  <2>1. ASSUME NEW v \in Word, NEW sort
        PROVE  Good(Concretized(v), sort)
    BY InstrumentationAssumption
    DEF Concretized, Good, Value, Entry, Meaning, Constantly, Sane, Matches, Exact
  <2> QED BY <1>2, <2>1, AssignKeeps DEF visitInstruction
<1>3. CASE \E t \in Types : visitPHINode(t)
  <2>0. PICK t \in Types : visitPHINode(t)
    BY <1>3
  <2>1. PICK dst \in OfType(t), from \in OfType(t), other \in OfType(t) :
          Assign(dst, [regs[from] EXCEPT !.entry = finalizePHINodes(from, other)])
    BY <2>0 DEF visitPHINode
  <2>2. Good(regs[from], SortOf(t)) /\ dst \in Reg /\ Type[dst] = t
    BY <2>1, RegsGood DEF OfType
  <2>3. Good([regs[from] EXCEPT !.entry = "dynamic"], SortOf(t))
    BY <2>2 DEF Good, Value, Entry, Sane, Matches, Exact, Believed
  <2>4. regs[from].entry = "absent" => Good([regs[from] EXCEPT !.entry = "null"], SortOf(t))
    BY <2>2 DEF Good, Value, Entry, Sane, Matches, Exact, Believed
  <2>5. Good([regs[from] EXCEPT !.entry = finalizePHINodes(from, other)], SortOf(t))
    BY <2>3, <2>4 DEF finalizePHINodes
  <2> QED BY <2>1, <2>2, <2>5, AssignKeeps
<1> QED BY <1>1, <1>2, <1>3

LEMMA ComputeKeeps == IndInv /\ Compute => IndInv'
  BY BinaryKeeps, ConvertKeeps, BitsKeep, CopyKeeps DEF Compute

History == [opaque : BOOLEAN, foreign : BOOLEAN, skipped : BOOLEAN, callback : BOOLEAN,
            strayed : SUBSET Input]

\* An access narrows the inputs that are followed by those that stray, and this
\* execution is not among them.
LEMMA AccessKeeps ==
  ASSUME IndInv, NEW p \in OfType("iN"), Access(p)
  PROVE  /\ Target(p) \in Cell
         /\ alive' \subseteq alive /\ theInput \in alive'
         /\ alive \subseteq alive' \cup hist'.strayed
         /\ hist.strayed \subseteq hist'.strayed
         /\ hist' \in History
         /\ hist'.opaque = hist.opaque /\ hist'.foreign = hist.foreign
         /\ hist'.skipped = hist.skipped /\ hist'.callback = hist.callback
         /\ PathIsFeasible' /\ PathIsDescribed'
<1>1. regs[p] \in Value /\ regs[p].den[theInput] = regs[p].val
  BY RegsGood DEF OfType, Good, Sane
<1>2. /\ alive \subseteq Input /\ theInput \in alive /\ hist \in History
      /\ At \in [Word -> Cell]
  BY InstrumentationAssumption DEF IndInv, TypeOK, History
<1>3. Target(p) \in Cell
  BY <1>1, <1>2 DEF Target, Value
<1>4. Strays(p) \subseteq alive /\ theInput \notin Strays(p)
  BY <1>1 DEF Strays, Target
<1> DEFINE st == hist.strayed \cup Strays(p)
<1>5. hist' = [hist EXCEPT !.strayed = st] /\ alive' = alive \ Strays(p) /\ pushed' = pushed
  BY DEF Access
<1>6. st \in SUBSET Input /\ Strays(p) \subseteq st /\ hist.strayed \subseteq st
  BY <1>2, <1>4 DEF History
<1> HIDE DEF st
<1>7. /\ hist' \in History /\ hist'.strayed = st
      /\ hist'.opaque = hist.opaque /\ hist'.foreign = hist.foreign
      /\ hist'.skipped = hist.skipped /\ hist'.callback = hist.callback
  BY <1>2, <1>5, <1>6 DEF History
<1>8. PathIsFeasible'
  BY <1>5, <1>7 DEF IndInv, PathIsFeasible
<1>9. PathIsDescribed'
  BY <1>4, <1>5, <1>6, <1>7 DEF IndInv, PathIsDescribed
<1> QED BY <1>2, <1>3, <1>4, <1>5, <1>6, <1>7, <1>8, <1>9

\* A load converts from the sort of memory to that of a register.
LEMMA LoadKeeps ==
  ASSUME IndInv, NEW r \in Reg, NEW p \in OfType("iN"), visitLoadInst(r, p)
  PROVE  IndInv'
<1> DEFINE v == mem[Target(p)]
           Bits(w) == IF Type[r] = "i1" THEN LowBit[w] ELSE w
           e == convertBitVectorExprForType(v.expr, Type[r])
           D == [i \in Input |-> Bits(v.den[i])]
           opq == v.opaque \/ ~Known(p)
           new == [val |-> Bits(v.val), entry |-> "dynamic", expr |-> e, den |-> D,
                   opaque |-> opq, foreign |-> v.foreign]
<1>1. /\ Type[r] \in Types /\ LowBit \in [Word -> Word] /\ theInput \in Input
      /\ alive \subseteq Input /\ Null \notin Expr
  BY InstrumentationAssumption DEF IndInv, TypeOK
<1>0. Access(p)
  BY DEF visitLoadInst
<1>2. Good(v, "bv")
  BY <1>0, AccessKeeps DEF IndInv, TypeOK, Everywhere, Good
<1>3. /\ v \in Value /\ v.den \in Meaning /\ v.val \in Word /\ v.expr \in Expr \cup {Null}
      /\ v.opaque \in BOOLEAN /\ v.foreign \in BOOLEAN
  BY <1>2 DEF Good, Value
<1>4. Bits(v.val) \in Word /\ D \in Meaning
  BY <1>1, <1>3 DEF Meaning
<1>5. v.expr = Null => e = Null
  BY <1>1 DEF convertBitVectorExprForType, BitsToFloat, BitToBool, TruncToBit, Sorted, Types
<1>6. ASSUME v.expr # Null
      PROVE  /\ e \in Expr
             /\ v.expr.sort = "bv" => e.sort = SortOf(Type[r])
             /\ \A i \in Input : e.den[i] = Bits(v.expr.den[i])
  <2>0. v.expr \in Expr /\ v.expr.den \in Meaning /\ v.expr.sort \in Sort
    BY <1>3, <1>6 DEF Expr
  <2>1. CASE Type[r] = "iN"
    BY <2>0, <2>1 DEF convertBitVectorExprForType, SortOf
  <2>2. CASE Type[r] = "fp"
    <3>1. e = [sort |-> IF v.expr.sort = "bv" THEN "fp" ELSE "error", den |-> v.expr.den]
      BY <1>6, <2>2 DEF convertBitVectorExprForType, BitsToFloat, Sorted
    <3> QED BY <2>0, <2>2, <3>1 DEF SortOf, Expr, Sort
  <2>3. CASE Type[r] = "i1"
    <3> DEFINE q == [sort |-> IF v.expr.sort = "bv" THEN "bit" ELSE "error",
                     den  |-> [i \in Input |-> LowBit[v.expr.den[i]]]]
    <3>1. TruncToBit(v.expr) = q
      BY <1>6 DEF TruncToBit
    <3>2. q.den \in Meaning
      BY <1>1, <2>0 DEF Meaning
    <3>3. q \in Expr /\ q # Null
      BY <1>1, <3>2 DEF Expr, Sort
    <3>4. e = [sort |-> IF q.sort = "bit" THEN "bool" ELSE "error", den |-> q.den]
      BY <2>3, <3>1, <3>3 DEF convertBitVectorExprForType, BitToBool, Sorted
    <3> QED BY <2>3, <3>2, <3>4 DEF SortOf, Expr, Sort
  <2> QED BY <1>1, <2>1, <2>2, <2>3 DEF Types
<1>7. opq \in BOOLEAN
  OBVIOUS
<1>8. \A i \in Input : D[i] = Bits(v.den[i])
  OBVIOUS
<1>9. ~opq => ~v.opaque
  OBVIOUS
<1>10. D[theInput] = Bits(v.val) /\ (hist.callback \/ ~v.foreign)
  BY <1>1, <1>2 DEF Good, Sane
<1>11. v.expr # Null /\ ~v.foreign => v.expr.sort = "bv" /\ v.expr.den[theInput] = v.val
  BY <1>2 DEF Good, Sane, Matches
<1>12. ~v.foreign /\ ~v.opaque =>
         \A i \in alive : (IF v.expr = Null THEN v.val ELSE v.expr.den[i]) = v.den[i]
  BY <1>2 DEF Good, Sane, Exact, Believed
<1>13. regs' = [regs EXCEPT ![r] = new]
  BY DEF visitLoadInst
<1> HIDE DEF e, D, opq
<1>14. new \in Value
  BY <1>3, <1>4, <1>5, <1>6, <1>7 DEF Value, Entry
<1>15. /\ new.val = Bits(v.val) /\ new.expr = e /\ new.entry = "dynamic"
       /\ new.opaque = opq /\ new.foreign = v.foreign /\ new.den = D
  OBVIOUS
<1> HIDE DEF new, Bits, v
<1>16. SaneIn(new, SortOf(Type[r]), alive, hist.callback)
  BY <1>1, <1>5, <1>6, <1>8, <1>9, <1>10, <1>11, <1>12, <1>15 DEF SaneIn
<1>17. UNCHANGED <<seen, stack, inside, mem, parameter, return, pushed>> /\ steps' = steps + 1
  BY <1>0 DEF visitLoadInst, Access, Running, Step
<1>18. /\ alive' \subseteq alive /\ theInput \in alive' /\ hist' \in History
       /\ hist'.foreign = hist.foreign /\ hist'.callback = hist.callback
       /\ PathIsFeasible' /\ PathIsDescribed'
  BY <1>0, AccessKeeps
<1>19. TypeOK'
  BY <1>1, <1>13, <1>14, <1>17, <1>18 DEF IndInv, TypeOK, History
<1>20. Everywhere(Sane)'
  <2>1. Banks(regs, stack, mem, alive, hist.callback)
    BY EverywhereIsBanks DEF IndInv
  <2>2. Bank(regs', alive, hist.callback)
    BY <1>13, <1>16, <2>1 DEF IndInv, TypeOK, Banks, Bank
  <2>3. Banks(regs', stack', mem', alive, hist.callback)
    BY <1>17, <2>1, <2>2 DEF Banks
  <2>4. Banks(regs', stack', mem', alive', hist'.callback)
    BY <1>18, <2>3, BanksNarrow
  <2> QED BY <2>4, EverywhereIsBanksNext
<1> QED BY <1>17, <1>18, <1>19, <1>20 DEF IndInv

\* What a store puts into memory is right for the stored value.
LEMMA StoredGood ==
  ASSUME IndInv, NEW r \in Reg
  PROVE  Good(Stored(r), "bv")
<1> DEFINE v == regs[r]
           e == IF v.entry = "absent" THEN Null
                ELSE convertExprForTypeToBitVectorExpr(v.expr, Type[r])
           new == [v EXCEPT !.entry = "dynamic", !.expr = e]
<1>1. Type[r] \in Types /\ theInput \in Input /\ alive \subseteq Input /\ Null \notin Expr
  BY InstrumentationAssumption DEF IndInv, TypeOK
<1>2. Good(v, SortOf(Type[r])) /\ v \in Value /\ v.expr \in Expr \cup {Null}
  BY RegsGood DEF Good, Value
<1>3. v.expr = Null => e = Null
  BY <1>1 DEF convertExprForTypeToBitVectorExpr, FloatToBits, ZExtBit, BoolToBit, Sorted, Types
<1>4. ASSUME v.expr # Null
      PROVE  e \in Expr /\ e.den = v.expr.den /\ (v.expr.sort = SortOf(Type[r]) => e.sort = "bv")
  <2>0. v.expr \in Expr /\ v.expr.den \in Meaning /\ v.expr.sort \in Sort
        /\ e = convertExprForTypeToBitVectorExpr(v.expr, Type[r])
    BY <1>2, <1>4 DEF Expr, Good, Sane
  <2>1. CASE Type[r] = "iN"
    BY <2>0, <2>1 DEF convertExprForTypeToBitVectorExpr, SortOf
  <2>2. CASE Type[r] = "fp"
    <3>1. e = [sort |-> IF v.expr.sort = "fp" THEN "bv" ELSE "error", den |-> v.expr.den]
      BY <1>4, <2>0, <2>2 DEF convertExprForTypeToBitVectorExpr, FloatToBits, Sorted
    <3> QED BY <2>0, <2>2, <3>1 DEF SortOf, Expr, Sort
  <2>3. CASE Type[r] = "i1"
    <3> DEFINE q == [sort |-> IF v.expr.sort = "bool" THEN "bit" ELSE "error", den |-> v.expr.den]
    <3>1. BoolToBit(v.expr) = q
      BY <1>4 DEF BoolToBit, Sorted
    <3>2. q \in Expr /\ q # Null
      BY <1>1, <2>0 DEF Expr, Sort
    <3>3. e = [sort |-> IF q.sort = "bit" THEN "bv" ELSE "error", den |-> q.den]
      BY <2>0, <2>3, <3>1, <3>2 DEF convertExprForTypeToBitVectorExpr, ZExtBit, Sorted
    <3> QED BY <2>0, <2>3, <3>3 DEF SortOf, Expr, Sort
  <2> QED BY <1>1, <2>1, <2>2, <2>3 DEF Types
<1>5. Stored(r) = new
  BY DEF Stored
<1> HIDE DEF e
<1>6. new \in Value
  BY <1>2, <1>3, <1>4 DEF Value, Entry
<1>7. /\ new.val = v.val /\ new.entry = "dynamic" /\ new.expr = e /\ new.den = v.den
      /\ new.opaque = v.opaque /\ new.foreign = v.foreign
  BY <1>2 DEF Value
<1>8. Sane(v, SortOf(Type[r]))
  BY <1>2 DEF Good
<1> HIDE DEF new
<1>9. Good(new, "bv")
  <2> HIDE DEF v
  <2>1. Matches(new, "bv")
    BY <1>1, <1>3, <1>4, <1>7, <1>8 DEF Matches, Sane
  <2>2. Exact(new, "bv")
    BY <1>1, <1>3, <1>4, <1>7, <1>8 DEF Exact, Believed, Sane
  <2> QED BY <1>6, <1>7, <1>8, <2>1, <2>2 DEF Good, Sane
<1> QED BY <1>5, <1>9

\* Each cell after a store.
LEMMA OverwrittenGood ==
  ASSUME IndInv, NEW r \in Reg, NEW p, NEW m \in Cell
  PROVE  Good(Overwritten(m, r, p), "bv")
<1> DEFINE u == IF m = Target(p) THEN Stored(r) ELSE mem[m]
           opq == u.opaque \/ ~Known(p)
           new == [u EXCEPT !.opaque = opq]
<1>1. Good(mem[m], "bv")
  BY DEF IndInv, TypeOK, Everywhere, Good
<1>2. Good(u, "bv") /\ u \in Value
  BY <1>1, StoredGood DEF Good
<1>3. opq \in BOOLEAN /\ (~opq => ~u.opaque)
  OBVIOUS
<1>4. Overwritten(m, r, p) = new
  BY DEF Overwritten
<1> HIDE DEF opq, u
<1>5. /\ new \in Value /\ new.den = u.den /\ new.opaque = opq /\ new.foreign = u.foreign
      /\ new.val = u.val /\ new.entry = u.entry /\ new.expr = u.expr
  BY <1>2, <1>3 DEF Value
<1>6. SaneIn(u, "bv", alive, hist.callback)
  BY <1>2, SaneIsSaneIn DEF Good
<1> HIDE DEF new
<1>7. SaneIn(new, "bv", alive, hist.callback)
  BY <1>3, <1>5, <1>6 DEF SaneIn
<1> QED BY <1>4, <1>5, <1>7, SaneIsSaneIn DEF Good

LEMMA StoreKeeps ==
  ASSUME IndInv, NEW r \in Reg, NEW p \in OfType("iN"), visitStoreInst(r, p)
  PROVE  IndInv'
<1>1. \A m \in Cell : mem'[m] \in Value /\ SaneIn(mem'[m], "bv", alive, hist.callback)
  BY OverwrittenGood, SaneIsSaneIn DEF visitStoreInst, Good
<1>2. mem' \in [Cell -> Value]
  BY <1>1 DEF visitStoreInst
<1>3. UNCHANGED <<regs, seen, stack, inside, parameter, return, pushed>> /\ steps' = steps + 1
  BY DEF visitStoreInst, Access, Running, Step
<1>4. /\ alive' \subseteq alive /\ theInput \in alive' /\ hist' \in History
      /\ hist'.foreign = hist.foreign /\ hist'.callback = hist.callback
      /\ PathIsFeasible' /\ PathIsDescribed'
  BY AccessKeeps DEF visitStoreInst
<1>5. TypeOK'
  BY <1>2, <1>3, <1>4 DEF IndInv, TypeOK, History
<1>6. Everywhere(Sane)'
  <2>1. Banks(regs, stack, mem, alive, hist.callback)
    BY EverywhereIsBanks DEF IndInv
  <2>2. Banks(regs', stack', mem', alive, hist.callback)
    BY <1>1, <1>3, <2>1 DEF Banks
  <2>3. Banks(regs', stack', mem', alive', hist'.callback)
    BY <1>4, <2>2, BanksNarrow
  <2> QED BY <2>3, EverywhereIsBanksNext
<1> QED BY <1>3, <1>4, <1>5, <1>6 DEF IndInv

-------------------------------------------------------------------------------
(* Control flow *)

\* A decision on the value v: X are the inputs that decide as this execution does,
\* Y those that the instrumentation believes to.
LEMMA ControlKeeps ==
  ASSUME IndInv, NEW v, NEW sort, Good(v, sort), NEW X, NEW Y,
         theInput \in X, ~v.foreign => theInput \in Y,
         ~v.foreign /\ ~v.opaque => \A i \in alive : i \in X <=> i \in Y,
         alive' = alive \cap X,
         hist' \in History,
         hist'.opaque <=> hist.opaque \/ v.opaque,
         hist'.foreign <=> hist.foreign \/ v.foreign,
         hist'.callback = hist.callback, hist'.strayed = hist.strayed,
         \/ pushed' = pushed \cap Y /\ hist'.skipped = hist.skipped
         \/ pushed' = pushed /\ hist'.skipped,
         regs' \in [Reg -> Value], Bank(regs', alive, hist.callback),
         seen' \subseteq LoopTest, steps' \in Nat,
         UNCHANGED <<stack, inside, mem, parameter, return>>
  PROVE  IndInv'
<1>1. TypeOK'
  BY DEF IndInv, TypeOK, History
<1>2. Everywhere(Sane)'
  <2>1. Banks(regs', stack', mem', alive, hist.callback)
    BY EverywhereIsBanks DEF IndInv, Banks
  <2>2. Banks(regs', stack', mem', alive', hist'.callback)
    BY <2>1, BanksNarrow
  <2> QED BY <2>2, EverywhereIsBanksNext
<1>3. theInput \in alive'
  BY DEF IndInv
<1>4. PathIsFeasible'
  BY DEF IndInv, PathIsFeasible
<1>5. PathIsDescribed'
  BY DEF IndInv, PathIsDescribed
<1>6. hist'.callback \/ ~hist'.foreign
  BY DEF IndInv, Good, Sane
<1> QED BY <1>1, <1>2, <1>3, <1>4, <1>5, <1>6 DEF IndInv

\* The history after a decision.
LEMMA HistoryStep ==
  ASSUME IndInv, NEW v \in Value, NEW skip \in BOOLEAN,
         hist' = [hist EXCEPT !.opaque = @ \/ v.opaque, !.foreign = @ \/ v.foreign,
                              !.skipped = @ \/ skip]
  PROVE  /\ hist' \in History
         /\ hist'.opaque <=> hist.opaque \/ v.opaque
         /\ hist'.foreign <=> hist.foreign \/ v.foreign
         /\ hist'.skipped <=> hist.skipped \/ skip
         /\ hist'.callback = hist.callback /\ hist'.strayed = hist.strayed
<1>1. hist \in History
  BY DEF IndInv, TypeOK, History
<1>2. v.opaque \in BOOLEAN /\ v.foreign \in BOOLEAN
  BY DEF Value
<1> DEFINE op == hist.opaque \/ v.opaque
           fo == hist.foreign \/ v.foreign
           sk == hist.skipped \/ skip
<1>3. op \in BOOLEAN /\ fo \in BOOLEAN /\ sk \in BOOLEAN
  OBVIOUS
<1>4. hist' = [hist EXCEPT !.opaque = op, !.foreign = fo, !.skipped = sk]
  OBVIOUS
<1> HIDE DEF op, fo, sk
<1>5. /\ hist' \in History /\ hist'.opaque = op /\ hist'.foreign = fo /\ hist'.skipped = sk
      /\ hist'.callback = hist.callback /\ hist'.strayed = hist.strayed
  BY <1>1, <1>3, <1>4 DEF History
<1> QED BY <1>5 DEF op, fo, sk

\* The inputs that decide as believed.
Believers(c) ==
  IF regs[c].expr = Null THEN Input
  ELSE Agreeing(IsTrue, regs[c].expr.den, regs[c].val)

LEMMA ConditionAgrees ==
  ASSUME IndInv, NEW c \in OfType("i1")
  PROVE  /\ c \in Reg /\ Good(regs[c], "bool") /\ regs[c] \in Value
         /\ theInput \in Agreeing(IsTrue, regs[c].den, regs[c].val)
         /\ ~regs[c].foreign => theInput \in Believers(c)
         /\ ~regs[c].foreign /\ ~regs[c].opaque =>
              \A i \in alive : i \in Agreeing(IsTrue, regs[c].den, regs[c].val) <=> i \in Believers(c)
         /\ pushPathConstraint(c) = pushed \cap Believers(c)
<1>1. c \in Reg /\ Type[c] = "i1" /\ SortOf("i1") = "bool"
  BY DEF OfType, SortOf
<1>2. Good(regs[c], "bool") /\ regs[c] \in Value
  BY <1>1, RegsGood DEF Good
<1>3. theInput \in Input /\ alive \subseteq Input /\ pushed \subseteq Input
  BY InstrumentationAssumption DEF IndInv, TypeOK
<1>4. theInput \in Agreeing(IsTrue, regs[c].den, regs[c].val)
  BY <1>2, <1>3 DEF Agreeing, IsTrue, Good, Sane
<1>5. ~regs[c].foreign => theInput \in Believers(c)
  BY <1>2, <1>3 DEF Agreeing, IsTrue, Believers, Good, Sane, Matches
<1>6. ASSUME ~regs[c].foreign, ~regs[c].opaque, NEW i \in alive
      PROVE  i \in Agreeing(IsTrue, regs[c].den, regs[c].val) <=> i \in Believers(c)
  BY <1>2, <1>3, <1>6 DEF Agreeing, IsTrue, Believers, Good, Sane, Exact, Believed
<1>7. pushPathConstraint(c) = pushed \cap Believers(c)
  BY <1>3 DEF pushPathConstraint, Believers
<1> QED BY <1>1, <1>2, <1>4, <1>5, <1>6, <1>7

LEMMA DecideStep ==
  ASSUME IndInv, NEW v \in Value,
         hist' = [hist EXCEPT !.opaque = @ \/ v.opaque, !.foreign = @ \/ v.foreign]
  PROVE  /\ hist' \in History
         /\ hist'.opaque <=> hist.opaque \/ v.opaque
         /\ hist'.foreign <=> hist.foreign \/ v.foreign
         /\ hist'.skipped = hist.skipped
         /\ hist'.callback = hist.callback /\ hist'.strayed = hist.strayed
<1>1. hist \in History
  BY DEF IndInv, TypeOK, History
<1> DEFINE op == hist.opaque \/ v.opaque
           fo == hist.foreign \/ v.foreign
<1>2. op \in BOOLEAN /\ fo \in BOOLEAN
  OBVIOUS
<1>3. hist' = [hist EXCEPT !.opaque = op, !.foreign = fo]
  OBVIOUS
<1> HIDE DEF op, fo
<1>4. /\ hist' \in History /\ hist'.opaque = op /\ hist'.foreign = fo
      /\ hist'.skipped = hist.skipped /\ hist'.callback = hist.callback /\ hist'.strayed = hist.strayed
  BY <1>1, <1>2, <1>3 DEF History
<1> QED BY <1>4 DEF op, fo

\* Nothing but the path changes.
LEMMA BankKept ==
  ASSUME IndInv
  PROVE  regs \in [Reg -> Value] /\ Bank(regs, alive, hist.callback) /\ seen \subseteq LoopTest
  BY EverywhereIsBanks DEF IndInv, TypeOK, Banks

LEMMA StepTyped ==
  ASSUME IndInv, Step
  PROVE  steps' \in Nat
  BY DEF IndInv, TypeOK, Step

LEMMA BranchKeeps ==
  ASSUME IndInv, NEW c \in OfType("i1"), visitBranchInst(c)
  PROVE  IndInv'
<1> DEFINE X == Agreeing(IsTrue, regs[c].den, regs[c].val)
<1>1. /\ pushed' = pushPathConstraint(c)
      /\ alive' = alive \cap X
      /\ hist' = [hist EXCEPT !.opaque = @ \/ regs[c].opaque, !.foreign = @ \/ regs[c].foreign]
      /\ Step
      /\ UNCHANGED <<regs, seen, stack, inside, mem, parameter, return>>
  BY DEF visitBranchInst, Decide, Running
<1>2. /\ Good(regs[c], "bool") /\ regs[c] \in Value /\ theInput \in X
      /\ ~regs[c].foreign => theInput \in Believers(c)
      /\ ~regs[c].foreign /\ ~regs[c].opaque => \A i \in alive : i \in X <=> i \in Believers(c)
      /\ pushPathConstraint(c) = pushed \cap Believers(c)
  BY ConditionAgrees
<1>3. /\ hist' \in History
      /\ hist'.opaque <=> hist.opaque \/ regs[c].opaque
      /\ hist'.foreign <=> hist.foreign \/ regs[c].foreign
      /\ hist'.skipped = hist.skipped /\ hist'.callback = hist.callback /\ hist'.strayed = hist.strayed
  BY <1>1, <1>2, DecideStep
<1>4. /\ steps' \in Nat /\ seen' \subseteq LoopTest
      /\ regs' \in [Reg -> Value] /\ Bank(regs', alive, hist.callback)
  BY <1>1, StepTyped, BankKept
<1> HIDE DEF X
<1> QED BY <1>1, <1>2, <1>3, <1>4, ControlKeeps

LEMMA LoopKeeps ==
  ASSUME IndInv, NEW c \in OfType("i1"), NEW l \in LoopTest, visitLoopBranch(c, l)
  PROVE  IndInv'
<1> DEFINE X == Agreeing(IsTrue, regs[c].den, regs[c].val)
           skip == l \in seen /\ regs[c].expr # Null
<1>1. /\ pushed' = IF l \in seen THEN pushed ELSE pushPathConstraint(c)
      /\ alive' = alive \cap X
      /\ hist' = [hist EXCEPT !.opaque = @ \/ regs[c].opaque, !.foreign = @ \/ regs[c].foreign,
                              !.skipped = @ \/ skip]
      /\ Step /\ seen' = seen \cup {l}
      /\ UNCHANGED <<regs, stack, inside, mem, parameter, return>>
  BY DEF visitLoopBranch, Running
<1>2. /\ Good(regs[c], "bool") /\ regs[c] \in Value /\ theInput \in X
      /\ ~regs[c].foreign => theInput \in Believers(c)
      /\ ~regs[c].foreign /\ ~regs[c].opaque => \A i \in alive : i \in X <=> i \in Believers(c)
      /\ pushPathConstraint(c) = pushed \cap Believers(c)
  BY ConditionAgrees
<1>3. /\ hist' \in History
      /\ hist'.opaque <=> hist.opaque \/ regs[c].opaque
      /\ hist'.foreign <=> hist.foreign \/ regs[c].foreign
      /\ hist'.skipped <=> hist.skipped \/ skip
      /\ hist'.callback = hist.callback /\ hist'.strayed = hist.strayed
  <2>1. skip \in BOOLEAN
    OBVIOUS
  <2> HIDE DEF skip, X
  <2> QED BY <1>1, <1>2, <2>1, HistoryStep
<1>4. /\ steps' \in Nat /\ seen' \subseteq LoopTest
      /\ regs' \in [Reg -> Value] /\ Bank(regs', alive, hist.callback)
  BY <1>1, StepTyped, BankKept
<1>5. \/ pushed' = pushed \cap Believers(c) /\ hist'.skipped = hist.skipped
      \/ pushed' = pushed /\ hist'.skipped
  <2>1. hist.skipped \in BOOLEAN /\ hist'.skipped \in BOOLEAN /\ pushed \subseteq Input
    BY <1>3 DEF History, IndInv, TypeOK
  <2>2. CASE skip
    BY <1>1, <1>3, <2>2
  <2>3. CASE ~skip
    <3>1. hist'.skipped = hist.skipped
      BY <1>3, <2>1, <2>3
    <3>2. pushed' = pushed \cap Believers(c)
      BY <1>1, <1>2, <2>1, <2>3 DEF Believers
    <3> QED BY <3>1, <3>2
  <2> QED BY <2>2, <2>3
<1> HIDE DEF X, skip
<1> QED BY <1>1, <1>2, <1>3, <1>4, <1>5, ControlKeeps

LEMMA SelectKeeps ==
  ASSUME IndInv, NEW c \in OfType("i1"), NEW t \in Types, NEW dst \in OfType(t),
         NEW p \in OfType(t), NEW q \in OfType(t), visitSelectInst(c, dst, p, q)
  PROVE  IndInv'
<1> DEFINE X == Agreeing(IsTrue, regs[c].den, regs[c].val)
           chosen == IF IsTrue(regs[c].val) THEN regs[p] ELSE regs[q]
           absent == regs[p].entry = "absent" /\ regs[q].entry = "absent"
           new == [chosen EXCEPT !.entry = IF absent THEN "absent" ELSE "dynamic"]
<1>1. /\ pushed' = pushPathConstraint(c)
      /\ alive' = alive \cap X
      /\ hist' = [hist EXCEPT !.opaque = @ \/ regs[c].opaque, !.foreign = @ \/ regs[c].foreign]
      /\ Step /\ regs' = [regs EXCEPT ![dst] = new]
      /\ UNCHANGED <<seen, stack, inside, mem, parameter, return>>
  BY DEF visitSelectInst, Decide, Running
<1>2. /\ Good(regs[c], "bool") /\ regs[c] \in Value /\ theInput \in X
      /\ ~regs[c].foreign => theInput \in Believers(c)
      /\ ~regs[c].foreign /\ ~regs[c].opaque => \A i \in alive : i \in X <=> i \in Believers(c)
      /\ pushPathConstraint(c) = pushed \cap Believers(c)
  BY ConditionAgrees
<1>3. /\ hist' \in History
      /\ hist'.opaque <=> hist.opaque \/ regs[c].opaque
      /\ hist'.foreign <=> hist.foreign \/ regs[c].foreign
      /\ hist'.skipped = hist.skipped /\ hist'.callback = hist.callback /\ hist'.strayed = hist.strayed
  BY <1>1, <1>2, DecideStep
<1>4. steps' \in Nat /\ seen' \subseteq LoopTest
  BY <1>1, StepTyped, BankKept
<1>5. new \in Value /\ SaneIn(new, SortOf(t), alive, hist.callback)
  <2>1. /\ chosen \in Value /\ SaneIn(chosen, SortOf(t), alive, hist.callback)
        /\ absent => chosen.entry = "absent"
    BY RegsGood, SaneIsSaneIn DEF Good, OfType
  <2> HIDE DEF chosen, absent
  <2> QED BY <2>1 DEF Value, Entry, SaneIn
<1>6. regs' \in [Reg -> Value] /\ Bank(regs', alive, hist.callback)
  <2> HIDE DEF new
  <2> QED BY <1>1, <1>5, BankKept DEF Bank, OfType
<1> HIDE DEF X, new
<1> QED BY <1>1, <1>2, <1>3, <1>4, <1>6, ControlKeeps

LEMMA SwitchKeeps ==
  ASSUME IndInv, NEW c \in OfType("iN"), visitSwitchInst(c)
  PROVE  IndInv'
<1> DEFINE Same(m, v) == {i \in Input : \A w \in Case : m[i] = w <=> v = w}
           X == Same(regs[c].den, regs[c].val)
           Y == IF regs[c].expr = Null THEN Input ELSE Same(regs[c].expr.den, regs[c].val)
<1>1. /\ pushed' = IF regs[c].expr = Null THEN pushed
                   ELSE pushed \cap Same(regs[c].expr.den, regs[c].val)
      /\ alive' = alive \cap X
      /\ hist' = [hist EXCEPT !.opaque = @ \/ regs[c].opaque, !.foreign = @ \/ regs[c].foreign]
      /\ Step
      /\ UNCHANGED <<regs, seen, stack, inside, mem, parameter, return>>
  BY DEF visitSwitchInst, Running
<1>2. Good(regs[c], "bv") /\ regs[c] \in Value
  BY RegsGood DEF OfType, SortOf, Good
<1>3. theInput \in Input /\ alive \subseteq Input /\ pushed \subseteq Input
  BY InstrumentationAssumption DEF IndInv, TypeOK
<1>4. theInput \in X /\ (~regs[c].foreign => theInput \in Y)
  BY <1>2, <1>3 DEF Good, Sane, Matches
<1>5. ASSUME ~regs[c].foreign, ~regs[c].opaque, NEW i \in alive
      PROVE  i \in X <=> i \in Y
  BY <1>2, <1>3, <1>5 DEF Good, Sane, Exact, Believed
<1>6. pushed' = pushed \cap Y
  BY <1>1, <1>3
<1>7. /\ hist' \in History
      /\ hist'.opaque <=> hist.opaque \/ regs[c].opaque
      /\ hist'.foreign <=> hist.foreign \/ regs[c].foreign
      /\ hist'.skipped = hist.skipped /\ hist'.callback = hist.callback /\ hist'.strayed = hist.strayed
  BY <1>1, <1>2, DecideStep
<1>8. /\ steps' \in Nat /\ seen' \subseteq LoopTest
      /\ regs' \in [Reg -> Value] /\ Bank(regs', alive, hist.callback)
  BY <1>1, StepTyped, BankKept
<1> HIDE DEF X, Y
<1> QED BY <1>1, <1>2, <1>4, <1>5, <1>6, <1>7, <1>8, ControlKeeps

-------------------------------------------------------------------------------
(* Functions *)

LEMMA FreshGood ==
  ASSUME NEW live \in SUBSET Input, NEW called \in BOOLEAN
  PROVE  Fresh \in [Reg -> Value] /\ Bank(Fresh, live, called)
<1>1. ASSUME NEW r \in Reg
      PROVE  Fresh[r] \in Value /\ SaneIn(Fresh[r], SortOf(Type[r]), live, called)
  <2>1. Literal[r] \in Word /\ theInput \in Input
    BY InstrumentationAssumption
  <2>2. Fresh[r] = [val |-> Literal[r], entry |-> "absent", expr |-> Null,
                    den |-> Constantly(Literal[r]), opaque |-> FALSE, foreign |-> FALSE]
    BY DEF Fresh
  <2> QED BY <2>1, <2>2 DEF Value, Entry, Meaning, Constantly, SaneIn
<1> QED BY <1>1 DEF Fresh, Bank

\* The history, the memory and the path stay; what is left are the registers, the
\* stack, and the expressions that are passed.
LEMMA FunctionKeeps ==
  ASSUME IndInv, hist' = hist \/ hist' = [hist EXCEPT !.callback = TRUE],
         regs' \in [Reg -> Value], Bank(regs', alive, hist'.callback),
         stack' \in Seq(Frame), \A k \in DOMAIN stack' : Bank(stack'[k].regs, alive, hist'.callback),
         seen' \subseteq LoopTest, steps' \in Nat, inside' \in {"code", "external"},
         parameter' \in Expr \cup {Null}, return' \in Expr \cup {Null},
         UNCHANGED <<mem, pushed, alive>>,
         ~hist'.callback =>
           /\ \A k \in DOMAIN stack' : stack'[k].kind = "code"
           /\ inside' = "external" /\ stack' # <<>> /\ stack'[Len(stack')].used => return' = Null
  PROVE  IndInv'
<1>1. /\ hist' \in History /\ (hist.callback => hist'.callback)
      /\ hist'.opaque = hist.opaque /\ hist'.foreign = hist.foreign /\ hist'.skipped = hist.skipped
      /\ hist'.strayed = hist.strayed
  BY DEF IndInv, TypeOK, History
<1>2. TypeOK'
  BY <1>1 DEF IndInv, TypeOK, History
<1>3. Everywhere(Sane)'
  <2>1. \A m \in Cell : SaneIn(mem[m], "bv", alive, hist.callback)
    BY EverywhereIsBanks DEF IndInv, Banks
  <2>2. \A m \in Cell : SaneIn(mem[m], "bv", alive, hist'.callback)
    BY <1>1, <2>1, SaneNarrows
  <2>3. Banks(regs', stack', mem', alive', hist'.callback)
    BY <2>2 DEF Banks
  <2> QED BY <2>3, EverywhereIsBanksNext
<1>4. theInput \in alive' /\ PathIsFeasible' /\ PathIsDescribed' /\ (hist'.callback \/ ~hist'.foreign)
  BY <1>1 DEF IndInv, PathIsFeasible, PathIsDescribed
<1> QED BY <1>2, <1>3, <1>4 DEF IndInv

\* A callee starts with fresh registers and a parameter.
LEMMA EnterGood ==
  ASSUME NEW live \in SUBSET Input, NEW called \in BOOLEAN, NEW p \in Reg, NEW arg, NEW expr,
         LET new == [arg EXCEPT !.entry = "dynamic", !.expr = expr]
         IN new \in Value /\ SaneIn(new, SortOf(Type[p]), live, called)
  PROVE  Enter(p, arg, expr) \in [Reg -> Value] /\ Bank(Enter(p, arg, expr), live, called)
<1> DEFINE new == [arg EXCEPT !.entry = "dynamic", !.expr = expr]
<1>1. Enter(p, arg, expr) = [Fresh EXCEPT ![p] = new]
  BY DEF Enter
<1> HIDE DEF new
<1> QED BY <1>1, FreshGood DEF Bank, new

\* A frame is put on the stack.
LEMMA PushKeeps ==
  ASSUME IndInv, NEW f \in Frame, NEW called \in BOOLEAN, hist.callback => called,
         Bank(f.regs, alive, called), stack' = Append(stack, f)
  PROVE  /\ stack' \in Seq(Frame) /\ stack' # <<>> /\ stack'[Len(stack')] = f
         /\ \A k \in DOMAIN stack' : Bank(stack'[k].regs, alive, called)
         /\ ~called /\ f.kind = "code" => \A k \in DOMAIN stack' : stack'[k].kind = "code"
<1>1. stack \in Seq(Frame) /\ \A k \in DOMAIN stack : Bank(stack[k].regs, alive, hist.callback)
  BY EverywhereIsBanks DEF IndInv, TypeOK, Banks
<1>2. \A k \in DOMAIN stack : Bank(stack[k].regs, alive, called)
  BY <1>1, SaneNarrows DEF Bank
<1>3. /\ Len(stack') = Len(stack) + 1 /\ Len(stack) \in Nat
      /\ DOMAIN stack' = 1..(Len(stack) + 1) /\ DOMAIN stack = 1..Len(stack)
      /\ \A k \in 1..Len(stack) : stack'[k] = stack[k]
      /\ stack'[Len(stack) + 1] = f
      /\ stack' \in Seq(Frame)
  BY <1>1
<1>4. \A k \in DOMAIN stack' : k \in DOMAIN stack \/ stack'[k] = f
  BY <1>3
<1>5. ~called => \A k \in DOMAIN stack : stack[k].kind = "code"
  BY DEF IndInv
<1>6. stack' # <<>>
  BY <1>3
<1> QED BY <1>2, <1>3, <1>4, <1>5, <1>6

LEMMA CallKeeps ==
  ASSUME IndInv, NEW a \in Reg, NEW used \in BOOLEAN, visitCallInst(a, used) \/ CallExternal(a, used)
  PROVE  IndInv'
<1> DEFINE f == [kind |-> "code", regs |-> regs, seen |-> seen, used |-> used]
<1>1. /\ Running /\ parameter' = regs[a].expr /\ return' = IF used THEN Null ELSE return
      /\ stack' = Append(stack, f) /\ seen' = {}
      /\ UNCHANGED <<mem, pushed, alive, hist>>
  BY DEF visitCallInst, CallExternal, handleFunctionCall
<1>2. /\ hist.callback \in BOOLEAN /\ alive \subseteq Input /\ return \in Expr \cup {Null}
      /\ inside = "code"
  BY <1>1 DEF IndInv, TypeOK, Running
<1>3. f \in Frame /\ Bank(f.regs, alive, hist.callback)
  BY BankKept DEF Frame
<1>4. f.used = used /\ f.kind = "code"
  OBVIOUS
<1> HIDE DEF f
<1>5. /\ stack' \in Seq(Frame) /\ stack'[Len(stack')] = f
      /\ \A k \in DOMAIN stack' : Bank(stack'[k].regs, alive, hist.callback)
      /\ ~hist.callback => \A k \in DOMAIN stack' : stack'[k].kind = "code"
  BY <1>1, <1>2, <1>3, <1>4, PushKeeps
<1>6. /\ parameter' \in Expr \cup {Null} /\ return' \in Expr \cup {Null} /\ steps' \in Nat
      /\ (used => return' = Null) /\ seen' \subseteq LoopTest
  <2>1. regs[a].expr \in Expr \cup {Null}
    BY RegsGood DEF Good, Value
  <2> QED BY <1>1, <1>2, <2>1, StepTyped DEF Running
<1>7. regs' \in [Reg -> Value] /\ Bank(regs', alive, hist.callback)
  <2>1. CASE visitCallInst(a, used)
    <3>1. PICK p \in OfType(Type[a]) : regs' = Enter(p, regs[a], regs[a].expr)
      BY <1>1, <2>1 DEF visitCallInst
    <3> DEFINE new == [regs[a] EXCEPT !.entry = "dynamic", !.expr = regs[a].expr]
    <3>2. regs[a] \in Value /\ SaneIn(regs[a], SortOf(Type[a]), alive, hist.callback)
      BY RegsGood, SaneIsSaneIn DEF Good
    <3>3. new \in Value /\ SaneIn(new, SortOf(Type[a]), alive, hist.callback)
      BY <3>2 DEF Value, Entry, SaneIn
    <3>4. p \in Reg /\ Type[p] = Type[a]
      BY <3>1 DEF OfType
    <3> QED BY <1>2, <3>1, <3>3, <3>4, EnterGood
  <2>2. CASE CallExternal(a, used)
    BY <1>2, <2>2, FreshGood DEF CallExternal
  <2> QED BY <2>1, <2>2
<1>8. inside' \in {"code", "external"}
  BY <1>2 DEF visitCallInst, CallExternal
<1>9. ~hist.callback =>
        /\ \A k \in DOMAIN stack' : stack'[k].kind = "code"
        /\ inside' = "external" /\ stack' # <<>> /\ stack'[Len(stack')].used => return' = Null
  BY <1>4, <1>5, <1>6
<1> QED BY <1>1, <1>2, <1>5, <1>6, <1>7, <1>8, <1>9, FunctionKeeps

\* A value of which nothing is known, with an expression that is not its own.
LEMMA ConcretizedSane ==
  ASSUME NEW v \in Word, NEW e \in Expr \cup {Null}, NEW sort, NEW live \in SUBSET Input,
         NEW called \in BOOLEAN, called \/ e = Null
  PROVE  LET new == [[Concretized(v) EXCEPT !.foreign = e # Null] EXCEPT !.entry = "dynamic", !.expr = e]
         IN new \in Value /\ SaneIn(new, sort, live, called)
<1> DEFINE other == e # Null
           c == Concretized(v)
           d == [c EXCEPT !.foreign = other]
           new == [d EXCEPT !.entry = "dynamic", !.expr = e]
<1>1. other \in BOOLEAN /\ theInput \in Input
  BY InstrumentationAssumption
<1>2. /\ c \in Value /\ c.val = v /\ c.opaque = TRUE /\ c.den[theInput] = v
  BY <1>1 DEF Concretized, Value, Entry, Meaning, Constantly
<1> HIDE DEF c, other
<1>3. new \in Value /\ new.val = v /\ new.opaque = TRUE /\ new.den[theInput] = v /\ new.expr = e
      /\ new.entry = "dynamic" /\ new.foreign = other
  BY <1>1, <1>2 DEF Value, Entry
<1>4. SaneIn(new, sort, live, called)
  <2> HIDE DEF new
  <2> QED BY <1>3 DEF SaneIn, other
<1> QED BY <1>3, <1>4 DEF c, other

LEMMA CallbackKeeps == IndInv /\ Callback => IndInv'
<1> SUFFICES ASSUME IndInv, Callback PROVE IndInv'
  OBVIOUS
<1> DEFINE f == [kind |-> "external", regs |-> Fresh, seen |-> {}, used |-> FALSE]
<1>1. /\ alive \in SUBSET Input /\ seen \subseteq LoopTest /\ parameter \in Expr \cup {Null}
      /\ return \in Expr \cup {Null}
  BY DEF IndInv, TypeOK
<1>2. /\ stack' = Append(stack, f) /\ inside' = "code" /\ Step
      /\ hist' = [hist EXCEPT !.callback = TRUE]
      /\ UNCHANGED <<seen, mem, parameter, return, pushed, alive>>
  BY DEF Callback
<1>3. f \in Frame /\ Bank(f.regs, alive, TRUE)
  BY <1>1, FreshGood DEF Frame
<1> HIDE DEF f
<1>4. stack' \in Seq(Frame) /\ \A k \in DOMAIN stack' : Bank(stack'[k].regs, alive, TRUE)
  BY <1>2, <1>3, PushKeeps
<1>5. regs' \in [Reg -> Value] /\ Bank(regs', alive, TRUE)
  <2>1. PICK p \in Reg, v \in Word :
          regs' = Enter(p, [Concretized(v) EXCEPT !.foreign = parameter # Null], parameter)
    BY DEF Callback
  <2> DEFINE arg == [Concretized(v) EXCEPT !.foreign = parameter # Null]
  <2>2. LET new == [arg EXCEPT !.entry = "dynamic", !.expr = parameter]
        IN new \in Value /\ SaneIn(new, SortOf(Type[p]), alive, TRUE)
    BY <1>1, ConcretizedSane
  <2> HIDE DEF arg
  <2>3. Enter(p, arg, parameter) \in [Reg -> Value] /\ Bank(Enter(p, arg, parameter), alive, TRUE)
    BY <1>1, <2>2, EnterGood
  <2> QED BY <2>1, <2>3 DEF arg
<1>6. hist'.callback = TRUE
  BY <1>2 DEF IndInv, TypeOK
<1> QED BY <1>1, <1>2, <1>4, <1>5, <1>6, StepTyped, FunctionKeeps

\* The frame on top is taken off the stack.
LEMMA PopKeeps ==
  ASSUME IndInv, stack # <<>>, stack' = SubSeq(stack, 1, Len(stack) - 1)
  PROVE  LET top == stack[Len(stack)]
         IN /\ top \in Frame /\ Bank(top.regs, alive, hist.callback)
            /\ ~hist.callback => top.kind = "code"
            /\ stack' \in Seq(Frame)
            /\ \A k \in DOMAIN stack' : Bank(stack'[k].regs, alive, hist.callback)
            /\ ~hist.callback => \A k \in DOMAIN stack' : stack'[k].kind = "code"
<1>1. stack \in Seq(Frame) /\ \A k \in DOMAIN stack : Bank(stack[k].regs, alive, hist.callback)
  BY EverywhereIsBanks DEF IndInv, TypeOK, Banks
<1>2. Len(stack) \in Nat \ {0} /\ DOMAIN stack = 1..Len(stack)
  BY <1>1
<1>3. Len(stack) \in DOMAIN stack /\ stack[Len(stack)] \in Frame
  BY <1>1, <1>2
<1>4. /\ stack' \in Seq(Frame) /\ DOMAIN stack' = 1..(Len(stack) - 1)
      /\ \A k \in 1..(Len(stack) - 1) : stack'[k] = stack[k]
  BY <1>1, <1>2
<1>5. \A k \in DOMAIN stack' : k \in DOMAIN stack /\ stack'[k] = stack[k]
  BY <1>2, <1>4
<1>6. ~hist.callback => \A k \in DOMAIN stack : stack[k].kind = "code"
  BY DEF IndInv
<1> QED BY <1>1, <1>3, <1>4, <1>5, <1>6

\* A caller goes on: with its registers, or one of them set to a result.
LEMMA ResumeKeeps ==
  ASSUME IndInv, Step, Resume, return' \in Expr \cup {Null},
         LET top == stack[Len(stack)]
         IN \/ regs' = top.regs
            \/ \E dst \in Reg, new \in Value :
                 /\ SaneIn(new, SortOf(Type[dst]), alive, hist.callback)
                 /\ regs' = [top.regs EXCEPT ![dst] = new]
  PROVE  IndInv'
<1> DEFINE top == stack[Len(stack)]
<1>1. /\ top \in Frame /\ Bank(top.regs, alive, hist.callback)
      /\ ~hist.callback => top.kind = "code"
      /\ stack' \in Seq(Frame)
      /\ \A k \in DOMAIN stack' : Bank(stack'[k].regs, alive, hist.callback)
      /\ ~hist.callback => \A k \in DOMAIN stack' : stack'[k].kind = "code"
  BY PopKeeps DEF Resume
<1>2. seen' = top.seen /\ inside' = top.kind /\ UNCHANGED <<mem, parameter, pushed, alive, hist>>
  BY DEF Resume
<1> HIDE DEF top
<1>3. /\ top.regs \in [Reg -> Value] /\ seen' \subseteq LoopTest /\ inside' \in {"code", "external"}
      /\ ~hist.callback => inside' # "external"
  BY <1>1, <1>2 DEF Frame
<1>4. regs' \in [Reg -> Value] /\ Bank(regs', alive, hist.callback)
  <2>1. CASE regs' = top.regs
    BY <1>1, <1>3, <2>1
  <2>2. CASE \E dst \in Reg, new \in Value :
               /\ SaneIn(new, SortOf(Type[dst]), alive, hist.callback)
               /\ regs' = [top.regs EXCEPT ![dst] = new]
    <3>1. PICK dst \in Reg, new \in Value :
             /\ SaneIn(new, SortOf(Type[dst]), alive, hist.callback)
             /\ regs' = [top.regs EXCEPT ![dst] = new]
      BY <2>2
    <3> QED BY <1>1, <1>3, <3>1 DEF Bank
  <2> QED BY <2>1, <2>2 DEF top
<1>5. hist.callback \in BOOLEAN /\ parameter \in Expr \cup {Null}
  BY DEF IndInv, TypeOK
<1> QED BY <1>1, <1>2, <1>3, <1>4, <1>5, StepTyped, FunctionKeeps

LEMMA ReturnKeeps ==
  ASSUME IndInv, (\E a \in Reg : visitReturnInst(a)) \/ visitReturnVoid
  PROVE  IndInv'
<1>1. CASE visitReturnVoid
  <2>1. Step /\ Resume /\ regs' = stack[Len(stack)].regs /\ return' = return
        /\ return \in Expr \cup {Null}
    BY <1>1 DEF visitReturnVoid, Running, IndInv, TypeOK
  <2> QED BY <2>1, ResumeKeeps
<1>2. CASE \E a \in Reg : visitReturnInst(a)
  <2>1. PICK a \in Reg : visitReturnInst(a)
    BY <1>2
  <2> DEFINE top == stack[Len(stack)]
             new == [regs[a] EXCEPT !.entry = "dynamic", !.expr = regs[a].expr]
  <2>2. Step /\ Resume /\ Deliver(Type[a], regs[a], regs[a].expr)
    BY <2>1 DEF visitReturnInst, Running
  <2>3. regs[a] \in Value /\ SaneIn(regs[a], SortOf(Type[a]), alive, hist.callback)
    BY RegsGood, SaneIsSaneIn DEF Good
  <2>4. /\ new \in Value /\ SaneIn(new, SortOf(Type[a]), alive, hist.callback)
        /\ regs[a].expr \in Expr \cup {Null}
    BY <2>3 DEF Value, Entry, SaneIn
  <2>5. /\ return' \in Expr \cup {Null}
        /\ \/ regs' = top.regs
           \/ \E dst \in OfType(Type[a]) : regs' = [top.regs EXCEPT ![dst] = new]
    BY <2>2, <2>4 DEF Deliver
  <2>6. \/ regs' = top.regs
        \/ \E dst \in Reg, w \in Value :
             /\ SaneIn(w, SortOf(Type[dst]), alive, hist.callback)
             /\ regs' = [top.regs EXCEPT ![dst] = w]
    <3> HIDE DEF new, top
    <3> QED BY <2>4, <2>5 DEF OfType
  <2> QED BY <2>2, <2>5, <2>6, ResumeKeeps
<1> QED BY <1>1, <1>2

\* The result of an uninstrumented function has no expression before the first
\* callback, because the caller has cleared it.
LEMMA ExternalReturnKeeps == IndInv /\ ExternalReturn => IndInv'
<1> SUFFICES ASSUME IndInv, ExternalReturn PROVE IndInv'
  OBVIOUS
<1> DEFINE top == stack[Len(stack)]
           unknown(v) == [Concretized(v) EXCEPT !.foreign = return # Null]
           new(v) == [unknown(v) EXCEPT !.entry = "dynamic", !.expr = return]
<1>1. PICK t \in Types, v \in Word : Deliver(t, unknown(v), return)
  BY DEF ExternalReturn
<1>2. Step /\ Resume /\ inside = "external" /\ stack # <<>>
  BY DEF ExternalReturn, Resume
<1>3. /\ return \in Expr \cup {Null} /\ alive \in SUBSET Input /\ hist.callback \in BOOLEAN
      /\ hist.callback \/ (top.used => return = Null)
  BY <1>2 DEF IndInv, TypeOK
<1>4. top.used => \E dst \in Reg : /\ Type[dst] = t
                                   /\ regs' = [top.regs EXCEPT ![dst] = new(v)]
  BY <1>1 DEF Deliver, OfType
<1>5. /\ return' \in Expr \cup {Null}
      /\ ~top.used => regs' = top.regs
  BY <1>1, <1>3 DEF Deliver
<1>6. top.used => new(v) \in Value /\ SaneIn(new(v), SortOf(t), alive, hist.callback)
  BY <1>3, ConcretizedSane
<1>7. \/ regs' = top.regs
      \/ \E dst \in Reg, w \in Value :
           /\ SaneIn(w, SortOf(Type[dst]), alive, hist.callback)
           /\ regs' = [top.regs EXCEPT ![dst] = w]
  <2> HIDE DEF new, unknown, top
  <2> QED BY <1>4, <1>5, <1>6
<1> QED BY <1>2, <1>5, <1>7, ResumeKeeps

-------------------------------------------------------------------------------
(* The theorems *)

LEMMA InitHolds == Init => IndInv
<1> SUFFICES ASSUME Init PROVE IndInv
  OBVIOUS
<1>1. theInput \in Input /\ \A m \in Cell : Content[m] \in Meaning
  BY InstrumentationAssumption
<1>2. /\ hist = [opaque |-> FALSE, foreign |-> FALSE, skipped |-> FALSE, callback |-> FALSE,
                 strayed |-> {}]
      /\ alive = Input /\ pushed = Input /\ stack = <<>> /\ regs = Fresh
      /\ hist.callback = FALSE /\ hist.foreign = FALSE
  BY DEF Init
<1>3. ASSUME NEW m \in Cell
      PROVE  mem[m] \in Value /\ SaneIn(mem[m], "bv", alive, hist.callback)
  <2>1. mem[m] = [val |-> Content[m][theInput], entry |-> "dynamic",
                  expr |-> [sort |-> "bv", den |-> Content[m]], den |-> Content[m],
                  opaque |-> FALSE, foreign |-> FALSE]
    BY DEF Init
  <2>2. [sort |-> "bv", den |-> Content[m]] \in Expr /\ Content[m][theInput] \in Word
    BY <1>1 DEF Expr, Sort, Meaning
  <2>3. [sort |-> "bv", den |-> Content[m]] # Null
    BY <2>2, InstrumentationAssumption
  <2>4. mem[m] \in Value
    BY <1>1, <2>1, <2>2 DEF Value, Entry
  <2> QED BY <1>2, <2>1, <2>3, <2>4 DEF SaneIn
<1>4. Fresh \in [Reg -> Value] /\ Bank(Fresh, alive, hist.callback)
  BY <1>2, FreshGood
<1>5. TypeOK
  <2>1. mem \in [Cell -> Value]
    BY <1>3 DEF Init
  <2>2. stack \in Seq(Frame)
    BY <1>2
  <2>3. hist \in History
    BY <1>2 DEF History
  <2> QED BY <1>2, <1>4, <2>1, <2>2, <2>3 DEF Init, TypeOK, History
<1>6. Everywhere(Sane)
  <2>1. \A k \in DOMAIN stack : Bank(stack[k].regs, alive, hist.callback)
    BY <1>2
  <2>2. Banks(regs, stack, mem, alive, hist.callback)
    BY <1>2, <1>3, <1>4, <2>1 DEF Banks
  <2> QED BY <2>2, EverywhereIsBanks
<1>7. \A k \in DOMAIN stack : stack[k].kind = "code"
  BY <1>2
<1> QED BY <1>1, <1>2, <1>5, <1>6, <1>7 DEF IndInv, PathIsFeasible, PathIsDescribed

LEMMA StutterKeeps == IndInv /\ UNCHANGED vars => IndInv'
<1> SUFFICES ASSUME IndInv, UNCHANGED vars PROVE IndInv'
  OBVIOUS
<1>1. UNCHANGED <<regs, seen, stack, inside, mem, parameter, return, pushed, alive, hist, steps>>
  BY DEF vars
<1>2. Everywhere(Sane)'
  BY <1>1, EverywhereIsBanks, EverywhereIsBanksNext DEF IndInv
<1>3. TypeOK'
  BY <1>1 DEF IndInv, TypeOK
<1> QED BY <1>1, <1>2, <1>3 DEF IndInv, PathIsFeasible, PathIsDescribed

LEMMA NextKeeps == IndInv /\ Next => IndInv'
<1> SUFFICES ASSUME IndInv, Next PROVE IndInv'
  OBVIOUS
<1>1. CASE Compute
  BY <1>1, ComputeKeeps
<1>2. CASE Memory
  BY <1>2, LoadKeeps, StoreKeeps DEF Memory
<1>3. CASE Control
  BY <1>3, BranchKeeps, LoopKeeps, SelectKeeps, SwitchKeeps DEF Control
<1>4. CASE Functions
  BY <1>4, CallKeeps, CallbackKeeps, ReturnKeeps, ExternalReturnKeeps DEF Functions
<1> QED BY <1>1, <1>2, <1>3, <1>4 DEF Next

\* Whatever the instructions compute, instrumented execution keeps the bookkeeping
\* of Symbolizer.cpp consistent: entries, expressions, path constraints and the
\* expressions passed between functions.
THEOREM Invariance == Spec => []IndInv
<1>1. IndInv /\ [Next]_vars => IndInv'
  BY NextKeeps, StutterKeeps
<1> QED BY InitHolds, <1>1, PTL DEF Spec

\* An expression has the sort of its value's type and the value's own value under
\* the present input (the sort conversions around loads, stores and casts).
THEOREM ExpressionsMatchAlways == Spec => []ExpressionsMatch
<1>1. IndInv => ExpressionsMatch
  BY DEF IndInv, ExpressionsMatch, Everywhere, Sane
<1> QED BY <1>1, Invariance, PTL

\* The checks that shortCircuitExpressionUses inserts skip a computation only if
\* its result is the same for all inputs that take the path and access the same cells.
THEOREM ExpressionsExactAlways == Spec => []ExpressionsExact
<1>1. IndInv => ExpressionsExact
  BY DEF IndInv, ExpressionsExact, Everywhere, Sane
<1> QED BY <1>1, Invariance, PTL

\* The constraints that branches, selects and switches push hold for the present
\* input.
THEOREM PathIsFeasibleAlways == Spec => []PathIsFeasible
<1>1. IndInv => PathIsFeasible
  BY DEF IndInv
<1> QED BY <1>1, Invariance, PTL

\* The constraints describe the path, except for the loop tests passed over and the
\* inputs that would have accessed other memory.
THEOREM PathIsDescribedAlways == Spec => []PathIsDescribed
<1>1. IndInv => PathIsDescribed
  BY DEF IndInv
<1> QED BY <1>1, Invariance, PTL

\* Calls and returns give a value the expression of another only after a callback
\* from uninstrumented code.
THEOREM ForeignByCallbackAlways == Spec => []ForeignByCallback
<1>1. IndInv => ForeignByCallback
  BY DEF IndInv, ForeignByCallback, Everywhere, Own, Sane
<1> QED BY <1>1, Invariance, PTL

===============================================================================
