---------------------------- MODULE BackendProofs ----------------------------
(***************************************************************************)
(* Three parts of the backends that share no state: the queries that the simple *)
(* backend logs, for any number of open scopes and collected constraints; the   *)
(* variables of the input bytes, for inputs of any length; and the garbage      *)
(* collection of expressions, which keeps what the roots hold, for any set of   *)
(* addresses and of places where pointers are kept and any number of            *)
(* expressions.                                                                 *)
(***************************************************************************)
EXTENDS PathConstraints, InputVariables, ExpressionTable, SequenceTheorems,
        WellFoundedInduction, TLAPS

-------------------------------------------------------------------------------
(* Path constraints: what the simple backend asks the solver. *)

PathSpec == PathInit /\ [][PathNext]_pathVars

EmptyScopes(s) == s \in Seq({<< >>}) /\ s # << >>

\* What the properties need: every scope is empty between two calls, each
\* collected pair is a constraint and its negation, and string_taken is the
\* conjunction of the collected equalities once a size check has set it.
PathInv ==
  /\ EmptyScopes(scopes)
  /\ pieces \in Seq(Piece)
  /\ \A i \in DOMAIN pieces : pieces[i].not_eq <=> ~pieces[i].eq
  /\ string_taken \in BOOLEAN /\ compared \in BOOLEAN
  /\ compared => (string_taken <=> \A i \in DOMAIN pieces : pieces[i].eq)

\* The part of QueriesDescribeTheRun about the last query.
QueryRight ==
  /\ query # NoQuery => query.alone
  /\ query # NoQuery /\ query.sound => query.formula
  /\ query.by = "string" /\ query.sound =>
       (query.label <=> \A i \in DOMAIN pieces : pieces[i].eq)

-------------------------------------------------------------------------------
\* A query in a scope of its own, over empty ones, is about one formula, and
\* closing the scope leaves the others as they were.
LEMMA OwnScope ==
  ASSUME NEW s, EmptyScopes(s), NEW f
  PROVE  LET t == Asserted(Pushed(s), f)
         IN /\ Len(t) = Len(s) + 1
            /\ t[Len(t)] = <<f>>
            /\ \A i \in 1..(Len(t) - 1) : t[i] = << >>
            /\ Popped(t) = s
<1> DEFINE p == Pushed(s)
           t == Asserted(p, f)
<1>1. s \in Seq({<< >>}) /\ Len(s) \in Nat
  BY LenProperties DEF EmptyScopes
<1>2. /\ p \in Seq({<< >>}) /\ Len(p) = Len(s) + 1
      /\ \A i \in 1..Len(p) : p[i] = << >>
  BY <1>1, AppendProperties, << >> \in {<< >>} DEF Pushed
<1> HIDE DEF p
<1>3. t = [i \in 1..Len(p) |-> IF i = Len(p) THEN <<f>> ELSE << >>]
  <2>1. Append(<< >>, f) = <<f>>
    OBVIOUS
  <2>2. Len(p) \in 1..Len(p) /\ p[Len(p)] = << >> /\ DOMAIN p = 1..Len(p)
    BY <1>1, <1>2
  <2>3. t = [p EXCEPT ![Len(p)] = <<f>>]
    BY <2>1, <2>2 DEF Asserted
  <2>4. p = [i \in 1..Len(p) |-> << >>]
    BY <1>2, <2>2
  <2>5. DOMAIN t = 1..Len(p)
    BY <2>2, <2>3
  <2> QED
    BY <2>2, <2>3, <2>4, <2>5
<1>4. t \in Seq({<< >>, <<f>>}) /\ Len(t) = Len(p)
  BY <1>1, <1>2, <1>3
<1>5. Popped(t) = s
  <2>1. Popped(t) = [i \in 1..Len(s) |-> t[i]]
    BY <1>1, <1>2, <1>4 DEF Popped
  <2>2. \A i \in 1..Len(s) : t[i] = << >> /\ s[i] = << >>
    BY <1>1, <1>2, <1>3
  <2>3. s = [i \in 1..Len(s) |-> s[i]]
    BY <1>1
  <2> QED
    BY <2>1, <2>2, <2>3
<1> QED
  BY <1>1, <1>2, <1>3, <1>4, <1>5 DEF p

\* Opening a scope keeps all of them empty.
LEMMA OpenScope ==
  ASSUME NEW s, EmptyScopes(s)
  PROVE  EmptyScopes(Pushed(s))
BY AppendProperties, << >> \in {<< >>} DEF EmptyScopes, Pushed

\* What Log leaves in query when it is called in a scope of its own.
LEMMA LogOwnScope ==
  ASSUME NEW by, NEW f, NEW label, NEW sound, EmptyScopes(scopes),
         Log(by, Asserted(Pushed(scopes), f), label, sound)
  PROVE  query' = [by |-> by, formula |-> f, label |-> label,
                   alone |-> TRUE, sound |-> sound]
<1> DEFINE t == Asserted(Pushed(scopes), f)
<1> HIDE DEF t
<1>1. /\ t[Len(t)] = <<f>> /\ \A i \in 1..(Len(t) - 1) : t[i] = << >>
  BY OwnScope DEF t
<1>2. t[Len(t)][1] = f /\ Len(t[Len(t)]) = 1
  BY <1>1
<1>3. Log(by, t, label, sound)
  BY DEF t
<1> QED
  BY <1>1, <1>2, <1>3 DEF Log

-------------------------------------------------------------------------------
\* A collected pair is the constraint and its negation, as values of the run.
LEMMA NewPieceRight ==
  ASSUME NEW taken \in BOOLEAN, NEW live \in BOOLEAN
  PROVE  /\ NewPiece(taken, live) \in Piece
         /\ NewPiece(taken, live).eq <=> ~taken
         /\ NewPiece(taken, live).not_eq <=> taken
BY DEF NewPiece, Piece, Constraint, NotConstraint

\* Nothing is asserted and nothing collected at the start.
LEMMA InitRight == PathInit => PathInv /\ QueryRight
<1> SUFFICES ASSUME PathInit PROVE PathInv /\ QueryRight
  OBVIOUS
<1>1. EmptyScopes(scopes)
  BY DEF PathInit, EmptyScopes
<1>2. pieces = << >> /\ << >> \in Seq(Piece) /\ DOMAIN pieces = {}
  BY DEF PathInit
<1>3. QueryRight
  BY DEF PathInit, QueryRight, NoQuery
<1> QED
  BY <1>1, <1>2, <1>3 DEF PathInit, PathInv

\* An ordinary branch: what is asserted is true, in a scope that is closed again.
LEMMA BranchRight ==
  ASSUME PathInv, PushBranch
  PROVE  PathInv' /\ QueryRight'
<1>1. PICK taken \in BOOLEAN :
        LET s == Asserted(Pushed(scopes), IF taken THEN Constraint(taken)
                                          ELSE NotConstraint(taken))
        IN /\ Log("branch", s, taken, TRUE)
           /\ scopes' = Popped(s)
           /\ UNCHANGED <<pieces, string_taken, compared>>
  BY DEF PushBranch
<1> DEFINE f == IF taken THEN Constraint(taken) ELSE NotConstraint(taken)
<1>2. f = TRUE
  BY DEF Constraint, NotConstraint
<1>3. scopes' = scopes
  BY <1>1, OwnScope DEF PathInv
<1>4. query' = [by |-> "branch", formula |-> f, label |-> taken,
                alone |-> TRUE, sound |-> TRUE]
  BY <1>1, LogOwnScope DEF PathInv
<1>5. PathInv'
  BY <1>1, <1>3 DEF PathInv
<1>6. QueryRight'
  BY <1>2, <1>4 DEF QueryRight
<1> QED
  BY <1>5, <1>6

\* _sym_feasible closes its scope as well.
LEMMA FeasibleRight ==
  ASSUME PathInv, Feasible
  PROVE  PathInv' /\ QueryRight'
<1>1. PICK value \in BOOLEAN :
        LET s == Asserted(Pushed(scopes), value)
        IN /\ Log("feasible", s, value, FALSE)
           /\ scopes' = Popped(s)
           /\ UNCHANGED <<pieces, string_taken, compared>>
  BY DEF Feasible
<1>2. scopes' = scopes
  BY <1>1, OwnScope DEF PathInv
<1>3. query' = [by |-> "feasible", formula |-> value, label |-> value,
                alone |-> TRUE, sound |-> FALSE]
  BY <1>1, LogOwnScope DEF PathInv
<1>4. PathInv'
  BY <1>1, <1>2 DEF PathInv
<1>5. QueryRight'
  BY <1>3 DEF QueryRight
<1> QED
  BY <1>4, <1>5

\* A call that logs nothing.
LEMMA NoQueryRight ==
  ASSUME query' = NoQuery
  PROVE  QueryRight'
BY DEF QueryRight, NoQuery

\* The size check opens a scope and starts the collection with its own piece.
LEMMA SizeCheckRight ==
  ASSUME PathInv, PushSizeCheck
  PROVE  PathInv' /\ QueryRight'
<1>1. PICK taken \in BOOLEAN, live \in BOOLEAN :
        /\ scopes' = Pushed(scopes)
        /\ pieces' = <<NewPiece(taken, live)>>
        /\ string_taken' = ~taken
        /\ compared' = TRUE
        /\ query' = NoQuery
  BY DEF PushSizeCheck
<1>2. EmptyScopes(scopes')
  BY <1>1, OpenScope DEF PathInv
<1> DEFINE n == NewPiece(taken, live)
<1>3. n \in Piece /\ (n.eq <=> ~taken) /\ (n.not_eq <=> taken)
  BY NewPieceRight
<1> HIDE DEF n
<1>4. pieces' \in Seq(Piece) /\ DOMAIN pieces' = {1} /\ pieces'[1] = n
  BY <1>1, <1>3 DEF n
<1>5. PathInv'
  BY <1>1, <1>2, <1>3, <1>4 DEF PathInv
<1> QED
  BY <1>1, <1>5, NoQueryRight

\* A further piece: string_taken stays the conjunction of the equalities, and when
\* the comparison is complete, that or the disjunction of the inequalities is true.
LEMMA StringPieceRight ==
  ASSUME PathInv, PushStringPiece
  PROVE  PathInv' /\ QueryRight'
<1>1. PICK taken \in BOOLEAN, live \in BOOLEAN,
           line \in (strcmp_start_line - 1)..MaxLine :
        LET cond_num == line - strcmp_start_line + 1
            all == Append(pieces, NewPiece(taken, live))
            equal == string_taken /\ ~taken
            final(p) == IF equal THEN \A i \in DOMAIN p : p[i].eq
                        ELSE \E i \in DOMAIN p : p[i].not_eq
            sound == \A i \in DOMAIN pieces : pieces[i].live
        IN /\ Len(all) <= MaxPieces
           /\ pieces' = all
           /\ string_taken' = equal
           /\ \/ /\ Len(all) = cond_num
                 /\ \E p \in Denotations(all) :
                      LET s == Asserted(Pushed(scopes), final(p))
                      IN /\ Log("string", s, equal, compared /\ sound)
                         /\ scopes' = Popped(s)
              \/ /\ Len(all) # cond_num /\ Len(scopes) < MaxScopes
                 /\ scopes' = Pushed(scopes)
                 /\ query' = NoQuery
           /\ UNCHANGED compared
  BY DEF PushStringPiece
<1> DEFINE n == NewPiece(taken, live)
           all == Append(pieces, n)
           equal == string_taken /\ ~taken
           final(p) == IF equal THEN \A i \in DOMAIN p : p[i].eq
                       ELSE \E i \in DOMAIN p : p[i].not_eq
           sound == \A i \in DOMAIN pieces : pieces[i].live
<1>2. n \in Piece /\ (n.eq <=> ~taken) /\ (n.not_eq <=> taken)
  BY NewPieceRight
<1>3. pieces' = all /\ string_taken' = equal /\ compared' = compared
  BY <1>1
<1> HIDE DEF n
<1>4. /\ all \in Seq(Piece) /\ DOMAIN all = 1..(Len(pieces) + 1)
      /\ Len(all) = Len(pieces) + 1 /\ Len(pieces) \in Nat
      /\ DOMAIN pieces = 1..Len(pieces)
      /\ \A i \in DOMAIN pieces : all[i] = pieces[i]
      /\ all[Len(pieces) + 1] = n
  BY <1>2, AppendProperties, LenProperties DEF PathInv
<1> HIDE DEF all
<1>5. \A i \in DOMAIN all : all[i].not_eq <=> ~all[i].eq
  BY <1>2, <1>4 DEF PathInv
<1>6. compared => (equal <=> \A i \in DOMAIN all : all[i].eq)
  BY <1>2, <1>4 DEF PathInv
<1>7. ASSUME EmptyScopes(scopes') PROVE PathInv'
  BY <1>3, <1>4, <1>5, <1>6, <1>7 DEF PathInv
<1>8. CASE /\ scopes' = Pushed(scopes) /\ query' = NoQuery
  BY <1>7, <1>8, OpenScope, NoQueryRight DEF PathInv
<1>9. CASE \E p \in Denotations(all) :
             /\ Log("string", Asserted(Pushed(scopes), final(p)), equal,
                    compared /\ sound)
             /\ scopes' = Popped(Asserted(Pushed(scopes), final(p)))
  <2>1. PICK p \in Denotations(all) :
             /\ Log("string", Asserted(Pushed(scopes), final(p)), equal,
                    compared /\ sound)
             /\ scopes' = Popped(Asserted(Pushed(scopes), final(p)))
    BY <1>9
  <2>2. scopes' = scopes
    BY <2>1, OwnScope DEF PathInv
  <2>3. query' = [by |-> "string", formula |-> final(p), label |-> equal,
                  alone |-> TRUE, sound |-> (compared /\ sound)]
    <3> DEFINE f == final(p)
    <3>1. Log("string", Asserted(Pushed(scopes), f), equal, compared /\ sound)
      BY <2>1
    <3> HIDE DEF f, equal, sound
    <3>2. query' = [by |-> "string", formula |-> f, label |-> equal,
                    alone |-> TRUE, sound |-> (compared /\ sound)]
      BY <3>1, LogOwnScope DEF PathInv
    <3> QED
      BY <3>2 DEF f
  <2>4. ASSUME compared, sound PROVE final(p)
    <3>1. DOMAIN p = DOMAIN all /\ \A i \in DOMAIN all : p[i] = all[i]
      BY <2>4, <1>4 DEF Denotations
    <3>2. CASE equal
      BY <3>1, <3>2, <2>4, <1>6
    <3>3. CASE ~equal
      BY <3>1, <3>3, <2>4, <1>5, <1>6
    <3> QED
      BY <3>2, <3>3
  <2>5. QueryRight'
    <3>1. query'.alone /\ query'.by = "string"
      BY <2>3
    <3>2. query'.sound = (compared /\ sound) /\ query'.formula = final(p)
          /\ query'.label = equal
      BY <2>3
    <3>3. query'.sound => query'.formula
      BY <3>2, <2>4
    <3>4. query'.sound =>
            (query'.label <=> \A i \in DOMAIN pieces' : pieces'[i].eq)
      BY <3>2, <1>3, <1>6
    <3> QED
      BY <3>1, <3>3, <3>4 DEF QueryRight
  <2>6. EmptyScopes(scopes')
    BY <2>2 DEF PathInv
  <2> QED
    BY <2>5, <2>6, <1>7
<1> QED
  BY <1>1, <1>8, <1>9 DEF n, all

\* Every call keeps the invariant and leaves a query that is right.
LEMMA StepRight ==
  ASSUME PathInv, QueryRight, [PathNext]_pathVars
  PROVE  PathInv' /\ QueryRight'
<1>1. CASE PushConcrete
  BY <1>1, NoQueryRight DEF PushConcrete, PathInv
<1>2. CASE symcc_reset_constraints
  <2>1. EmptyScopes(scopes')
    BY <1>2 DEF symcc_reset_constraints, EmptyScopes
  <2> QED
    BY <1>2, <2>1, NoQueryRight DEF symcc_reset_constraints, PathInv
<1>3. CASE UNCHANGED pathVars
  BY <1>3 DEF pathVars, PathInv, QueryRight
<1> QED
  BY <1>1, <1>2, <1>3, BranchRight, FeasibleRight, SizeCheckRight,
     StringPieceRight DEF PathNext

-------------------------------------------------------------------------------
\* Every query that _sym_push_path_constraint_with_loc and _sym_feasible put to
\* the solver describes the run, for any bounds on lines, scopes and collected
\* constraints: the scopes that string comparisons leave open are harmless.
THEOREM QueriesDescribeTheRunAlways == PathSpec => []QueriesDescribeTheRun
<1>1. PathInv /\ QueryRight => QueriesDescribeTheRun
  <2>1. PathInv => \A i \in DOMAIN scopes : scopes[i] = << >>
    BY DEF PathInv, EmptyScopes
  <2> QED
    BY <2>1 DEF QueryRight, QueriesDescribeTheRun
<1> QED
  BY <1>1, InitRight, StepRight, PTL DEF PathSpec

-------------------------------------------------------------------------------
(* Input variables: each byte of the input has one of its own. *)

InputSpec == InputInit /\ [][InputNext]_inputVars

Vectors == {"stdin", "prefix"}
SymbolicByte == [via : Interface, off : Nat, value : Byte, var : Int, in : Vectors]

InputTypes ==
  /\ input \in {"unknown", "thrown", "none", "memory", "file", "stdin"}
  /\ bytes \in [Vectors -> Seq(Int)]
  /\ inputs \in Seq(Byte \cup {0})
  /\ offset \in [Interface -> Nat]
  /\ symbolic \in SUBSET SymbolicByte

\* The names in a vector ascend, and none is above its place.
Ascending(vec) ==
  /\ \A i \in 1..Len(vec) : NoVariable <= vec[i] /\ vec[i] <= i - 1
  /\ \A i, j \in 1..Len(vec) : i < j /\ vec[j] # NoVariable => vec[i] < vec[j]

\* A place has another name than its own, or none, only because a byte further on
\* was read first.
Explained ==
  \A x \in Vectors : \A i \in 1..Len(bytes[x]) :
    bytes[x][i] # i - 1 =>
      \E t \in symbolic : t.off >= i - 1 /\ t.var # NoVariable /\ t.var < t.off

\* The variable of a symbolic byte is the one that the vector holds for it.
Held ==
  \A s \in symbolic :
    /\ s.in = VectorOf(s.via) /\ s.off < Len(bytes[s.in])
    /\ s.var = bytes[s.in][s.off + 1] /\ s.off < Len(inputs)

\* The QSYM backend has recorded the byte, if one function made all of them
\* symbolic.
Recorded ==
  (\A s, t \in symbolic : s.via = t.via) =>
    \A s \in symbolic : inputs[s.off + 1] = s.value

\* What symbolic bytes are like if the input is a file, and if it is in memory.
FromFile == \A s \in symbolic : s.via = "file" /\ s.value = File[s.off + 1]
FromMemory ==
  /\ \A s \in symbolic : s.via # "file" /\ s.off < offset[s.via]
  /\ \A s, t \in symbolic : s.via = t.via /\ s.off = t.off => s = t
  /\ \A x \in Vectors : \A i \in 1..Len(bytes[x]) : bytes[x][i] = i - 1
  /\ \A via \in Interface : offset[via] <= Len(bytes[VectorOf(via)])

\* The two never mix, since loadConfig decides once.
Source ==
  /\ input \in {"unknown", "file", "stdin"} => FromFile
  /\ input \in {"unknown", "memory"} => FromMemory
  /\ FromFile \/ FromMemory

VariablesInv ==
  /\ InputTypes
  /\ \A x \in Vectors : Ascending(bytes[x])
  /\ Explained /\ Held /\ Recorded /\ Source

\* The vector of length l becomes one of length m, place by place.
Placed(vec, first, n, l, m, after) ==
  /\ l <= m /\ first + n <= m /\ (m > l => m = first + n)
  /\ after \in Seq(Int) /\ Len(after) = m
  /\ \A i \in 1..m : /\ i <= l => after[i] = vec[i] /\ vec[i] \in Int
                     /\ i > l /\ i <= first => after[i] = -1
                     /\ i > l /\ i = first + 1 => after[i] = l
                     /\ i > l /\ i > first + 1 => after[i] = i - 1

\* This is what a call does to the vector.
LEMMA VectorAfterIs ==
  ASSUME NEW vec \in Seq(Int), NEW first \in Nat, NEW n \in Nat \ {0},
         NEW l \in Nat, l = Len(vec)
  PROVE  \E m \in Nat : Placed(vec, first, n, l, m, VectorAfter(vec, first, n))
<1> DEFINE m == Longer(vec, first + n)
           after == VectorAfter(vec, first, n)
<1>1. m \in Nat /\ l <= m /\ first + n <= m /\ (m > l => m = first + n)
  BY DEF Longer
<1>2. after = [i \in 1..m |-> CASE i <= l -> vec[i]
                                [] i > l /\ i <= first -> NoVariable
                                [] i > l /\ i = first + 1 -> l
                                [] i > l /\ i > first + 1 -> i - 1]
  BY DEF VectorAfter
<1> HIDE DEF m, after
<1>3. ASSUME NEW i \in 1..m
      PROVE  /\ i <= l => after[i] = vec[i] /\ vec[i] \in Int
             /\ i > l /\ i <= first => after[i] = -1
             /\ i > l /\ i = first + 1 => after[i] = l
             /\ i > l /\ i > first + 1 => after[i] = i - 1
  <2>1. after[i] = CASE i <= l -> vec[i]
                     [] i > l /\ i <= first -> NoVariable
                     [] i > l /\ i = first + 1 -> l
                     [] i > l /\ i > first + 1 -> i - 1
    BY <1>2
  <2>2. CASE i <= l
    BY <1>1, <2>1, <2>2
  <2>3. CASE i > l
    BY <1>1, <2>1, <2>3 DEF NoVariable
  <2> QED BY <1>1, <2>2, <2>3
<1>4. \A i \in 1..m : after[i] \in Int
  <2> SUFFICES ASSUME NEW i \in 1..m PROVE after[i] \in Int
    OBVIOUS
  <2>1. i <= l \/ (i > l /\ i <= first) \/ (i > l /\ i = first + 1)
        \/ (i > l /\ i > first + 1)
    BY <1>1
  <2> QED BY <1>1, <1>3, <2>1
<1>5. after = [i \in 1..m |-> after[i]]
  <2> DEFINE g(i) == CASE i <= l -> vec[i]
                       [] i > l /\ i <= first -> NoVariable
                       [] i > l /\ i = first + 1 -> l
                       [] i > l /\ i > first + 1 -> i - 1
  <2>1. after = [i \in 1..m |-> g(i)]
    BY <1>2
  <2> HIDE DEF g
  <2> QED BY <2>1
<1>6. after \in Seq(Int) /\ Len(after) = m
  <2>1. after \in [1..m -> Int]
    BY <1>4, <1>5
  <2> QED BY <1>1, <2>1
<1>7. Placed(vec, first, n, l, m, after)
  BY <1>1, <1>3, <1>6 DEF Placed
<1> QED BY <1>1, <1>7, Zenon DEF after

\* The names of a vector keep ascending, and a gap has its reason.
LEMMA VectorGrows ==
  ASSUME NEW vec \in Seq(Int), Ascending(vec), NEW first \in Nat, NEW n \in Nat \ {0},
         NEW after, after = VectorAfter(vec, first, n)
  PROVE  /\ after \in Seq(Int) /\ Len(vec) <= Len(after) /\ first + n <= Len(after)
         /\ \A i \in 1..Len(vec) : after[i] = vec[i]
         /\ Ascending(after)
         /\ \A i \in 1..Len(after) :
              i > Len(vec) /\ after[i] # i - 1 => first > Len(vec) /\ i <= first + 1
         /\ first > Len(vec) => after[first + 1] = Len(vec)
<1>1. PICK l \in Nat : l = Len(vec)
  OBVIOUS
<1>2. PICK m \in Nat : Placed(vec, first, n, l, m, after)
  BY <1>1, VectorAfterIs
<1>3. Len(vec) \in Nat /\ m \in Nat /\ Len(vec) <= m /\ first + n <= m
  BY <1>1, <1>2 DEF Placed
<1>4. ASSUME NEW i \in 1..m
      PROVE  /\ i <= l => after[i] = vec[i] /\ vec[i] \in Int
             /\ i > l /\ i <= first => after[i] = -1
             /\ i > l /\ i = first + 1 => after[i] = l
             /\ i > l /\ i > first + 1 => after[i] = i - 1
  BY <1>2 DEF Placed
<1>5. ASSUME NEW i \in 1..m
      PROVE  i <= l \/ (i > l /\ i <= first) \/ (i > l /\ i = first + 1)
             \/ (i > l /\ i > first + 1)
  BY <1>3
<1>6. after \in Seq(Int) /\ Len(after) = m
  BY <1>2 DEF Placed
<1>7. \A i \in 1..m : after[i] \in Int
  BY <1>6
<1>8. ASSUME NEW i \in 1..m PROVE -1 <= after[i] /\ after[i] <= i - 1
  <2>1. i <= l => -1 <= vec[i] /\ vec[i] <= i - 1
    BY <1>3, <1>1 DEF Ascending, NoVariable
  <2> QED BY <1>3, <1>4, <1>5, <2>1, SMTT(30)
<1>9. ASSUME NEW i \in 1..m, NEW j \in 1..m, i < j, after[j] # -1
      PROVE  after[i] < after[j]
  <2>1. i <= l /\ j <= l => vec[i] < vec[j]
    <3> SUFFICES ASSUME i <= l, j <= l PROVE vec[i] < vec[j]
      OBVIOUS
    <3>1. i \in 1..Len(vec) /\ j \in 1..Len(vec) /\ vec[j] # NoVariable
      BY <1>3, <1>1, <1>4, <1>9 DEF NoVariable
    <3> QED BY <1>9, <3>1 DEF Ascending
  <2>2. after[i] \in Int /\ after[j] \in Int /\ after[i] <= i - 1
    BY <1>7, <1>8
  <2>3. CASE j <= l
    BY <1>3, <1>4, <1>9, <2>1, <2>3
  <2>4. CASE j > l /\ j = first + 1
    BY <1>3, <1>4, <1>9, <2>2, <2>4
  <2>5. CASE j > l /\ j > first + 1
    BY <1>3, <1>4, <1>9, <2>2, <2>5
  <2> QED BY <1>4, <1>5, <1>9, <2>3, <2>4, <2>5
<1>10. Ascending(after)
  BY <1>6, <1>8, <1>9 DEF Ascending, NoVariable
<1>11. \A i \in 1..m : i > l /\ after[i] # i - 1 => first > l /\ i <= first + 1
  BY <1>3, <1>4, <1>5
<1>12. first > l => after[first + 1] = l
  <2>1. first > l => first + 1 \in 1..m /\ first + 1 > l
    BY <1>3
  <2> QED BY <1>4, <2>1
<1>13. \A i \in 1..l : after[i] = vec[i]
  BY <1>3, <1>1, <1>4
<1> QED BY <1>3, <1>1, <1>6, <1>10, <1>11, <1>12, <1>13

\* The effect on a whole object is that of _sym_get_input_byte for its first byte
\* and then, if a byte is added at its end, for that one.
LEMMA ObjectsByteByByte ==
  ASSUME NEW vec \in Seq(Int), NEW first \in Nat, NEW n \in Nat \ {0}
  PROVE  /\ VectorAfter(vec, first, 1) = GetInputByte(vec, first)
         /\ VectorAfter(vec, first, n + 1) =
              GetInputByte(VectorAfter(vec, first, n), first + n)
<1> DEFINE a == VectorAfter(vec, first, n)
           b == VectorAfter(vec, first, n + 1)
           c == VectorAfter(vec, first, 1)
<1>1. PICK l \in Nat : l = Len(vec)
  OBVIOUS
<1> HIDE DEF a, b, c
<1>2. n + 1 \in Nat \ {0} /\ 1 \in Nat \ {0}
  OBVIOUS
<1>3. PICK k \in Nat : Placed(vec, first, 1, l, k, c)
  BY <1>1, <1>2, VectorAfterIs DEF c
<1>4. PICK m \in Nat : Placed(vec, first, n, l, m, a)
  BY <1>1, VectorAfterIs DEF a
<1>5. PICK r \in Nat : Placed(vec, first, n + 1, l, r, b)
  BY <1>1, <1>2, VectorAfterIs DEF b
<1>6. c = GetInputByte(vec, first)
  <2>1. CASE first < l
    <3>1. k = l
      BY <1>3, <2>1 DEF Placed
    <3>2. c \in Seq(Int) /\ Len(c) = Len(vec) /\ \A i \in 1..Len(c) : c[i] = vec[i]
      BY <1>1, <1>3, <3>1 DEF Placed
    <3>3. c = vec
      BY <3>2, SeqEqual
    <3> QED BY <1>1, <2>1, <3>3 DEF GetInputByte
  <2>2. CASE ~(first < l)
    <3> DEFINE g(i) == IF i <= l THEN vec[i] ELSE NoVariable
               h == [i \in 1..first |-> g(i)]
    <3>1. GetInputByte(vec, first) = Append(h, l)
      BY <1>1, <2>2 DEF GetInputByte
    <3>2. k = first + 1 /\ c \in Seq(Int) /\ Len(c) = first + 1 /\ l \in Int
      BY <1>3, <2>2 DEF Placed
    <3>3. ASSUME NEW i \in 1..first PROVE c[i] = g(i)
      <4>1. i \in 1..k /\ (i <= l \/ (i > l /\ i <= first))
        BY <3>2
      <4> QED BY <1>3, <4>1 DEF Placed, NoVariable
    <3>4. c[first + 1] = l
      <4>1. first + 1 \in 1..k /\ first + 1 > l
        BY <2>2, <3>2
      <4> QED BY <1>3, <4>1 DEF Placed
    <3> HIDE DEF g
    <3>5. \A i \in 1..first : c[i] \in Int
      BY <3>2
    <3>6. h \in Seq(Int) /\ Len(h) = first /\ \A i \in 1..first : h[i] = c[i]
      BY <3>3, <3>5
    <3> HIDE DEF h
    <3>7. Append(h, l) = c
      <4> DEFINE x == Append(h, l)
      <4>1. /\ x \in Seq(Int) /\ Len(x) = first + 1 /\ x[first + 1] = l
            /\ \A i \in 1..first : x[i] = h[i]
        BY <3>2, <3>6
      <4> HIDE DEF x
      <4>2. \A i \in 1..Len(x) : x[i] = c[i]
        <5> SUFFICES ASSUME NEW i \in 1..(first + 1) PROVE x[i] = c[i]
          BY <4>1
        <5>1. i \in 1..first \/ i = first + 1
          OBVIOUS
        <5> QED BY <3>4, <3>6, <4>1, <5>1
      <4>3. x = c
        BY <3>2, <4>1, <4>2, SeqEqual
      <4> QED BY <4>3 DEF x
    <3> QED BY <3>1, <3>7
  <2> QED BY <2>1, <2>2
<1>7. b = GetInputByte(a, first + n)
  <2>1. CASE first + n < m
    <3>1. m = l /\ r = l
      BY <1>4, <1>5, <2>1 DEF Placed
    <3>2. a \in Seq(Int) /\ b \in Seq(Int) /\ Len(a) = Len(b)
          /\ \A i \in 1..Len(a) : a[i] = b[i]
      BY <1>4, <1>5, <3>1 DEF Placed
    <3>3. a = b
      BY <3>2, SeqEqual
    <3>4. Len(a) = m
      BY <1>4 DEF Placed
    <3> QED BY <2>1, <3>3, <3>4 DEF GetInputByte
  <2>2. CASE ~(first + n < m)
    <3> DEFINE g(i) == IF i <= m THEN a[i] ELSE NoVariable
               h == [i \in 1..(first + n) |-> g(i)]
    <3>1. GetInputByte(a, first + n) = Append(h, m)
      <4>1. Len(a) = m
        BY <1>4 DEF Placed
      <4> QED BY <2>2, <4>1 DEF GetInputByte
    <3>2. /\ m = first + n /\ r = m + 1 /\ m >= l /\ m \in Int
          /\ a \in Seq(Int) /\ Len(a) = m /\ b \in Seq(Int) /\ Len(b) = m + 1
      BY <1>4, <1>5, <2>2 DEF Placed
    <3>3. ASSUME NEW i \in 1..m PROVE a[i] = b[i]
      <4>1. i \in 1..r /\ (i <= l \/ (i > l /\ i <= first) \/ (i > l /\ i = first + 1)
                           \/ (i > l /\ i > first + 1))
        BY <3>2
      <4> QED BY <1>4, <1>5, <4>1 DEF Placed
    <3>4. b[m + 1] = m
      <4>1. m + 1 \in 1..r /\ m + 1 > l /\ m + 1 > first + 1 /\ (m + 1) - 1 = m
        BY <3>2
      <4> QED BY <1>5, <4>1 DEF Placed
    <3>5. \A i \in 1..m : g(i) = b[i] /\ b[i] \in Int
      BY <3>2, <3>3
    <3> HIDE DEF g
    <3>6. h \in Seq(Int) /\ Len(h) = m /\ \A i \in 1..m : h[i] = b[i]
      BY <3>2, <3>5
    <3> HIDE DEF h
    <3>7. Append(h, m) = b
      <4> DEFINE x == Append(h, m)
      <4>1. /\ x \in Seq(Int) /\ Len(x) = m + 1 /\ x[m + 1] = m
            /\ \A i \in 1..m : x[i] = h[i]
        BY m \in Int, <3>6
      <4> HIDE DEF x
      <4>2. \A i \in 1..Len(x) : x[i] = b[i]
        <5> SUFFICES ASSUME NEW i \in 1..(m + 1) PROVE x[i] = b[i]
          BY <4>1
        <5>1. i \in 1..m \/ i = m + 1
          OBVIOUS
        <5> QED BY <3>4, <3>6, <4>1, <5>1
      <4>3. x = b
        BY <3>2, <4>1, <4>2, SeqEqual
      <4> QED BY <4>3 DEF x
    <3> QED BY <3>1, <3>7
  <2> QED BY <2>1, <2>2
<1> QED BY <1>6, <1>7 DEF a, b, c

\* Induction over the number of bytes of an object: without a least number
\* missing, a set holds all of them.
LEMMA Induction ==
  ASSUME NEW S \in SUBSET Nat, 0 \in S, \A n \in S : n + 1 \in S
  PROVE  S = Nat
<1>1. SUFFICES ASSUME Nat \ S # {} PROVE FALSE
  OBVIOUS
<1>2. PICK x \in Nat \ S : \A y \in Nat \ S : ~(<<y, x>> \in OpToRel(<, Nat))
  BY <1>1, WFMin, NatLessThanWellFounded
<1>3. x # 0 /\ x - 1 \in Nat /\ x - 1 < x /\ (x - 1) + 1 = x
  OBVIOUS
<1>4. x - 1 \in S
  <2>1. <<x - 1, x>> \in OpToRel(<, Nat)
    BY <1>3 DEF OpToRel
  <2> QED BY <1>2, <1>3, <2>1
<1> QED BY <1>3, <1>4

\* std::generate calls _sym_get_input_byte of the simple backend for each byte of
\* an object in turn, here with r[i] the vector after i calls: what the vector
\* holds in the end is VectorAfter, for objects of any length.
THEOREM ObjectsInTurn ==
  ASSUME NEW vec \in Seq(Int), NEW first \in Nat, NEW n \in Nat \ {0}, NEW r, r[0] = vec,
         \A i \in 1..n : r[i] = GetInputByte(r[i - 1], first + i - 1)
  PROVE  r[n] = VectorAfter(vec, first, n)
<1> DEFINE S == {i \in Nat : i + 1 <= n => r[i + 1] = VectorAfter(vec, first, i + 1)}
<1>1. 0 \in S
  <2>1. r[1] = GetInputByte(r[1 - 1], first + 1 - 1) /\ 1 - 1 = 0 /\ first + 1 - 1 = first
    OBVIOUS
  <2>2. r[1] = GetInputByte(vec, first)
    BY <2>1
  <2>3. VectorAfter(vec, first, 1) = GetInputByte(vec, first)
    BY ObjectsByteByByte
  <2> QED BY <2>2, <2>3
<1>2. ASSUME NEW i \in S PROVE i + 1 \in S
  <2>1. i \in Nat /\ i + 1 \in Nat
    OBVIOUS
  <2>2. PICK k \in Nat \ {0} : k = i + 1
    BY <2>1
  <2> SUFFICES ASSUME k + 1 <= n PROVE r[k + 1] = VectorAfter(vec, first, k + 1)
    BY <2>1, <2>2
  <2>3. r[k] = VectorAfter(vec, first, k)
    BY <2>1, <2>2
  <2>4. k + 1 \in 1..n /\ (k + 1) - 1 = k /\ first + (k + 1) - 1 = first + k
    OBVIOUS
  <2>5. r[k + 1] = GetInputByte(r[k], first + k)
    BY <2>4
  <2> QED BY <2>3, <2>5, ObjectsByteByByte
<1>3. S = Nat
  <2>1. S \in SUBSET Nat
    OBVIOUS
  <2> HIDE DEF S
  <2> QED BY <1>1, <1>2, <2>1, Induction
<1>4. n - 1 \in Nat /\ (n - 1) + 1 = n /\ n - 1 \in S
  <2>1. n - 1 \in Nat /\ (n - 1) + 1 = n
    OBVIOUS
  <2> HIDE DEF S
  <2> QED BY <1>3, <2>1
<1> QED BY <1>4

RecordedByte == Byte \cup {0}

\* The recorded input, of length l, has been overwritten by n values and has length m.
Overwritten(ins, first, values, l, n, m, after) ==
  /\ l = Len(ins) /\ n = Len(values)
  /\ l <= m /\ first + n <= m /\ (m > l => m = first + n)
  /\ after \in Seq(RecordedByte) /\ Len(after) = m
  /\ \A i \in 1..n : after[first + i] = values[i]
  /\ \A i \in 1..m : /\ i <= first /\ i > l => after[i] = 0
                     /\ i <= l /\ (i <= first \/ i > first + n) => after[i] = ins[i]

\* What a call does to the recorded input.
LEMMA InputsGrow ==
  ASSUME NEW ins \in Seq(RecordedByte), NEW first \in Nat, NEW values \in Seq(RecordedByte)
  PROVE  \E l, n, m \in Nat :
           Overwritten(ins, first, values, l, n, m, pushInputBytes(ins, first, values))
<1> DEFINE m == Longer(ins, first + Len(values))
           after == pushInputBytes(ins, first, values)
<1>1. PICK l \in Nat, n \in Nat : l = Len(ins) /\ n = Len(values)
  OBVIOUS
<1>2. m \in Nat /\ l <= m /\ first + n <= m /\ (m > l => m = first + n)
  BY <1>1 DEF Longer
<1>3. after = [i \in 1..m |-> CASE i > first /\ i <= first + n -> values[i - first]
                                [] i <= first /\ i > l -> 0
                                [] ~(i > first /\ i <= first + n) /\ i <= l -> ins[i]]
  BY <1>1 DEF pushInputBytes
<1> HIDE DEF m, after
<1>4. ASSUME NEW i \in 1..m
      PROVE  /\ i > first /\ i <= first + n => after[i] = values[i - first]
             /\ i <= first /\ i > l => after[i] = 0
             /\ ~(i > first /\ i <= first + n) /\ i <= l => after[i] = ins[i]
  <2>1. after[i] = CASE i > first /\ i <= first + n -> values[i - first]
                     [] i <= first /\ i > l -> 0
                     [] ~(i > first /\ i <= first + n) /\ i <= l -> ins[i]
    BY <1>3
  <2>2. CASE i > first /\ i <= first + n
    BY <1>2, <2>1, <2>2
  <2>3. CASE i <= first /\ i > l
    BY <1>2, <2>1, <2>3
  <2>4. CASE ~(i > first /\ i <= first + n) /\ i <= l
    BY <1>2, <2>1, <2>4
  <2> QED BY <1>2, <2>2, <2>3, <2>4
<1>5. ASSUME NEW i \in 1..m PROVE after[i] \in RecordedByte
  <2>1. CASE i > first /\ i <= first + n
    <3>1. i - first \in 1..Len(values)
      BY <1>1, <1>2, <2>1
    <3> QED BY <1>4, <2>1, <3>1
  <2>2. CASE i <= first /\ i > l
    BY <1>4, <2>2 DEF RecordedByte
  <2>3. CASE ~(i > first /\ i <= first + n) /\ i <= l
    <3>1. i \in 1..Len(ins)
      BY <1>1, <1>2, <2>3
    <3> QED BY <1>4, <2>3, <3>1
  <2> QED BY <1>2, <2>1, <2>2, <2>3
<1>6. after \in Seq(RecordedByte) /\ Len(after) = m
  <2> DEFINE g(i) == CASE i > first /\ i <= first + n -> values[i - first]
                       [] i <= first /\ i > l -> 0
                       [] ~(i > first /\ i <= first + n) /\ i <= l -> ins[i]
  <2>1. after = [i \in 1..m |-> g(i)]
    BY <1>3
  <2> HIDE DEF g
  <2>2. after \in [1..m -> RecordedByte]
    BY <1>5, <2>1
  <2> QED BY <1>2, <2>2
<1>7. ASSUME NEW i \in 1..n PROVE after[first + i] = values[i]
  <2>1. first + i \in 1..m /\ first + i > first /\ first + i <= first + n
        /\ (first + i) - first = i
    BY <1>2
  <2> QED BY <1>4, <2>1
<1>8. ASSUME NEW i \in 1..m
      PROVE  /\ i <= first /\ i > l => after[i] = 0
             /\ i <= l /\ (i <= first \/ i > first + n) => after[i] = ins[i]
  BY <1>2, <1>4
<1>9. Overwritten(ins, first, values, l, n, m, after)
  BY <1>1, <1>2, <1>6, <1>7, <1>8 DEF Overwritten
<1> QED BY <1>2, <1>9, Zenon DEF after

\* The same for the input that the QSYM backend records and pushInputByte.
LEMMA RecordedByteByByte ==
  ASSUME NEW ins \in Seq(RecordedByte), NEW first \in Nat, NEW values \in Seq(RecordedByte),
         NEW v \in RecordedByte
  PROVE  /\ pushInputBytes(ins, first, <<v>>) = pushInputByte(ins, first, v)
         /\ values # << >> =>
              pushInputBytes(ins, first, Append(values, v)) =
                pushInputByte(pushInputBytes(ins, first, values), first + Len(values), v)
<1>1. pushInputBytes(ins, first, <<v>>) = pushInputByte(ins, first, v)
  <2> DEFINE w == <<v>>
             c == pushInputBytes(ins, first, w)
  <2>1. w \in Seq(RecordedByte) /\ Len(w) = 1 /\ w[1] = v
    OBVIOUS
  <2> HIDE DEF w
  <2>2. \E l, n, m \in Nat : Overwritten(ins, first, w, l, n, m, c)
    BY <2>1, InputsGrow
  <2> HIDE DEF c
  <2>3. PICK l \in Nat, n \in Nat, m \in Nat : Overwritten(ins, first, w, l, n, m, c)
    BY <2>2
  <2> DEFINE g(i) == IF i = first + 1 THEN v ELSE IF i <= l THEN ins[i] ELSE 0
  <2>4. n = 1 /\ l = Len(ins) /\ c \in Seq(RecordedByte) /\ Len(c) = m
    BY <2>1, <2>3 DEF Overwritten
  <2>5. m = IF l <= first THEN first + 1 ELSE l
    BY <2>3, <2>4 DEF Overwritten
  <2>6. pushInputByte(ins, first, v) = [i \in 1..m |-> g(i)]
    BY <2>4, <2>5 DEF pushInputByte
  <2>7. ASSUME NEW i \in 1..m PROVE c[i] = g(i)
    <3>1. c[first + 1] = v
      BY <2>1, <2>3, <2>4 DEF Overwritten
    <3>2. i = first + 1 \/ (i <= first /\ i > l) \/ (i <= l /\ (i <= first \/ i > first + 1))
      BY <2>5
    <3> QED BY <2>3, <2>4, <3>1, <3>2 DEF Overwritten
  <2> HIDE DEF g
  <2>8. c = [i \in 1..m |-> g(i)]
    BY <2>4, <2>7
  <2> QED BY <2>6, <2>8 DEF c, w
<1>2. ASSUME values # << >>
      PROVE  pushInputBytes(ins, first, Append(values, v)) =
               pushInputByte(pushInputBytes(ins, first, values), first + Len(values), v)
  <2> DEFINE w == Append(values, v)
             a == pushInputBytes(ins, first, values)
             b == pushInputBytes(ins, first, w)
  <2>1. /\ w \in Seq(RecordedByte) /\ Len(w) = Len(values) + 1 /\ w[Len(values) + 1] = v
        /\ \A i \in 1..Len(values) : w[i] = values[i]
    OBVIOUS
  <2> HIDE DEF w
  <2>2. /\ \E l, n, m \in Nat : Overwritten(ins, first, values, l, n, m, a)
        /\ \E l, n, m \in Nat : Overwritten(ins, first, w, l, n, m, b)
    BY <2>1, InputsGrow
  <2> HIDE DEF a, b
  <2>3. PICK l \in Nat, n \in Nat, m \in Nat : Overwritten(ins, first, values, l, n, m, a)
    BY <2>2
  <2>4. PICK l2 \in Nat, n2 \in Nat, r \in Nat : Overwritten(ins, first, w, l2, n2, r, b)
    BY <2>2
  <2> DEFINE g(i) == IF i = first + n + 1 THEN v ELSE IF i <= m THEN a[i] ELSE 0
  <2>5. /\ l2 = l /\ n = Len(values) /\ n2 = n + 1 /\ n # 0
        /\ Len(a) = m /\ b \in Seq(RecordedByte) /\ Len(b) = r
    BY <1>2, <2>1, <2>3, <2>4 DEF Overwritten
  <2>6. /\ l <= m /\ first + n <= m /\ (m > l => m = first + n)
        /\ l <= r /\ first + n + 1 <= r /\ (r > l => r = first + n + 1)
    BY <2>3, <2>4, <2>5 DEF Overwritten
  <2>7. r = IF m <= first + n THEN first + n + 1 ELSE m
    BY <2>6
  <2>8. pushInputByte(a, first + Len(values), v) = [i \in 1..r |-> g(i)]
    BY <2>5, <2>7 DEF pushInputByte
  <2>9. ASSUME NEW i \in 1..r PROVE b[i] = g(i)
    <3>1. CASE i = first + n + 1
      <4>1. n + 1 \in 1..n2 /\ first + (n + 1) = i
        BY <2>5, <3>1
      <4> QED BY <2>1, <2>4, <2>5, <3>1, <4>1 DEF Overwritten
    <3>2. CASE i > first /\ i <= first + n
      <4>1. i - first \in 1..n /\ i - first \in 1..n2 /\ first + (i - first) = i
            /\ i <= m /\ i # first + n + 1
        BY <2>5, <2>6, <3>2
      <4>2. b[i] = w[i - first] /\ a[i] = values[i - first]
        BY <2>3, <2>4, <4>1 DEF Overwritten
      <4>3. w[i - first] = values[i - first]
        BY <2>1, <2>5, <4>1
      <4> QED BY <4>1, <4>2, <4>3
    <3>3. CASE i <= first \/ i > first + n + 1
      <4>1. i \in 1..m /\ i # first + n + 1 /\ (i > first => i <= l)
        BY <2>6, <3>3
      <4>2. i > l => a[i] = 0 /\ b[i] = 0
        BY <2>3, <2>4, <2>5, <4>1 DEF Overwritten
      <4>3. i <= l => a[i] = ins[i]
        BY <2>3, <3>3, <4>1 DEF Overwritten
      <4>4. i <= l => b[i] = ins[i]
        BY <2>4, <2>5, <3>3, <4>1 DEF Overwritten
      <4> QED BY <4>1, <4>2, <4>3, <4>4
    <3> QED BY <3>1, <3>2, <3>3
  <2> HIDE DEF g
  <2>10. b = [i \in 1..r |-> g(i)]
    BY <2>5, <2>9
  <2> QED BY <2>8, <2>10 DEF a, b, w
<1> QED BY <1>1, <1>2

LEMMA RecordedOneMore ==
  ASSUME NEW ins \in Seq(RecordedByte), NEW first \in Nat, NEW values \in Seq(RecordedByte),
         values # << >>, NEW v \in RecordedByte
  PROVE  pushInputBytes(ins, first, Append(values, v))
           = pushInputByte(pushInputBytes(ins, first, values), first + Len(values), v)
  BY RecordedByteByByte

\* Likewise for the input that EnhancedQsymSolver::pushInputByte records, with
\* r[i] what it holds after i bytes of an object: pushInputBytes is what is left.
THEOREM RecordedInTurn ==
  ASSUME NEW ins \in Seq(RecordedByte), NEW first \in Nat, NEW values \in Seq(RecordedByte),
         values # << >>, NEW r, r[0] = ins,
         \A i \in 1..Len(values) : r[i] = pushInputByte(r[i - 1], first + i - 1, values[i])
  PROVE  r[Len(values)] = pushInputBytes(ins, first, values)
<1>1. PICK n \in Nat \ {0} : n = Len(values)
  OBVIOUS
<1>2. \A i \in 1..n : values[i] \in RecordedByte
  BY <1>1, ElementOfSeq
<1> DEFINE P(i) == SubSeq(values, 1, i)
<1>3. ASSUME NEW i \in 1..n
      PROVE  P(i) \in Seq(RecordedByte) /\ Len(P(i)) = i /\ \A j \in 1..i : P(i)[j] = values[j]
  <2>1. 1 \in Int /\ i \in Int /\ 1 <= i /\ i - 1 + 1 = i
    OBVIOUS
  <2>2. \A j \in 1..i : values[j] \in RecordedByte
    BY <1>2
  <2>3. /\ P(i) \in Seq(RecordedByte) /\ Len(P(i)) = i - 1 + 1
        /\ \A j \in 1..(i - 1 + 1) : P(i)[j] = values[1 + j - 1]
    BY <2>1, <2>2, SubSeqProperties
  <2>4. \A j \in 1..i : 1 + j - 1 = j
    OBVIOUS
  <2> HIDE DEF P
  <2> QED BY <2>1, <2>3, <2>4
<1> HIDE DEF P
<1>4. P(1) = <<values[1]>>
  <2>1. 1 \in 1..n
    OBVIOUS
  <2>2. P(1) \in Seq(RecordedByte) /\ Len(P(1)) = 1 /\ \A j \in 1..1 : P(1)[j] = values[j]
    BY <1>3, <2>1
  <2> QED BY <2>2
<1>5. ASSUME NEW k \in Nat \ {0}, k + 1 <= n PROVE P(k + 1) = Append(P(k), values[k + 1])
  <2>1. k \in 1..n /\ k + 1 \in 1..n
    BY <1>5
  <2>2. PICK p, q, v : p = P(k) /\ q = P(k + 1) /\ v = values[k + 1]
    OBVIOUS
  <2>3. /\ p \in Seq(RecordedByte) /\ Len(p) = k /\ (\A j \in 1..k : p[j] = values[j])
        /\ q \in Seq(RecordedByte) /\ Len(q) = k + 1 /\ (\A j \in 1..(k + 1) : q[j] = values[j])
        /\ v \in RecordedByte
    BY <1>2, <1>3, <2>1, <2>2
  <2>4. /\ Append(p, v) \in Seq(RecordedByte) /\ Len(Append(p, v)) = k + 1
        /\ (\A j \in 1..k : Append(p, v)[j] = p[j]) /\ Append(p, v)[k + 1] = v
    BY <2>3, AppendProperties
  <2>5. \A j \in 1..(k + 1) : Append(p, v)[j] = q[j]
    BY <2>2, <2>3, <2>4
  <2>6. Append(p, v) = q
    BY <2>3, <2>4, <2>5, SeqEqual
  <2> QED BY <2>2, <2>6
<1> DEFINE S == {i \in Nat : i + 1 <= n => r[i + 1] = pushInputBytes(ins, first, P(i + 1))}
<1>6. 0 \in S
  <2>1. 1 \in 1..Len(values) /\ 1 - 1 = 0 /\ first + 1 - 1 = first /\ values[1] \in RecordedByte
    BY <1>1, <1>2
  <2>2. r[1] = pushInputByte(ins, first, values[1])
    BY <2>1
  <2>3. pushInputBytes(ins, first, <<values[1]>>) = pushInputByte(ins, first, values[1])
    BY <2>1, RecordedByteByByte
  <2> QED BY <1>4, <2>2, <2>3
<1>7. ASSUME NEW i \in S PROVE i + 1 \in S
  <2>1. i \in Nat /\ i + 1 \in Nat
    OBVIOUS
  <2>2. PICK k \in Nat \ {0} : k = i + 1
    BY <2>1
  <2> SUFFICES ASSUME k + 1 <= n PROVE r[k + 1] = pushInputBytes(ins, first, P(k + 1))
    BY <2>1, <2>2
  <2>3. r[k] = pushInputBytes(ins, first, P(k))
    BY <2>1, <2>2
  <2>4. k \in 1..n /\ k + 1 \in 1..Len(values) /\ (k + 1) - 1 = k
        /\ first + (k + 1) - 1 = first + k
    BY <1>1
  <2>5. r[k + 1] = pushInputByte(r[k], first + k, values[k + 1])
    BY <2>4
  <2>6. PICK p, v : p = P(k) /\ v = values[k + 1]
    OBVIOUS
  <2>7. p \in Seq(RecordedByte) /\ Len(p) = k /\ p # << >> /\ v \in RecordedByte
    BY <1>1, <1>2, <1>3, <2>4, <2>6
  <2>8. pushInputBytes(ins, first, Append(p, v))
          = pushInputByte(pushInputBytes(ins, first, p), first + Len(p), v)
    <3>1. p \in Seq(RecordedByte) /\ v \in RecordedByte /\ p # << >>
      BY <2>7
    <3> HIDE DEF S
    <3> QED BY <3>1, RecordedOneMore
  <2>9. P(k + 1) = Append(p, v)
    BY <1>5, <2>6
  <2> QED BY <2>3, <2>5, <2>6, <2>7, <2>8, <2>9
<1>8. S = Nat
  <2>1. S \in SUBSET Nat
    OBVIOUS
  <2> HIDE DEF S
  <2> QED BY <1>6, <1>7, <2>1, Induction
<1>9. n - 1 \in Nat /\ (n - 1) + 1 = n /\ n - 1 \in S
  <2>1. n - 1 \in Nat /\ (n - 1) + 1 = n
    OBVIOUS
  <2> HIDE DEF S
  <2> QED BY <1>8, <2>1
<1>10. P(n) = values
  <2>1. n \in 1..n
    OBVIOUS
  <2>2. P(n) \in Seq(RecordedByte) /\ Len(P(n)) = n /\ \A j \in 1..n : P(n)[j] = values[j]
    BY <1>3, <2>1
  <2> QED BY <1>1, <2>2, SeqEqual
<1> QED BY <1>1, <1>9, <1>10

\* The byte that a call makes symbolic at position i, and what is known of it.
New(via, first, values, i) ==
  [via |-> via, off |-> first + i - 1, value |-> values[i],
   var |-> bytes'[VectorOf(via)][first + i], in |-> VectorOf(via)]

\* The effect of one call.
LEMMA MakeSymbolicEffect ==
  ASSUME VariablesInv, NEW via \in Interface, NEW first \in Nat, NEW values \in Seq(Byte),
         Len(values) # 0, MakeSymbolic(via, first, values), offset' \in [Interface -> Nat],
         input' = input
  PROVE  /\ InputTypes' /\ (\A x \in Vectors : Ascending(bytes[x]))'
         /\ Explained' /\ Held'
         /\ symbolic' = symbolic \cup {New(via, first, values, i) : i \in 1..Len(values)}
         /\ \A x \in Vectors : Len(bytes[x]) <= Len(bytes'[x])
         /\ first + Len(values) <= Len(bytes'[VectorOf(via)])
         /\ first <= Len(bytes[VectorOf(via)]) =>
              \A x \in Vectors : \A i \in 1..Len(bytes'[x]) :
                bytes'[x][i] # i - 1 => i \in 1..Len(bytes[x]) /\ bytes[x][i] # i - 1
         /\ \A s \in symbolic :
              s.off < first \/ s.off >= first + Len(values) =>
                inputs'[s.off + 1] = inputs[s.off + 1]
         /\ \A i \in 1..Len(values) : inputs'[first + i] = values[i]
<1> DEFINE v == VectorOf(via)
           old == bytes[v]
           after == VectorAfter(old, first, Len(values))
<1>1. /\ InputTypes /\ (\A x \in Vectors : Ascending(bytes[x])) /\ Explained /\ Held
      /\ bytes \in [Vectors -> Seq(Int)] /\ inputs \in Seq(Byte \cup {0})
      /\ symbolic \in SUBSET SymbolicByte
  BY DEF VariablesInv, InputTypes
<1>2. v \in Vectors /\ Len(values) \in Nat \ {0} /\ old \in Seq(Int) /\ Ascending(old)
  BY <1>1 DEF VectorOf, Vectors
<1>3. /\ bytes' = [bytes EXCEPT ![v] = after]
      /\ inputs' = pushInputBytes(inputs, first, values)
      /\ symbolic' = symbolic \cup
          {[via |-> via, off |-> first + i - 1, value |-> values[i],
            var |-> after[first + i], in |-> v] : i \in DOMAIN values}
  BY DEF MakeSymbolic
<1>4. DOMAIN values = 1..Len(values)
  OBVIOUS
<1> HIDE DEF v, after
<1>5. bytes'[v] = after /\ \A x \in Vectors \ {v} : bytes'[x] = bytes[x]
  BY <1>1, <1>2, <1>3
<1> HIDE DEF old
<1>6. /\ after \in Seq(Int) /\ Len(old) <= Len(after) /\ first + Len(values) <= Len(after)
      /\ \A i \in 1..Len(old) : after[i] = old[i]
      /\ Ascending(after)
      /\ \A i \in 1..Len(after) :
           i > Len(old) /\ after[i] # i - 1 => first > Len(old) /\ i <= first + 1
      /\ first > Len(old) => after[first + 1] = Len(old)
  BY <1>2, VectorGrows DEF after
<1>7. PICK p \in Nat, q \in Nat, n \in Nat \ {0} :
        p = Len(old) /\ q = Len(after) /\ n = Len(values) /\ p <= q /\ first + n <= q
  BY <1>2, <1>6
<1>8. /\ inputs' \in Seq(Byte \cup {0}) /\ Len(inputs) <= Len(inputs')
      /\ first + n <= Len(inputs')
      /\ \A i \in 1..n : inputs'[first + i] = values[i]
      /\ \A i \in 1..Len(inputs) : i <= first \/ i > first + n => inputs'[i] = inputs[i]
  <2>1. values \in Seq(RecordedByte) /\ inputs \in Seq(RecordedByte)
    BY <1>1 DEF RecordedByte
  <2>2. \E l, k, m \in Nat : Overwritten(inputs, first, values, l, k, m, inputs')
    BY <1>3, <2>1, InputsGrow
  <2>3. PICK l \in Nat, k \in Nat, m \in Nat :
          Overwritten(inputs, first, values, l, k, m, inputs')
    BY <2>2
  <2>4. /\ l = Len(inputs) /\ k = n /\ l <= m /\ first + k <= m
        /\ inputs' \in Seq(RecordedByte) /\ Len(inputs') = m
        /\ \A i \in 1..k : inputs'[first + i] = values[i]
    BY <1>7, <2>3 DEF Overwritten
  <2>5. ASSUME NEW i \in 1..l, i <= first \/ i > first + n PROVE inputs'[i] = inputs[i]
    <3>1. i \in 1..m /\ i <= l
      BY <2>4
    <3> QED BY <2>3, <2>4, <2>5, <3>1 DEF Overwritten
  <2> QED BY <2>4, <2>5 DEF RecordedByte
<1>9. bytes' \in [Vectors -> Seq(Int)]
  BY <1>1, <1>2, <1>3, <1>6
<1>10. symbolic' = symbolic \cup {New(via, first, values, i) : i \in 1..n}
  BY <1>3, <1>4, <1>5, <1>7 DEF New, v
<1>11. ASSUME NEW i \in 1..n
       PROVE  LET s == New(via, first, values, i)
              IN /\ s \in SymbolicByte /\ s.off = first + i - 1 /\ s.off + 1 = first + i
                 /\ s.in = v /\ s.via = via /\ s.value = values[i]
                 /\ s.var = after[first + i] /\ s.off < q /\ s.off < Len(inputs')
  <2>1. /\ first + i \in 1..q /\ first + i - 1 \in Nat /\ (first + i - 1) + 1 = first + i
        /\ first + i - 1 < q /\ first + i - 1 < Len(inputs')
    <3>1. PICK k \in Nat : k = Len(inputs')
      BY <1>8
    <3>2. first + n <= k
      BY <1>8, <3>1
    <3> QED BY <1>7, <3>1, <3>2
  <2>2. after[first + i] \in Int /\ values[i] \in Byte
    BY <1>6, <1>7, <2>1
  <2> QED BY <1>2, <1>5, <2>1, <2>2 DEF New, v, SymbolicByte
<1>12. InputTypes'
  <2>1. symbolic' \in SUBSET SymbolicByte
    BY <1>1, <1>10, <1>11
  <2> QED BY <1>1, <1>8, <1>9, <2>1 DEF InputTypes
<1>13. (\A x \in Vectors : Ascending(bytes[x]))'
  <2>1. \A x \in Vectors : Ascending(bytes'[x])
    BY <1>1, <1>5, <1>6
  <2> QED BY <2>1
<1>14. Explained'
  <2> SUFFICES ASSUME NEW x \in Vectors, NEW i \in 1..Len(bytes'[x]), bytes'[x][i] # i - 1
               PROVE  \E t \in symbolic' : t.off >= i - 1 /\ t.var # NoVariable /\ t.var < t.off
    BY DEF Explained
  <2>1. CASE i \in 1..Len(bytes[x]) /\ bytes[x][i] # i - 1
    BY <1>1, <1>10, <2>1 DEF Explained
  <2>2. CASE x = v /\ i > p
    <3>1. first > p /\ i <= first + 1 /\ after[first + 1] = p
      BY <1>5, <1>6, <1>7, <2>2
    <3>2. 1 \in 1..n
      BY <1>7
    <3>3. PICK t \in symbolic' : t.off = first /\ t.var = p
      <4>1. first + 1 - 1 = first
        OBVIOUS
      <4>2. New(via, first, values, 1) \in symbolic'
        BY <1>10, <3>2
      <4>3. /\ New(via, first, values, 1).off = first + 1 - 1
            /\ New(via, first, values, 1).var = after[first + 1]
        BY <1>11, <3>2
      <4> QED BY <3>1, <4>1, <4>2, <4>3
    <3>4. i \in Int
      BY <1>9
    <3>5. t.off >= i - 1 /\ t.var # -1 /\ t.var < t.off
      BY <1>7, <3>1, <3>3, <3>4
    <3> QED BY <3>5, Zenon DEF NoVariable
  <2>3. CASE x # v \/ i <= p
    <3>1. CASE x # v
      <4>1. bytes'[x] = bytes[x]
        BY <1>5, <3>1
      <4> QED BY <2>1, <4>1
    <3>2. CASE x = v /\ i <= p
      <4>1. i \in 1..Len(old) /\ after[i] = old[i]
        <5>1. bytes'[x] = after /\ i \in 1..q
          BY <1>5, <1>7, <3>2
        <5>2. i \in 1..p
          BY <3>2, <5>1
        <5> QED BY <1>6, <1>7, <5>2
      <4>2. bytes'[x] = after /\ bytes[x] = old
        BY <1>5, <3>2 DEF old
      <4> QED BY <2>1, <4>1, <4>2
    <3> QED BY <2>3, <3>1, <3>2
  <2>4. i > p \/ i <= p
    BY <1>7
  <2> QED BY <2>2, <2>3, <2>4
<1>15. ASSUME NEW x \in Vectors
       PROVE  Len(bytes[x]) <= Len(bytes'[x])
              /\ \A i \in 1..Len(bytes[x]) : bytes'[x][i] = bytes[x][i]
  <2>1. CASE x = v
    BY <1>5, <1>6, <2>1 DEF old
  <2>2. CASE x # v
    <3>1. Len(bytes[x]) \in Nat
      BY <1>1
    <3> QED BY <1>5, <2>2, <3>1
  <2> QED BY <2>1, <2>2
<1>16. Held'
  <2>1. ASSUME NEW s \in symbolic
        PROVE  /\ s.in = VectorOf(s.via) /\ s.off < Len(bytes'[s.in])
               /\ s.var = bytes'[s.in][s.off + 1] /\ s.off < Len(inputs')
    <3>1. /\ s.in = VectorOf(s.via) /\ s.off < Len(bytes[s.in]) /\ s.off \in Nat
          /\ s.var = bytes[s.in][s.off + 1] /\ s.off < Len(inputs) /\ s.in \in Vectors
      BY <1>1 DEF Held, SymbolicByte
    <3>2. PICK b \in Nat, c \in Nat, d \in Nat, e \in Nat :
            b = Len(bytes[s.in]) /\ c = Len(bytes'[s.in]) /\ d = Len(inputs) /\ e = Len(inputs')
      BY <1>1, <1>8, <1>9, <3>1
    <3>3. b <= c /\ d <= e /\ \A i \in 1..b : bytes'[s.in][i] = bytes[s.in][i]
      BY <1>8, <1>15, <3>1, <3>2
    <3>4. s.off + 1 \in 1..b
      BY <3>1, <3>2
    <3> QED BY <3>1, <3>2, <3>3, <3>4
  <2>2. ASSUME NEW s \in symbolic'
        PROVE  /\ s.in = VectorOf(s.via) /\ s.off < Len(bytes'[s.in])
               /\ s.var = bytes'[s.in][s.off + 1] /\ s.off < Len(inputs')
    <3>1. CASE s \in symbolic
      BY <2>1, <3>1
    <3>2. CASE \E i \in 1..n : s = New(via, first, values, i)
      <4>1. PICK i \in 1..n : s = New(via, first, values, i)
        BY <3>2
      <4> QED BY <1>5, <1>7, <1>11, <4>1 DEF v
    <3> QED BY <1>10, <3>1, <3>2
  <2> QED BY <2>2 DEF Held
<1>17. ASSUME first <= p, NEW x \in Vectors, NEW i \in 1..Len(bytes'[x]), bytes'[x][i] # i - 1
       PROVE  i \in 1..Len(bytes[x]) /\ bytes[x][i] # i - 1
  <2>1. CASE x = v /\ i > p
    BY <1>5, <1>6, <1>7, <1>17, <2>1
  <2>2. CASE x # v \/ i <= p
    <3>1. i \in 1..Len(bytes[x]) /\ bytes'[x][i] = bytes[x][i]
      BY <1>5, <1>6, <1>7, <2>2 DEF old
    <3> QED BY <1>17, <3>1
  <2>3. i > p \/ i <= p
    BY <1>7
  <2> QED BY <2>1, <2>2, <2>3
<1>18. ASSUME NEW s \in symbolic, s.off < first \/ s.off >= first + n
       PROVE  inputs'[s.off + 1] = inputs[s.off + 1]
  <2>1. s.off \in Nat /\ s.off < Len(inputs) /\ Len(inputs) \in Nat
    BY <1>1 DEF Held, SymbolicByte
  <2>2. s.off + 1 \in 1..Len(inputs) /\ (s.off + 1 <= first \/ s.off + 1 > first + n)
    BY <1>7, <1>18, <2>1
  <2> QED BY <1>8, <2>2
<1>19. p = Len(bytes[VectorOf(via)]) /\ bytes'[VectorOf(via)] = after
  BY <1>5, <1>7 DEF old, v
<1>20. \A x \in Vectors : Len(bytes[x]) <= Len(bytes'[x])
  BY <1>15
<1>21. first <= Len(bytes[VectorOf(via)]) =>
         \A x \in Vectors : \A i \in 1..Len(bytes'[x]) :
           bytes'[x][i] # i - 1 => i \in 1..Len(bytes[x]) /\ bytes[x][i] # i - 1
  BY <1>17, <1>19
<1> QED BY <1>7, <1>8, <1>10, <1>12, <1>13, <1>14, <1>16, <1>18, <1>19, <1>20, <1>21

\* A wrapper that reads the file keeps the invariant: the bytes have the values of
\* the file, whatever is read again.
LEMMA ReadFileKeeps ==
  ASSUME VariablesInv, ReadFile
  PROVE  VariablesInv'
<1>1. PICK first \in 0..(MaxOffset - 1), n \in 1..MaxLen :
        /\ input \in {"file", "stdin"} /\ first + n <= MaxOffset
        /\ MakeSymbolic("file", first, SubSeq(File, first + 1, first + n))
        /\ input' = input /\ offset' = offset
  BY DEF ReadFile
<1> DEFINE values == SubSeq(File, first + 1, first + n)
<1>2. /\ first \in Nat /\ n \in Nat \ {0} /\ File \in Seq(Byte) /\ Len(File) \in Nat
      /\ first + n <= Len(File)
  BY <1>1, InputAssumption DEF MaxOffset
<1>3. values \in Seq(Byte) /\ Len(values) = n /\ \A i \in 1..n : values[i] = File[first + i]
  <2>1. (first + n) - (first + 1) + 1 = n /\ \A i \in 1..n : (first + 1) + i - 1 = first + i
        /\ first + i \in 1..Len(File)
    BY <1>2
  <2>2. \A i \in (first + 1)..(first + n) : File[i] \in Byte
    BY <1>2
  <2>3. PICK a \in Nat, b \in Nat : a = first + 1 /\ b = first + n /\ b - a + 1 = n
    BY <1>2, <2>1
  <2>4. /\ SubSeq(File, a, b) \in Seq(Byte)
        /\ Len(SubSeq(File, a, b)) = n
        /\ \A i \in 1..n : SubSeq(File, a, b)[i] = File[a + i - 1]
    <3>1. \A i \in a..b : File[i] \in Byte
      BY <2>2, <2>3
    <3>2. a <= b + 1 /\ n \in Nat
      BY <1>2, <2>3
    <3> QED BY <2>3, <3>1, <3>2, SubSeqProperties
  <2> QED BY <2>1, <2>3, <2>4
<1> HIDE DEF values
<1>4. MakeSymbolic("file", first, values) /\ "file" \in Interface /\ Len(values) # 0
  BY <1>1, <1>2, <1>3 DEF values, Interface
<1>5. /\ InputTypes' /\ (\A x \in Vectors : Ascending(bytes[x]))' /\ Explained' /\ Held'
      /\ symbolic' = symbolic \cup {New("file", first, values, i) : i \in 1..n}
      /\ \A s \in symbolic : s.off < first \/ s.off >= first + n =>
           inputs'[s.off + 1] = inputs[s.off + 1]
      /\ \A i \in 1..n : inputs'[first + i] = values[i]
  <2>1. offset' \in [Interface -> Nat]
    BY <1>1 DEF VariablesInv, InputTypes
  <2>2. /\ InputTypes' /\ (\A x \in Vectors : Ascending(bytes[x]))' /\ Explained' /\ Held'
        /\ symbolic' = symbolic \cup {New("file", first, values, i) : i \in 1..Len(values)}
        /\ \A s \in symbolic : s.off < first \/ s.off >= first + Len(values) =>
             inputs'[s.off + 1] = inputs[s.off + 1]
        /\ \A i \in 1..Len(values) : inputs'[first + i] = values[i]
    <3>1. first \in Nat /\ values \in Seq(Byte) /\ Len(values) # 0 /\ input' = input
      BY <1>1, <1>2, <1>3, <1>4
    <3> QED BY ONLY VariablesInv, <1>4, <2>1, <3>1, MakeSymbolicEffect, ZenonT(30)
  <2> QED BY <1>3, <2>2, Zenon
<1>6. FromFile /\ Recorded /\ symbolic \in SUBSET SymbolicByte
  BY <1>1 DEF VariablesInv, Source, InputTypes
<1>7. ASSUME NEW i \in 1..n
      PROVE  LET s == New("file", first, values, i)
             IN /\ s.via = "file" /\ s.off + 1 = first + i
                /\ s.value = values[i] /\ values[i] = File[first + i]
  BY <1>2, <1>3 DEF New
<1>8. FromFile'
  <2>1. ASSUME NEW s \in symbolic' PROVE s.via = "file" /\ s.value = File[s.off + 1]
    <3>1. CASE s \in symbolic
      BY <1>6, <3>1 DEF FromFile
    <3>2. CASE \E i \in 1..n : s = New("file", first, values, i)
      BY <1>7, <3>2
    <3> QED BY <1>5, <3>1, <3>2
  <2> QED BY <2>1 DEF FromFile
<1>9. Recorded'
  <2>1. ASSUME NEW s \in symbolic' PROVE inputs'[s.off + 1] = s.value
    <3>1. s.off \in Nat /\ s.value = File[s.off + 1]
      BY <1>5, <1>8 DEF InputTypes, SymbolicByte, FromFile
    <3>2. CASE s.off >= first /\ s.off < first + n
      <4>1. PICK i \in 1..n : i = s.off + 1 - first /\ first + i = s.off + 1
        BY <1>2, <3>1, <3>2
      <4> QED BY <1>3, <1>5, <3>1, <4>1
    <3>3. CASE s.off < first \/ s.off >= first + n
      <4>1. s \in symbolic
        <5>1. ASSUME NEW i \in 1..n, s = New("file", first, values, i) PROVE FALSE
          BY <1>2, <1>7, <3>1, <3>3, <5>1
        <5> QED BY <1>5, <5>1
      <4>2. inputs[s.off + 1] = s.value
        BY <1>6, <4>1 DEF FromFile, Recorded
      <4> QED BY <1>5, <3>3, <4>1, <4>2
    <3> QED BY <1>2, <3>1, <3>2, <3>3
  <2> QED BY <2>1 DEF Recorded
<1>10. input' \in {"file", "stdin"}
  BY <1>1
<1> QED BY <1>5, <1>8, <1>9, <1>10 DEF VariablesInv, Source

\* So do the functions for memory input: each goes on where it has stopped, and
\* the vector never has a gap.
LEMMA MakeMemoryKeeps ==
  ASSUME VariablesInv, NEW via \in {"plain", "typed", "prefix"}, symcc_make_symbolic(via)
  PROVE  VariablesInv'
<1>1. PICK values \in Values :
        /\ input = "memory" /\ MakeSymbolic(via, offset[via], values)
        /\ offset' = [offset EXCEPT ![via] = @ + Len(values)] /\ input' = input
  BY DEF symcc_make_symbolic
<1>2. /\ via \in Interface /\ offset \in [Interface -> Nat] /\ symbolic \in SUBSET SymbolicByte
      /\ bytes \in [Vectors -> Seq(Int)]
  BY DEF Interface, VariablesInv, InputTypes
<1>3. values \in Seq(Byte) /\ Len(values) \in Nat \ {0}
  <2>1. PICK k \in 1..MaxLen : values \in [1..k -> Byte]
    BY DEF Values
  <2>2. k \in Nat \ {0}
    BY InputAssumption
  <2> QED BY <2>1, <2>2
<1>4. PICK first \in Nat, n \in Nat \ {0} : first = offset[via] /\ n = Len(values)
  BY <1>2, <1>3
<1>5. FromMemory /\ Recorded
  BY <1>1 DEF VariablesInv, Source
<1>6. /\ offset' \in [Interface -> Nat] /\ offset'[via] = first + n
      /\ \A x \in Interface \ {via} : offset'[x] = offset[x]
  BY <1>1, <1>2, <1>4
<1>7. /\ InputTypes' /\ (\A x \in Vectors : Ascending(bytes[x]))' /\ Explained' /\ Held'
      /\ symbolic' = symbolic \cup {New(via, first, values, i) : i \in 1..n}
      /\ \A x \in Vectors : Len(bytes[x]) <= Len(bytes'[x])
      /\ first + n <= Len(bytes'[VectorOf(via)])
      /\ first <= Len(bytes[VectorOf(via)]) =>
           \A x \in Vectors : \A i \in 1..Len(bytes'[x]) :
             bytes'[x][i] # i - 1 => i \in 1..Len(bytes[x]) /\ bytes[x][i] # i - 1
      /\ \A s \in symbolic :
           s.off < first \/ s.off >= first + n => inputs'[s.off + 1] = inputs[s.off + 1]
      /\ \A i \in 1..n : inputs'[first + i] = values[i]
  BY <1>1, <1>2, <1>3, <1>4, <1>6, MakeSymbolicEffect
<1>8. ASSUME NEW i \in 1..n
      PROVE  LET s == New(via, first, values, i)
             IN /\ s.via = via /\ s.off = first + i - 1 /\ s.off + 1 = first + i
                /\ s.off >= first /\ s.off < first + n /\ s.value = values[i]
  BY DEF New
<1>9. ASSUME NEW s \in symbolic
      PROVE  /\ s.via \in Interface /\ s.via # "file" /\ s.off \in Nat
             /\ s.off < offset[s.via] /\ (s.via = via => s.off < first)
             /\ s.off < offset'[s.via]
  <2>1. s.via \in Interface /\ s.via # "file" /\ s.off \in Nat /\ s.off < offset[s.via]
    BY <1>2, <1>5 DEF FromMemory, SymbolicByte
  <2>2. CASE s.via = via
    BY <1>4, <1>6, <2>1, <2>2
  <2>3. CASE s.via # via
    BY <1>6, <2>1, <2>3
  <2> QED BY <2>1, <2>2, <2>3
<1>10. FromMemory'
  <2>1. ASSUME NEW s \in symbolic' PROVE s.via # "file" /\ s.off < offset'[s.via]
    <3>1. CASE s \in symbolic
      BY <1>9, <3>1
    <3>2. CASE \E i \in 1..n : s = New(via, first, values, i)
      <4>1. via # "file"
        OBVIOUS
      <4> QED BY <1>6, <1>8, <3>2, <4>1
    <3> QED BY <1>7, <3>1, <3>2
  <2>2. ASSUME NEW s \in symbolic', NEW t \in symbolic', s.via = t.via, s.off = t.off
        PROVE  s = t
    <3>1. CASE s \in symbolic /\ t \in symbolic
      BY <1>5, <2>2, <3>1 DEF FromMemory
    <3>2. ASSUME NEW i \in 1..n, NEW u \in symbolic,
                 u.via = New(via, first, values, i).via, u.off = New(via, first, values, i).off
          PROVE  FALSE
      BY <1>8, <1>9, <3>2
    <3>3. ASSUME NEW i \in 1..n, NEW j \in 1..n,
                 New(via, first, values, i).off = New(via, first, values, j).off
          PROVE  i = j
      BY <1>8, <3>3
    <3>4. CASE s \notin symbolic
      <4>1. PICK i \in 1..n : s = New(via, first, values, i)
        BY <1>7, <3>4
      <4>2. t \notin symbolic
        BY <2>2, <3>2, <4>1
      <4>3. PICK j \in 1..n : t = New(via, first, values, j)
        BY <1>7, <4>2
      <4> QED BY <2>2, <3>3, <4>1, <4>3
    <3>5. CASE s \in symbolic /\ t \notin symbolic
      <4>1. PICK j \in 1..n : t = New(via, first, values, j)
        BY <1>7, <3>5
      <4> QED BY <2>2, <3>2, <3>5, <4>1
    <3> QED BY <3>1, <3>4, <3>5
  <2>3. ASSUME NEW x \in Vectors, NEW i \in 1..Len(bytes'[x]) PROVE bytes'[x][i] = i - 1
    <3>1. first <= Len(bytes[VectorOf(via)])
      BY <1>2, <1>4, <1>5 DEF FromMemory
    <3> QED BY <1>5, <1>7, <3>1 DEF FromMemory
  <2>4. ASSUME NEW w \in Interface PROVE offset'[w] <= Len(bytes'[VectorOf(w)])
    <3>1. CASE w = via
      BY <1>6, <1>7, <3>1
    <3>2. CASE w # via
      <4>1. VectorOf(w) \in Vectors
        BY DEF VectorOf, Vectors
      <4>2. PICK a \in Nat, b \in Nat, c \in Nat :
              a = Len(bytes[VectorOf(w)]) /\ b = Len(bytes'[VectorOf(w)]) /\ c = offset[w]
        BY <1>2, <1>7, <4>1 DEF InputTypes
      <4>3. c <= a /\ a <= b /\ offset'[w] = c
        BY <1>5, <1>6, <1>7, <3>2, <4>1, <4>2 DEF FromMemory
      <4> QED BY <4>2, <4>3
    <3> QED BY <3>1, <3>2
  <2> QED BY <2>1, <2>2, <2>3, <2>4 DEF FromMemory
<1>11. Recorded'
  <2> SUFFICES ASSUME \A s, t \in symbolic' : s.via = t.via, NEW s \in symbolic'
               PROVE  inputs'[s.off + 1] = s.value
    BY DEF Recorded
  <2>1. CASE s \in symbolic
    <3>1. New(via, first, values, 1) \in symbolic' /\ New(via, first, values, 1).via = via
      BY <1>7, <1>8
    <3>2. s.via = via
      BY <3>1
    <3>3. s.off < first
      BY <1>9, <2>1, <3>2
    <3>4. inputs[s.off + 1] = s.value
      BY <1>5, <1>7, <2>1 DEF Recorded
    <3> QED BY <1>7, <2>1, <3>3, <3>4
  <2>2. CASE \E i \in 1..n : s = New(via, first, values, i)
    BY <1>7, <1>8, <2>2
  <2> QED BY <1>7, <2>1, <2>2
<1>12. input' = "memory"
  BY <1>1
<1> QED BY <1>7, <1>10, <1>11, <1>12 DEF VariablesInv, Source

\* Nothing is symbolic at the start.
LEMMA VariablesInitially == InputInit => VariablesInv
<1> SUFFICES ASSUME InputInit PROVE VariablesInv
  OBVIOUS
<1>1. \A x \in Vectors : bytes[x] = << >> /\ Len(bytes[x]) = 0
  BY DEF InputInit, Vectors
<1>2. InputTypes
  BY DEF InputInit, InputTypes, Vectors
<1>3. \A x \in Vectors : Ascending(bytes[x])
  BY <1>1 DEF Ascending
<1>4. FromMemory
  <2>1. \A via \in Interface : offset[via] = 0 /\ VectorOf(via) \in Vectors
    BY DEF InputInit, VectorOf, Vectors
  <2> QED BY <1>1, <2>1 DEF FromMemory, InputInit
<1>5. Explained /\ Held /\ Recorded /\ FromFile
  BY <1>1 DEF Explained, Held, Recorded, FromFile, InputInit
<1> QED BY <1>2, <1>3, <1>4, <1>5 DEF VariablesInv, Source

\* Every step keeps the invariant.
LEMMA VariablesStep ==
  ASSUME VariablesInv, [InputNext]_inputVars
  PROVE  VariablesInv'
<1>1. ASSUME UNCHANGED <<bytes, inputs, offset, symbolic>>
      PROVE  /\ (FromFile' <=> FromFile) /\ (FromMemory' <=> FromMemory)
             /\ Explained' /\ Held' /\ Recorded' /\ (\A x \in Vectors : Ascending(bytes[x]))'
  BY <1>1 DEF VariablesInv, FromFile, FromMemory, Explained, Held, Recorded, Ascending
<1>2. CASE LoadConfig
  <2>1. /\ input = "unknown" /\ UNCHANGED <<bytes, inputs, offset, symbolic>>
        /\ input' \in {"thrown", "none", "memory", "file", "stdin"}
    BY <1>2 DEF LoadConfig, Flag
  <2>2. InputTypes' /\ FromFile /\ FromMemory
    BY <2>1 DEF VariablesInv, InputTypes, Source
  <2> QED BY <1>1, <2>1, <2>2 DEF VariablesInv, Source
<1>3. CASE MakeSymbolicThrows
  <2>1. input' = "thrown" /\ UNCHANGED <<bytes, inputs, offset, symbolic>>
    BY <1>3 DEF MakeSymbolicThrows
  <2>2. InputTypes' /\ (FromFile \/ FromMemory)
    BY <2>1 DEF VariablesInv, InputTypes, Source
  <2> QED BY <1>1, <2>1, <2>2 DEF VariablesInv, Source
<1>4. CASE UNCHANGED inputVars
  <2>1. UNCHANGED <<bytes, inputs, offset, symbolic>> /\ input' = input
    BY <1>4 DEF inputVars
  <2>2. InputTypes' /\ Source
    BY <2>1 DEF VariablesInv, InputTypes
  <2> QED BY <1>1, <2>1, <2>2 DEF VariablesInv, Source
<1> QED BY <1>2, <1>3, <1>4, ReadFileKeeps, MakeMemoryKeeps DEF InputNext

\* Whatever the program reads, in whichever order, and however large the objects
\* are, two bytes share a variable only if they are the same byte or come from the
\* two functions that count alike, and the recorded input is the one it has seen.
\* (_sym_get_input_byte, EnhancedQsymSolver::pushInputByte)
THEOREM BytesHaveVariablesAlways == InputSpec => []BytesHaveVariables
<1>1. VariablesInv => BytesHaveVariables
  <2> SUFFICES ASSUME VariablesInv PROVE BytesHaveVariables
    OBVIOUS
  <2>1. ASSUME NEW s \in symbolic
        PROVE  /\ s.via \in Interface /\ s.in \in Vectors /\ s.off \in Nat
               /\ s.in = VectorOf(s.via) /\ s.off + 1 \in 1..Len(bytes[s.in])
               /\ s.var = bytes[s.in][s.off + 1] /\ s.var \in Int
               /\ s.off < Len(inputs)
               /\ (s.off + 1) - 1 = s.off
    <3>1. /\ s \in SymbolicByte /\ bytes \in [Vectors -> Seq(Int)]
          /\ s.in = VectorOf(s.via) /\ s.off < Len(bytes[s.in])
          /\ s.var = bytes[s.in][s.off + 1] /\ s.off < Len(inputs)
      BY DEF VariablesInv, InputTypes, Held
    <3>2. s.via \in Interface /\ s.in \in Vectors /\ s.off \in Nat /\ s.var \in Int
      BY <3>1 DEF SymbolicByte
    <3>3. Len(bytes[s.in]) \in Nat
      BY <3>1, <3>2
    <3> QED BY <3>1, <3>2, <3>3
  <2>2. ASSUME NEW s \in symbolic, NEW t \in symbolic, s # t, s.in = t.in, s.var = t.var,
               s.var # NoVariable
        PROVE  {s.via, t.via} = {"plain", "typed"} /\ s.off = t.off
    <3>1. s.off = t.off
      <4>1. Ascending(bytes[s.in])
        BY <2>1 DEF VariablesInv
      <4>2. ASSUME s.off < t.off PROVE FALSE
        <5>1. s.off + 1 < t.off + 1
          BY <2>1, <4>2
        <5>2. s.var < t.var
          BY <2>1, <2>2, <4>1, <5>1 DEF Ascending
        <5> QED BY <2>1, <2>2, <5>2
      <4>3. ASSUME t.off < s.off PROVE FALSE
        <5>1. t.off + 1 < s.off + 1
          BY <2>1, <4>3
        <5>2. t.var < s.var
          BY <2>1, <2>2, <4>1, <5>1 DEF Ascending
        <5> QED BY <2>1, <2>2, <5>2
      <4> QED BY <2>1, <4>2, <4>3
    <3>2. CASE FromFile
      <4>1. s.via = t.via /\ s.value = t.value
        BY <3>1, <3>2 DEF FromFile
      <4>2. s \in SymbolicByte /\ t \in SymbolicByte
        BY DEF VariablesInv, InputTypes
      <4> QED BY <2>2, <3>1, <4>1, <4>2 DEF SymbolicByte
    <3>3. CASE FromMemory
      <4>1. s.via # t.via /\ s.via # "file" /\ t.via # "file"
        BY <2>2, <3>1, <3>3 DEF FromMemory
      <4>2. VectorOf(s.via) = VectorOf(t.via)
        BY <2>1, <2>2
      <4>3. \/ s.via = "plain" /\ t.via = "typed"
            \/ s.via = "typed" /\ t.via = "plain"
        BY <2>1, <4>1, <4>2 DEF VectorOf, Interface
      <4> QED BY <3>1, <4>3
    <3> QED BY <3>2, <3>3 DEF VariablesInv, Source
  <2>3. ASSUME NEW s \in symbolic
        PROVE  /\ s.var <= s.off
               /\ s.via # "file" => s.var = s.off
               /\ s.var # s.off => \E t \in symbolic : t.off >= s.off /\ t.var # NoVariable
                                     /\ t.var < t.off
    <3>1. bytes[s.in][s.off + 1] <= (s.off + 1) - 1
      BY <2>1 DEF VariablesInv, Ascending
    <3>2. ASSUME s.via # "file" PROVE s.var = s.off
      <4>1. FromMemory
        BY <3>2 DEF VariablesInv, Source, FromFile
      <4>2. bytes[s.in][s.off + 1] = (s.off + 1) - 1
        BY <2>1, <4>1 DEF FromMemory
      <4> QED BY <2>1, <4>2
    <3>3. ASSUME s.var # s.off
          PROVE  \E t \in symbolic : t.off >= s.off /\ t.var # NoVariable /\ t.var < t.off
      <4>1. bytes[s.in][s.off + 1] # (s.off + 1) - 1
        BY <2>1, <3>3
      <4>2. PICK t \in symbolic :
              t.off >= (s.off + 1) - 1 /\ t.var # NoVariable /\ t.var < t.off
        BY <2>1, <4>1 DEF VariablesInv, Explained
      <4> QED BY <2>1, <4>2
    <3> QED BY <2>1, <3>1, <3>2, <3>3
  <2>4. Recorded /\ \A s \in symbolic : s.off < Len(inputs)
    BY <2>1 DEF VariablesInv
  <2> QED BY <2>2, <2>3, <2>4 DEF BytesHaveVariables, Recorded
<1>2. InputInit => VariablesInv
  BY VariablesInitially
<1>3. VariablesInv /\ [InputNext]_inputVars => VariablesInv'
  BY VariablesStep
<1> QED BY <1>1, <1>2, <1>3, PTL DEF InputSpec

-------------------------------------------------------------------------------
(* Expressions: a collection keeps what the roots hold. *)

TableSpec == TableInit /\ [][TableNext]_tableVars

Pointer == Addr \cup {Null}
Expression == [name : Nat, operands : SUBSET Addr]

TableTypeOK ==
  /\ backend \in {"unset", "qsym", "simple", "concrete", "exited"}
  /\ heap \in [Addr -> Expression]
  /\ table \subseteq Addr /\ regions \subseteq Cell /\ stale \subseteq Cell
  /\ held \in [Cell -> Pointer] /\ meant \in [Cell -> Nat]
  /\ built \in Nat

\* The pointer in cell c is valid: it leads to the expression it was stored for.
Valid(c) == heap[held[c]] # Free /\ heap[held[c]].name = meant[c]

\* Only the QSYM backend frees expressions, so that elsewhere every pointer is
\* valid; with it, those that some root held at every collection.
PointersValid ==
  \A c \in Cell : held[c] # Null =>
    /\ c \notin stale /\ backend # "simple" => held[c] \in table
    /\ c \notin stale \/ backend # "qsym" => Valid(c)

Closed == \A a \in Addr : \A b \in heap[a].operands : heap[b] # Free
TableAllocated == \A a \in table : heap[a] # Free
FailuresExplained ==
  /\ outcome = "thrown" => stale # {}
  /\ backend # "qsym" => outcome \notin {"wrong", "thrown"}

TableInv ==
  /\ TableTypeOK
  /\ PointersValid
  /\ Closed
  /\ TableAllocated
  /\ FailuresExplained

-------------------------------------------------------------------------------
\* What a collection leaves allocated: all that is kept, and with an expression
\* its operands.
LEMMA OwnedClosed ==
  ASSUME TableTypeOK, NEW kept \in SUBSET Addr
  PROVE  /\ Owned(kept) \subseteq Addr
         /\ kept \subseteq Owned(kept)
         /\ \A a \in Owned(kept) : heap[a].operands \subseteq Owned(kept)
<1>1. Owned(kept) \subseteq Addr /\ kept \subseteq Owned(kept)
  BY DEF Owned
<1>2. ASSUME NEW a \in Owned(kept), NEW b \in heap[a].operands
      PROVE  b \in Owned(kept)
  <2>1. a \in Addr /\ b \in Addr
    BY <1>1 DEF TableTypeOK, Expression
  <2>2. ASSUME NEW S \in SUBSET Addr, kept \subseteq S,
               \A x \in S : heap[x].operands \subseteq S
        PROVE  b \in S
    BY <2>2 DEF Owned
  <2> QED
    BY <2>1, <2>2 DEF Owned
<1> QED
  BY <1>1, <1>2

\* No pointers and no expressions at the start.
LEMMA TableInitRight == TableInit => TableInv
<1> SUFFICES ASSUME TableInit PROVE TableInv
  OBVIOUS
<1>1. Free \in Expression /\ Free.operands = {}
  BY DEF Free, Expression
<1>2. TableTypeOK
  BY <1>1 DEF TableInit, TableTypeOK, Pointer
<1>3. Closed
  BY <1>1 DEF TableInit, Closed
<1> QED
  BY <1>2, <1>3 DEF TableInit, TableInv, PointersValid, TableAllocated,
                    FailuresExplained

\* Choosing a backend, before there is any pointer that is not valid.
LEMMA InitializeRight ==
  ASSUME TableInv, sym_initialize PROVE TableInv'
<1> USE DEF TableInv, sym_initialize
<1>1. TableTypeOK'
  BY DEF TableTypeOK
<1>2. PointersValid'
  BY DEF PointersValid, Valid
<1>3. Closed' /\ TableAllocated'
  BY DEF Closed, TableAllocated
<1>4. FailuresExplained'
  BY DEF FailuresExplained
<1> QED
  BY <1>1, <1>2, <1>3, <1>4

\* Putting an allocated expression into a cell, in a heap that has grown at most.
LEMMA TakeRight ==
  ASSUME TableInv, NEW c \in Cell, NEW a \in Addr, NEW registered \in BOOLEAN,
         Take(c, a, registered), registered \/ backend = "simple",
         heap' \in [Addr -> Expression], heap'[a] # Free, built' \in Nat,
         \A x \in Addr : heap[x] # Free => heap'[x] = heap[x],
         UNCHANGED <<backend, regions>>
  PROVE  TableTypeOK' /\ PointersValid' /\ TableAllocated'
<1>1. TableTypeOK'
  BY DEF TableInv, TableTypeOK, Take, registerExpression, Pointer, Expression
<1>2. TableAllocated'
  BY DEF TableInv, TableTypeOK, TableAllocated, Take, registerExpression
<1>3. ASSUME NEW d \in Cell, held'[d] # Null
      PROVE  /\ d \notin stale' /\ backend' # "simple" => held'[d] \in table'
             /\ d \notin stale' \/ backend' # "qsym" => Valid(d)'
  <2>1. CASE d = c
    <3>1. held'[d] = a /\ meant'[d] = heap'[a].name /\ (registered => a \in table')
      BY <2>1 DEF Take, registerExpression, TableInv, TableTypeOK
    <3> QED
      BY <3>1 DEF Valid
  <2>2. CASE d # c
    <3>1. held'[d] = held[d] /\ meant'[d] = meant[d]
          /\ (d \notin stale' <=> d \notin stale) /\ table \subseteq table'
      BY <2>2 DEF Take, registerExpression, TableInv, TableTypeOK
    <3>2. held[d] \in Addr
      BY <1>3, <3>1 DEF TableInv, TableTypeOK, Pointer
    <3> QED
      BY <1>3, <3>1, <3>2 DEF TableInv, PointersValid, Valid
  <2> QED
    BY <2>1, <2>2
<1> QED
  BY <1>1, <1>2, <1>3 DEF PointersValid

\* A new expression over allocated operands, at an address that was free.
LEMMA NewExpressionRight ==
  ASSUME TableInv, NEW c \in Cell, NEW operands \in SUBSET Addr,
         \A b \in operands : heap[b] # Free,
         NEW registered \in BOOLEAN, registered \/ backend = "simple",
         NewExpression(operands, c, registered), UNCHANGED <<backend, regions>>
  PROVE  TableTypeOK' /\ PointersValid' /\ Closed' /\ TableAllocated'
<1>1. PICK a \in Addr :
        /\ heap[a] = Free
        /\ built' = built + 1
        /\ heap' = [heap EXCEPT ![a] = [name |-> built + 1, operands |-> operands]]
        /\ Take(c, a, registered)
  BY DEF NewExpression
<1>2. heap \in [Addr -> Expression] /\ built \in Nat
  BY DEF TableInv, TableTypeOK
<1>3. heap' \in [Addr -> Expression] /\ built' \in Nat
  BY <1>1, <1>2 DEF Expression
<1>4. heap'[a] = [name |-> built + 1, operands |-> operands] /\ heap'[a] # Free
  <2>1. heap'[a] = [name |-> built + 1, operands |-> operands]
    BY <1>1, <1>2
  <2>2. heap'[a].name # Free.name
    BY <2>1, <1>2 DEF Free
  <2> QED
    BY <2>1, <2>2
<1>5. \A x \in Addr : x # a => heap'[x] = heap[x]
  BY <1>1, <1>2
<1>6. \A x \in Addr : heap[x] # Free => heap'[x] = heap[x]
  BY <1>1, <1>5
<1>7. TableTypeOK' /\ PointersValid' /\ TableAllocated'
  BY <1>1, <1>3, <1>4, <1>6, TakeRight
<1>8. Closed'
  <2> SUFFICES ASSUME NEW x \in Addr, NEW b \in heap'[x].operands
               PROVE  heap'[b] # Free
    BY DEF Closed
  <2>1. CASE x = a
    BY <2>1, <1>4, <1>6
  <2>2. CASE x # a
    <3>1. b \in heap[x].operands /\ b \in Addr
      BY <2>2, <1>5, <1>2 DEF Expression
    <3> QED
      BY <3>1, <1>6 DEF TableInv, Closed
  <2> QED
    BY <2>1, <2>2
<1> QED
  BY <1>7, <1>8

\* A builder that returns one of its operands, one of theirs, or what it has built
\* from them before.
LEMMA OldExpressionRight ==
  ASSUME TableInv, NEW c \in Cell, NEW operands \in SUBSET Addr,
         \A b \in operands : heap[b] # Free,
         NEW registered \in BOOLEAN, registered \/ backend = "simple",
         OldExpression(operands, c, registered), UNCHANGED <<backend, regions>>
  PROVE  TableTypeOK' /\ PointersValid' /\ Closed' /\ TableAllocated'
<1>1. PICK a \in operands \cup (UNION {heap[b].operands : b \in operands})
                  \cup {b \in Addr : heap[b] # Free /\ heap[b].operands = operands} :
        UNCHANGED heap /\ Take(c, a, registered)
  BY DEF OldExpression
<1>2. a \in Addr /\ heap[a] # Free
  <2>1. CASE a \in operands
    BY <2>1
  <2>2. CASE a \in UNION {heap[b].operands : b \in operands}
    <3>1. PICK b \in operands : a \in heap[b].operands
      BY <2>2
    <3>2. heap[b] \in Expression
      BY DEF TableInv, TableTypeOK
    <3> QED
      BY <3>1, <3>2 DEF TableInv, Closed, Expression
  <2>3. CASE a \in {b \in Addr : heap[b] # Free /\ heap[b].operands = operands}
    BY <2>3
  <2> QED
    BY <2>1, <2>2, <2>3, Zenon
<1>3. heap' \in [Addr -> Expression] /\ built' \in Nat
  BY <1>1 DEF TableInv, TableTypeOK, OldExpression
<1>4. TableTypeOK' /\ PointersValid' /\ TableAllocated'
  BY <1>1, <1>2, <1>3, TakeRight
<1>5. Closed'
  BY <1>1 DEF TableInv, Closed
<1> QED
  BY <1>4, <1>5

\* Variables and constants.
LEMMA LeafRight ==
  ASSUME TableInv, BuildLeaf PROVE TableInv'
<1>1. PICK c \in Cell \ Shadow, registered \in LeafRegistered :
        /\ backend \in {"qsym", "simple"} /\ Running
        /\ NewExpression({}, c, registered) \/ OldExpression({}, c, registered)
        /\ outcome' = "none"
        /\ UNCHANGED <<backend, regions>>
  BY DEF BuildLeaf
<1>2. TableTypeOK' /\ PointersValid' /\ Closed' /\ TableAllocated'
  <2>1. registered \in BOOLEAN /\ (registered \/ backend = "simple")
    BY DEF LeafRegistered
  <2> QED
    BY <1>1, <2>1, NewExpressionRight, OldExpressionRight
<1>3. FailuresExplained'
  BY <1>1 DEF FailuresExplained
<1> QED
  BY <1>2, <1>3 DEF TableInv

\* A builder with operands: the lookup fails only for a pointer no root held.
LEMMA BinaryRight ==
  ASSUME TableInv, BuildBinary PROVE TableInv'
<1>1. PICK c \in Cell \ Shadow, d \in Cell \ Shadow, e \in Cell \ Shadow :
        LET operands == {held[c], held[d]}
        IN /\ Running /\ Null \notin operands
           /\ \/ /\ backend = "qsym" /\ ~(operands \subseteq table)
                 /\ outcome' = "thrown"
                 /\ UNCHANGED <<heap, table, held, meant, built, stale>>
              \/ /\ backend = "qsym" => operands \subseteq table
                 /\ NewExpression(operands, e, TRUE) \/ OldExpression(operands, e, TRUE)
                 /\ outcome' = IF /\ heap[held[c]].name = meant[c]
                                  /\ heap[held[d]].name = meant[d]
                               THEN "right" ELSE "wrong"
           /\ UNCHANGED <<backend, regions>>
  BY DEF BuildBinary
<1> DEFINE operands == {held[c], held[d]}
<1>2. held[c] # Null /\ held[d] # Null /\ operands \in SUBSET Addr
  BY <1>1 DEF TableInv, TableTypeOK, Pointer
<1>3. CASE /\ backend = "qsym" /\ ~(operands \subseteq table)
           /\ outcome' = "thrown"
           /\ UNCHANGED <<heap, table, held, meant, built, stale>>
  <2>1. c \in stale \/ d \in stale
    BY <1>2, <1>3 DEF TableInv, PointersValid
  <2>2. FailuresExplained'
    BY <1>1, <1>3, <2>1 DEF FailuresExplained
  <2> QED
    BY <1>1, <1>3, <2>2 DEF TableInv, TableTypeOK, PointersValid, Valid, Closed,
                            TableAllocated
<1>4. CASE /\ backend = "qsym" => operands \subseteq table
           /\ NewExpression(operands, e, TRUE) \/ OldExpression(operands, e, TRUE)
           /\ outcome' = IF /\ heap[held[c]].name = meant[c]
                            /\ heap[held[d]].name = meant[d]
                         THEN "right" ELSE "wrong"
  <2>1. \A b \in operands : heap[b] # Free
    <3>1. CASE backend = "qsym"
      BY <3>1, <1>4 DEF TableInv, TableAllocated
    <3>2. CASE backend # "qsym"
      BY <3>2, <1>2 DEF TableInv, PointersValid, Valid
    <3> QED
      BY <3>1, <3>2
  <2>2. TableTypeOK' /\ PointersValid' /\ Closed' /\ TableAllocated'
    BY <1>1, <1>2, <1>4, <2>1, NewExpressionRight, OldExpressionRight
  <2>3. FailuresExplained'
    BY <1>1, <1>2, <1>4 DEF FailuresExplained, TableInv, PointersValid, Valid
  <2> QED
    BY <2>2, <2>3 DEF TableInv
<1> QED
  BY <1>1, <1>3, <1>4

\* A copied pointer is as valid as the one it is copied from.
LEMMA MoveRight ==
  ASSUME TableInv, Move PROVE TableInv'
<1>1. PICK c \in Cell, d \in Cell :
        /\ Running /\ c # d
        /\ held' = [held EXCEPT ![d] = held[c]]
        /\ meant' = [meant EXCEPT ![d] = meant[c]]
        /\ stale' = IF c \in stale THEN stale \cup {d} ELSE stale \ {d}
        /\ outcome' = "none"
        /\ UNCHANGED <<backend, heap, table, regions, built>>
  BY DEF Move
<1>2. TableTypeOK'
  BY <1>1 DEF TableInv, TableTypeOK
<1>3. ASSUME NEW x \in Cell, held'[x] # Null
      PROVE  /\ x \notin stale' /\ backend' # "simple" => held'[x] \in table'
             /\ x \notin stale' \/ backend' # "qsym" => Valid(x)'
  <2>1. CASE x = d
    <3>1. held'[x] = held[c] /\ meant'[x] = meant[c]
          /\ (x \in stale' <=> c \in stale)
      BY <2>1, <1>1 DEF TableInv, TableTypeOK
    <3> QED
      BY <1>1, <1>3, <3>1 DEF TableInv, PointersValid, Valid
  <2>2. CASE x # d
    <3>1. held'[x] = held[x] /\ meant'[x] = meant[x]
          /\ (x \in stale' <=> x \in stale)
      BY <2>2, <1>1 DEF TableInv, TableTypeOK
    <3> QED
      BY <1>1, <1>3, <3>1 DEF TableInv, PointersValid, Valid
  <2> QED
    BY <2>1, <2>2
<1>4. Closed' /\ TableAllocated' /\ FailuresExplained'
  BY <1>1 DEF TableInv, Closed, TableAllocated, FailuresExplained
<1> QED
  BY <1>2, <1>3, <1>4 DEF TableInv, PointersValid

\* Registering a region changes only later collections.
LEMMA RegionRight ==
  ASSUME TableInv, registerExpressionRegion PROVE TableInv'
BY DEF registerExpressionRegion, TableInv, TableTypeOK, PointersValid, Valid,
       Closed, TableAllocated, FailuresExplained

\* The collection: what a root holds is kept, and what is kept stays allocated.
LEMMA CollectRight ==
  ASSUME TableInv, CollectGarbage PROVE TableInv'
<1> DEFINE kept == table \cap collectReachableExpressions
<1>1. /\ outcome' = "none" /\ table' = kept
      /\ UNCHANGED <<backend, regions, held, meant, built>>
      /\ stale' = stale \cup
           {c \in Cell : held[c] \notin {held[d] : d \in Root} \cup {Null}}
  BY DEF CollectGarbage
<1>2. kept \in SUBSET Addr /\ table \in SUBSET Addr
  BY DEF TableInv, TableTypeOK
<1>3. \E left \in SUBSET Addr :
        /\ kept \subseteq left
        /\ \A a \in left : heap[a].operands \subseteq left
        /\ backend # "qsym" => left = Addr
        /\ heap' = [a \in Addr |-> IF a \in left THEN heap[a] ELSE Free]
  <2>1. CASE backend = "simple" /\ UNCHANGED heap
    <3>1. heap' = [a \in Addr |-> IF a \in Addr THEN heap[a] ELSE Free]
      BY <2>1 DEF TableInv, TableTypeOK
    <3>2. \A a \in Addr : heap[a].operands \subseteq Addr
      BY DEF TableInv, TableTypeOK, Expression
    <3> QED
      BY <1>2, <3>1, <3>2
  <2>2. ASSUME backend = "qsym", NEW pinned \in SUBSET (table \ kept),
               heap' = [a \in Addr |-> IF a \in Owned(kept \cup pinned)
                                       THEN heap[a] ELSE Free]
        PROVE  \E left \in SUBSET Addr :
                 /\ kept \subseteq left
                 /\ \A a \in left : heap[a].operands \subseteq left
                 /\ backend # "qsym" => left = Addr
                 /\ heap' = [a \in Addr |-> IF a \in left THEN heap[a] ELSE Free]
    <3> DEFINE left == Owned(kept \cup pinned)
    <3>1. kept \cup pinned \in SUBSET Addr
      BY <1>2
    <3>2. /\ left \in SUBSET Addr /\ kept \subseteq left
          /\ \A a \in left : heap[a].operands \subseteq left
      BY <3>1, OwnedClosed DEF TableInv
    <3> HIDE DEF left
    <3>3. heap' = [a \in Addr |-> IF a \in left THEN heap[a] ELSE Free]
      BY <2>2 DEF left
    <3> QED
      BY <2>2, <3>2, <3>3
  <2> QED
    BY <2>1, <2>2 DEF CollectGarbage
<1>4. PICK left \in SUBSET Addr :
        /\ kept \subseteq left
        /\ \A a \in left : heap[a].operands \subseteq left
        /\ backend # "qsym" => left = Addr
        /\ heap' = [a \in Addr |-> IF a \in left THEN heap[a] ELSE Free]
  BY <1>3
<1> HIDE DEF kept
<1>5. Free \in Expression /\ Free.operands = {}
  BY DEF Free, Expression
<1>6. TableTypeOK'
  <2>1. heap' \in [Addr -> Expression]
    BY <1>4, <1>5 DEF TableInv, TableTypeOK
  <2> QED
    BY <1>1, <1>2, <2>1 DEF TableInv, TableTypeOK
<1>7. \A a \in left : heap'[a] = heap[a]
  BY <1>4
<1>8. Closed'
  <2> SUFFICES ASSUME NEW a \in Addr, NEW b \in heap'[a].operands
               PROVE  heap'[b] # Free
    BY DEF Closed
  <2>1. a \in left
    BY <1>4, <1>5
  <2>2. b \in heap[a].operands /\ b \in left
    BY <2>1, <1>4, <1>7
  <2> QED
    BY <2>2, <1>7 DEF TableInv, Closed
<1>9. TableAllocated'
  BY <1>1, <1>4, <1>7 DEF TableInv, TableAllocated, kept
<1>10. PointersValid'
  <2> SUFFICES ASSUME NEW c \in Cell, held'[c] # Null
               PROVE  /\ c \notin stale' /\ backend' # "simple" => held'[c] \in table'
                      /\ c \notin stale' \/ backend' # "qsym" => Valid(c)'
    BY DEF PointersValid
  <2>1. held'[c] = held[c] /\ meant'[c] = meant[c] /\ held[c] \in Addr
    BY <1>1 DEF TableInv, TableTypeOK, Pointer
  <2>2. CASE c \notin stale'
    <3>1. c \notin stale /\ held[c] \in {held[d] : d \in Root}
      BY <1>1, <2>1, <2>2
    <3>2. CASE backend # "simple"
      <4>1. held[c] \in kept
        BY <2>1, <3>1, <3>2 DEF kept, collectReachableExpressions, TableInv,
                                PointersValid
      <4> QED
        BY <1>1, <1>4, <1>7, <2>1, <3>1, <4>1 DEF TableInv, PointersValid, Valid
    <3>3. CASE backend = "simple"
      <4>1. held[c] \in left
        BY <1>4, <2>1, <3>3
      <4> QED
        BY <1>1, <1>7, <2>1, <3>1, <3>3, <4>1 DEF TableInv, PointersValid, Valid
    <3> QED
      BY <3>2, <3>3
  <2>3. CASE c \in stale' /\ backend' # "qsym"
    BY <1>1, <1>4, <1>7, <2>1, <2>3 DEF TableInv, PointersValid, Valid
  <2> QED
    BY <2>2, <2>3
<1>11. FailuresExplained'
  BY <1>1 DEF FailuresExplained
<1> QED
  BY <1>6, <1>8, <1>9, <1>10, <1>11 DEF TableInv

\* Every operation keeps the invariant.
LEMMA TableStepRight ==
  ASSUME TableInv, [TableNext]_tableVars PROVE TableInv'
<1>1. CASE UNCHANGED tableVars
  BY <1>1 DEF tableVars, TableInv, TableTypeOK, PointersValid, Valid, Closed,
              TableAllocated, FailuresExplained
<1> QED
  BY <1>1, InitializeRight, LeafRight, BinaryRight, MoveRight, RegionRight,
     CollectRight DEF TableNext

-------------------------------------------------------------------------------
\* Pointers that the roots hold survive every collection in both backends, for
\* any addresses, cells, threshold and number of expressions, however memory is
\* used again.  (_sym_collect_garbage, collectReachableExpressions)
THEOREM RootsStayValidAlways == TableSpec => []RootsStayValid
<1>1. TableInv => RootsStayValid
  BY DEF TableInv, PointersValid, Valid, Closed, TableAllocated,
         FailuresExplained, RootsStayValid
<1> QED
  BY <1>1, TableInitRight, TableStepRight, PTL DEF TableSpec
==============================================================================
