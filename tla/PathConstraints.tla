--------------------------- MODULE PathConstraints ---------------------------
(***************************************************************************)
(* _sym_push_path_constraint_with_loc of the simple backend: the scopes of the *)
(* solver, the queries that are logged, and the constraints of a string         *)
(* comparison, which are collected over several calls.                         *)
(*                                                                         *)
(* A constraint has the value under the input of the run that the program has  *)
(* seen when it branched.  The comparisons come from symros_string.hpp, which  *)
(* is not part of the repository: any sequence of its lines is taken for        *)
(* possible.                                                                  *)
(***************************************************************************)
EXTENDS Integers, Sequences

CONSTANTS MaxLine,    \* bound: the last line of a string comparison
          MaxPieces,  \* bound: the constraints that are collected
          MaxScopes   \* bound: the scopes of the solver

ASSUME PathAssumption == MaxLine \in Nat /\ MaxPieces \in Nat /\ MaxScopes \in Nat

VARIABLES scopes,        \* the assertions of each scope of the solver
          pieces,        \* the two vectors of constraints, which grow alike
          string_taken,
          compared,      \* history: a size check has been collected
          query          \* what the last call has put to the solver

pathVars == <<scopes, pieces, string_taken, compared, query>>

string_size_check_line == 13
strcmp_start_line == 23

NoQuery == [by |-> "none"]

\* A formula is known by its value under the input of the run.  A constraint has
\* the value `taken`.
Constraint(taken) == taken
NotConstraint(taken) == ~taken

\* An entry of the vectors holds a constraint and its negation.  It has no
\* reference to them: they stay valid only if the program holds them as well
\* (live), and turn into anything otherwise.
Piece == [eq : BOOLEAN, not_eq : BOOLEAN, live : BOOLEAN]
NewPiece(taken, live) ==
  [eq |-> NotConstraint(taken), not_eq |-> Constraint(taken), live |-> live]

\* What the vectors denote when they are used in a call: the entry of this call
\* is valid, those of earlier calls may be stale.
Denotations(all) ==
  {p \in [DOMAIN all -> Piece] :
     \A i \in DOMAIN all : all[i].live \/ i = Len(all) => p[i] = all[i]}

PathInit ==
  /\ scopes = <<<< >>>> /\ pieces = << >> /\ string_taken = FALSE
  /\ compared = FALSE /\ query = NoQuery

\* Z3_solver_push, _assert and _pop, with the log of the solver in between.
Pushed(s) == Append(s, << >>)
Asserted(s, f) == [s EXCEPT ![Len(s)] = Append(@, f)]
Popped(s) == SubSeq(s, 1, Len(s) - 1)

\* The log shows the assertions of all scopes: that of the last one, and
\* whether there are others.
Log(by, s, label, sound) ==
  query' = [by |-> by, formula |-> s[Len(s)][1], label |-> label,
            alone |-> /\ Len(s[Len(s)]) = 1
                      /\ \A i \in 1..(Len(s) - 1) : s[i] = << >>,
            sound |-> sound]

\* A constraint that is null, or simplified to a constant, ends the call before
\* the solver or the vectors are touched.
PushConcrete ==
  /\ query' = NoQuery
  /\ UNCHANGED <<scopes, pieces, string_taken, compared>>

PushBranch ==
  \E taken \in BOOLEAN :
    LET s == Asserted(Pushed(scopes), IF taken THEN Constraint(taken)
                                      ELSE NotConstraint(taken))
    IN /\ Log("branch", s, taken, TRUE)
       /\ scopes' = Popped(s)
       /\ UNCHANGED <<pieces, string_taken, compared>>

\* Mutant: the size check keeps the constraints of the comparison before it.
MutantSizeCheck ==
  \E taken, live \in BOOLEAN :
    /\ Len(scopes) < MaxScopes /\ Len(pieces) < MaxPieces
    /\ scopes' = Pushed(scopes)
    /\ pieces' = Append(pieces, NewPiece(taken, live))
    /\ string_taken' = ~taken
    /\ compared' = TRUE
    /\ query' = NoQuery

\* The size check starts the collection anew; its scope stays open.
PushSizeCheck ==
  \E taken, live \in BOOLEAN :
    /\ Len(scopes) < MaxScopes
    /\ scopes' = Pushed(scopes)
    /\ pieces' = <<NewPiece(taken, live)>>
    /\ string_taken' = ~taken
    /\ compared' = TRUE
    /\ query' = NoQuery

\* The other lines add to it, and the line tells how many constraints there
\* have to be (at least one, so that a smaller line only opens a scope).
PushStringPiece ==
  \E taken, live \in BOOLEAN, line \in (strcmp_start_line - 1)..MaxLine :
    LET cond_num == line - strcmp_start_line + 1
        all == Append(pieces, NewPiece(taken, live))
        equal == string_taken /\ ~taken
        final(p) == IF equal THEN \A i \in DOMAIN p : p[i].eq
                    ELSE \E i \in DOMAIN p : p[i].not_eq
        sound == \A i \in DOMAIN pieces : pieces[i].live
    IN /\ Len(all) <= MaxPieces
       /\ pieces' = all
       /\ string_taken' = equal
       /\ \/ /\ Len(all) = cond_num
             /\ \E p \in Denotations(all) :
                  LET s == Asserted(Pushed(scopes), final(p))
                  IN /\ Log("string", s, equal, compared /\ sound)
                     /\ scopes' = Popped(s)
          \/ /\ Len(all) # cond_num /\ Len(scopes) < MaxScopes
             /\ scopes' = Pushed(scopes)
             /\ query' = NoQuery
       /\ UNCHANGED compared

\* _sym_feasible: an expression of either value, and nothing else.
Feasible ==
  \E value \in BOOLEAN :
    LET s == Asserted(Pushed(scopes), value)
    IN /\ Log("feasible", s, value, FALSE)
       /\ scopes' = Popped(s)
       /\ UNCHANGED <<pieces, string_taken, compared>>

\* symcc_reset_constraints resets the solver and leaves the vectors alone.
symcc_reset_constraints ==
  /\ scopes' = <<<< >>>> /\ query' = NoQuery
  /\ UNCHANGED <<pieces, string_taken, compared>>

PathNext ==
  \/ PushConcrete
  \/ PushBranch
  \/ PushSizeCheck
  \/ PushStringPiece
  \/ Feasible
  \/ symcc_reset_constraints

-------------------------------------------------------------------------------
\* What the log says to a reader of it, who is left to negate a constraint and to
\* combine several: each query is about one decision and about nothing else, since no
\* scope that an unfinished string comparison has left open holds an assertion, not
\* even one of an earlier branch; the logged constraint is true of the run; and the
\* logged outcome of a string comparison is that of all its pieces, provided a size
\* check has ever been collected and the collected constraints are still referenced
\* elsewhere.  That it is the constraint taken is not what the code's comments say:
\* AlternativesAreSought.  (_sym_push_path_constraint_with_loc, _sym_feasible)
QueriesDescribeTheRun ==
  /\ \A i \in DOMAIN scopes : scopes[i] = << >>
  /\ query # NoQuery => query.alone
  /\ query # NoQuery /\ query.sound => query.formula
  /\ query.by = "string" /\ query.sound =>
       (query.label <=> \A i \in DOMAIN pieces : pieces[i].eq)

\* A query of a branch or of a string comparison asks for another input than the one
\* of the run: "Generate a solution for the alternative" (simple/Runtime.cpp:701).
AlternativesAreSought ==
  query.by \in {"branch", "string"} /\ query.sound => ~query.formula
==============================================================================
