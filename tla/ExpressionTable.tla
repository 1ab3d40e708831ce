--------------------------- MODULE ExpressionTable ---------------------------
(***************************************************************************)
(* The tables of expressions of the two backends and the collection of         *)
(* garbage.  Client code holds bare pointers.  In the QSYM backend the table    *)
(* allocatedExpressions owns a shared pointer per expression, an expression     *)
(* owns its operands, and memory that is freed may be used again; the simple    *)
(* backend erases its table without giving its reference back.                  *)
(*                                                                         *)
(* QSYM itself, which may hold expressions of its own, is external.             *)
(***************************************************************************)
EXTENDS Integers, FiniteSets

CONSTANTS Addr,       \* addresses of expressions
          Cell,       \* places where client code keeps a pointer
          Shadow,     \* those in shadow memory
          GCThreshold,
          Null,
          MaxExprs    \* bound: the expressions that are ever built

ASSUME TableAssumption ==
  /\ Null \notin Addr /\ Shadow \subseteq Cell
  /\ GCThreshold \in Nat /\ MaxExprs \in Nat

VARIABLES backend,   \* the one the program is linked with, once initialized; or
                     \* "concrete", or "exited"
          heap,      \* what is at an address: an expression, or nothing
          table,     \* allocatedExpressions
          regions,   \* expressionRegions: the cells that are registered
          held,      \* the pointer in each cell
          meant,     \* history: the expression it was stored for
          built,     \* how many expressions there have been
          stale,     \* history: the cells whose pointer was held by no root
                     \* when garbage was collected
          outcome    \* the last use of pointers: right, wrong, or thrown

tableVars ==
  <<backend, heap, table, regions, held, meant, built, stale, outcome>>

Free == [name |-> 0, operands |-> {}]

TableInit ==
  /\ backend = "unset"
  /\ heap = [a \in Addr |-> Free]
  /\ table = {} /\ regions = {}
  /\ held = [c \in Cell |-> Null] /\ meant = [c \in Cell |-> 0]
  /\ built = 0 /\ stale = {} /\ outcome = "none"

\* The QSYM backend makes no builder if there is no symbolic input (concrete), and
\* ends the program if there is no output directory (exited).
sym_initialize ==
  /\ backend = "unset" /\ backend' \in {"qsym", "simple", "concrete", "exited"}
  /\ UNCHANGED <<heap, table, regions, held, meant, built, stale, outcome>>

Running == backend # "exited" /\ outcome # "thrown"

\* A registered expression is entered once.
registerExpression(a) == table \cup {a}

\* The client puts the expression at address a into a cell; the backend has
\* registered it, or has not.
Take(c, a, registered) ==
  /\ table' = IF registered THEN registerExpression(a) ELSE table
  /\ held' = [held EXCEPT ![c] = a]
  /\ meant' = [meant EXCEPT ![c] = heap'[a].name]
  /\ stale' = stale \ {c}

\* A new expression over the operands, at an address that is free.
NewExpression(operands, c, registered) ==
  \E a \in Addr :
    /\ heap[a] = Free /\ built < MaxExprs
    /\ built' = built + 1
    /\ heap' = [heap EXCEPT ![a] = [name |-> built + 1, operands |-> operands]]
    /\ Take(c, a, registered)

\* The builder simplifies, and returns one of the operands, or one of theirs; or it
\* has an expression over the operands already.
OldExpression(operands, c, registered) ==
  /\ \E a \in operands \cup (UNION {heap[b].operands : b \in operands})
                 \cup {b \in Addr : heap[b] # Free /\ heap[b].operands = operands} :
       UNCHANGED heap /\ Take(c, a, registered)
  /\ UNCHANGED built

\* Whether a leaf is registered.  Of its leaves the simple backend registers the
\* numbers only: it has a reference of its own to every input byte, to the null
\* pointer and to the two Booleans.
LeafRegistered == IF backend = "simple" THEN BOOLEAN ELSE {TRUE}

\* The variable of an input byte, or a constant.
BuildLeaf ==
  \E c \in Cell \ Shadow, registered \in LeafRegistered :
    /\ backend \in {"qsym", "simple"} /\ Running
    /\ NewExpression({}, c, registered) \/ OldExpression({}, c, registered)
    /\ outcome' = "none"
    /\ UNCHANGED <<backend, regions>>

\* The builders of the QSYM backend look their operands up in the table and
\* throw if one is not there; a pointer to memory that is used again finds
\* another expression.  (Instrumented code passes no null pointer: it calls a builder
\* only if an operand is symbolic, and builds the expressions of the others first.)
BuildBinary ==
  \E c, d, e \in Cell \ Shadow :
    LET operands == {held[c], held[d]}
    IN /\ Running /\ Null \notin operands
       /\ \/ /\ backend = "qsym" /\ ~(operands \subseteq table)
             /\ outcome' = "thrown"
             /\ UNCHANGED <<heap, table, held, meant, built, stale>>
          \/ /\ backend = "qsym" => operands \subseteq table
             /\ NewExpression(operands, e, TRUE) \/ OldExpression(operands, e, TRUE)
             /\ outcome' = IF /\ heap[held[c]].name = meant[c]
                              /\ heap[held[d]].name = meant[d]
                           THEN "right" ELSE "wrong"
       /\ UNCHANGED <<backend, regions>>

\* A pointer is copied, to or from shadow memory or a region, or cleared.
Move ==
  \E c, d \in Cell :
    /\ Running /\ c # d
    /\ held' = [held EXCEPT ![d] = held[c]]
    /\ meant' = [meant EXCEPT ![d] = meant[c]]
    /\ stale' = IF c \in stale THEN stale \cup {d} ELSE stale \ {d}
    /\ outcome' = "none"
    /\ UNCHANGED <<backend, heap, table, regions, built>>

\* Client code makes a place known to the collector.  (The arguments and the
\* return value that functions pass to each other are never registered.)
registerExpressionRegion ==
  \E c \in Cell \ (Shadow \cup regions) :
    /\ Running
    /\ regions' = regions \cup {c}
    /\ outcome' = "none"
    /\ UNCHANGED <<backend, heap, table, held, meant, built, stale>>

Root == Shadow \cup regions

\* Mutant: the shadow pages are not among the roots.
MutantReachable == {held[c] : c \in regions} \ {Null}

collectReachableExpressions == {held[c] : c \in Root} \ {Null}

\* What is still owned when the table has been cut down to `kept`: the least set
\* that has those and, with an expression, its operands.
Owned(kept) ==
  {a \in Addr : \A S \in SUBSET Addr :
     kept \subseteq S /\ (\A b \in S : heap[b].operands \subseteq S) => a \in S}

\* _sym_collect_garbage.  QSYM may keep some expressions for itself (pinned).
CollectGarbage ==
  LET kept == table \cap collectReachableExpressions
  IN /\ Running
     /\ Cardinality(table) >= GCThreshold
     /\ table' = kept
     /\ \/ backend = "simple" /\ UNCHANGED heap
        \/ /\ backend = "qsym"
           /\ \E pinned \in SUBSET (table \ kept) :
                heap' = [a \in Addr |-> IF a \in Owned(kept \cup pinned)
                                        THEN heap[a] ELSE Free]
     /\ stale' = stale \cup
          {c \in Cell : held[c] \notin {held[d] : d \in Root} \cup {Null}}
     /\ outcome' = "none"
     /\ UNCHANGED <<backend, regions, held, meant, built>>

TableNext ==
  \/ sym_initialize
  \/ BuildLeaf
  \/ BuildBinary
  \/ Move
  \/ registerExpressionRegion
  \/ CollectGarbage

-------------------------------------------------------------------------------
\* In the QSYM backend a pointer that was in shadow memory or in a registered
\* region, or equal to one there, during every collection since it was obtained is
\* in the table and denotes the expression it was obtained for, whatever has been
\* freed and built again around it, and the operands of every expression are there.
\* In the simple backend every pointer denotes that expression, though not all of
\* them are in the table.  A builder throws only if there is a pointer that no root
\* held during a collection.
\* (_sym_collect_garbage, collectReachableExpressions, registerExpression)
RootsStayValid ==
  /\ backend = "qsym" =>
       \A c \in Cell : held[c] # Null /\ c \notin stale =>
         held[c] \in table /\ heap[held[c]].name = meant[c]
  /\ backend # "qsym" =>
       \A c \in Cell : held[c] # Null => heap[held[c]].name = meant[c]
  /\ \A a \in Addr : \A b \in heap[a].operands : heap[b] # Free
  /\ \A a \in table : heap[a] # Free
  /\ outcome = "thrown" => stale # {}
  /\ backend # "qsym" => outcome \notin {"wrong", "thrown"}
==============================================================================
