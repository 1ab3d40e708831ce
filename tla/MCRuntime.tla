------------------------------ MODULE MCRuntime ------------------------------
(***************************************************************************)
(* The parts of the runtime library and of the numeric checks that share no     *)
(* state, on small instances.  Since they have no variable in common, and each  *)
(* property is about one of them, a behaviour leaves all but one of them in     *)
(* their initial state; their states add up instead of multiplying.             *)
(***************************************************************************)
EXTENDS ExprBuilders, NumericChecks, PathConstraints, InputVariables,
        ExpressionTable, SequencesExt

\* A field of one unit before one of two, with a gap, and the other way round
\* with padding at the end.
MCLayout ==
  {[size |-> 4, fields |-> <<[off |-> 0, size |-> 1], [off |-> 2, size |-> 2]>>],
   [size |-> 4, fields |-> <<[off |-> 0, size |-> 2], [off |-> 2, size |-> 1]>>]}

\* Each instruction alone, and functions with more numbers than Stride.
MCFunction ==
  {<<op>> : op \in Instruction} \cup
  {<<"Branch", "SDiv", "Fast", "Add">>,
   <<"Select", "Mul", "Switch", "MulConst">>,
   <<"Loop", "FDiv", "Branch", "i64", "Sub", "Loop">>}
MCGarbage == {-1, 5}
MCFPTolerance == {2, NotANumber}

MCFile == <<0, 1, 1>>

\* Called for each byte in turn, as std::generate does, the backends' functions
\* have the effect that InputVariables states for a whole object.
ASSUME BytesInTurn ==
  \A len, first \in 0..3, n \in 1..3 :
    LET turns == [i \in 1..n |-> i]
        vec == [i \in 1..len |-> -i]
        values == [i \in 1..n |-> 10 + i]
    IN /\ VectorAfter(vec, first, n) =
            FoldLeft(LAMBDA v, i : GetInputByte(v, first + i - 1), vec, turns)
       /\ pushInputBytes(vec, first, values) =
            FoldLeft(LAMBDA s, i : pushInputByte(s, first + i - 1, values[i]),
                     vec, turns)

\* Pow2 is the power that the language has.
ASSUME PowersOfTwo == \A n \in 0..(2 * HostBits) : Pow2[n] = 2^n

MCSymmetry == Permutations(Addr) \cup Permutations(Cell \ Shadow)

vars == <<builderVars, numericVars, pathVars, inputVars, tableVars>>

Init == BuildersInit /\ NumericInit /\ PathInit /\ InputInit /\ TableInit

Next ==
  \/ /\ NumericInit /\ PathInit /\ InputInit /\ TableInit
     /\ BuildersNext
     /\ UNCHANGED <<numericVars, pathVars, inputVars, tableVars>>
  \/ /\ BuildersInit /\ PathInit /\ InputInit /\ TableInit
     /\ NumericNext
     /\ UNCHANGED <<builderVars, pathVars, inputVars, tableVars>>
  \/ /\ BuildersInit /\ NumericInit /\ InputInit /\ TableInit
     /\ PathNext
     /\ UNCHANGED <<builderVars, numericVars, inputVars, tableVars>>
  \/ /\ BuildersInit /\ NumericInit /\ PathInit /\ TableInit
     /\ InputNext
     /\ UNCHANGED <<builderVars, numericVars, pathVars, tableVars>>
  \/ /\ BuildersInit /\ NumericInit /\ PathInit /\ InputInit
     /\ TableNext
     /\ UNCHANGED <<builderVars, numericVars, pathVars, inputVars>>

Spec == Init /\ [][Next]_vars
==============================================================================
