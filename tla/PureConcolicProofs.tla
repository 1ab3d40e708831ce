-------------------------- MODULE PureConcolicProofs --------------------------
(* Proofs about PureConcolic. *)
EXTENDS PureConcolic, TLAPS

\* The names that the script handles.
Handled ==
  /\ input_dir \subseteq Seeds
  /\ next \subseteq Names /\ cur \subseteq Names /\ analyzed \subseteq Names
  /\ runs \in [Names -> Nat]
  /\ symcc_out \in Seq(Contents) /\ Len(symcc_out) <= MaxOutput
  /\ out \subseteq Contents /\ failed_dir \subseteq Contents

\* What makes RunsAtMostTwice inductive: a plain input that is pending has been run
\* once at most, and one that is not noted has not been run at all.
RunsInv ==
  /\ RunsAtMostTwice
  /\ \A n \in (next \cup cur) \cap Plain : runs[n] <= 1
  /\ \A n \in Names \ analyzed : runs[n] = 0

\* grep finds the name of an analysed input if it is plain.
LEMMA AnalysedIsFound ==
  ASSUME analyzed \subseteq Names, NEW n \in analyzed, n \in Plain
  PROVE  IsAnalysed(n)
  BY DEF IsAnalysed, Plain

\* And a hash it finds is an analysed input.
LEMMA FoundIsAnalysed ==
  ASSUME analyzed \subseteq Names, NEW c \in Contents, IsAnalysed(c)
  PROVE  c \in analyzed
  BY ScriptAssumption DEF IsAnalysed

\* symcc_out holds test cases only, and no more than one execution can leave.
LEMMA OutputType ==
  ASSUME symcc_out \in Seq(Contents), Len(symcc_out) <= MaxOutput,
         NEW produced \in Productions
  PROVE  Output(produced) \in Seq(Contents) /\ Len(Output(produced)) <= MaxOutput
<1>1. PICK k \in 0..MaxOutput : produced \in [1..k -> Contents]
  BY DEF Productions
<1>2. k \in Nat
  BY <1>1, ScriptAssumption
<1>3. produced \in Seq(Contents)
  BY <1>1, <1>2
<1> DEFINE m == IF Len(produced) < Len(symcc_out) THEN Len(symcc_out) ELSE Len(produced)
<1>4. m \in Nat /\ m <= MaxOutput
  BY <1>1, <1>2, <1>3, ScriptAssumption
<1>5. \A i \in 1..m : (IF i <= Len(produced) THEN produced[i] ELSE symcc_out[i]) \in Contents
  BY <1>3
<1>6. Output(produced) = [i \in 1..m |-> IF i <= Len(produced) THEN produced[i]
                                         ELSE symcc_out[i]]
  BY DEF Output
<1> HIDE DEF m
<1> QED BY <1>4, <1>5, <1>6

LEMMA RangeOfSeq ==
  ASSUME NEW s \in Seq(Contents)
  PROVE  Range(s) \subseteq Contents
  BY DEF Range

\* What the invariants of one generation rest on: whatever is put aside for the
\* next generation has not been analysed before.
LEMMA RunPreserves ==
  ASSUME Handled, RunsInv, NothingLost,
         NEW f \in cur, NEW produced \in Productions, NEW ok \in BOOLEAN,
         RunOn(f, produced, ok)
  PROVE  Handled' /\ RunsInv' /\ NothingLost'
<1> DEFINE R == Range(symcc_out')
<1>1. symcc_out' \in Seq(Contents) /\ Len(symcc_out') <= MaxOutput
  BY OutputType DEF RunOn, Handled
<1>2. R \subseteq Contents
  BY <1>1, RangeOfSeq
<1> HIDE DEF R
<1>3. /\ out' = out \cup R /\ analyzed' = analyzed \cup {f} /\ cur' = cur \ {f}
      /\ next' = {n \in next \cup R : ~IsAnalysed(n)}
      /\ runs' = [runs EXCEPT ![f] = IF @ < MaxRuns THEN @ + 1 ELSE @]
      /\ input_dir' = input_dir
  BY DEF RunOn, Count, NextGeneration, R
<1>4. f \in Names /\ runs \in [Names -> Nat] /\ Contents \subseteq Names
  BY DEF Handled, Names
<1>5. Handled'
  <2>1. runs' \in [Names -> Nat]
    BY <1>3, <1>4
  <2>2. next' \subseteq Names /\ cur' \subseteq Names /\ analyzed' \subseteq Names
    BY <1>2, <1>3, <1>4 DEF Handled
  <2>3. failed_dir' \subseteq Contents
    <3>1. ContentOf(f) \in Contents
      BY <1>4, ScriptAssumption DEF ContentOf, Names
    <3> QED BY <3>1 DEF RunOn, Handled
  <2> QED BY <1>1, <1>2, <1>3, <2>1, <2>2, <2>3 DEF Handled
<1>6. \A n \in next' \cap Plain : n \in Names /\ n \notin analyzed /\ runs[n] = 0
  BY <1>3, <1>2, <1>4, AnalysedIsFound DEF Handled, RunsInv
<1>7. /\ runs'[f] <= runs[f] + 1 /\ runs'[f] \in Nat /\ runs[f] \in Nat
      /\ f \in Plain => runs[f] <= 1
      /\ \A n \in Names \ {f} : runs'[n] = runs[n]
  <2>1. runs[f] \in Nat /\ MaxRuns \in Nat
    BY <1>4, ScriptAssumption
  <2> QED BY <1>3, <1>4, <2>1 DEF RunsInv
<1>8. RunsInv'
  <2>1. \A n \in Plain : runs'[n] <= 2
    <3>1. Plain \subseteq Names
      BY DEF Plain
    <3> QED BY <1>7, <3>1 DEF RunsInv, RunsAtMostTwice
  <2>2. \A n \in next' \cap Plain : runs'[n] <= 1
    BY <1>6, <1>7
  <2>3. \A n \in cur' \cap Plain : runs'[n] <= 1
    BY <1>3, <1>7 DEF RunsInv, Handled
  <2>4. \A n \in Names \ analyzed' : runs'[n] = 0
    BY <1>3, <1>7 DEF RunsInv
  <2> QED BY <2>1, <2>2, <2>3, <2>4 DEF RunsInv, RunsAtMostTwice
<1>9. NothingLost'
  <2>1. ASSUME NEW c \in out' PROVE c \in next' \cup cur' \cup analyzed'
    <3>1. c \in Contents
      BY <1>2, <1>3, <2>1 DEF Handled
    <3>2. CASE IsAnalysed(c)
      BY <1>3, <3>1, <3>2, FoundIsAnalysed DEF Handled
    <3>3. CASE ~IsAnalysed(c)
      BY <1>3, <3>3, <2>1 DEF NothingLost
    <3> QED BY <3>2, <3>3
  <2> QED BY <2>1 DEF NothingLost
<1> QED BY <1>5, <1>8, <1>9

LEMMA GenerationPreserves ==
  ASSUME Handled, RunsInv, NothingLost, Generation
  PROVE  Handled' /\ RunsInv' /\ NothingLost'
<1> DEFINE imported == {s \in input_dir : ~IsAnalysed(s) /\ s \notin next}
<1>1. /\ cur' = next \cup imported /\ next' = {} /\ cur = {}
      /\ UNCHANGED <<input_dir, symcc_out, analyzed, out, failed_dir, runs>>
  BY DEF Generation
<1>2. \A s \in imported : s \in Names /\ (s \in Plain => s \notin analyzed)
  BY AnalysedIsFound DEF Handled, Names
<1>3. \A s \in imported \cap Plain : runs[s] = 0
  BY <1>2 DEF RunsInv
<1> HIDE DEF imported
<1>4. Handled'
  BY <1>1, <1>2 DEF Handled
<1>5. RunsInv'
  BY <1>1, <1>3 DEF RunsInv, RunsAtMostTwice
<1>6. NothingLost'
  BY <1>1 DEF NothingLost
<1> QED BY <1>4, <1>5, <1>6

LEMMA ScriptInv == Spec => [](Handled /\ RunsInv /\ NothingLost)
<1>1. Init => Handled /\ RunsInv /\ NothingLost
  <2> SUFFICES ASSUME Init PROVE Handled /\ RunsInv /\ NothingLost
    OBVIOUS
  <2>1. Handled
    BY ScriptAssumption DEF Init, Handled
  <2> QED BY <2>1 DEF Init, RunsInv, RunsAtMostTwice, NothingLost, Plain
<1>2. Handled /\ RunsInv /\ NothingLost /\ [Next]_vars
        => Handled' /\ RunsInv' /\ NothingLost'
  <2> SUFFICES ASSUME Handled, RunsInv, NothingLost, [Next]_vars
               PROVE  Handled' /\ RunsInv' /\ NothingLost'
    OBVIOUS
  <2>1. CASE \E s \in Seeds : AddSeed(s)
    BY <2>1 DEF AddSeed, Handled, RunsInv, RunsAtMostTwice, NothingLost
  <2>2. CASE Generation
    BY <2>2, GenerationPreserves
  <2>3. CASE Wait \/ UNCHANGED vars
    BY <2>3 DEF Wait, vars, Handled, RunsInv, RunsAtMostTwice, NothingLost
  <2>4. CASE Execute
    BY <2>4, RunPreserves DEF Execute
  <2> QED BY <2>1, <2>2, <2>3, <2>4 DEF Next
<1> QED BY <1>1, <1>2, PTL DEF Spec

\* Every variable of the script keeps its type; in particular symcc_out never has
\* more files than one execution can leave, since each one overwrites the first
\* of the files it finds.
THEOREM ScriptTypes == Spec => []TypeOK
<1>1. Handled => TypeOK
  BY RangeOfSeq DEF Handled, TypeOK
<1> QED BY <1>1, ScriptInv, PTL

\* However many seeds and test cases there are, and whatever is left over in
\* symcc_out, the script runs the target at most twice on an input whose name grep
\* finds in itself.
THEOREM AtMostTwice == Spec => []RunsAtMostTwice
<1>1. RunsInv => RunsAtMostTwice
  BY DEF RunsInv
<1> QED BY <1>1, ScriptInv, PTL

\* remove_analysed never loses a test case: everything in the output directory
\* has been analysed or is still to be run.
THEOREM NoTestcaseLost == Spec => []NothingLost
  BY ScriptInv, PTL
================================================================================
