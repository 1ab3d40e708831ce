------------------------------ MODULE PureConcolic ------------------------------
(***************************************************************************)
(* util/pure_concolic_execution.sh: concolic execution without a fuzzer.    *)
(* The script runs the target on one generation of inputs after the other;  *)
(* the test cases that SymCC generates become the next generation.          *)
(*                                                                         *)
(* A generated file is named after the hash of its content, an imported one *)
(* keeps its name.  SymCC numbers its output files from zero in every       *)
(* execution and the script does not empty symcc_out, so an execution finds *)
(* there what earlier ones have left and it has not overwritten.            *)
(***************************************************************************)
EXTENDS Integers, Sequences, Functions

CONSTANTS Seeds,        \* names of files the user puts into the input directory
          Contents,     \* contents of test cases; a content is its hash
          SeedContent,  \* seed -> its content
          Occurs,       \* the pairs of names <<n, m>> where n, taken for a regular
                        \* expression, matches a part of m
          MaxOutput,    \* bound: test cases per execution
          MaxRuns       \* bound: executions per name that are counted

Names == Seeds \cup Contents

ASSUME ScriptAssumption ==
  /\ Seeds \cap Contents = {}
  /\ SeedContent \in [Seeds -> Contents]
  /\ Occurs \subseteq Names \X Names
  /\ \A c \in Contents, n \in Names : <<c, n>> \in Occurs <=> n = c
  /\ MaxOutput \in Nat /\ MaxRuns \in Nat /\ MaxRuns > 2

VARIABLES input_dir,   \* the seeds that are in the input directory by now
          next, cur,   \* the next generation, and what is left of this one
          symcc_out,   \* the test cases SymCC has left, by their number
          analyzed,    \* analyzed_inputs
          out,         \* the contents in the output directory
          failed_dir,  \* the contents that made the target fail
          runs         \* history: executions per name

vars == <<input_dir, next, cur, symcc_out, analyzed, out, failed_dir, runs>>

\* The names that grep finds in themselves: hashes, and seeds without characters that
\* mean something else in a regular expression (it does not find a[1] in a[1]).
Plain == {n \in Names : <<n, n>> \in Occurs}

ContentOf(n) == IF n \in Seeds THEN SeedContent[n] ELSE n

\* Mutant: a name counts as analysed once its content has been run.
MutantByContent(n) == \E m \in analyzed : ContentOf(m) = ContentOf(n)

\* grep -q "$(basename $f)" analyzed_inputs: the name matches a part of some line.
IsAnalysed(n) == \E m \in analyzed : <<n, m>> \in Occurs

\* Mutant: a generation starts only when something has been imported.
MutantGenerationWaits ==
  /\ cur = {}
  /\ LET imported == {s \in input_dir : ~IsAnalysed(s) /\ s \notin next}
     IN imported # {} /\ cur' = next \cup imported
  /\ next' = {}
  /\ UNCHANGED <<input_dir, symcc_out, analyzed, out, failed_dir, runs>>

\* maybe_import, then the next generation becomes the current one (or the
\* script waits for more input).
Generation ==
  /\ cur = {}
  /\ LET imported == {s \in input_dir : ~IsAnalysed(s) /\ s \notin next}
     IN /\ next \cup imported # {}
        /\ cur' = next \cup imported
  /\ next' = {}
  /\ UNCHANGED <<input_dir, symcc_out, analyzed, out, failed_dir, runs>>

Wait ==
  /\ cur = {} /\ next = {} /\ \A s \in input_dir : IsAnalysed(s)
  /\ UNCHANGED vars

\* Mutant: SymCC goes on counting where the last execution has stopped.
MutantOutputAppends(produced) == symcc_out \o produced

\* One execution: SymCC writes its test cases over the first of the old ones.
Output(produced) ==
  [i \in 1..(IF Len(produced) < Len(symcc_out) THEN Len(symcc_out) ELSE Len(produced)) |->
     IF i <= Len(produced) THEN produced[i] ELSE symcc_out[i]]

\* Mutant: the analysed files are removed before the new ones are added.
MutantRemoveFirst(files) == {n \in next : ~IsAnalysed(n)} \cup files

\* add_to_next_generation and remove_analysed.
NextGeneration(files) == {n \in next \cup files : ~IsAnalysed(n)}

Count(f) == runs' = [runs EXCEPT ![f] = IF @ < MaxRuns THEN @ + 1 ELSE @]

\* Mutant: a file counts as analysed even if the target timed out on it, and
\* its test cases are dropped.
MutantRunDropsOnFailure(f, produced, ok) ==
  /\ f \in cur
  /\ symcc_out' = Output(produced)
  /\ out' = out \cup Range(symcc_out')
  /\ next' = IF ok THEN NextGeneration(Range(symcc_out')) ELSE next
  /\ failed_dir' = IF ok THEN failed_dir ELSE failed_dir \cup {ContentOf(f)}
  /\ analyzed' = analyzed \cup {f}
  /\ cur' = cur \ {f}
  /\ Count(f)
  /\ UNCHANGED input_dir

\* The body of the loop over the current generation: run the target on f, add
\* the test cases to the next generation and to the output directory, remove
\* what was analysed before f, keep f if the target failed, and note f.
RunOn(f, produced, ok) ==
  /\ f \in cur
  /\ symcc_out' = Output(produced)
  /\ out' = out \cup Range(symcc_out')
  /\ next' = NextGeneration(Range(symcc_out'))
  /\ failed_dir' = IF ok THEN failed_dir ELSE failed_dir \cup {ContentOf(f)}
  /\ analyzed' = analyzed \cup {f}
  /\ cur' = cur \ {f}
  /\ Count(f)
  /\ UNCHANGED input_dir

\* The user adds a seed while the script is running (external).
AddSeed(s) ==
  /\ s \notin input_dir
  /\ input_dir' = input_dir \cup {s}
  /\ UNCHANGED <<next, cur, symcc_out, analyzed, out, failed_dir, runs>>

-------------------------------------------------------------------------------
Init ==
  /\ input_dir \in SUBSET Seeds
  /\ next = {} /\ cur = {} /\ symcc_out = <<>> /\ analyzed = {}
  /\ out = {} /\ failed_dir = {}
  /\ runs = [n \in Names |-> 0]

Productions == UNION {[1..k -> Contents] : k \in 0..MaxOutput}

Execute == \E f \in cur, produced \in Productions, ok \in BOOLEAN : RunOn(f, produced, ok)

Next ==
  \/ \E s \in Seeds : AddSeed(s)
  \/ Generation
  \/ Wait
  \/ Execute

\* The loop goes on; each execution is under timeout.
Fairness == WF_vars(Generation) /\ WF_vars(Execute)

Spec == Init /\ [][Next]_vars /\ Fairness

-------------------------------------------------------------------------------
(* Properties *)

TypeOK ==
  /\ input_dir \subseteq Seeds
  /\ next \subseteq Names /\ cur \subseteq Names /\ analyzed \subseteq Names
  /\ Range(symcc_out) \subseteq Contents /\ Len(symcc_out) <= MaxOutput
  /\ out \subseteq Contents /\ failed_dir \subseteq Contents
  /\ runs \in [Names -> Nat]

\* An input is run at most twice if grep finds its name in itself.  Once would be the
\* idea, but remove_analysed comes before the input is noted, so the last input of a
\* generation can be in the next one again; after that its name is known.
\* (remove_analysed, maybe_import and the loop over the current generation)
RunsAtMostTwice == \A n \in Plain : runs[n] <= 2

\* No test case gets lost: whatever was exported has been analysed under its
\* hash or is waiting in this or the next generation.
NothingLost == out \subseteq next \cup cur \cup analyzed

\* The loop comes to rest if grep finds the names of all files in the input directory
\* in themselves: from some point on there is nothing left to run.  (The main loop)
ComesToRest == [](input_dir \subseteq Plain) => <>[](next = {} /\ cur = {})

\* "Copy those files from the input directory to the next generation that
\* haven't been analyzed yet": every file in the input directory is analysed.
SeedsAreAnalysed == \A s \in Seeds : (s \in input_dir) ~> (s \in analyzed)

\* The same for the files whose name is not part of any other name.
DistinctSeedsAreAnalysed ==
  \A s \in {t \in Seeds : \A n \in Names : <<t, n>> \in Occurs => n = t} :
    (s \in input_dir) ~> (s \in analyzed)
================================================================================
