----------------------------- MODULE FuzzingHelper -----------------------------
(***************************************************************************)
(* symcc_fuzzing_helper: the process that runs SymCC on the test cases of a *)
(* fuzzer and hands the new test cases back through a queue directory that  *)
(* the fuzzer reads (util/symcc_fuzzing_helper/src/main.rs and symcc.rs).   *)
(*                                                                         *)
(* The fuzzer works at the same time: it adds files to its own queue, may   *)
(* remove them again, and imports whatever it finds in the helper's queue.  *)
(* Every error makes the helper exit.  What is on disk then stays there,    *)
(* and the user may start the helper again.                                 *)
(***************************************************************************)
EXTENDS Integers, FiniteSets, FiniteSetsExt, Functions

CONSTANTS Files,       \* the test cases the fuzzer will ever have in its queue
          NoInput,     \* no test case has been picked yet
          Meta,        \* what the score of a file depends on
          WellNamed,   \* the files whose name holds an id ("id:000000...")
          Edges,       \* entries of the coverage map
          MaxTests     \* bound: test cases that SymCC yields from each file

ASSUME HelperAssumption ==
  /\ IsFiniteSet(Files) /\ NoInput \notin Files /\ WellNamed \subseteq Files
  /\ Meta \in [Files -> [cov : BOOLEAN, orig : BOOLEAN, size : Nat, name : Nat]]
  /\ \A f, g \in Files : Meta[f].name = Meta[g].name => f = g
  /\ MaxTests \in [Files -> Nat]
  /\ "no map" \notin Edges

VARIABLES afl,         \* the fuzzer's queue: each file is to come, there, or gone
          sync,        \* the fuzzer's import: [next: the lowest id it accepts,
                       \*  files: what it has imported]
          symccDir,    \* does the helper's directory exist?
          dirs,        \* the files of its subdirectories: name -> content
          partial,     \* the files there that have been created and not filled yet
          pc,          \* where the main loop is
          input,       \* the test case being run
          tests,       \* generated test cases that wait to be processed
          killed,      \* was the last execution of SymCC killed?
          copy,        \* the copy that copy_testcase is making
          state,       \* State: bitmap, processed_files, stats
          current_id,  \* the next free id of each TestcaseDir
          runs         \* history: executions of SymCC per file

vars == <<afl, sync, symccDir, dirs, partial, pc, input, tests, killed, copy, state,
          current_id, runs>>

DirName == {"queue", "hangs", "crashes"}

\* AflMap { data: None }: no map has been merged yet.
NoMap == {"no map"}

\* The content of a file, as far as it matters here: a generated test case that
\* covers the edges cov or that crashes, or a copy of an input.
Covers(cov) == [kind |-> "covers", cov |-> cov]
Crasher == [kind |-> "crash", cov |-> {}]
InputCopy == [kind |-> "input", cov |-> {}]
Content == [kind : {"covers", "crash", "input"}, cov : SUBSET Edges]

\* What a reader finds in a file that has not been filled yet: nothing, or a part.
Partial == [kind |-> "partial", cov |-> {}]

\* File names are id:<id>,src:<id of the parent>.
Name == [id : Nat, src : Files]
EmptyDir == [n \in {} |-> Crasher]
NoCopy == [dir |-> "none", content |-> Partial]
Copy(dir, content) == [dir |-> dir, content |-> content]

NewState == [bitmap |-> NoMap, processed |-> {}, total |-> 0, failed |-> 0]

\* Mutant: files without an id in their name are left alone.
MutantUnseenNamed == {f \in WellNamed : afl[f] = "there"} \ state.processed

Unseen == {f \in Files : afl[f] = "there"} \ state.processed

-------------------------------------------------------------------------------
(* Helpers *)

\* TestcaseScore: new coverage first, then derivation from a seed, then small
\* size, then the name.
Better(f, g) ==
  LET x == Meta[f]
      y == Meta[g]
  IN \/ x.cov /\ ~y.cov
     \/ /\ x.cov = y.cov
        /\ \/ x.orig /\ ~y.orig
           \/ /\ x.orig = y.orig
              /\ \/ x.size < y.size
                 \/ x.size = y.size /\ x.name > y.name

\* Mutant: the known coverage is replaced, not extended.
MutantMergeReplaces(known, new) == new

\* AflMap::merge: the map afterwards, and whether it has changed.
Merge(known, new) == IF known = NoMap THEN new ELSE known \cup new

\* Mutant: every map is interesting.
MutantAlwaysInteresting(known, new) == TRUE

Interesting(known, new) == known = NoMap \/ ~(new \subseteq known)

\* Mutant: the id is not advanced.
MutantSameId(ids, dir) == ids

\* The name that copy_testcase gives to a file that it copies into dir.
NextName(dir) == [id |-> current_id[dir], src |-> input]

\* The directories with a file of that name and content, and without it: a file
\* that exists already is truncated before it is filled.
Put(d, dir, content) ==
  [d EXCEPT ![dir] = [n \in DOMAIN @ \cup {NextName(dir)} |->
                        IF n = NextName(dir) THEN content ELSE @[n]]]
Truncate(d, dir) == [d EXCEPT ![dir] = Restrict(@, DOMAIN @ \ {NextName(dir)})]
Advance(ids, dir) == [ids EXCEPT ![dir] = @ + 1]

-------------------------------------------------------------------------------
(* The fuzzer (external) *)

AflAdd(f) ==
  /\ afl[f] = "to come"
  /\ afl' = [afl EXCEPT ![f] = "there"]
  /\ UNCHANGED <<sync, symccDir, dirs, partial, pc, input, tests, killed, copy, state,
                 current_id, runs>>

AflRemove(f) ==
  /\ afl[f] = "there"
  /\ afl' = [afl EXCEPT ![f] = "gone"]
  /\ UNCHANGED <<sync, symccDir, dirs, partial, pc, input, tests, killed, copy, state,
                 current_id, runs>>

\* The fuzzer imports the files whose id is not below the lowest it accepts, with
\* the content that it finds.
AflSync ==
  LET whole == {n \in DOMAIN dirs["queue"] : n.id >= sync.next}
      half  == {x[2] : x \in {y \in partial : y[1] = "queue" /\ y[2].id >= sync.next}}
  IN /\ whole \cup half # {}
     /\ sync' = [next  |-> Max({n.id : n \in whole \cup half}) + 1,
                 files |-> sync.files \cup {<<n, dirs["queue"][n]>> : n \in whole}
                                      \cup {<<n, Partial>> : n \in half}]
     /\ UNCHANGED <<afl, symccDir, dirs, partial, pc, input, tests, killed, copy, state,
                    current_id, runs>>

-------------------------------------------------------------------------------
(* The helper *)

\* The error is reported and the process ends; the files stay.
Exit == pc' = "stopped"

\* Mutant: an existing directory is used again.
MutantStartAnew ==
  /\ pc = "start"
  /\ symccDir' = TRUE
  /\ dirs' = [d \in DirName |-> IF symccDir THEN dirs[d] ELSE EmptyDir]
  /\ state' = NewState /\ current_id' = [d \in DirName |-> 0]
  /\ pc' = "pick"
  /\ UNCHANGED <<afl, sync, partial, input, tests, killed, copy, runs>>

\* main up to the loop: an existing directory is refused, AflConfig::load may
\* fail, and State::initialize creates the directories or fails halfway.
Start ==
  /\ pc = "start"
  /\ UNCHANGED <<afl, sync, partial, input, tests, killed, copy, runs>>
  /\ \/ Exit /\ UNCHANGED <<symccDir, dirs, state, current_id>>
     \/ /\ ~symccDir
        /\ symccDir' = TRUE /\ dirs' = [d \in DirName |-> EmptyDir]
        /\ state' = NewState /\ current_id' = [d \in DirName |-> 0]
        /\ pc' = "pick" \/ Exit

\* The user starts a helper that has exited again; nothing in memory survives.
Restart ==
  /\ pc = "stopped"
  /\ pc' = "start"
  /\ state' = NewState /\ current_id' = [d \in DirName |-> 0]
  /\ input' = NoInput /\ tests' = 0 /\ killed' = FALSE /\ copy' = NoCopy
  /\ UNCHANGED <<afl, sync, symccDir, dirs, partial, runs>>

\* best_new_testcase finds the best file that has not been processed.
Pick ==
  /\ pc = "pick"
  /\ \E f \in Unseen : /\ \A g \in Unseen \ {f} : Better(f, g)
                       /\ input' = f
  /\ pc' = "run"
  /\ UNCHANGED <<afl, sync, symccDir, dirs, partial, tests, killed, copy, state,
                 current_id, runs>>

\* The fuzzer's queue cannot be read.
QueueUnreadable ==
  /\ pc = "pick" /\ Exit
  /\ UNCHANGED <<afl, sync, symccDir, dirs, partial, input, tests, killed, copy, state,
                 current_id, runs>>

\* It finds none, and the helper sleeps for a while.
Wait == pc = "pick" /\ Unseen = {} /\ UNCHANGED vars

\* SymCC::run: the copy fails if the file has disappeared, and may fail for other
\* reasons; feeding SymCC its input or listing its output may fail; otherwise it
\* ends, killed or not, with some test cases in its output directory.
Run ==
  /\ pc = "run"
  /\ \/ Exit /\ UNCHANGED <<tests, killed, runs>>
     \/ /\ afl[input] = "there"
        /\ runs' = [runs EXCEPT ![input] = @ + 1]
        /\ \/ Exit /\ UNCHANGED <<tests, killed>>
           \/ /\ tests' \in 0..MaxTests[input] /\ killed' \in BOOLEAN
              /\ pc' = "tests"
  /\ UNCHANGED <<afl, sync, symccDir, dirs, partial, input, copy, state, current_id>>

\* copy_testcase is called.
BeginCopy(c) == copy' = c /\ pc' = "create"

\* process_new_testcase when afl-showmap yields the coverage map cov: the test
\* case is queued if the map is new.
ProcessCovers(cov) ==
  /\ state' = [state EXCEPT !.bitmap = Merge(@, cov)]
  /\ \/ /\ ~Interesting(state.bitmap, cov)
        /\ tests' = tests - 1
        /\ UNCHANGED <<pc, copy>>
     \/ /\ Interesting(state.bitmap, cov)
        /\ BeginCopy(Copy("queue", Covers(cov))) /\ UNCHANGED tests

\* The test case hangs and is ignored.
ProcessHang == tests' = tests - 1 /\ UNCHANGED <<pc, copy, state>>

\* The test case crashes: it is copied to the crashes first.
ProcessCrash == BeginCopy(Copy("crashes", Crasher)) /\ UNCHANGED <<tests, state>>

\* afl-showmap cannot be run or returns something unexpected.
ShowmapFails == Exit /\ UNCHANGED <<tests, copy, state>>

\* Mutant: one test case too many is processed.
MutantProcessOneMore ==
  /\ pc = "tests" /\ tests >= 0
  /\ \E cov \in SUBSET Edges : ProcessCovers(cov)
  /\ UNCHANGED <<afl, sync, symccDir, dirs, partial, input, killed, current_id, runs>>

ProcessTest ==
  /\ pc = "tests" /\ tests > 0
  /\ \/ \E cov \in SUBSET Edges : ProcessCovers(cov)
     \/ ProcessHang
     \/ ProcessCrash
     \/ ShowmapFails
  /\ UNCHANGED <<afl, sync, symccDir, dirs, partial, input, killed, current_id, runs>>

\* Stats::add_execution and the insertion into processed_files.
Processed(s) ==
  [bitmap    |-> s.bitmap,
   processed |-> s.processed \cup {input},
   total     |-> IF killed THEN s.total ELSE s.total + 1,
   failed    |-> IF killed THEN s.failed + 1 ELSE s.failed]

\* Mutant: an input on which SymCC was killed does not count as processed.
MutantFinishUnlessKilled ==
  /\ pc = "tests" /\ tests = 0
  /\ state' = IF killed THEN [state EXCEPT !.failed = @ + 1] ELSE Processed(state)
  /\ pc' = "pick"
  /\ UNCHANGED <<afl, sync, symccDir, dirs, partial, current_id, input, tests, killed,
                 copy, runs>>

\* The end of test_input: if SymCC was killed the input is archived among the hangs
\* first.
Finish ==
  /\ pc = "tests" /\ tests = 0
  /\ \/ ~killed /\ state' = Processed(state) /\ pc' = "pick" /\ UNCHANGED copy
     \/ killed /\ BeginCopy(Copy("hangs", InputCopy)) /\ UNCHANGED state
  /\ UNCHANGED <<afl, sync, symccDir, dirs, partial, current_id, input, tests, killed, runs>>

\* copy_testcase up to the moment when fs::copy has created the file.  The input
\* needs an id and, if it is what is copied, must not have disappeared; the copy
\* may fail for other reasons, too.
CreateFile ==
  /\ pc = "create"
  /\ \/ /\ input \in WellNamed /\ (copy.dir = "hangs" => afl[input] = "there")
        /\ partial' = partial \cup {<<copy.dir, NextName(copy.dir)>>}
        /\ dirs' = Truncate(dirs, copy.dir)
        /\ pc' = "fill"
     \/ Exit /\ UNCHANGED <<partial, dirs>>
  /\ UNCHANGED <<afl, sync, symccDir, current_id, input, tests, killed, copy, state, runs>>

\* Mutant: a crashing test case is only filed as a crash.
MutantAfterCopyNext ==
  /\ tests' = IF copy.dir = "hangs" THEN tests ELSE tests - 1
  /\ state' = IF copy.dir = "hangs" THEN Processed(state) ELSE state
  /\ pc' = IF copy.dir = "hangs" THEN "pick" ELSE "tests"
  /\ copy' = NoCopy

\* What follows a copy: the second copy of a crash, the next test case, or the end
\* of test_input.
AfterCopy ==
  \/ /\ copy.dir = "crashes"
     /\ BeginCopy(Copy("queue", Crasher)) /\ UNCHANGED <<tests, state>>
  \/ /\ copy.dir = "queue"
     /\ tests' = tests - 1 /\ pc' = "tests" /\ copy' = NoCopy /\ UNCHANGED state
  \/ /\ copy.dir = "hangs"
     /\ state' = Processed(state) /\ pc' = "pick" /\ copy' = NoCopy /\ UNCHANGED tests

\* fs::copy fills the file and copy_testcase advances the id, or filling it fails
\* and the file stays as it is.
FillFile ==
  /\ pc = "fill"
  /\ \/ /\ partial' = partial \ {<<copy.dir, NextName(copy.dir)>>}
        /\ dirs' = Put(dirs, copy.dir, copy.content)
        /\ current_id' = Advance(current_id, copy.dir)
        /\ AfterCopy
     \/ Exit /\ UNCHANGED <<partial, dirs, current_id, tests, copy, state>>
  /\ UNCHANGED <<afl, sync, symccDir, input, killed, runs>>

-------------------------------------------------------------------------------
Init ==
  /\ afl = [f \in Files |-> "to come"]
  /\ sync = [next |-> 0, files |-> {}]
  /\ symccDir = FALSE /\ dirs = [d \in DirName |-> EmptyDir] /\ partial = {}
  /\ pc = "start" /\ input = NoInput /\ tests = 0 /\ killed = FALSE /\ copy = NoCopy
  /\ state = NewState /\ current_id = [d \in DirName |-> 0]
  /\ runs = [f \in Files |-> 0]

Helper == Pick \/ Run \/ ProcessTest \/ Finish \/ CreateFile \/ FillFile

Next ==
  \/ \E f \in Files : AflAdd(f) \/ AflRemove(f)
  \/ AflSync
  \/ Start \/ Restart \/ Wait \/ QueueUnreadable
  \/ Helper

\* The helper keeps running: SymCC is under timeout and afl-showmap has a time
\* limit of its own, so neither blocks it.
Fairness == WF_vars(Helper)

Spec == Init /\ [][Next]_vars /\ Fairness

-------------------------------------------------------------------------------
(* Properties *)

\* The helper runs, and is not in the middle of copying a file.
Settled == pc \in {"pick", "run", "tests"}

TypeOK ==
  /\ afl \in [Files -> {"to come", "there", "gone"}]
  /\ sync.next \in Nat /\ sync.files \subseteq Name \X (Content \cup {Partial})
  /\ symccDir \in BOOLEAN
  /\ \A d \in DirName : /\ DOMAIN dirs[d] \subseteq Name
                        /\ \A n \in DOMAIN dirs[d] : dirs[d][n] \in Content
  /\ partial \subseteq DirName \X Name
  /\ pc \in {"start", "pick", "run", "tests", "create", "fill", "stopped"}
  /\ input \in Files \cup {NoInput} /\ tests \in Nat /\ killed \in BOOLEAN
  /\ copy \in [dir : DirName, content : Content] \cup {NoCopy}
  /\ state \in [bitmap : (SUBSET Edges) \cup {NoMap}, processed : SUBSET Files,
                total : Nat, failed : Nat]
  /\ current_id \in [DirName -> Nat]
  /\ runs \in [Files -> Nat]

\* SymCC is run on a test case once, even over restarts: every file it is run on
\* ends in processed_files or takes the helper down with it, and a helper whose
\* directory exists refuses to start.
InputsRunOnce == \A f \in Files : runs[f] <= 1

\* The coverage maps of the test cases in the queue.
QueuedMaps == {n \in DOMAIN dirs["queue"] : dirs["queue"][n].kind = "covers"}

\* The queue accounts for all the coverage that the helper has recorded: between
\* two test cases, what current_bitmap calls known is reached by some test case the
\* fuzzer can import.
QueueWitnessesCoverage ==
  Settled => LET known == UNION {dirs["queue"][n].cov : n \in QueuedMaps}
             IN IF state.bitmap = NoMap THEN QueuedMaps = {}
                ELSE state.bitmap = known

\* Nothing is queued without reason: apart from crashes and the very first map,
\* each test case covers an edge that no test case before it does.
QueuedTestcasesAreNew ==
  \A n \in QueuedMaps :
    LET before == {m \in QueuedMaps : m.id < n.id}
    IN before = {} \/ ~(dirs["queue"][n].cov
                          \subseteq UNION {dirs["queue"][m].cov : m \in before})

\* The fuzzer, which only ever looks at ids above those it has seen, overlooks
\* no file of the queue: what it has not imported whole it has found half written.
NothingOverlooked ==
  \A n \in DOMAIN dirs["queue"] :
    n.id < sync.next => \/ <<n, dirs["queue"][n]>> \in sync.files
                        \/ <<n, Partial>> \in sync.files

\* No file that the helper has finished is ever overwritten or removed, not even
\* by another helper that is started later.
ResultsAreKept ==
  [][\A d \in DirName : \A n \in DOMAIN dirs[d] :
       n \in DOMAIN dirs'[d] /\ dirs'[d][n] = dirs[d][n]]_dirs

\* Between two test cases, each crash that is filed has been queued as well.
CrashesAreQueued ==
  Settled => Cardinality(DOMAIN dirs["crashes"])
             = Cardinality({n \in DOMAIN dirs["queue"] :
                              dirs["queue"][n].kind = "crash"})

\* Between two inputs the statistics count exactly the processed files, and as
\* many failed executions as there are files in the hangs directory.
StatsMatch ==
  pc = "pick" => /\ state.total + state.failed = Cardinality(state.processed)
                 /\ state.failed = Cardinality(DOMAIN dirs["hangs"])

\* An input that stays in the fuzzer's queue is processed in the end, unless an
\* error stops the helper.
InputsAreProcessed ==
  \A f \in Files :
    (pc = "pick" /\ afl[f] = "there")
      ~> (f \in state.processed \/ afl[f] = "gone" \/ pc = "stopped")
================================================================================
