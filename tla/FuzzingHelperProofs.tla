-------------------------- MODULE FuzzingHelperProofs --------------------------
(* Proofs about FuzzingHelper. *)
EXTENDS FuzzingHelper, FiniteSetTheorems, WellFoundedInduction, TLAPS

\* The helper is in its main loop; it has an input, on which SymCC has been run.
Running == pc \in {"pick", "run", "tests", "create", "fill"}
Handling == pc \in {"tests", "create", "fill"}

\* The part of the type invariant that the proofs need.
Typed ==
  /\ runs \in [Files -> Nat]
  /\ input \in Files \cup {NoInput}
  /\ pc = "run" \/ Handling => input \in Files
  /\ state \in [bitmap : (SUBSET Edges) \cup {NoMap}, processed : SUBSET Files,
                total : Nat, failed : Nat]

\* Why SymCC runs once per file, as an inductive invariant: between two inputs a file that has
\* been run is in processed_files, the file that is about to be run is not, and
\* without a directory nothing has been run.
RunsInv ==
  /\ InputsRunOnce
  /\ Running => symccDir
  /\ ~symccDir => \A f \in Files : runs[f] = 0
  /\ Running => \A f \in Files \ state.processed :
                  runs[f] = IF Handling /\ f = input THEN 1 ELSE 0
  /\ pc = "run" => input \notin state.processed

\* The two together are inductive.
HelperInv == Typed /\ RunsInv

LEMMA NewStateType ==
  /\ NewState \in [bitmap : (SUBSET Edges) \cup {NoMap}, processed : SUBSET Files,
                   total : Nat, failed : Nat]
  /\ NewState.processed = {}
  BY DEF NewState

\* A step of the fuzzer, or one that changes nothing the invariant is about.
LEMMA OthersPreserve ==
  ASSUME HelperInv, UNCHANGED <<symccDir, pc, input, state, runs>>
  PROVE  HelperInv'
  BY DEF HelperInv, Typed, RunsInv, InputsRunOnce, Running, Handling

LEMMA QueueUnreadablePreserves ==
  ASSUME HelperInv, QueueUnreadable
  PROVE  HelperInv'
<1>1. pc' = "stopped" /\ UNCHANGED <<symccDir, input, state, runs>>
  BY DEF QueueUnreadable, Exit
<1>2. Typed'
  BY <1>1 DEF HelperInv, Typed, Handling
<1> QED BY <1>1, <1>2 DEF HelperInv, RunsInv, InputsRunOnce, Running, Handling

LEMMA StartPreserves ==
  ASSUME HelperInv, Start
  PROVE  HelperInv'
<1>1. UNCHANGED <<input, runs>> /\ (state' = state \/ state' = NewState)
      /\ pc' \in {"stopped", "pick"} /\ (symccDir' = symccDir \/ symccDir' = TRUE)
  BY DEF Start, Exit
<1>2. Typed'
  BY <1>1, NewStateType DEF HelperInv, Typed, Handling
<1>3. CASE pc' = "stopped"
  BY <1>1, <1>2, <1>3 DEF HelperInv, RunsInv, InputsRunOnce, Running, Handling
<1>4. CASE pc' = "pick"
  <2>1. ~symccDir /\ symccDir' = TRUE /\ state' = NewState
    BY <1>4 DEF Start, Exit
  <2>2. \A f \in Files : runs'[f] = 0
    BY <1>1, <2>1 DEF HelperInv, RunsInv
  <2> QED BY <1>2, <1>4, <2>1, <2>2 DEF HelperInv, RunsInv, InputsRunOnce, Running, Handling
<1> QED BY <1>1, <1>3, <1>4

LEMMA RestartPreserves ==
  ASSUME HelperInv, Restart
  PROVE  HelperInv'
<1>1. pc' = "start" /\ state' = NewState /\ input' = NoInput /\ UNCHANGED <<symccDir, runs>>
  BY DEF Restart
<1>2. Typed'
  BY <1>1, NewStateType DEF HelperInv, Typed, Handling
<1> QED BY <1>1, <1>2 DEF HelperInv, RunsInv, InputsRunOnce, Running, Handling

\* The file that is picked has not been processed, so it has not been run.
LEMMA PickPreserves ==
  ASSUME HelperInv, Pick
  PROVE  HelperInv'
<1>1. /\ pc = "pick" /\ pc' = "run" /\ UNCHANGED <<symccDir, state, runs>>
      /\ input' \in Unseen
  BY DEF Pick
<1>2. input' \in Files /\ input' \notin state.processed
  BY <1>1 DEF Unseen
<1>3. Typed'
  BY <1>1, <1>2 DEF HelperInv, Typed, Handling
<1> QED BY <1>1, <1>2, <1>3 DEF HelperInv, RunsInv, InputsRunOnce, Running, Handling

LEMMA RunPreserves ==
  ASSUME HelperInv, Run
  PROVE  HelperInv'
<1>1. /\ pc = "run" /\ input' = input /\ state' = state /\ symccDir' = symccDir
      /\ pc' \in {"stopped", "tests"} /\ symccDir
      /\ \/ runs' = runs /\ pc' = "stopped"
         \/ runs' = [runs EXCEPT ![input] = @ + 1]
  BY DEF Run, Exit, HelperInv, RunsInv, Running, Handling
<1>2. input \in Files /\ runs \in [Files -> Nat] /\ input \notin state.processed
      /\ runs[input] = 0
  BY <1>1 DEF HelperInv, Typed, RunsInv, Running, Handling
<1>3. CASE runs' = runs /\ pc' = "stopped"
  BY <1>1, <1>3 DEF HelperInv, Typed, RunsInv, InputsRunOnce, Running, Handling
<1>4. CASE runs' = [runs EXCEPT ![input] = @ + 1]
  <2>1. runs'[input] = 1 /\ \A f \in Files \ {input} : runs'[f] = runs[f]
    BY <1>2, <1>4
  <2>2. Typed'
    BY <1>1, <1>2, <1>4 DEF HelperInv, Typed, Handling
  <2>3. InputsRunOnce'
    BY <2>1 DEF HelperInv, RunsInv, InputsRunOnce
  <2>4. Running' => \A f \in Files \ state.processed :
                      runs'[f] = IF Handling' /\ f = input' THEN 1 ELSE 0
    BY <1>1, <1>2, <2>1 DEF HelperInv, RunsInv, Running, Handling
  <2> QED BY <1>1, <2>2, <2>3, <2>4 DEF HelperInv, RunsInv, Running, Handling
<1> QED BY <1>1, <1>3, <1>4

\* Neither the test cases nor the copies touch what the invariant is about.
LEMMA ProcessTestPreserves ==
  ASSUME HelperInv, ProcessTest
  PROVE  HelperInv'
<1>1. pc = "tests" /\ UNCHANGED <<symccDir, input, runs>>
  BY DEF ProcessTest
<1>2. /\ pc' \in {"tests", "create", "stopped"}
      /\ \/ state' = state
         \/ \E cov \in SUBSET Edges : state' = [state EXCEPT !.bitmap = Merge(@, cov)]
  BY <1>1 DEF ProcessTest, ProcessCovers, ProcessHang, ProcessCrash, ShowmapFails, Exit,
              BeginCopy
<1>3. /\ state'.processed = state.processed
      /\ state' \in [bitmap : (SUBSET Edges) \cup {NoMap}, processed : SUBSET Files,
                     total : Nat, failed : Nat]
  <2>1. \A cov \in SUBSET Edges : Merge(state.bitmap, cov) \in SUBSET Edges
    BY DEF Merge, HelperInv, Typed
  <2> QED BY <1>2, <2>1 DEF HelperInv, Typed
<1>4. Typed'
  BY <1>1, <1>2, <1>3 DEF HelperInv, Typed, Handling
<1> QED BY <1>1, <1>2, <1>3, <1>4 DEF HelperInv, RunsInv, InputsRunOnce, Running, Handling

\* Only when the input has been handled is the file in processed_files.
LEMMA ProcessedPreserves ==
  ASSUME HelperInv, Handling, pc' = "pick", state' = Processed(state),
         UNCHANGED <<symccDir, input, runs>>
  PROVE  HelperInv'
<1>1. input \in Files
  BY DEF HelperInv, Typed
<1>2. state \in [bitmap : (SUBSET Edges) \cup {NoMap}, processed : SUBSET Files,
                total : Nat, failed : Nat]
  BY DEF HelperInv, Typed
<1>3. Processed(state).total \in Nat /\ Processed(state).failed \in Nat
  BY <1>2 DEF Processed
<1>4. /\ state'.processed = state.processed \cup {input}
      /\ state' \in [bitmap : (SUBSET Edges) \cup {NoMap}, processed : SUBSET Files,
                     total : Nat, failed : Nat]
  BY <1>1, <1>2, <1>3 DEF Processed
<1>5. Typed'
  BY <1>4 DEF HelperInv, Typed, Handling
<1> QED BY <1>4, <1>5 DEF HelperInv, RunsInv, InputsRunOnce, Running, Handling

\* A step within the handling of an input, or one that ends the helper.
LEMMA HandlingPreserves ==
  ASSUME HelperInv, Handling, Handling' \/ pc' = "stopped",
         UNCHANGED <<symccDir, input, runs, state>>
  PROVE  HelperInv'
<1>1. Typed'
  BY DEF HelperInv, Typed, Handling
<1> QED BY <1>1 DEF HelperInv, RunsInv, InputsRunOnce, Running, Handling

LEMMA FinishPreserves ==
  ASSUME HelperInv, Finish
  PROVE  HelperInv'
<1>1. /\ Handling /\ UNCHANGED <<symccDir, input, runs>>
      /\ \/ pc' = "pick" /\ state' = Processed(state)
         \/ pc' = "create" /\ state' = state
  BY DEF Finish, BeginCopy, Handling
<1> QED BY <1>1, ProcessedPreserves, HandlingPreserves DEF Handling

LEMMA CreateFilePreserves ==
  ASSUME HelperInv, CreateFile
  PROVE  HelperInv'
<1>1. Handling /\ (Handling' \/ pc' = "stopped") /\ UNCHANGED <<symccDir, input, runs, state>>
  BY DEF CreateFile, Exit, Handling
<1> QED BY <1>1, HandlingPreserves

LEMMA FillFilePreserves ==
  ASSUME HelperInv, FillFile
  PROVE  HelperInv'
<1>1. /\ Handling /\ UNCHANGED <<symccDir, input, runs>>
      /\ \/ pc' = "pick" /\ state' = Processed(state)
         \/ pc' \in {"create", "tests", "stopped"} /\ state' = state
  BY DEF FillFile, AfterCopy, BeginCopy, Exit, Handling
<1> QED BY <1>1, ProcessedPreserves, HandlingPreserves DEF Handling

\* The invariant holds in every state.
LEMMA HelperInvariance == Spec => []HelperInv
<1>1. Init => HelperInv
  <2> SUFFICES ASSUME Init PROVE HelperInv
    OBVIOUS
  <2>1. Typed
    BY NewStateType DEF Init, Typed, Handling
  <2>2. ~Running /\ pc # "run"
    BY DEF Init, Running
  <2>3. \A f \in Files : runs[f] = 0
    BY DEF Init
  <2> QED BY <2>1, <2>2, <2>3 DEF HelperInv, RunsInv, InputsRunOnce
<1>2. HelperInv /\ [Next]_vars => HelperInv'
  <2> SUFFICES ASSUME HelperInv, [Next]_vars PROVE HelperInv'
    OBVIOUS
  <2>1. CASE (\E f \in Files : AflAdd(f) \/ AflRemove(f)) \/ AflSync
    BY <2>1, OthersPreserve DEF AflAdd, AflRemove, AflSync
  <2>2. CASE Wait \/ UNCHANGED vars
    BY <2>2, OthersPreserve DEF Wait, vars
  <2>3. CASE Start \/ Restart \/ QueueUnreadable
    BY <2>3, StartPreserves, RestartPreserves, QueueUnreadablePreserves
  <2>4. CASE Helper
    BY <2>4, PickPreserves, RunPreserves, ProcessTestPreserves, FinishPreserves,
       CreateFilePreserves, FillFilePreserves DEF Helper
  <2> QED BY <2>1, <2>2, <2>3, <2>4 DEF Next
<1> QED BY <1>1, <1>2, PTL DEF Spec

\* SymCC is run at most once on a file, for every set of files and every
\* behaviour of the fuzzer, of SymCC and of afl-showmap, over any number of
\* restarts.
THEOREM RunOnce == Spec => []InputsRunOnce
<1>1. HelperInv => InputsRunOnce
  BY DEF HelperInv, RunsInv
<1> QED BY <1>1, HelperInvariance, PTL

-------------------------------------------------------------------------------
(* Largest elements: what Max means for a bounded set of natural numbers. *)

\* A set of natural numbers has a least element ...
LEMMA MinExists ==
  ASSUME NEW S \in SUBSET Nat, S # {}
  PROVE  \E x \in S : \A y \in S : x <= y
<1>1. PICK x \in S : \A y \in S : ~(<<y, x>> \in OpToRel(<, Nat))
  BY WFMin, NatLessThanWellFounded
<1>2. \A y \in S : ~(y < x)
  <2> SUFFICES ASSUME NEW y \in S, y < x PROVE FALSE
    OBVIOUS
  <2>1. <<y, x>> \in OpToRel(<, Nat)
    BY DEF OpToRel
  <2> QED BY <1>1, <2>1
<1> QED BY <1>2

\* ... and a bounded one a greatest.
LEMMA MaxExists ==
  ASSUME NEW S \in SUBSET Nat, S # {}, NEW b \in Nat, \A x \in S : x <= b
  PROVE  \E x \in S : \A y \in S : x >= y
<1> DEFINE D == {d \in Nat : \E x \in S : d + x = b}
<1>1. D \in SUBSET Nat
  OBVIOUS
<1>2. \A x \in S : x \in Nat /\ b - x \in Nat /\ (b - x) + x = b
  OBVIOUS
<1>3. D # {}
  BY <1>2
<1>4. PICK d \in D : \A e \in D : d <= e
  BY <1>1, <1>3, MinExists
<1>5. PICK x \in S : d + x = b
  OBVIOUS
<1>6. ASSUME NEW y \in S PROVE x >= y
  <2>1. b - y \in D
    BY <1>2
  <2>2. d <= b - y
    BY <1>4, <2>1
  <2> QED BY <1>2, <1>5, <2>2
<1> QED BY <1>6

LEMMA MaxIs ==
  ASSUME NEW S \in SUBSET Nat, S # {}, NEW b \in Nat, \A x \in S : x <= b
  PROVE  Max(S) \in S /\ \A y \in S : Max(S) >= y
BY MaxExists DEF Max

-------------------------------------------------------------------------------
(* The files that the helper writes. *)

\* A directory: finitely many names, each with a content.
IsDir(D) ==
  /\ D = [n \in DOMAIN D |-> D[n]]
  /\ DOMAIN D \subseteq Name /\ IsFiniteSet(DOMAIN D)
  /\ \A n \in DOMAIN D : D[n] \in Content

\* The names in a directory have ids below k.
Below(D, k) == \A n \in DOMAIN D : n.id < k

\* Directory E is D and a new file.
Added(D, E, name, content) ==
  /\ E = [n \in DOMAIN E |-> E[n]]
  /\ name \notin DOMAIN D /\ DOMAIN E = DOMAIN D \cup {name}
  /\ E[name] = content
  /\ \A n \in DOMAIN D : E[n] = D[n]

\* What the queue properties look at, for a directory.
Maps(D) == {n \in DOMAIN D : D[n].kind = "covers"}
Known(D) == UNION {D[n].cov : n \in Maps(D)}
Crashing(D) == {n \in DOMAIN D : D[n].kind = "crash"}
MapsAreNew(D) ==
  \A n \in Maps(D) :
    LET before == {m \in Maps(D) : m.id < n.id}
    IN before = {} \/ ~(D[n].cov \subseteq UNION {D[m].cov : m \in before})

\* A directory that has got a new file is a directory with one file more, and its
\* ids are still below the next free one.
LEMMA AddedIsDir ==
  ASSUME NEW D, NEW E, NEW name \in Name, NEW content \in Content,
         IsDir(D), Below(D, name.id), Added(D, E, name, content)
  PROVE  /\ IsDir(E) /\ Below(E, name.id + 1)
         /\ Cardinality(DOMAIN E) = Cardinality(DOMAIN D) + 1
<1>1. IsFiniteSet(DOMAIN E) /\ Cardinality(DOMAIN E) = Cardinality(DOMAIN D) + 1
  BY FS_AddElement DEF IsDir, Added
<1>2. DOMAIN E \subseteq Name
  BY DEF IsDir, Added
<1>3. \A n \in DOMAIN E : E[n] \in Content
  BY DEF IsDir, Added
<1>4. name.id \in Nat /\ \A n \in DOMAIN D : n.id \in Nat
  BY DEF IsDir, Name
<1>5. \A n \in DOMAIN E : n.id < name.id + 1
  BY <1>4 DEF Added, Below
<1>6. E = [n \in DOMAIN E |-> E[n]]
  BY DEF Added
<1> QED BY <1>1, <1>2, <1>3, <1>5, <1>6 DEF IsDir, Below

\* A new file with a coverage map adds its edges; it is justified if it is the
\* first or has an edge that the others lack.
LEMMA AddedMap ==
  ASSUME NEW D, NEW E, NEW name \in Name, NEW cov,
         IsDir(D), Below(D, name.id), Added(D, E, name, Covers(cov))
  PROVE  /\ Maps(E) = Maps(D) \cup {name}
         /\ Known(E) = Known(D) \cup cov
         /\ Crashing(E) = Crashing(D)
         /\ MapsAreNew(D) /\ (Maps(D) = {} \/ ~(cov \subseteq Known(D)))
              => MapsAreNew(E)
<1>1. E[name].kind = "covers" /\ E[name].cov = cov
  BY DEF Added, Covers
<1>2. Maps(E) = Maps(D) \cup {name}
  BY <1>1 DEF Added, Maps
<1>3. \A n \in Maps(D) : n \in DOMAIN D /\ E[n] = D[n] /\ n # name
  BY DEF Added, Maps
<1>4. Known(E) = Known(D) \cup cov
  BY <1>1, <1>2, <1>3 DEF Known
<1>5. Crashing(E) = Crashing(D)
  BY <1>1 DEF Added, Crashing
<1>6. ASSUME MapsAreNew(D), Maps(D) = {} \/ ~(cov \subseteq Known(D))
      PROVE  MapsAreNew(E)
  <2>1. \A n \in Maps(D) : n.id \in Nat /\ name.id \in Nat /\ n.id < name.id
    BY <1>3 DEF IsDir, Name, Below
  <2>2. {m \in Maps(E) : m.id < name.id} = Maps(D)
    <3>1. ~(name.id < name.id)
      BY DEF Name
    <3> QED BY <1>2, <2>1, <3>1
  <2>3. ASSUME NEW n \in Maps(D)
        PROVE  {m \in Maps(E) : m.id < n.id} = {m \in Maps(D) : m.id < n.id}
    <3>1. ~(name.id < n.id)
      BY <2>1
    <3> QED BY <1>2, <3>1
  <2>4. Maps(D) = {} \/ ~(E[name].cov \subseteq UNION {E[m].cov : m \in Maps(D)})
    <3>1. Known(D) = UNION {E[m].cov : m \in Maps(D)}
      BY <1>3 DEF Known
    <3> QED BY <1>1, <1>6, <3>1
  <2>5. ASSUME NEW n \in Maps(D), NEW before, before = {m \in Maps(D) : m.id < n.id}
        PROVE  before = {} \/ ~(E[n].cov \subseteq UNION {E[m].cov : m \in before})
    <3>1. before = {} \/ ~(D[n].cov \subseteq UNION {D[m].cov : m \in before})
      BY <1>6, <2>5 DEF MapsAreNew
    <3>2. \A m \in before : E[m] = D[m]
      BY <1>3, <2>5
    <3> QED BY <1>3, <3>1, <3>2
  <2> QED BY <1>2, <2>2, <2>3, <2>4, <2>5 DEF MapsAreNew
<1> QED BY <1>2, <1>4, <1>5, <1>6

\* A crash that is queued leaves the coverage alone.
LEMMA AddedCrash ==
  ASSUME NEW D, NEW E, NEW name \in Name,
         IsDir(D), Below(D, name.id), Added(D, E, name, Crasher)
  PROVE  /\ Maps(E) = Maps(D) /\ Known(E) = Known(D)
         /\ Cardinality(Crashing(E)) = Cardinality(Crashing(D)) + 1
         /\ MapsAreNew(D) => MapsAreNew(E)
<1>1. E[name].kind = "crash"
  BY DEF Added, Crasher
<1>2. Maps(E) = Maps(D)
  BY <1>1 DEF Added, Maps
<1>3. \A n \in Maps(D) : n \in DOMAIN D /\ E[n] = D[n]
  BY DEF Added, Maps
<1>4. Known(E) = Known(D)
  BY <1>2, <1>3 DEF Known
<1>5. Crashing(E) = Crashing(D) \cup {name} /\ name \notin Crashing(D)
  BY <1>1 DEF Added, Crashing
<1>6. IsFiniteSet(Crashing(D))
  BY FS_Subset DEF IsDir, Crashing
<1>7. Cardinality(Crashing(E)) = Cardinality(Crashing(D)) + 1
  BY <1>5, <1>6, FS_AddElement
<1>8. ASSUME MapsAreNew(D) PROVE MapsAreNew(E)
  <2> SUFFICES ASSUME NEW n \in Maps(E), NEW before,
                      before = {m \in Maps(E) : m.id < n.id}
               PROVE  before = {} \/ ~(E[n].cov \subseteq UNION {E[m].cov : m \in before})
    BY DEF MapsAreNew
  <2>1. before = {} \/ ~(D[n].cov \subseteq UNION {D[m].cov : m \in before})
    BY <1>2, <1>8 DEF MapsAreNew
  <2>2. E[n] = D[n] /\ \A m \in before : E[m] = D[m]
    BY <1>2, <1>3
  <2> QED BY <2>1, <2>2
<1> QED BY <1>2, <1>4, <1>7, <1>8

\* A name that copy_testcase uses is free.
LEMMA NextNameIsFree ==
  ASSUME NEW D, NEW dir \in DirName, current_id \in [DirName -> Nat], input \in Files,
         Below(D, current_id[dir])
  PROVE  /\ NextName(dir) \in Name /\ NextName(dir).id = current_id[dir]
         /\ NextName(dir) \notin DOMAIN D
<1>1. NextName(dir) \in Name /\ NextName(dir).id = current_id[dir]
  BY DEF NextName, Name
<1>2. ASSUME NextName(dir) \in DOMAIN D PROVE FALSE
  <2>1. current_id[dir] < current_id[dir]
    BY <1>1, <1>2 DEF Below
  <2> QED BY <2>1
<1> QED BY <1>1, <1>2

\* So creating the file truncates none ...
LEMMA TruncatesNothing ==
  ASSUME NEW d, d = [x \in DirName |-> d[x]], NEW dir \in DirName,
         current_id \in [DirName -> Nat], input \in Files, IsDir(d[dir]),
         Below(d[dir], current_id[dir])
  PROVE  Truncate(d, dir) = d
<1>1. NextName(dir) \notin DOMAIN d[dir]
  BY NextNameIsFree
<1>2. DOMAIN d[dir] \ {NextName(dir)} = DOMAIN d[dir]
  BY <1>1
<1>3. Restrict(d[dir], DOMAIN d[dir]) = d[dir]
  BY DEF Restrict, IsDir
<1> QED BY <1>2, <1>3 DEF Truncate

\* ... and filling it adds one file to one directory.
LEMMA PutAdds ==
  ASSUME NEW d, DOMAIN d = DirName, NEW dir \in DirName, NEW content,
         current_id \in [DirName -> Nat], input \in Files, IsDir(d[dir]),
         Below(d[dir], current_id[dir])
  PROVE  /\ Put(d, dir, content) = [x \in DirName |-> Put(d, dir, content)[x]]
         /\ \A x \in DirName \ {dir} : Put(d, dir, content)[x] = d[x]
         /\ NextName(dir) \in Name /\ NextName(dir).id = current_id[dir]
         /\ Added(d[dir], Put(d, dir, content)[dir], NextName(dir), content)
<1>1. NextName(dir) \in Name /\ NextName(dir).id = current_id[dir]
      /\ NextName(dir) \notin DOMAIN d[dir]
  BY NextNameIsFree
<1> DEFINE E == [n \in DOMAIN d[dir] \cup {NextName(dir)} |->
                   IF n = NextName(dir) THEN content ELSE d[dir][n]]
<1>2. Put(d, dir, content) = [d EXCEPT ![dir] = E]
  BY DEF Put
<1>3. Added(d[dir], E, NextName(dir), content)
  BY <1>1 DEF Added
<1> HIDE DEF E
<1>4. Put(d, dir, content)[dir] = E /\ DOMAIN Put(d, dir, content) = DirName
      /\ \A x \in DirName \ {dir} : Put(d, dir, content)[x] = d[x]
  BY <1>2
<1>5. Put(d, dir, content) = [x \in DirName |-> Put(d, dir, content)[x]]
  BY <1>2
<1> QED BY <1>1, <1>3, <1>4, <1>5

-------------------------------------------------------------------------------
(* The invariant of the files. *)

\* Types: what TypeOK says beyond Typed, with the directories as finite functions.
FilesTyped ==
  /\ afl \in [Files -> {"to come", "there", "gone"}]
  /\ sync.next \in Nat /\ sync.files \subseteq Name \X (Content \cup {Partial})
  /\ symccDir \in BOOLEAN
  /\ dirs = [d \in DirName |-> dirs[d]] /\ \A d \in DirName : IsDir(dirs[d])
  /\ partial \subseteq DirName \X Name
  /\ pc \in {"start", "pick", "run", "tests", "create", "fill", "stopped"}
  /\ tests \in Nat /\ killed \in BOOLEAN
  /\ copy \in [dir : DirName, content : Content] \cup {NoCopy}
  /\ current_id \in [DirName -> Nat]

\* The names of the files of the queue that have been created and not filled.
Half == {n \in Name : <<"queue", n>> \in partial}

\* What is on disk, whether or not a helper runs.
DiskInv ==
  /\ \E b \in Nat : Below(dirs["queue"], b) /\ \A n \in Half : n.id < b
  /\ ~symccDir => /\ sync.next = 0 /\ partial = {}
                  /\ \A d \in DirName : DOMAIN dirs[d] = {}
  /\ NothingOverlooked
  /\ \A n \in Half : n.id < sync.next => <<n, Partial>> \in sync.files
  /\ MapsAreNew(dirs["queue"])

\* The bitmap is the coverage of the queue; the queue lacks k of the crashes.
BitmapIsKnown == IF state.bitmap = NoMap THEN Maps(dirs["queue"]) = {}
                 ELSE state.bitmap = Known(dirs["queue"])
CrashesLack(k) ==
  Cardinality(DOMAIN dirs["crashes"]) = Cardinality(Crashing(dirs["queue"])) + k

\* The copies that copy_testcase makes, with what holds until each is complete: the
\* bitmap is ahead of the queue, or the crashes are.
CopyInv ==
  \/ copy = Copy("hangs", InputCopy) /\ BitmapIsKnown /\ CrashesLack(0) /\ killed
  \/ copy = Copy("crashes", Crasher) /\ BitmapIsKnown /\ CrashesLack(0) /\ tests > 0
  \/ copy = Copy("queue", Crasher) /\ BitmapIsKnown /\ CrashesLack(1) /\ tests > 0
  \/ \E cov \in SUBSET Edges :
       /\ copy = Copy("queue", Covers(cov)) /\ CrashesLack(0) /\ tests > 0
       /\ Maps(dirs["queue"]) = {} \/ ~(cov \subseteq Known(dirs["queue"]))
       /\ state.bitmap # NoMap /\ state.bitmap = Known(dirs["queue"]) \cup cov

\* The ids in use, for the running helper: those it will use are free and, but for
\* the file it is filling, above what the fuzzer has seen.
IdsInv ==
  /\ \A d \in DirName : Below(dirs[d], current_id[d])
  /\ partial = IF pc = "fill" THEN {<<copy.dir, NextName(copy.dir)>>} ELSE {}
  /\ sync.next <= IF pc = "fill" /\ copy.dir = "queue" THEN current_id["queue"] + 1
                  ELSE current_id["queue"]

\* The statistics count the processed files, of which the current one is none.
StatsInv ==
  /\ state.total + state.failed = Cardinality(state.processed)
  /\ state.failed = Cardinality(DOMAIN dirs["hangs"])
  /\ pc = "run" \/ Handling => input \notin state.processed

LoopInv ==
  Running => /\ IdsInv /\ StatsInv
             /\ IF pc \in {"create", "fill"} THEN CopyInv
                ELSE BitmapIsKnown /\ CrashesLack(0)

FilesInv == FilesTyped /\ DiskInv /\ LoopInv

\* A step that writes no file and, unless it ends the helper, keeps its memory.
LEMMA QuietKeeps ==
  ASSUME FilesInv, FilesTyped', UNCHANGED <<sync, symccDir, dirs, partial>>,
         \/ ~Running'
         \/ /\ Settled /\ Settled' /\ UNCHANGED <<state, current_id>>
            /\ pc' \in {"run", "tests"} => input' \notin state.processed
  PROVE  FilesInv'
<1>1. DiskInv'
  BY DEF FilesInv, DiskInv, NothingOverlooked, Half
<1>2. CASE ~Running'
  BY <1>1, <1>2 DEF FilesInv, LoopInv
<1>3. CASE /\ Settled /\ Settled' /\ UNCHANGED <<state, current_id>>
           /\ pc' \in {"run", "tests"} => input' \notin state.processed
  <2>1. IdsInv' /\ StatsInv'
    BY <1>3 DEF FilesInv, LoopInv, IdsInv, StatsInv, Settled, Running, Handling
  <2>2. BitmapIsKnown' /\ CrashesLack(0)'
    BY <1>3 DEF FilesInv, LoopInv, BitmapIsKnown, CrashesLack, Settled, Running
  <2> QED BY <1>1, <1>3, <2>1, <2>2 DEF FilesInv, LoopInv, Settled
<1> QED BY <1>2, <1>3

LEMMA AflKeeps ==
  ASSUME FilesInv, NEW f \in Files, AflAdd(f) \/ AflRemove(f)
  PROVE  FilesInv'
<1>1. FilesTyped'
  BY DEF FilesInv, FilesTyped, AflAdd, AflRemove
<1>2. UNCHANGED <<sync, symccDir, dirs, partial, pc, input, tests, killed, copy, state,
                  current_id>>
  BY DEF AflAdd, AflRemove
<1>3. DiskInv' /\ LoopInv'
  BY <1>2 DEF FilesInv, DiskInv, NothingOverlooked, Half, LoopInv, IdsInv, StatsInv, CopyInv,
              BitmapIsKnown, CrashesLack, NextName, Running, Handling
<1> QED BY <1>1, <1>3 DEF FilesInv

\* The fuzzer goes past the largest id in the queue, which is below the next free
\* one or that of the file that is being filled, and has seen everything up to there.
LEMMA AflSyncKeeps ==
  ASSUME FilesInv, AflSync
  PROVE  FilesInv'
<1> DEFINE q == dirs["queue"]
           whole == {n \in DOMAIN q : n.id >= sync.next}
           half == {x[2] : x \in {y \in partial : y[1] = "queue" /\ y[2].id >= sync.next}}
           ids == {n.id : n \in whole \cup half}
<1>1. /\ whole \cup half # {}
      /\ sync'.next = Max(ids) + 1
      /\ sync'.files = sync.files \cup {<<n, q[n]>> : n \in whole}
                                  \cup {<<n, Partial>> : n \in half}
      /\ UNCHANGED <<afl, symccDir, dirs, partial, pc, input, tests, killed, copy, state,
                     current_id, runs>>
  BY DEF AflSync
<1>2. /\ IsDir(q) /\ sync.next \in Nat /\ sync.files \subseteq Name \X (Content \cup {Partial})
      /\ partial \subseteq DirName \X Name
  BY DEF FilesInv, FilesTyped, DirName
<1>3. \A n \in DOMAIN q : n \in Name /\ n.id \in Nat /\ q[n] \in Content
  BY <1>2 DEF IsDir, Name
<1>4. half = {n \in Half : n.id >= sync.next}
  BY <1>2 DEF Half
<1>5. \A n \in Half : n \in Name /\ n.id \in Nat
  BY DEF Half, Name
<1> HIDE DEF half
<1>6. ids \in SUBSET Nat /\ ids # {}
  BY <1>1, <1>3, <1>4, <1>5
<1>7. PICK b \in Nat : Below(q, b) /\ \A n \in Half : n.id < b
  BY DEF FilesInv, DiskInv
<1>8. \A x \in ids : x <= b
  BY <1>3, <1>4, <1>5, <1>7 DEF Below
<1>9. Max(ids) \in ids /\ \A y \in ids : Max(ids) >= y
  BY <1>6, <1>7, <1>8, MaxIs
<1>10. Max(ids) \in Nat
  BY <1>6, <1>9
<1>11. FilesTyped'
  <2>1. sync'.next \in Nat
    BY <1>1, <1>10
  <2>2. sync'.files \subseteq Name \X (Content \cup {Partial})
    BY <1>1, <1>2, <1>3, <1>4, <1>5
  <2> QED BY <1>1, <2>1, <2>2 DEF FilesInv, FilesTyped
<1>12. NothingOverlooked'
  <2> SUFFICES ASSUME NEW n \in DOMAIN q
               PROVE  <<n, q[n]>> \in sync'.files \/ <<n, Partial>> \in sync'.files
    BY <1>1 DEF NothingOverlooked
  <2>1. CASE n.id < sync.next
    BY <1>1, <2>1 DEF FilesInv, DiskInv, NothingOverlooked
  <2>2. CASE ~(n.id < sync.next)
    <3>1. n \in whole
      BY <1>2, <1>3, <2>2
    <3> QED BY <1>1, <3>1
  <2> QED BY <2>1, <2>2
<1>13. ASSUME NEW n \in Half PROVE <<n, Partial>> \in sync'.files
  <2>1. CASE n.id < sync.next
    BY <1>1, <2>1 DEF FilesInv, DiskInv
  <2>2. CASE ~(n.id < sync.next)
    <3>1. n \in half
      BY <1>2, <1>4, <1>5, <2>2
    <3> QED BY <1>1, <3>1
  <2> QED BY <2>1, <2>2
<1>14. symccDir
  <2>1. DOMAIN q # {} \/ partial # {}
    BY <1>1, <1>4 DEF Half
  <2> QED BY <2>1 DEF FilesInv, DiskInv, DirName
<1>15. Half' = Half
  BY <1>1 DEF Half
<1>16. DiskInv'
  BY <1>1, <1>12, <1>13, <1>14, <1>15 DEF FilesInv, DiskInv
<1>17. ASSUME Running
       PROVE  Max(ids) + 1 <= IF pc = "fill" /\ copy.dir = "queue"
                              THEN current_id["queue"] + 1 ELSE current_id["queue"]
  <2>1. PICK n \in whole \cup half : Max(ids) = n.id
    BY <1>9
  <2>2. current_id["queue"] \in Nat /\ n.id \in Nat
    BY <1>3, <1>4, <1>5 DEF FilesInv, FilesTyped, DirName
  <2>3. CASE n \in whole
    <3>1. n.id < current_id["queue"]
      BY <1>17, <2>3 DEF FilesInv, LoopInv, IdsInv, Below, DirName
    <3> QED BY <2>1, <2>2, <3>1
  <2>4. CASE n \in half
    <3>1. <<"queue", n>> \in partial
      BY <1>4, <2>4 DEF Half
    <3>2. pc = "fill" /\ copy.dir = "queue" /\ n = NextName(copy.dir)
      BY <1>17, <3>1 DEF FilesInv, LoopInv, IdsInv
    <3>3. n.id = current_id["queue"]
      BY <3>2 DEF NextName
    <3> QED BY <2>1, <2>2, <3>2, <3>3
  <2> QED BY <2>3, <2>4
<1>18. LoopInv'
  BY <1>1, <1>17 DEF FilesInv, LoopInv, IdsInv, StatsInv, CopyInv, BitmapIsKnown, CrashesLack,
                     NextName, Running, Handling
<1> QED BY <1>11, <1>16, <1>18 DEF FilesInv

\* The helper starts only where there is no directory, with empty ones.
LEMMA StartKeeps ==
  ASSUME FilesInv, Start
  PROVE  FilesInv'
<1>1. UNCHANGED <<afl, sync, partial, input, tests, killed, copy>>
      /\ pc' \in {"pick", "stopped"}
  BY DEF Start, Exit
<1>2. CASE pc' = "stopped" /\ UNCHANGED <<symccDir, dirs, state, current_id>>
  <2>1. FilesTyped'
    BY <1>1, <1>2 DEF FilesInv, FilesTyped
  <2> QED BY <1>1, <1>2, <2>1, QuietKeeps DEF Running
<1>3. CASE /\ ~symccDir /\ symccDir' = TRUE
           /\ dirs' = [d \in DirName |-> EmptyDir]
           /\ state' = NewState /\ current_id' = [d \in DirName |-> 0]
  <2>1. /\ dirs' = [d \in DirName |-> dirs'[d]]
        /\ \A d \in DirName : DOMAIN dirs'[d] = {} /\ current_id'[d] = 0
    BY <1>3 DEF EmptyDir
  <2>2. \A d \in DirName : IsDir(dirs'[d])
    <3>1. IsDir(EmptyDir)
      BY FS_EmptySet DEF IsDir, EmptyDir
    <3> QED BY <1>3, <3>1
  <2>3. FilesTyped'
    BY <1>1, <1>3, <2>1, <2>2 DEF FilesInv, FilesTyped
  <2>4. sync.next = 0 /\ partial = {}
    BY <1>3 DEF FilesInv, DiskInv
  <2>5. DOMAIN dirs'["queue"] = {} /\ DOMAIN dirs'["hangs"] = {}
        /\ DOMAIN dirs'["crashes"] = {} /\ current_id'["queue"] = 0
    BY <2>1 DEF DirName
  <2>6. Maps(dirs'["queue"]) = {} /\ Crashing(dirs'["queue"]) = {}
    BY <2>5 DEF Maps, Crashing
  <2>7. DiskInv'
    BY <1>1, <1>3, <2>4, <2>5, <2>6 DEF DiskInv, NothingOverlooked, MapsAreNew, Below, Half
  <2>8. Cardinality({}) = 0
    BY FS_EmptySet
  <2>9. state'.bitmap = NoMap /\ state'.processed = {} /\ state'.total = 0
        /\ state'.failed = 0
    BY <1>3 DEF NewState
  <2>10. IdsInv'
    BY <1>1, <2>1, <2>4, <2>5 DEF IdsInv, Below
  <2>11. StatsInv'
    BY <1>1, <2>5, <2>8, <2>9 DEF StatsInv, Handling
  <2>12. BitmapIsKnown' /\ CrashesLack(0)'
    BY <2>5, <2>6, <2>8, <2>9 DEF BitmapIsKnown, CrashesLack
  <2>13. LoopInv'
    BY <1>1, <2>10, <2>11, <2>12 DEF LoopInv
  <2> QED BY <2>3, <2>7, <2>13 DEF FilesInv
<1> QED BY <1>2, <1>3 DEF Start, Exit

LEMMA RestartKeeps ==
  ASSUME FilesInv, Restart
  PROVE  FilesInv'
<1>1. pc' = "start" /\ UNCHANGED <<sync, symccDir, dirs, partial>>
  BY DEF Restart
<1>2. FilesTyped'
  BY DEF FilesInv, FilesTyped, Restart
<1> QED BY <1>1, <1>2, QuietKeeps DEF Running

LEMMA PickKeeps ==
  ASSUME FilesInv, Pick
  PROVE  FilesInv'
<1>1. /\ pc = "pick" /\ pc' = "run"
      /\ UNCHANGED <<afl, sync, symccDir, dirs, partial, tests, killed, copy, state,
                     current_id>>
      /\ input' \in Unseen
  BY DEF Pick
<1>2. input' \notin state.processed
  BY <1>1 DEF Unseen
<1>3. FilesTyped'
  BY <1>1 DEF FilesInv, FilesTyped
<1> QED BY <1>1, <1>2, <1>3, QuietKeeps DEF Settled

LEMMA QueueUnreadableKeeps ==
  ASSUME FilesInv, QueueUnreadable
  PROVE  FilesInv'
<1>1. pc' = "stopped"
      /\ UNCHANGED <<afl, sync, symccDir, dirs, partial, tests, killed, copy, current_id>>
  BY DEF QueueUnreadable, Exit
<1>2. FilesTyped'
  BY <1>1 DEF FilesInv, FilesTyped
<1> QED BY <1>1, <1>2, QuietKeeps DEF Running

LEMMA RunKeeps ==
  ASSUME HelperInv, FilesInv, Run
  PROVE  FilesInv'
<1>1. /\ pc = "run" /\ pc' \in {"tests", "stopped"}
      /\ UNCHANGED <<afl, sync, symccDir, dirs, partial, input, copy, state, current_id>>
  BY DEF Run, Exit
<1>2. input \in Files /\ MaxTests[input] \in Nat
  BY <1>1, HelperAssumption DEF HelperInv, Typed
<1>3. tests' \in Nat /\ killed' \in BOOLEAN
  <2>1. CASE UNCHANGED <<tests, killed>>
    BY <2>1 DEF FilesInv, FilesTyped
  <2>2. CASE tests' \in 0..MaxTests[input] /\ killed' \in BOOLEAN
    BY <1>2, <2>2
  <2> QED BY <2>1, <2>2 DEF Run
<1>4. FilesTyped'
  BY <1>1, <1>3 DEF FilesInv, FilesTyped
<1>5. input \notin state.processed
  BY <1>1 DEF FilesInv, LoopInv, StatsInv, Running
<1> QED BY <1>1, <1>4, <1>5, QuietKeeps DEF Running, Settled

\* The facts about a helper that handles an input.
LEMMA InHandling ==
  ASSUME HelperInv, FilesInv, Handling
  PROVE  /\ Running /\ symccDir /\ input \in Files /\ input \notin state.processed
         /\ current_id \in [DirName -> Nat] /\ dirs = [d \in DirName |-> dirs[d]]
         /\ \A d \in DirName : IsDir(dirs[d]) /\ Below(dirs[d], current_id[d])
         /\ state \in [bitmap : (SUBSET Edges) \cup {NoMap},
                       processed : SUBSET Files, total : Nat, failed : Nat]
         /\ IdsInv /\ StatsInv
<1>1. Running
  BY DEF Running, Handling
<1> QED BY <1>1 DEF HelperInv, Typed, RunsInv, FilesInv, FilesTyped, LoopInv, IdsInv, StatsInv

\* What the coverage of the queue and the bitmap become.
LEMMA MergeMatches ==
  ASSUME NEW D, NEW bitmap \in (SUBSET Edges) \cup {NoMap}, NEW cov \in SUBSET Edges,
         IF bitmap = NoMap THEN Maps(D) = {} ELSE bitmap = Known(D)
  PROVE  /\ Merge(bitmap, cov) \in SUBSET Edges /\ Merge(bitmap, cov) # NoMap
         /\ ~Interesting(bitmap, cov) => Merge(bitmap, cov) = bitmap
         /\ Interesting(bitmap, cov)
              => /\ Maps(D) = {} \/ ~(cov \subseteq Known(D))
                 /\ Merge(bitmap, cov) = Known(D) \cup cov
<1>1. NoMap \notin SUBSET Edges
  BY HelperAssumption DEF NoMap
<1>2. CASE bitmap = NoMap
  <2>1. Known(D) = {}
    BY <1>2 DEF Known
  <2> QED BY <1>1, <1>2, <2>1 DEF Merge, Interesting
<1>3. CASE bitmap # NoMap
  BY <1>1, <1>3 DEF Merge, Interesting
<1> QED BY <1>2, <1>3

\* A step that begins a copy, or goes on to the next test case, without one.
LEMMA BetweenKeeps ==
  ASSUME HelperInv, FilesInv, pc = "tests",
         UNCHANGED <<afl, sync, symccDir, dirs, partial, input, killed, current_id, runs>>,
         state'.processed = state.processed, state'.total = state.total,
         state'.failed = state.failed, tests' \in Nat,
         copy' \in [dir : DirName, content : Content] \cup {NoCopy},
         \/ pc' = "tests" /\ (BitmapIsKnown /\ CrashesLack(0))'
         \/ pc' = "create" /\ CopyInv'
  PROVE  FilesInv'
<1>1. IdsInv /\ StatsInv /\ Handling
  BY InHandling DEF Handling
<1>2. FilesTyped'
  BY DEF FilesInv, FilesTyped
<1>3. DiskInv'
  BY DEF FilesInv, DiskInv, NothingOverlooked, Half
<1>4. IdsInv'
  BY <1>1 DEF IdsInv
<1>5. StatsInv'
  BY <1>1 DEF StatsInv, Handling
<1> QED BY <1>2, <1>3, <1>4, <1>5 DEF FilesInv, LoopInv

\* The bitmap is merged before the copy; until the file is complete it is ahead.
LEMMA CoversKeeps ==
  ASSUME HelperInv, FilesInv, pc = "tests", tests > 0, NEW cov \in SUBSET Edges,
         ProcessCovers(cov),
         UNCHANGED <<afl, sync, symccDir, dirs, partial, input, killed, current_id, runs>>
  PROVE  FilesInv'
<1> DEFINE q == dirs["queue"]
           bitmap == Merge(state.bitmap, cov)
<1>1. /\ state \in [bitmap : (SUBSET Edges) \cup {NoMap},
                    processed : SUBSET Files, total : Nat, failed : Nat]
      /\ BitmapIsKnown /\ CrashesLack(0)
  BY InHandling DEF Handling, FilesInv, LoopInv
<1>2. /\ state'.bitmap = bitmap /\ state'.processed = state.processed
      /\ state'.total = state.total /\ state'.failed = state.failed
  <2>1. state' = [state EXCEPT !.bitmap = bitmap]
    BY DEF ProcessCovers
  <2> HIDE DEF bitmap
  <2> QED BY <1>1, <2>1
<1>3. tests \in Nat /\ tests - 1 \in Nat
      /\ copy \in [dir : DirName, content : Content] \cup {NoCopy}
  <2>1. tests \in Nat /\ copy \in [dir : DirName, content : Content] \cup {NoCopy}
    BY DEF FilesInv, FilesTyped
  <2> QED BY <2>1
<1>4. /\ bitmap \in SUBSET Edges /\ bitmap # NoMap
      /\ ~Interesting(state.bitmap, cov) => bitmap = state.bitmap
      /\ Interesting(state.bitmap, cov)
           => /\ Maps(q) = {} \/ ~(cov \subseteq Known(q))
              /\ bitmap = Known(q) \cup cov
  BY <1>1, MergeMatches DEF BitmapIsKnown
<1>5. CrashesLack(0)'
  BY <1>1 DEF CrashesLack
<1>6. CASE ~Interesting(state.bitmap, cov) /\ tests' = tests - 1 /\ UNCHANGED <<pc, copy>>
  <2>1. BitmapIsKnown'
    BY <1>1, <1>2, <1>4, <1>6 DEF BitmapIsKnown
  <2> QED BY <1>2, <1>3, <1>5, <1>6, <2>1, BetweenKeeps
<1>7. CASE /\ Interesting(state.bitmap, cov) /\ pc' = "create"
           /\ copy' = Copy("queue", Covers(cov)) /\ UNCHANGED tests
  <2>1. copy' \in [dir : DirName, content : Content]
    BY <1>7 DEF DirName, Copy, Covers, Content
  <2>2. CopyInv'
    BY <1>2, <1>4, <1>5, <1>7 DEF CopyInv
  <2> QED BY <1>2, <1>3, <1>7, <2>1, <2>2, BetweenKeeps
<1> QED BY <1>6, <1>7 DEF ProcessCovers, BeginCopy

LEMMA ProcessTestKeeps ==
  ASSUME HelperInv, FilesInv, ProcessTest
  PROVE  FilesInv'
<1>1. /\ pc = "tests" /\ tests > 0 /\ tests \in Nat /\ tests - 1 \in Nat
      /\ UNCHANGED <<afl, sync, symccDir, dirs, partial, input, killed, current_id, runs>>
      /\ copy \in [dir : DirName, content : Content] \cup {NoCopy}
  <2>1. tests \in Nat /\ copy \in [dir : DirName, content : Content] \cup {NoCopy}
    BY DEF FilesInv, FilesTyped
  <2>2. pc = "tests" /\ tests > 0
        /\ UNCHANGED <<afl, sync, symccDir, dirs, partial, input, killed, current_id, runs>>
    BY DEF ProcessTest
  <2>3. tests - 1 \in Nat
    BY <2>1, <2>2
  <2> QED BY <2>1, <2>2, <2>3
<1>2. BitmapIsKnown /\ CrashesLack(0)
  BY <1>1 DEF FilesInv, LoopInv, Running
<1>3. ASSUME state' = state PROVE (BitmapIsKnown /\ CrashesLack(0))'
  BY <1>1, <1>2, <1>3 DEF BitmapIsKnown, CrashesLack
<1>4. CASE \E cov \in SUBSET Edges : ProcessCovers(cov)
  BY <1>1, <1>4, CoversKeeps
<1>5. CASE ProcessHang
  BY <1>1, <1>3, <1>5, BetweenKeeps DEF ProcessHang
<1>6. CASE ProcessCrash
  <2>1. /\ pc' = "create" /\ copy' = Copy("crashes", Crasher)
        /\ copy' \in [dir : DirName, content : Content] /\ UNCHANGED <<tests, state>>
    BY <1>6 DEF ProcessCrash, BeginCopy, DirName, Copy, Crasher, Content
  <2>2. CopyInv'
    BY <1>1, <1>3, <2>1 DEF CopyInv
  <2> QED BY <1>1, <2>1, <2>2, BetweenKeeps
<1>7. CASE ShowmapFails
  <2>1. FilesTyped'
    BY <1>1, <1>7 DEF FilesInv, FilesTyped, ShowmapFails, Exit
  <2> QED BY <1>1, <1>7, <2>1, QuietKeeps DEF ShowmapFails, Exit, Running
<1> QED BY <1>4, <1>5, <1>6, <1>7 DEF ProcessTest

\* The statistics after Stats::add_execution count one file more.
LEMMA ProcessedCounts ==
  ASSUME HelperInv, FilesInv, Handling
  PROVE  /\ Processed(state).bitmap = state.bitmap
         /\ Processed(state).total + Processed(state).failed
              = Cardinality(Processed(state).processed)
         /\ Processed(state).failed = IF killed THEN state.failed + 1 ELSE state.failed
<1>1. /\ input \in Files /\ input \notin state.processed
      /\ state.processed \in SUBSET Files /\ state.total \in Nat /\ state.failed \in Nat
      /\ state.total + state.failed = Cardinality(state.processed)
  BY InHandling DEF StatsInv
<1>2. IsFiniteSet(state.processed)
  BY <1>1, HelperAssumption, FS_Subset
<1>3. Cardinality(state.processed \cup {input}) = Cardinality(state.processed) + 1
  BY <1>1, <1>2, FS_AddElement
<1>4. CASE killed
  BY <1>1, <1>3, <1>4 DEF Processed
<1>5. CASE ~killed
  BY <1>1, <1>3, <1>5 DEF Processed
<1> QED BY <1>4, <1>5

LEMMA FinishKeeps ==
  ASSUME HelperInv, FilesInv, Finish
  PROVE  FilesInv'
<1>1. /\ pc = "tests" /\ Handling
      /\ UNCHANGED <<afl, sync, symccDir, dirs, partial, current_id, input, tests, killed,
                     runs>>
  BY DEF Finish, Handling
<1>2. IdsInv /\ StatsInv /\ BitmapIsKnown /\ CrashesLack(0)
  BY <1>1, InHandling DEF FilesInv, LoopInv
<1>3. CrashesLack(0)'
  BY <1>1, <1>2 DEF CrashesLack
<1>4. CASE ~killed /\ state' = Processed(state) /\ pc' = "pick" /\ UNCHANGED copy
  <2>1. FilesTyped'
    BY <1>1, <1>4 DEF FilesInv, FilesTyped
  <2>2. DiskInv'
    BY <1>1, <1>4 DEF FilesInv, DiskInv, NothingOverlooked, Half
  <2>3. IdsInv'
    BY <1>1, <1>2, <1>4 DEF IdsInv
  <2>4. StatsInv' /\ BitmapIsKnown'
    BY <1>1, <1>2, <1>4, ProcessedCounts DEF StatsInv, BitmapIsKnown, Handling
  <2> QED BY <1>3, <1>4, <2>1, <2>2, <2>3, <2>4 DEF FilesInv, LoopInv
<1>5. CASE killed /\ BeginCopy(Copy("hangs", InputCopy)) /\ UNCHANGED state
  <2>1. copy' = Copy("hangs", InputCopy) /\ pc' = "create"
        /\ copy' \in [dir : DirName, content : Content] /\ tests \in Nat
    BY <1>5 DEF BeginCopy, DirName, Copy, InputCopy, Content, FilesInv, FilesTyped
  <2>2. BitmapIsKnown'
    BY <1>1, <1>2, <1>5 DEF BitmapIsKnown
  <2>3. CopyInv'
    BY <1>1, <1>3, <1>5, <2>1, <2>2 DEF CopyInv
  <2> QED BY <1>1, <1>5, <2>1, <2>3, BetweenKeeps
<1> QED BY <1>4, <1>5 DEF Finish

\* The copy in progress, one of four.
LEMMA CopyHasType ==
  ASSUME CopyInv
  PROVE  copy.dir \in DirName /\ copy.content \in Content
         /\ copy = Copy(copy.dir, copy.content)
BY DEF CopyInv, Copy, DirName, InputCopy, Crasher, Covers, Content

\* Creating the file removes none and, in the queue, uses an id that the fuzzer
\* still accepts.
LEMMA CreateFileKeeps ==
  ASSUME HelperInv, FilesInv, CreateFile
  PROVE  FilesInv'
<1>1. /\ pc = "create" /\ Handling
      /\ UNCHANGED <<afl, sync, symccDir, current_id, input, tests, killed, copy, state, runs>>
  BY DEF CreateFile, Handling
<1>2. /\ symccDir /\ input \in Files /\ Running
      /\ current_id \in [DirName -> Nat] /\ dirs = [d \in DirName |-> dirs[d]]
      /\ \A d \in DirName : IsDir(dirs[d]) /\ Below(dirs[d], current_id[d])
      /\ IdsInv /\ StatsInv
  BY <1>1, InHandling
<1>3. CopyInv
  BY <1>1, <1>2 DEF FilesInv, LoopInv
<1>4. copy.dir \in DirName /\ "queue" \in DirName
  BY <1>3, CopyHasType DEF DirName
<1> DEFINE name == NextName(copy.dir)
<1>5. CASE /\ partial' = partial \cup {<<copy.dir, name>>}
           /\ dirs' = Truncate(dirs, copy.dir) /\ pc' = "fill"
  <2>1. dirs' = dirs
    BY <1>2, <1>4, <1>5, TruncatesNothing
  <2>2. name \in Name /\ name.id = current_id[copy.dir] /\ name' = name
    BY <1>1, <1>2, <1>4, NextNameIsFree DEF NextName
  <2> HIDE DEF name
  <2>3. partial' = {<<copy.dir, name>>}
    BY <1>1, <1>2, <1>5 DEF IdsInv
  <2>4. FilesTyped'
    <3>1. partial' \subseteq DirName \X Name
      BY <1>4, <2>2, <2>3
    <3> QED BY <1>1, <1>5, <2>1, <3>1 DEF FilesInv, FilesTyped
  <2>5. Half' = IF copy.dir = "queue" THEN {name} ELSE {}
    BY <2>2, <2>3 DEF Half
  <2>6. /\ current_id["queue"] \in Nat /\ current_id["queue"] + 1 \in Nat
        /\ sync.next \in Nat /\ sync.next <= current_id["queue"]
        /\ IsDir(dirs["queue"]) /\ Below(dirs["queue"], current_id["queue"])
    <3>1. sync.next \in Nat
      BY DEF FilesInv, FilesTyped
    <3>2. sync.next <= current_id["queue"]
      BY <1>1, <1>2 DEF IdsInv
    <3>3. current_id["queue"] \in Nat /\ current_id["queue"] + 1 \in Nat
      BY <1>2, <1>4
    <3> QED BY <1>2, <1>4, <3>1, <3>2, <3>3
  <2>7. \A n \in Half' : n.id = current_id["queue"]
    BY <2>2, <2>5
  <2>8. Below(dirs["queue"], current_id["queue"] + 1)
    BY <2>6 DEF Below, IsDir, Name
  <2>9. \A n \in Half' : n.id < current_id["queue"] + 1 /\ ~(n.id < sync.next)
    BY <2>6, <2>7
  <2>10. DiskInv'
    <3>1. NothingOverlooked' /\ MapsAreNew(dirs'["queue"])
      BY <1>1, <2>1 DEF FilesInv, DiskInv, NothingOverlooked
    <3> QED BY <1>1, <1>2, <2>1, <2>6, <2>8, <2>9, <3>1 DEF DiskInv
  <2>11. IdsInv'
    <3>1. \A d \in DirName : Below(dirs'[d], current_id'[d])
      BY <1>1, <1>2, <2>1
    <3>2. sync.next <= current_id["queue"] + 1
      BY <2>6
    <3>3. NextName(copy.dir)' = name
      BY <2>2 DEF name
    <3> QED BY <1>1, <1>5, <2>3, <2>6, <3>1, <3>2, <3>3 DEF IdsInv
  <2>12. StatsInv'
    BY <1>1, <1>2, <1>5, <2>1 DEF StatsInv, Handling
  <2>13. CopyInv'
    BY <1>1, <1>3, <2>1 DEF CopyInv, BitmapIsKnown, CrashesLack
  <2> QED BY <1>5, <2>4, <2>10, <2>11, <2>12, <2>13 DEF FilesInv, LoopInv
<1>6. CASE pc' = "stopped" /\ UNCHANGED <<partial, dirs>>
  <2>1. FilesTyped'
    BY <1>1, <1>6 DEF FilesInv, FilesTyped
  <2> QED BY <1>1, <1>6, <2>1, QuietKeeps DEF Running
<1> QED BY <1>5, <1>6 DEF CreateFile, Exit

\* A filled file, whatever follows the copy: the disk and the ids.
LEMMA FilledKeeps ==
  ASSUME HelperInv, FilesInv, pc = "fill", pc' \in {"pick", "tests", "create"},
         partial' = partial \ {<<copy.dir, NextName(copy.dir)>>},
         dirs' = Put(dirs, copy.dir, copy.content),
         current_id' = Advance(current_id, copy.dir),
         UNCHANGED <<afl, sync, symccDir, input, killed, runs>>, tests' \in Nat,
         copy' \in [dir : DirName, content : Content] \cup {NoCopy},
         MapsAreNew(dirs'["queue"])
  PROVE  FilesTyped' /\ DiskInv' /\ IdsInv'
<1> DEFINE dir == copy.dir
           name == NextName(copy.dir)
<1>1. Handling
  BY DEF Handling
<1>2. /\ symccDir /\ input \in Files /\ Running
      /\ current_id \in [DirName -> Nat] /\ dirs = [d \in DirName |-> dirs[d]]
      /\ \A d \in DirName : IsDir(dirs[d]) /\ Below(dirs[d], current_id[d])
      /\ IdsInv
  BY <1>1, InHandling
<1>3. dir \in DirName /\ copy.content \in Content /\ "queue" \in DirName
  BY <1>2, CopyHasType DEF FilesInv, LoopInv, DirName
<1>4. /\ dirs' = [x \in DirName |-> dirs'[x]]
      /\ \A x \in DirName \ {dir} : dirs'[x] = dirs[x]
      /\ name \in Name /\ name.id = current_id[dir]
      /\ Added(dirs[dir], dirs'[dir], name, copy.content)
  BY <1>2, <1>3, PutAdds
<1>5. partial = {<<dir, name>>} /\ partial' = {}
  BY <1>2 DEF IdsInv
<1> HIDE DEF dir, name
<1>6. /\ current_id' \in [DirName -> Nat] /\ current_id'[dir] = current_id[dir] + 1
      /\ \A x \in DirName \ {dir} : current_id'[x] = current_id[x]
  <2>1. current_id' = [current_id EXCEPT ![dir] = @ + 1]
    BY DEF Advance, dir
  <2> QED BY <1>2, <1>3, <2>1
<1>7. IsDir(dirs'[dir]) /\ Below(dirs'[dir], current_id'[dir])
  <2>1. IsDir(dirs[dir]) /\ Below(dirs[dir], name.id) /\ name.id + 1 = current_id'[dir]
    BY <1>2, <1>3, <1>4, <1>6
  <2> QED BY <1>3, <1>4, <2>1, AddedIsDir
<1>8. \A d \in DirName : IsDir(dirs'[d]) /\ Below(dirs'[d], current_id'[d])
  BY <1>2, <1>4, <1>6, <1>7
<1>9. FilesTyped'
  BY <1>4, <1>5, <1>6, <1>8 DEF FilesInv, FilesTyped
<1>10. Half' = {}
  BY <1>5 DEF Half
<1>11. NothingOverlooked'
  <2> SUFFICES ASSUME NEW n \in DOMAIN dirs'["queue"], n.id < sync.next
               PROVE  \/ <<n, dirs'["queue"][n]>> \in sync.files
                      \/ <<n, Partial>> \in sync.files
    BY DEF NothingOverlooked
  <2>1. CASE n \in DOMAIN dirs["queue"] /\ dirs'["queue"][n] = dirs["queue"][n]
    BY <2>1 DEF FilesInv, DiskInv, NothingOverlooked
  <2>2. CASE ~(n \in DOMAIN dirs["queue"] /\ dirs'["queue"][n] = dirs["queue"][n])
    <3>1. dir = "queue" /\ n = name
      BY <1>3, <1>4, <2>2 DEF Added
    <3>2. n \in Half
      BY <1>4, <1>5, <3>1 DEF Half
    <3> QED BY <3>2 DEF FilesInv, DiskInv
  <2> QED BY <2>1, <2>2
<1>12. DiskInv'
  BY <1>2, <1>3, <1>6, <1>8, <1>10, <1>11 DEF DiskInv
<1>13. sync.next <= current_id'["queue"]
  <2>1. sync.next \in Nat /\ current_id["queue"] \in Nat
    BY <1>2, <1>3 DEF FilesInv, FilesTyped
  <2>2. CASE dir = "queue"
    BY <1>2, <1>6, <2>2 DEF IdsInv, dir
  <2>3. CASE dir # "queue"
    BY <1>2, <1>3, <1>6, <2>3 DEF IdsInv, dir
  <2> QED BY <2>2, <2>3
<1>14. IdsInv'
  BY <1>5, <1>8, <1>13 DEF IdsInv
<1> QED BY <1>9, <1>12, <1>14

LEMMA FillFileKeeps ==
  ASSUME HelperInv, FilesInv, FillFile
  PROVE  FilesInv'
<1> DEFINE q == dirs["queue"]
           name == NextName(copy.dir)
<1>1. pc = "fill" /\ Handling /\ UNCHANGED <<afl, sync, symccDir, input, killed, runs>>
  BY DEF FillFile, Handling
<1>2. /\ input \in Files /\ Running /\ input \notin state.processed
      /\ current_id \in [DirName -> Nat] /\ dirs = [d \in DirName |-> dirs[d]]
      /\ \A d \in DirName : IsDir(dirs[d]) /\ Below(dirs[d], current_id[d])
      /\ IdsInv /\ StatsInv
  BY <1>1, InHandling
<1>3. CopyInv /\ MapsAreNew(q) /\ tests \in Nat
      /\ copy \in [dir : DirName, content : Content] \cup {NoCopy}
  BY <1>1, <1>2 DEF FilesInv, LoopInv, DiskInv, FilesTyped
<1>4. /\ copy.dir \in DirName /\ copy.content \in Content
      /\ "queue" \in DirName /\ "crashes" \in DirName /\ "hangs" \in DirName
  BY <1>3, CopyHasType DEF DirName
<1>5. CASE pc' = "stopped" /\ UNCHANGED <<partial, dirs, current_id, tests, copy, state>>
  <2>1. FilesTyped'
    BY <1>1, <1>5 DEF FilesInv, FilesTyped
  <2> QED BY <1>1, <1>5, <2>1, QuietKeeps DEF Running
<1>6. CASE /\ partial' = partial \ {<<copy.dir, name>>}
           /\ dirs' = Put(dirs, copy.dir, copy.content)
           /\ current_id' = Advance(current_id, copy.dir)
           /\ AfterCopy
  <2>1. /\ \A x \in DirName \ {copy.dir} : dirs'[x] = dirs[x]
        /\ name \in Name /\ name.id = current_id[copy.dir]
        /\ Added(dirs[copy.dir], dirs'[copy.dir], name, copy.content)
        /\ IsDir(dirs[copy.dir]) /\ Below(dirs[copy.dir], name.id)
    <3>1. /\ \A x \in DirName \ {copy.dir} : dirs'[x] = dirs[x]
          /\ name \in Name /\ name.id = current_id[copy.dir]
          /\ Added(dirs[copy.dir], dirs'[copy.dir], name, copy.content)
      BY <1>2, <1>4, <1>6, PutAdds
    <3> HIDE DEF name
    <3> QED BY <1>2, <1>4, <3>1
  <2> HIDE DEF name
  <2>2. Cardinality(DOMAIN dirs'[copy.dir]) = Cardinality(DOMAIN dirs[copy.dir]) + 1
    BY <1>4, <2>1, AddedIsDir
  <2>3. ASSUME MapsAreNew(dirs'["queue"]), pc' \in {"pick", "tests", "create"}, tests' \in Nat,
               copy' \in [dir : DirName, content : Content] \cup {NoCopy}
        PROVE  FilesTyped' /\ DiskInv' /\ IdsInv'
    <3>1. partial' = partial \ {<<copy.dir, NextName(copy.dir)>>}
      BY <1>6 DEF name
    <3> QED BY <1>1, <1>6, <2>3, <3>1, FilledKeeps
  <2>4. CASE copy = Copy("hangs", InputCopy) /\ BitmapIsKnown /\ CrashesLack(0) /\ killed
    <3>1. copy.dir = "hangs"
      BY <2>4 DEF Copy
    <3>2. state' = Processed(state) /\ pc' = "pick" /\ copy' = NoCopy /\ UNCHANGED tests
      BY <1>6, <3>1 DEF AfterCopy
    <3>3. dirs'["queue"] = dirs["queue"] /\ dirs'["crashes"] = dirs["crashes"]
          /\ Cardinality(DOMAIN dirs'["hangs"]) = Cardinality(DOMAIN dirs["hangs"]) + 1
      BY <1>4, <2>1, <2>2, <3>1
    <3>4. FilesTyped' /\ DiskInv' /\ IdsInv'
      BY <1>3, <2>3, <3>2, <3>3
    <3>5. StatsInv'
      BY <1>1, <1>2, <2>4, <3>2, <3>3, ProcessedCounts DEF StatsInv, Handling
    <3>6. (BitmapIsKnown /\ CrashesLack(0))'
      BY <1>1, <2>4, <3>2, <3>3, ProcessedCounts DEF BitmapIsKnown, CrashesLack
    <3> QED BY <3>2, <3>4, <3>5, <3>6 DEF FilesInv, LoopInv
  <2>5. CASE copy = Copy("crashes", Crasher) /\ BitmapIsKnown /\ CrashesLack(0) /\ tests > 0
    <3>1. copy.dir = "crashes"
      BY <2>5 DEF Copy
    <3>2. pc' = "create" /\ copy' = Copy("queue", Crasher) /\ UNCHANGED <<tests, state>>
      BY <1>6, <3>1 DEF AfterCopy, BeginCopy
    <3>3. dirs'["queue"] = dirs["queue"] /\ dirs'["hangs"] = dirs["hangs"]
          /\ Cardinality(DOMAIN dirs'["crashes"]) = Cardinality(DOMAIN dirs["crashes"]) + 1
      BY <1>4, <2>1, <2>2, <3>1
    <3>4. copy' \in [dir : DirName, content : Content]
      BY <3>2 DEF Copy, DirName, Crasher, Content
    <3>5. FilesTyped' /\ DiskInv' /\ IdsInv'
      BY <1>3, <2>3, <3>2, <3>3, <3>4
    <3>6. StatsInv'
      BY <1>1, <1>2, <3>2, <3>3 DEF StatsInv, Handling
    <3>7. BitmapIsKnown' /\ CrashesLack(1)'
      <4>1. Cardinality(DOMAIN dirs["crashes"]) = Cardinality(Crashing(q)) + 0
        BY <2>5 DEF CrashesLack
      <4>2. IsFiniteSet(Crashing(q))
        BY <1>2, <1>4, FS_Subset DEF IsDir, Crashing
      <4>3. Cardinality(Crashing(q)) \in Nat
        BY <4>2, FS_CardinalityType
      <4> QED BY <2>5, <3>2, <3>3, <4>1, <4>3 DEF BitmapIsKnown, CrashesLack
    <3>8. CopyInv'
      BY <2>5, <3>2, <3>7 DEF CopyInv
    <3> QED BY <3>2, <3>5, <3>6, <3>8 DEF FilesInv, LoopInv
  <2>6. CASE copy = Copy("queue", Crasher) /\ BitmapIsKnown /\ CrashesLack(1) /\ tests > 0
    <3>1. copy.dir = "queue" /\ copy.content = Crasher
      BY <2>6 DEF Copy
    <3>2. pc' = "tests" /\ copy' = NoCopy /\ tests' = tests - 1 /\ UNCHANGED state
      BY <1>6, <3>1 DEF AfterCopy
    <3>3. dirs'["crashes"] = dirs["crashes"] /\ dirs'["hangs"] = dirs["hangs"]
      BY <1>4, <2>1, <3>1
    <3>4. /\ Maps(dirs'["queue"]) = Maps(q) /\ Known(dirs'["queue"]) = Known(q)
          /\ Cardinality(Crashing(dirs'["queue"])) = Cardinality(Crashing(q)) + 1
          /\ MapsAreNew(q) => MapsAreNew(dirs'["queue"])
      BY <2>1, <3>1, AddedCrash
    <3>5. tests' \in Nat
      BY <1>3, <2>6, <3>2
    <3>6. FilesTyped' /\ DiskInv' /\ IdsInv'
      BY <1>3, <2>3, <3>2, <3>4, <3>5
    <3>7. StatsInv'
      BY <1>1, <1>2, <3>2, <3>3 DEF StatsInv, Handling
    <3>8. BitmapIsKnown' /\ CrashesLack(0)'
      <4>1. Cardinality(DOMAIN dirs["crashes"]) = Cardinality(Crashing(q)) + 1
        BY <2>6 DEF CrashesLack
      <4>2. IsFiniteSet(Crashing(q))
        BY <1>2, <1>4, FS_Subset DEF IsDir, Crashing
      <4>3. Cardinality(Crashing(q)) \in Nat
        BY <4>2, FS_CardinalityType
      <4> QED BY <2>6, <3>2, <3>3, <3>4, <4>1, <4>3 DEF BitmapIsKnown, CrashesLack
    <3> QED BY <3>2, <3>6, <3>7, <3>8 DEF FilesInv, LoopInv
  <2>7. ASSUME NEW cov \in SUBSET Edges,
               copy = Copy("queue", Covers(cov)), CrashesLack(0), tests > 0,
               Maps(q) = {} \/ ~(cov \subseteq Known(q)),
               state.bitmap # NoMap, state.bitmap = Known(q) \cup cov
        PROVE  FilesInv'
    <3>1. copy.dir = "queue" /\ copy.content = Covers(cov)
      BY <2>7 DEF Copy
    <3>2. pc' = "tests" /\ copy' = NoCopy /\ tests' = tests - 1 /\ UNCHANGED state
      BY <1>6, <3>1 DEF AfterCopy
    <3>3. dirs'["crashes"] = dirs["crashes"] /\ dirs'["hangs"] = dirs["hangs"]
      BY <1>4, <2>1, <3>1
    <3>4. /\ Known(dirs'["queue"]) = Known(q) \cup cov
          /\ Crashing(dirs'["queue"]) = Crashing(q)
          /\ MapsAreNew(q) /\ (Maps(q) = {} \/ ~(cov \subseteq Known(q)))
               => MapsAreNew(dirs'["queue"])
      BY <2>1, <3>1, AddedMap
    <3>5. tests' \in Nat
      BY <1>3, <2>7, <3>2
    <3>6. FilesTyped' /\ DiskInv' /\ IdsInv'
      BY <1>3, <2>3, <2>7, <3>2, <3>4, <3>5
    <3>7. StatsInv'
      BY <1>1, <1>2, <3>2, <3>3 DEF StatsInv, Handling
    <3>8. BitmapIsKnown' /\ CrashesLack(0)'
      BY <2>7, <3>2, <3>3, <3>4 DEF BitmapIsKnown, CrashesLack
    <3> QED BY <3>2, <3>6, <3>7, <3>8 DEF FilesInv, LoopInv
  <2> QED BY <1>3, <2>4, <2>5, <2>6, <2>7 DEF CopyInv
<1> QED BY <1>5, <1>6 DEF FillFile, Exit

-------------------------------------------------------------------------------
(* The theorems. *)

\* The invariant of the files, relative to that of the executions.
LEMMA FilesInvariance == Spec => []FilesInv
<1>1. Init => FilesInv
  <2> SUFFICES ASSUME Init PROVE FilesInv
    OBVIOUS
  <2>1. dirs = [d \in DirName |-> dirs[d]] /\ \A d \in DirName : dirs[d] = EmptyDir
    BY DEF Init
  <2>2. DOMAIN EmptyDir = {} /\ IsDir(EmptyDir)
    BY FS_EmptySet DEF IsDir, EmptyDir
  <2>3. FilesTyped
    BY <2>1, <2>2 DEF Init, FilesTyped
  <2>4. DOMAIN dirs["queue"] = {}
    BY <2>1, <2>2 DEF DirName
  <2>5. DiskInv
    BY <2>1, <2>2, <2>4 DEF Init, DiskInv, NothingOverlooked, MapsAreNew, Maps, Below, Half
  <2>6. LoopInv
    BY DEF Init, LoopInv, Running
  <2> QED BY <2>3, <2>5, <2>6 DEF FilesInv
<1>2. HelperInv /\ FilesInv /\ [Next]_vars => FilesInv'
  <2> SUFFICES ASSUME HelperInv, FilesInv, [Next]_vars PROVE FilesInv'
    OBVIOUS
  <2>1. CASE \E f \in Files : AflAdd(f) \/ AflRemove(f)
    BY <2>1, AflKeeps
  <2>2. CASE AflSync
    BY <2>2, AflSyncKeeps
  <2>3. CASE Wait \/ UNCHANGED vars
    <3>1. UNCHANGED vars
      BY <2>3 DEF Wait
    <3>2. FilesTyped' /\ DiskInv' /\ LoopInv'
      BY <3>1 DEF vars, FilesInv, FilesTyped, DiskInv, NothingOverlooked, Half, LoopInv,
                  IdsInv, StatsInv, CopyInv, BitmapIsKnown, CrashesLack, NextName, Running,
                  Handling
    <3> QED BY <3>2 DEF FilesInv
  <2>4. CASE Start \/ Restart \/ QueueUnreadable
    BY <2>4, StartKeeps, RestartKeeps, QueueUnreadableKeeps
  <2>5. CASE Helper
    BY <2>5, PickKeeps, RunKeeps, ProcessTestKeeps, FinishKeeps, CreateFileKeeps,
       FillFileKeeps DEF Helper
  <2> QED BY <2>1, <2>2, <2>3, <2>4, <2>5 DEF Next
<1> QED BY <1>1, <1>2, HelperInvariance, PTL DEF Spec

\* The variables of the helper and its directories have their types.
THEOREM HelperTypes == Spec => []TypeOK
<1>1. HelperInv /\ FilesInv => TypeOK
  BY DEF HelperInv, Typed, FilesInv, FilesTyped, IsDir, TypeOK
<1> QED BY <1>1, HelperInvariance, FilesInvariance, PTL

\* Whenever no copy is being made, what the helper's bitmap calls known is covered by
\* the test cases in its queue, and nothing else is.
THEOREM CoverageIsWitnessed == Spec => []QueueWitnessesCoverage
<1>1. FilesInv => QueueWitnessesCoverage
  BY DEF FilesInv, LoopInv, BitmapIsKnown, QueueWitnessesCoverage, QueuedMaps, Maps, Known,
         Settled, Running
<1> QED BY <1>1, FilesInvariance, PTL

\* Every test case in the queue but the first and the crashes adds coverage to
\* those before it, in the order of their ids, also over restarts.
THEOREM QueueIsNew == Spec => []QueuedTestcasesAreNew
<1>1. FilesInv => QueuedTestcasesAreNew
  BY DEF FilesInv, DiskInv, MapsAreNew, QueuedTestcasesAreNew, QueuedMaps, Maps
<1> QED BY <1>1, FilesInvariance, PTL

\* The fuzzer has seen every file of the queue with an id below the next it looks
\* for, complete or while copy_testcase was filling it.
THEOREM FuzzerOverlooksNothing == Spec => []NothingOverlooked
<1>1. FilesInv => NothingOverlooked
  BY DEF FilesInv, DiskInv
<1> QED BY <1>1, FilesInvariance, PTL

\* Whenever no copy is being made there is one crash in the queue for each in the
\* crashes directory.
THEOREM CrashesReachTheQueue == Spec => []CrashesAreQueued
<1>1. ASSUME FilesInv PROVE CrashesAreQueued
  <2> SUFFICES ASSUME Settled PROVE Cardinality(DOMAIN dirs["crashes"])
                                    = Cardinality(Crashing(dirs["queue"]))
    BY DEF CrashesAreQueued, Crashing
  <2>1. Cardinality(DOMAIN dirs["crashes"]) = Cardinality(Crashing(dirs["queue"])) + 0
    BY <1>1 DEF FilesInv, LoopInv, CrashesLack, Settled, Running
  <2>2. IsFiniteSet(Crashing(dirs["queue"]))
    BY <1>1, FS_Subset DEF FilesInv, FilesTyped, DirName, IsDir, Crashing
  <2> QED BY <2>1, <2>2, FS_CardinalityType
<1> QED BY <1>1, FilesInvariance, PTL

\* The statistics count the processed files and the archived hangs.
THEOREM StatisticsAreRight == Spec => []StatsMatch
<1>1. FilesInv => StatsMatch
  BY DEF FilesInv, LoopInv, StatsInv, StatsMatch, Running
<1> QED BY <1>1, FilesInvariance, PTL

\* No step of the helper or of the fuzzer, a restart included, overwrites or
\* removes a file that a helper has written.
THEOREM FilesAreKept == Spec => ResultsAreKept
<1> DEFINE Kept == \A d \in DirName : \A n \in DOMAIN dirs[d] :
                     n \in DOMAIN dirs'[d] /\ dirs'[d][n] = dirs[d][n]
<1>1. HelperInv /\ FilesInv /\ [Next]_vars => [Kept]_dirs
  <2> SUFFICES ASSUME HelperInv, FilesInv, [Next]_vars, dirs' # dirs PROVE Kept
    OBVIOUS
  <2>1. CASE Start
    <3>1. ~symccDir
      BY <2>1 DEF Start
    <3> QED BY <3>1 DEF FilesInv, DiskInv
  <2>2. ASSUME pc \in {"create", "fill"}
        PROVE  /\ input \in Files /\ current_id \in [DirName -> Nat]
               /\ dirs = [d \in DirName |-> dirs[d]] /\ copy.dir \in DirName
               /\ \A d \in DirName : IsDir(dirs[d]) /\ Below(dirs[d], current_id[d])
    <3>1. Handling /\ CopyInv
      BY <2>2 DEF Handling, Running, FilesInv, LoopInv
    <3> QED BY <3>1, InHandling, CopyHasType
  <2>3. CASE CreateFile
    <3>1. pc = "create" /\ dirs' = Truncate(dirs, copy.dir)
      BY <2>3 DEF CreateFile
    <3> QED BY <2>2, <3>1, TruncatesNothing
  <2>4. CASE FillFile
    <3>1. pc = "fill" /\ dirs' = Put(dirs, copy.dir, copy.content)
      BY <2>4 DEF FillFile
    <3>2. /\ \A x \in DirName \ {copy.dir} : dirs'[x] = dirs[x]
          /\ Added(dirs[copy.dir], dirs'[copy.dir], NextName(copy.dir), copy.content)
      BY <2>2, <3>1, PutAdds
    <3> QED BY <3>2 DEF Added
  <2>5. Start \/ CreateFile \/ FillFile
    BY DEF Next, Helper, AflAdd, AflRemove, AflSync, Restart, Wait, QueueUnreadable,
           Pick, Run, ProcessTest, Finish, vars
  <2> QED BY <2>1, <2>3, <2>4, <2>5
<1> QED BY <1>1, HelperInvariance, FilesInvariance, PTL DEF Spec, ResultsAreKept

================================================================================
