---------------------------- MODULE LibcInputProofs ----------------------------
(* Proofs about LibcInput. *)
EXTENDS LibcInput, FiniteSetTheorems, WellFoundedInduction, TLAPS

Descriptor == [file : File \cup {"closed"}, pos : Nat]
Stream == [from : Nat, to : Nat, back : Char \cup {NoChar}]

\* The type invariant, with the descriptors and the streams as functions.
Typed == TypeOK /\ fds \in [FD -> Descriptor] /\ streams \in [FD -> Stream]

\* What the stream on the input has read ahead ends where the kernel goes on, and
\* nothing foreign is in front of it.
StreamInStep ==
  exact /\ inputFileDescriptor \in Open
    => /\ streams[inputFileDescriptor].back = NoChar
       /\ Ahead(inputFileDescriptor) > 0
            => streams[inputFileDescriptor].to = fds[inputFileDescriptor].pos

\* The invariants are inductive together.
LibcInv == Typed /\ OffsetIsPosition /\ StreamInStep /\ ExactExpressionsMatch

\* A step in which the kernel's position becomes q and the stream becomes s.
Stepped(fd, q, s) ==
  /\ fds' = [fds EXCEPT ![fd].pos = q] /\ streams' = [streams EXCEPT ![fd] = s]
  /\ q \in 0..Size(fds[fd].file)
  /\ s \in Stream /\ s.from <= s.to /\ s.to <= Size(fds[fd].file)

\* With them, the next byte of the file is the one at p.
Aligned(q, s, p) ==
  /\ s.back = NoChar /\ (s.from < s.to => s.to = q)
  /\ p = IF s.from < s.to THEN s.from ELSE q

-------------------------------------------------------------------------------
(* Minima, sizes and positions. *)

\* A set of natural numbers has a least element, which is what Min yields.
LEMMA MinIs ==
  ASSUME NEW S \in SUBSET Nat, S # {}
  PROVE  Min(S) \in S /\ \A y \in S : Min(S) <= y
<1>1. PICK x \in S : \A y \in S : ~(<<y, x>> \in OpToRel(<, Nat))
  BY WFMin, NatLessThanWellFounded
<1>2. \A y \in S : x <= y
  <2> SUFFICES ASSUME NEW y \in S, y < x PROVE FALSE
    OBVIOUS
  <2>1. <<y, x>> \in OpToRel(<, Nat)
    BY DEF OpToRel
  <2> QED BY <1>1, <2>1
<1> QED BY <1>2 DEF Min

LEMMA SizeType ==
  ASSUME NEW f \in File
  PROVE  Size(f) \in Nat /\ DOMAIN Content[f] = 0..(Size(f) - 1)
BY LibcAssumption, FS_CardinalityType DEF Size

\* An open descriptor has a file, a position in it, and a stream that holds bytes
\* of it.
LEMMA OpenType ==
  ASSUME Typed, NEW fd \in Open
  PROVE  /\ fd \in FD /\ fds[fd] \in Descriptor /\ streams[fd] \in Stream
         /\ fds[fd].file \in File /\ fds[fd].pos \in Nat
         /\ Size(fds[fd].file) \in Nat /\ fds[fd].pos <= Size(fds[fd].file)
         /\ Left(fd) \in Nat /\ fds[fd].pos + Left(fd) = Size(fds[fd].file)
         /\ streams[fd].from \in Nat /\ streams[fd].to \in Nat
         /\ streams[fd].from <= streams[fd].to /\ streams[fd].to <= Size(fds[fd].file)
         /\ Back(fd) \in {0, 1} /\ Ahead(fd) \in Nat /\ Held(fd) \in Nat
         /\ Held(fd) = Back(fd) + Ahead(fd) /\ StreamLeft(fd) \in Nat
<1>1. /\ fd \in FD /\ fds[fd].file \in File /\ fds[fd].pos \in 0..Size(fds[fd].file)
      /\ streams[fd].to \in 0..Size(fds[fd].file) /\ streams[fd].from \in 0..streams[fd].to
      /\ fds[fd] \in Descriptor /\ streams[fd] \in Stream
  BY DEF Open, Typed, TypeOK
<1>2. Size(fds[fd].file) \in Nat
  BY <1>1, SizeType
<1>3. Left(fd) \in Nat /\ fds[fd].pos + Left(fd) = Size(fds[fd].file)
  BY <1>1, <1>2 DEF Left
<1>4. Back(fd) \in {0, 1} /\ Ahead(fd) \in Nat
  BY <1>1, <1>2 DEF Back, Ahead
<1> QED BY <1>1, <1>2, <1>3, <1>4 DEF Held, StreamLeft

\* What a step of one descriptor leaves alone.
LEMMA SteppedType ==
  ASSUME Typed, NEW fd \in Open, NEW q, NEW s, Stepped(fd, q, s)
  PROVE  /\ fds' \in [FD -> Descriptor] /\ streams' \in [FD -> Stream]
         /\ \A x \in FD \ {fd} : fds'[x] = fds[x] /\ streams'[x] = streams[x]
         /\ fds'[fd].file = fds[fd].file /\ fds'[fd].pos = q /\ streams'[fd] = s
<1>1. fd \in FD /\ fds[fd] \in Descriptor /\ fds[fd].file \in File /\ q \in Nat /\ s \in Stream
  BY OpenType DEF Typed, Stepped
<1>2. fds' = [fds EXCEPT ![fd] = [fds[fd] EXCEPT !.pos = q]]
  BY DEF Stepped
<1>3. /\ fds'[fd] = [fds[fd] EXCEPT !.pos = q] /\ streams'[fd] = s
      /\ \A x \in FD \ {fd} : fds'[x] = fds[x] /\ streams'[x] = streams[x]
  BY <1>1, <1>2 DEF Typed, Stepped
<1>4. [fds[fd] EXCEPT !.pos = q] \in Descriptor
  BY <1>1 DEF Descriptor
<1>5. fds'[fd].file = fds[fd].file /\ fds'[fd].pos = q
  BY <1>1, <1>3 DEF Descriptor
<1>6. fds' \in [FD -> Descriptor] /\ streams' \in [FD -> Stream]
  BY <1>1, <1>2, <1>4 DEF Typed, Stepped
<1> QED BY <1>3, <1>5, <1>6

\* A step of one descriptor after which the wrappers are where the file is, if the
\* descriptor is the input's and the call is supported.
LEMMA SteppedKeeps ==
  ASSUME Typed, OffsetIsPosition, StreamInStep, NEW fd \in Open, NEW q, NEW s,
         Stepped(fd, q, s), UNCHANGED <<input, inputFileDescriptor>>,
         exact' \in BOOLEAN, exact' => exact, inputOffset' \in Int,
         fd # inputFileDescriptor => inputOffset' = inputOffset,
         exact' /\ fd = inputFileDescriptor => Aligned(q, s, inputOffset')
  PROVE  Typed' /\ OffsetIsPosition' /\ StreamInStep'
<1>1. /\ fds' \in [FD -> Descriptor] /\ streams' \in [FD -> Stream]
      /\ \A x \in FD \ {fd} : fds'[x] = fds[x] /\ streams'[x] = streams[x]
      /\ fds'[fd].file = fds[fd].file /\ fds'[fd].pos = q /\ streams'[fd] = s
  BY SteppedType
<1>2. /\ fd \in FD /\ fds[fd].file \in File /\ q \in 0..Size(fds[fd].file)
      /\ Size(fds[fd].file) \in Nat
      /\ s \in Stream /\ s.from <= s.to /\ s.to <= Size(fds[fd].file)
  BY OpenType DEF Stepped
<1>3. s.from \in Nat /\ s.to \in Nat /\ s.back \in Char \cup {NoChar} /\ q \in Nat
  BY <1>2 DEF Stream
<1>4. \A x \in FD : /\ streams'[x].from \in 0..streams'[x].to
                    /\ streams'[x].back \in Char \cup {NoChar}
                    /\ fds'[x] = Closed \/ /\ fds'[x].file \in File
                                           /\ fds'[x].pos \in 0..Size(fds'[x].file)
                                           /\ streams'[x].to \in 0..Size(fds'[x].file)
  BY <1>1, <1>2, <1>3 DEF Typed, TypeOK
<1>5. exact' => inputOffset' \in Nat
  <2> SUFFICES ASSUME exact' PROVE inputOffset' \in Nat
    OBVIOUS
  <2>1. CASE fd = inputFileDescriptor
    BY <1>3, <2>1 DEF Aligned
  <2>2. CASE fd # inputFileDescriptor
    BY <2>2 DEF Typed, TypeOK
  <2> QED BY <2>1, <2>2
<1>6. Typed'
  BY <1>1, <1>4, <1>5 DEF Typed, TypeOK
<1>7. ASSUME exact', inputFileDescriptor \in Open'
      PROVE  /\ fds'[inputFileDescriptor].file = InputFile
             /\ streams'[inputFileDescriptor].back = NoChar
             /\ (Ahead(inputFileDescriptor) > 0
                   => streams[inputFileDescriptor].to = fds[inputFileDescriptor].pos)'
             /\ inputOffset' = Position(inputFileDescriptor)'
  <2>1. CASE inputFileDescriptor = fd
    <3>1. fds[fd].file = InputFile
      BY <1>7, <2>1 DEF OffsetIsPosition
    <3>2. Ahead(fd)' = s.to - s.from
      BY <1>1 DEF Ahead
    <3>3. Ahead(fd)' > 0 <=> s.from < s.to
      BY <1>3, <3>2
    <3> QED BY <1>1, <1>7, <2>1, <3>1, <3>3 DEF Aligned, Position
  <2>2. CASE inputFileDescriptor # fd
    <3>1. inputFileDescriptor \in FD
      BY <1>7 DEF Open
    <3>2. /\ fds'[inputFileDescriptor] = fds[inputFileDescriptor]
          /\ streams'[inputFileDescriptor] = streams[inputFileDescriptor]
      BY <1>1, <2>2, <3>1
    <3>3. inputFileDescriptor \in Open
      BY <1>7, <3>1, <3>2 DEF Open
    <3> QED BY <1>7, <2>2, <3>2, <3>3 DEF OffsetIsPosition, StreamInStep, Ahead, Position
  <2> QED BY <2>1, <2>2
<1>8. OffsetIsPosition' /\ StreamInStep'
  BY <1>7 DEF OffsetIsPosition, StreamInStep
<1> QED BY <1>6, <1>8

\* In a supported state the wrappers are aligned with the file.
LEMMA InputAligned ==
  ASSUME LibcInv, exact, NEW fd \in Open, fd = inputFileDescriptor
  PROVE  /\ fds[fd].file = InputFile /\ Back(fd) = 0 /\ Held(fd) = Ahead(fd)
         /\ Aligned(fds[fd].pos, streams[fd], inputOffset)
         /\ inputOffset \in Nat
         /\ inputOffset = IF Ahead(fd) > 0 THEN streams[fd].from ELSE fds[fd].pos
         /\ Ahead(fd) > 0 => streams[fd].to = fds[fd].pos
<1>1. /\ streams[fd].from \in Nat /\ streams[fd].to \in Nat /\ Ahead(fd) \in Nat
  BY OpenType DEF LibcInv
<1>2. Ahead(fd) > 0 <=> streams[fd].from < streams[fd].to
  BY <1>1 DEF Ahead
<1>3. Back(fd) = 0 /\ Held(fd) = Ahead(fd)
  BY <1>1 DEF LibcInv, StreamInStep, Back, Held
<1> QED BY <1>2, <1>3
        DEF LibcInv, Typed, TypeOK, OffsetIsPosition, StreamInStep, Position, Aligned

\* A descriptor that is left alone has made a step, too.
LEMMA StandsStill ==
  ASSUME Typed, NEW fd \in Open, UNCHANGED <<fds, streams>>
  PROVE  Stepped(fd, fds[fd].pos, streams[fd])
<1>1. fd \in FD /\ fds[fd] = [fds[fd] EXCEPT !.pos = fds[fd].pos]
  BY OpenType DEF Descriptor
<1>2. fds = [fds EXCEPT ![fd] = [fds[fd] EXCEPT !.pos = fds[fd].pos]]
  BY <1>1 DEF Typed
<1>3. streams = [streams EXCEPT ![fd] = streams[fd]]
  BY <1>1 DEF Typed
<1> QED BY <1>2, <1>3, OpenType DEF Stepped

\* Moving the kernel's position to q and filling the stream up from there.
LEMMA Filled ==
  ASSUME Typed, NEW fd \in Open, NEW q \in 0..Size(fds[fd].file), NEW from \in Nat,
         NEW to \in Nat, from <= to, to <= Size(fds[fd].file),
         Move(fd, q) \/ (q = fds[fd].pos /\ UNCHANGED fds), Fill(fd, from, to)
  PROVE  \E s : /\ Stepped(fd, q, s)
                /\ to = q \/ from = to => Aligned(q, s, IF from = to THEN q ELSE from)
<1> DEFINE s == IF from = to THEN NoStream ELSE [from |-> from, to |-> to, back |-> NoChar]
<1>1. s \in Stream /\ s.from <= s.to /\ s.to <= Size(fds[fd].file)
  BY OpenType DEF Stream, NoStream
<1>2. streams' = [streams EXCEPT ![fd] = s]
  BY DEF Fill
<1>3. fds' = [fds EXCEPT ![fd].pos = q]
  <2>1. CASE Move(fd, q)
    BY <2>1 DEF Move
  <2>2. CASE q = fds[fd].pos /\ UNCHANGED fds
    <3>1. fd \in FD /\ fds[fd] = [fds[fd] EXCEPT !.pos = fds[fd].pos]
      BY OpenType DEF Descriptor
    <3> QED BY <2>2, <3>1 DEF Typed
  <2> QED BY <2>1, <2>2
<1>4. Stepped(fd, q, s)
  BY <1>1, <1>2, <1>3 DEF Stepped
<1>5. to = q \/ from = to => Aligned(q, s, IF from = to THEN q ELSE from)
  <2>1. CASE from = to
    BY <2>1 DEF Aligned, NoStream
  <2>2. CASE from # to
    <3>1. s = [from |-> from, to |-> to, back |-> NoChar] /\ from < to
      BY <2>2
    <3>2. s.from = from /\ s.to = to /\ s.back = NoChar
      BY <3>1
    <3> HIDE DEF s
    <3> QED BY <2>2, <3>1, <3>2 DEF Aligned
  <2> QED BY <2>1, <2>2
<1> HIDE DEF s
<1> QED BY <1>4, <1>5

\* What the stream does when the program takes n bytes.
LEMMA TakeSteps ==
  ASSUME LibcInv, NEW fd \in Open, NEW n \in Nat, n <= StreamLeft(fd), Take(fd, n)
  PROVE  \E q, s : /\ Stepped(fd, q, s)
                   /\ exact /\ fd = inputFileDescriptor => Aligned(q, s, inputOffset + n)
<1> USE DEF LibcInv
<1>1. /\ fds[fd].pos \in Nat /\ Size(fds[fd].file) \in Nat
      /\ Left(fd) \in Nat /\ fds[fd].pos + Left(fd) = Size(fds[fd].file)
      /\ streams[fd].from \in Nat /\ streams[fd].to \in Nat
      /\ streams[fd].from <= streams[fd].to /\ streams[fd].to <= Size(fds[fd].file)
      /\ Back(fd) \in {0, 1} /\ Ahead(fd) \in Nat /\ Held(fd) \in Nat
      /\ Held(fd) = Back(fd) + Ahead(fd) /\ Ahead(fd) = streams[fd].to - streams[fd].from
      /\ StreamLeft(fd) = Held(fd) + Left(fd)
  BY OpenType DEF Ahead, StreamLeft
<1>2. CASE n = 0 /\ UNCHANGED <<fds, streams>>
  <2>1. Stepped(fd, fds[fd].pos, streams[fd])
    BY <1>2, StandsStill
  <2>2. ASSUME exact, fd = inputFileDescriptor
        PROVE  Aligned(fds[fd].pos, streams[fd], inputOffset + n)
    <3>1. Aligned(fds[fd].pos, streams[fd], inputOffset) /\ inputOffset \in Nat
      BY <2>2, InputAligned
    <3>2. inputOffset + n = inputOffset
      BY <1>2, <3>1
    <3> QED BY <3>1, <3>2
  <2> QED BY <2>1, <2>2
<1>3. CASE /\ n > 0 /\ n <= Held(fd) /\ UNCHANGED fds
           /\ Fill(fd, streams[fd].from + (n - Back(fd)), streams[fd].to)
  <2> DEFINE from == streams[fd].from + (n - Back(fd))
  <2>1. from \in Nat /\ from <= streams[fd].to
    BY <1>1, <1>3
  <2>2. PICK s : /\ Stepped(fd, fds[fd].pos, s)
                 /\ streams[fd].to = fds[fd].pos \/ from = streams[fd].to
                      => Aligned(fds[fd].pos, s,
                                 IF from = streams[fd].to THEN fds[fd].pos ELSE from)
    <3>1. fds[fd].pos \in 0..Size(fds[fd].file) /\ Fill(fd, from, streams[fd].to)
      BY <1>1, <1>3
    <3> HIDE DEF from
    <3> QED BY <1>1, <1>3, <2>1, <3>1, Filled
  <2>3. ASSUME exact, fd = inputFileDescriptor
        PROVE  Aligned(fds[fd].pos, s, inputOffset + n)
    <3>1. Back(fd) = 0 /\ Ahead(fd) > 0
      BY <1>1, <1>3, <2>3, InputAligned
    <3>2. streams[fd].to = fds[fd].pos /\ inputOffset = streams[fd].from
      BY <2>3, <3>1, InputAligned
    <3>3. inputOffset + n = IF from = streams[fd].to THEN fds[fd].pos ELSE from
      BY <1>1, <3>1, <3>2
    <3> QED BY <2>2, <3>2, <3>3
  <2> QED BY <2>2, <2>3
<1>4. CASE /\ n > 0 /\ n > Held(fd)
           /\ LET p == fds[fd].pos + (n - Held(fd))
              IN \E q \in p..Size(fds[fd].file) : Move(fd, q) /\ Fill(fd, p, q)
  <2> DEFINE p == fds[fd].pos + (n - Held(fd))
  <2>1. PICK q \in p..Size(fds[fd].file) : Move(fd, q) /\ Fill(fd, p, q)
    BY <1>4
  <2>2. p \in Nat /\ q \in Nat /\ p <= q /\ q <= Size(fds[fd].file)
    BY <1>1, <1>4, <2>1
  <2>3. PICK s : /\ Stepped(fd, q, s) /\ Aligned(q, s, IF p = q THEN q ELSE p)
    <3> HIDE DEF p
    <3> QED BY <1>1, <2>1, <2>2, Filled
  <2>4. ASSUME exact, fd = inputFileDescriptor PROVE inputOffset + n = p
    <3>1. /\ Held(fd) = Ahead(fd)
          /\ Ahead(fd) > 0 => streams[fd].to = fds[fd].pos
          /\ inputOffset = IF Ahead(fd) > 0 THEN streams[fd].from ELSE fds[fd].pos
      BY <2>4, InputAligned
    <3> QED BY <1>1, <3>1
  <2>5. (IF p = q THEN q ELSE p) = p
    OBVIOUS
  <2> HIDE DEF p
  <2> QED BY <2>3, <2>4, <2>5
<1> QED BY <1>2, <1>3, <1>4 DEF Take

\* What it does when the program goes to p.
LEMMA SeekSteps ==
  ASSUME Typed, NEW fd \in Open, NEW p \in 0..Size(fds[fd].file), Seek(fd, p)
  PROVE  \E q, s : Stepped(fd, q, s) /\ Aligned(q, s, p)
<1>1. PICK q \in p..Size(fds[fd].file) : Move(fd, q) /\ Fill(fd, p, q)
  BY DEF Seek
<1>2. p \in Nat /\ q \in Nat /\ p <= q /\ q <= Size(fds[fd].file)
  BY <1>1, OpenType
<1>3. PICK s : Stepped(fd, q, s) /\ Aligned(q, s, IF p = q THEN q ELSE p)
  BY <1>1, <1>2, Filled
<1> QED BY <1>3

\* A byte of the input that is about to be taken from the stream is the one at the
\* wrappers' position.
LEMMA InputAt ==
  ASSUME LibcInv, exact, NEW fd \in Open, fd = inputFileDescriptor,
         NEW i \in Nat, i < StreamLeft(fd)
  PROVE  Matches(inputOffset + i, StreamAt(fd, i))
<1>1. /\ fds[fd].file = InputFile /\ Back(fd) = 0 /\ Held(fd) = Ahead(fd)
      /\ inputOffset = IF Ahead(fd) > 0 THEN streams[fd].from ELSE fds[fd].pos
      /\ Ahead(fd) > 0 => streams[fd].to = fds[fd].pos
  BY InputAligned
<1>2. /\ fds[fd].pos \in Nat /\ Size(InputFile) \in Nat
      /\ Left(fd) \in Nat /\ fds[fd].pos + Left(fd) = Size(InputFile)
      /\ streams[fd].from \in Nat /\ streams[fd].to \in Nat /\ Ahead(fd) \in Nat
      /\ Ahead(fd) = streams[fd].to - streams[fd].from
      /\ StreamLeft(fd) = Held(fd) + Left(fd)
  BY <1>1, OpenType DEF LibcInv, Ahead, StreamLeft
<1>3. DOMAIN Content[InputFile] = 0..(Size(InputFile) - 1)
  BY SizeType, LibcAssumption
<1>4. inputOffset + i \in DOMAIN Content[InputFile]
  <2>1. inputOffset + i \in Nat /\ inputOffset + i < Size(InputFile)
    <3>1. CASE Ahead(fd) > 0
      BY <1>1, <1>2, <3>1
    <3>2. CASE Ahead(fd) = 0
      BY <1>1, <1>2, <3>2
    <3> QED BY <1>2, <3>1, <3>2
  <2> QED BY <1>2, <1>3, <2>1
<1>5. StreamAt(fd, i) = Content[InputFile][inputOffset + i]
  <2>1. CASE i < Held(fd)
    <3>1. StreamAt(fd, i) = Content[fds[fd].file][streams[fd].from + (i - Back(fd))]
      BY <1>1, <1>2, <2>1 DEF StreamAt
    <3>2. streams[fd].from + (i - Back(fd)) = inputOffset + i
      BY <1>1, <1>2, <2>1
    <3> QED BY <1>1, <3>1, <3>2
  <2>2. CASE i >= Held(fd)
    <3>1. StreamAt(fd, i) = At(fd, i - Held(fd))
      BY <1>1, <1>2, <2>2 DEF StreamAt
    <3>2. fds[fd].pos + (i - Held(fd)) = inputOffset + i
      BY <1>1, <1>2, <2>2
    <3> QED BY <1>1, <3>1, <3>2 DEF At
  <2> QED BY <1>1, <1>2, <2>1, <2>2
<1> QED BY <1>4, <1>5 DEF Matches, InputByte

\* The shadow that a supported call writes matches the byte b that it stores.
LEMMA ShadowMatches ==
  ASSUME LibcInv, exact, NEW fd, NEW n \in Nat, NEW i \in Index, NEW b,
         i < n /\ fd = inputFileDescriptor => Matches(inputOffset + i, b)
  PROVE  Matches(Shadow(fd, n)[i], IF i < n THEN b ELSE buf.val[i])
<1>1. i \in Nat
  BY LibcAssumption DEF Index
<1>2. CASE i >= n
  BY <1>1, <1>2 DEF Shadow, LibcInv, ExactExpressionsMatch, ExpressionsMatch
<1>3. CASE i < n /\ fd = inputFileDescriptor
  BY <1>1, <1>3 DEF Shadow
<1>4. CASE i < n /\ fd # inputFileDescriptor
  <2>1. Shadow(fd, n)[i] = Null
    BY <1>1, <1>4 DEF Shadow
  <2> QED BY <2>1 DEF Matches
<1> QED BY <1>1, <1>2, <1>3, <1>4

-------------------------------------------------------------------------------
(* The wrappers, one by one. *)

\* The lowest free descriptor is a free descriptor.
LEMMA OpenedIs ==
  ASSUME Typed, NEW p \in Path, NEW fd \in FD, Opened(p, fd)
  PROVE  /\ fds[fd] = Closed /\ fds' \in [FD -> Descriptor] /\ streams' \in [FD -> Stream]
         /\ fds'[fd] = [file |-> FileAt[p], pos |-> 0] /\ streams'[fd] = NoStream
         /\ \A x \in FD \ {fd} : fds'[x] = fds[x] /\ streams'[x] = streams[x]
<1>1. {x \in FD : fds[x] = Closed} \in SUBSET Nat
  BY LibcAssumption
<1>2. fd \in {x \in FD : fds[x] = Closed}
  BY <1>1, MinIs DEF Opened
<1>3. [file |-> FileAt[p], pos |-> 0] \in Descriptor /\ NoStream \in Stream
  BY LibcAssumption DEF Descriptor, Stream, NoStream
<1> QED BY <1>2, <1>3 DEF Opened, Typed

LEMMA openKeeps ==
  ASSUME LibcInv, NEW p \in Path, open(p)
  PROVE  LibcInv'
<1>1. PICK fd \in FD :
      /\ Opened(p, fd)
      /\ IF IsInputPath(p)
         THEN inputFileDescriptor' = fd /\ inputOffset' = 0
         ELSE UNCHANGED <<inputFileDescriptor, inputOffset>>
      /\ exact' = (exact /\ OpenSupported(p, fd))
      /\ UNCHANGED <<input, buf, ret>>
  BY DEF open
<1>2. exact' \in BOOLEAN /\ (exact' => exact /\ OpenSupported(p, fd))
  BY <1>1
<1>3. /\ fds' \in [FD -> Descriptor] /\ streams' \in [FD -> Stream]
      /\ fds'[fd] = [file |-> FileAt[p], pos |-> 0] /\ streams'[fd] = NoStream
      /\ \A x \in FD \ {fd} : fds'[x] = fds[x] /\ streams'[x] = streams[x]
  BY <1>1, OpenedIs DEF LibcInv
<1>4. fds'[fd].file = FileAt[p] /\ fds'[fd].pos = 0 /\ FileAt[p] \in File
      /\ 0 \in 0..Size(FileAt[p])
  BY <1>3, SizeType, LibcAssumption
<1>5. \A x \in FD : /\ streams'[x].from \in 0..streams'[x].to
                    /\ streams'[x].back \in Char \cup {NoChar}
                    /\ fds'[x] = Closed \/ /\ fds'[x].file \in File
                                           /\ fds'[x].pos \in 0..Size(fds'[x].file)
                                           /\ streams'[x].to \in 0..Size(fds'[x].file)
  BY <1>3, <1>4 DEF LibcInv, Typed, TypeOK, NoStream
<1>6. /\ inputOffset' \in Int /\ (exact' => inputOffset' \in Nat)
      /\ inputFileDescriptor' \in FD \cup {NoFD}
  BY <1>1, <1>2 DEF LibcInv, Typed, TypeOK
<1>7. Typed'
  BY <1>1, <1>2, <1>3, <1>5, <1>6 DEF LibcInv, Typed, TypeOK
<1>8. OffsetIsPosition' /\ StreamInStep'
  <2>1. CASE IsInputPath(p)
    BY <1>1, <1>2, <1>3, <1>4, <2>1
       DEF OpenSupported, OffsetIsPosition, StreamInStep, Position, Ahead, NoStream
  <2>2. CASE ~IsInputPath(p)
    <3> SUFFICES ASSUME exact', inputFileDescriptor' \in Open'
                 PROVE  OffsetIsPosition' /\ StreamInStep'
      BY DEF OffsetIsPosition, StreamInStep
    <3>1. UNCHANGED <<inputFileDescriptor, inputOffset>> /\ fd # inputFileDescriptor
      BY <1>1, <1>2, <2>2 DEF OpenSupported
    <3>2. inputFileDescriptor \in FD
      BY <3>1 DEF Open
    <3>3. /\ fds'[inputFileDescriptor] = fds[inputFileDescriptor]
          /\ streams'[inputFileDescriptor] = streams[inputFileDescriptor]
      BY <1>3, <3>1, <3>2
    <3>4. inputFileDescriptor \in Open
      BY <3>1, <3>2, <3>3 DEF Open
    <3> QED BY <1>2, <3>1, <3>3, <3>4
            DEF LibcInv, OffsetIsPosition, StreamInStep, Position, Ahead
  <2> QED BY <2>1, <2>2
<1>9. ExactExpressionsMatch'
  BY <1>1, <1>2 DEF LibcInv, ExactExpressionsMatch, ExpressionsMatch, Matches, InputByte
<1> QED BY <1>7, <1>8, <1>9 DEF LibcInv

LEMMA closeKeeps ==
  ASSUME LibcInv, NEW fd \in FD, close(fd)
  PROVE  LibcInv'
<1>1. /\ fds' = [fds EXCEPT ![fd] = Closed] /\ streams' = [streams EXCEPT ![fd] = NoStream]
      /\ UNCHANGED <<input, inputFileDescriptor, inputOffset, buf, ret, exact>>
  BY DEF close
<1>2. Closed \in Descriptor /\ NoStream \in Stream
  BY DEF Closed, Descriptor, NoStream, Stream
<1>3. /\ fds' \in [FD -> Descriptor] /\ fds'[fd] = Closed
      /\ streams' \in [FD -> Stream] /\ streams'[fd] = NoStream
      /\ \A x \in FD \ {fd} : fds'[x] = fds[x] /\ streams'[x] = streams[x]
  BY <1>1, <1>2 DEF LibcInv, Typed
<1>4. Typed'
  BY <1>1, <1>3 DEF LibcInv, Typed, TypeOK, NoStream
<1>5. OffsetIsPosition' /\ StreamInStep'
  BY <1>1, <1>3 DEF LibcInv, OffsetIsPosition, StreamInStep, Position, Ahead, Open
<1>6. ExactExpressionsMatch'
  BY <1>1 DEF LibcInv, ExactExpressionsMatch, ExpressionsMatch, Matches, InputByte
<1> QED BY <1>4, <1>5, <1>6 DEF LibcInv

\* A call that stores the next n bytes in the buffer, and nothing else there.
LEMMA StoresMatch ==
  ASSUME LibcInv, NEW fd \in Open, NEW n \in Nat, n <= StreamLeft(fd),
         exact' => exact,
         exact' => /\ \A i \in Index : buf'.expr[i] = Shadow(fd, n)[i]
                   /\ \A i \in Index : i >= n => buf'.val[i] = buf.val[i]
                   /\ fd = inputFileDescriptor
                        => \A i \in Index : i < n => buf'.val[i] = StreamAt(fd, i),
         ret' = ret
  PROVE  ExactExpressionsMatch'
<1> SUFFICES ASSUME exact' PROVE ExpressionsMatch'
  BY DEF ExactExpressionsMatch
<1>1. ASSUME NEW i \in Index PROVE Matches(buf'.expr[i], buf'.val[i])
  <2>1. i \in Nat /\ StreamLeft(fd) \in Nat
    BY OpenType, LibcAssumption DEF Index, LibcInv
  <2>2. i < n /\ fd = inputFileDescriptor => Matches(inputOffset + i, buf'.val[i])
    BY <1>1, <2>1, InputAt
  <2>3. Matches(Shadow(fd, n)[i], IF i < n THEN buf'.val[i] ELSE buf.val[i])
    BY <1>1, <2>2, ShadowMatches
  <2>4. (IF i < n THEN buf'.val[i] ELSE buf.val[i]) = buf'.val[i]
    BY <1>1, <2>1
  <2> QED BY <1>1, <2>3, <2>4
<1>2. Matches(ret'.expr, ret'.val)
  BY DEF LibcInv, ExactExpressionsMatch, ExpressionsMatch
<1> QED BY <1>1, <1>2 DEF ExpressionsMatch, Matches, InputByte

\* With nothing in the stream, what the kernel yields is what the stream would.
LEMMA NothingHeld ==
  ASSUME LibcInv, NEW fd \in Open, Held(fd) = 0
  PROVE  /\ Back(fd) = 0 /\ Ahead(fd) = 0 /\ StreamLeft(fd) = Left(fd)
         /\ \A i \in Nat : StreamAt(fd, i) = At(fd, i)
<1>1. Back(fd) \in {0, 1} /\ Ahead(fd) \in Nat /\ Held(fd) = Back(fd) + Ahead(fd)
      /\ Left(fd) \in Nat
  BY OpenType DEF LibcInv
<1>2. Back(fd) = 0 /\ Ahead(fd) = 0 /\ StreamLeft(fd) = Left(fd)
  BY <1>1 DEF StreamLeft
<1>3. ASSUME NEW i \in Nat PROVE StreamAt(fd, i) = At(fd, i)
  <2>1. StreamAt(fd, i) = At(fd, i - Held(fd))
    BY <1>2 DEF StreamAt
  <2> QED BY <2>1
<1> QED BY <1>2, <1>3

LEMMA readKeeps ==
  ASSUME LibcInv, NEW fd \in FD, NEW n \in 0..BufLen, NEW result \in 0..BufLen,
         read(fd, n, result)
  PROVE  LibcInv'
<1>1. /\ fd \in Open /\ result <= Left(fd) /\ result \in Nat
      /\ buf' = [val |-> Receive(At, fd, result), expr |-> Shadow(fd, result)]
      /\ Move(fd, fds[fd].pos + result) /\ Advance(fd, result)
      /\ exact' = (exact /\ KernelInStep(fd))
      /\ UNCHANGED <<input, streams, inputFileDescriptor, ret>>
  BY LibcAssumption DEF read
<1>2. exact' \in BOOLEAN /\ (exact' => exact /\ KernelInStep(fd))
  BY <1>1
<1>3. /\ fds[fd].pos \in Nat /\ Left(fd) \in Nat /\ Size(fds[fd].file) \in Nat
      /\ fds[fd].pos + Left(fd) = Size(fds[fd].file) /\ StreamLeft(fd) \in Nat
      /\ streams[fd] \in Stream /\ streams[fd].from <= streams[fd].to
      /\ streams[fd].to <= Size(fds[fd].file)
      /\ streams[fd].from \in Nat /\ streams[fd].to \in Nat
      /\ StreamLeft(fd) = Held(fd) + Left(fd) /\ Held(fd) \in Nat
  BY <1>1, OpenType DEF LibcInv, StreamLeft
<1>4. Stepped(fd, fds[fd].pos + result, streams[fd])
  <2>1. fds[fd].pos + result \in 0..Size(fds[fd].file)
    BY <1>1, <1>3
  <2>2. streams' = [streams EXCEPT ![fd] = streams[fd]]
    BY <1>1 DEF LibcInv, Typed
  <2> QED BY <1>1, <1>3, <2>1, <2>2 DEF Stepped, Move
<1>5. inputOffset' \in Int /\ (fd # inputFileDescriptor => inputOffset' = inputOffset)
  BY <1>1 DEF LibcInv, Typed, TypeOK, Advance
<1>6. ASSUME exact', fd = inputFileDescriptor
      PROVE  Aligned(fds[fd].pos + result, streams[fd], inputOffset')
  <2>1. Held(fd) = 0
    BY <1>2, <1>6 DEF KernelInStep
  <2>2. Ahead(fd) = 0
    BY <1>1, <2>1, NothingHeld
  <2>3. streams[fd].back = NoChar /\ inputOffset = fds[fd].pos
    BY <1>1, <1>2, <1>6, <2>2, InputAligned DEF Aligned
  <2>4. ~(streams[fd].from < streams[fd].to)
    BY <1>3, <2>2 DEF Ahead
  <2> QED BY <1>1, <1>6, <2>3, <2>4 DEF Aligned, Advance
<1>7. Typed' /\ OffsetIsPosition' /\ StreamInStep'
  BY <1>1, <1>2, <1>4, <1>5, <1>6, SteppedKeeps DEF LibcInv
<1>8. ExactExpressionsMatch'
  <2>1. ASSUME exact', NEW i \in Index, i < result, fd = inputFileDescriptor
        PROVE  buf'.val[i] = StreamAt(fd, i)
    <3>1. i \in Nat /\ Held(fd) = 0
      BY <1>2, <2>1, LibcAssumption DEF KernelInStep, Index
    <3>2. StreamAt(fd, i) = At(fd, i)
      BY <1>1, <3>1, NothingHeld
    <3> QED BY <1>1, <2>1, <3>2 DEF Receive
  <2>2. \A i \in Index : i >= result => buf'.val[i] = buf.val[i]
    <3>1. \A i \in Index : i \in Int
      BY DEF Index
    <3> QED BY <1>1, <3>1 DEF Receive
  <2>3. result <= StreamLeft(fd) /\ \A i \in Index : buf'.expr[i] = Shadow(fd, result)[i]
    BY <1>1, <1>3
  <2> QED BY <1>1, <1>2, <2>1, <2>2, <2>3, StoresMatch
<1> QED BY <1>7, <1>8 DEF LibcInv

\* A call that takes n bytes from a stream and counts m of them, all of them as far
\* as it is supported.
LEMMA TakeKeeps ==
  ASSUME LibcInv, NEW fd \in Open, NEW n \in Nat, n <= StreamLeft(fd), NEW m \in Int,
         Take(fd, n), Advance(fd, m), UNCHANGED <<input, inputFileDescriptor>>,
         exact' \in BOOLEAN, exact' => exact /\ m = n
  PROVE  Typed' /\ OffsetIsPosition' /\ StreamInStep'
<1>1. PICK q, s : /\ Stepped(fd, q, s)
                  /\ exact /\ fd = inputFileDescriptor => Aligned(q, s, inputOffset + n)
  BY TakeSteps
<1>2. inputOffset' \in Int /\ (fd # inputFileDescriptor => inputOffset' = inputOffset)
  BY DEF LibcInv, Typed, TypeOK, Advance
<1>3. exact' /\ fd = inputFileDescriptor => Aligned(q, s, inputOffset')
  BY <1>1 DEF Advance
<1> QED BY <1>1, <1>2, <1>3, SteppedKeeps DEF LibcInv

LEMMA freadKeeps ==
  ASSUME LibcInv, NEW fd \in FD, NEW size \in 1..BufLen, NEW nmemb \in 1..BufLen,
         fread(fd, size, nmemb)
  PROVE  LibcInv'
<1>1. fd \in Open
  BY DEF fread
<1>2. /\ StreamLeft(fd) \in Nat /\ size \in Nat /\ nmemb \in Nat
      /\ size * nmemb \in Nat /\ size > 0
  BY <1>1, OpenType, LibcAssumption DEF LibcInv
<1>3. PICK n : n = IF size * nmemb <= StreamLeft(fd) THEN size * nmemb ELSE StreamLeft(fd)
  OBVIOUS
<1>4. n \in Nat /\ n <= StreamLeft(fd)
  BY <1>2, <1>3
<1>5. PICK whole : whole = (n \div size) * size
  OBVIOUS
<1>6. whole \in Int
  BY <1>2, <1>4, <1>5
<1>7. /\ buf' = [val |-> Receive(StreamAt, fd, n), expr |-> Shadow(fd, whole)]
      /\ Take(fd, n) /\ Advance(fd, whole)
      /\ exact' = (exact /\ n = whole)
      /\ UNCHANGED <<input, inputFileDescriptor, ret>>
  BY <1>3, <1>5 DEF fread
<1>8. exact' \in BOOLEAN /\ (exact' => exact /\ whole = n)
  BY <1>7
<1>9. Typed' /\ OffsetIsPosition' /\ StreamInStep'
  BY <1>1, <1>4, <1>6, <1>7, <1>8, TakeKeeps
<1>10. ExactExpressionsMatch'
  <2>1. \A i \in Index : i \in Int
    BY DEF Index
  <2>2. \A i \in Index : buf'.val[i] = IF i < n THEN StreamAt(fd, i) ELSE buf.val[i]
    BY <1>7 DEF Receive
  <2>3. exact' => \A i \in Index : buf'.expr[i] = Shadow(fd, n)[i]
    BY <1>7, <1>8
  <2>4. /\ \A i \in Index : i >= n => buf'.val[i] = buf.val[i]
        /\ \A i \in Index : i < n => buf'.val[i] = StreamAt(fd, i)
    BY <1>4, <2>1, <2>2
  <2> QED BY <1>1, <1>4, <1>7, <1>8, <2>3, <2>4, StoresMatch
<1> QED BY <1>9, <1>10 DEF LibcInv

LEMMA getcKeeps ==
  ASSUME LibcInv, NEW fd \in FD, getc(fd)
  PROVE  LibcInv'
<1>1. fd \in Open /\ UNCHANGED <<input, inputFileDescriptor, buf, exact>>
  BY DEF getc
<1>2. StreamLeft(fd) \in Nat
  BY <1>1, OpenType DEF LibcInv
<1>3. CASE StreamLeft(fd) = 0
  <2>1. ret' = [val |-> EOF, expr |-> Null] /\ UNCHANGED <<fds, streams, inputOffset>>
    BY <1>3 DEF getc
  <2>2. Typed'
    BY <1>1, <2>1 DEF LibcInv, Typed, TypeOK
  <2>3. OffsetIsPosition' /\ StreamInStep'
    BY <1>1, <2>1 DEF LibcInv, OffsetIsPosition, StreamInStep, Position, Ahead, Open
  <2>4. Matches(ret'.expr, ret'.val)
    BY <2>1 DEF Matches
  <2>5. ExactExpressionsMatch'
    BY <1>1, <2>4 DEF LibcInv, ExactExpressionsMatch, ExpressionsMatch, Matches, InputByte
  <2> QED BY <2>2, <2>3, <2>5 DEF LibcInv
<1>4. CASE StreamLeft(fd) # 0
  <2>1. /\ ret' = [val  |-> StreamAt(fd, 0),
                   expr |-> IF fd = inputFileDescriptor THEN inputOffset ELSE Null]
        /\ Take(fd, 1) /\ Advance(fd, 1)
    BY <1>4 DEF getc
  <2>2. 1 <= StreamLeft(fd) /\ exact' \in BOOLEAN
    BY <1>1, <1>2, <1>4 DEF LibcInv, Typed, TypeOK
  <2>3. Typed' /\ OffsetIsPosition' /\ StreamInStep'
    BY <1>1, <2>1, <2>2, TakeKeeps
  <2>4. ASSUME exact PROVE Matches(ret'.expr, ret'.val)
    <3>1. CASE fd = inputFileDescriptor
      <4>1. inputOffset + 0 = inputOffset /\ 0 < StreamLeft(fd)
        BY <1>2, <1>4 DEF LibcInv, Typed, TypeOK
      <4>2. Matches(inputOffset + 0, StreamAt(fd, 0))
        BY <1>1, <2>4, <3>1, <4>1, InputAt DEF LibcInv
      <4> QED BY <2>1, <3>1, <4>1, <4>2
    <3>2. CASE fd # inputFileDescriptor
      BY <2>1, <3>2 DEF Matches
    <3> QED BY <3>1, <3>2
  <2>5. ExactExpressionsMatch'
    BY <1>1, <2>4 DEF LibcInv, ExactExpressionsMatch, ExpressionsMatch, Matches, InputByte
  <2> QED BY <2>3, <2>5 DEF LibcInv
<1> QED BY <1>3, <1>4

\* The stream goes back where the wrappers go back, or gets a foreign character.
LEMMA ungetcKeeps ==
  ASSUME LibcInv, NEW fd \in FD, NEW c \in Char, ungetc(fd, c)
  PROVE  LibcInv'
<1>1. /\ fd \in Open /\ Back(fd) = 0 /\ Advance(fd, -1)
      /\ exact' = (exact /\ (IsBefore(fd, c) \/ fd # inputFileDescriptor))
      /\ UNCHANGED <<input, fds, inputFileDescriptor, buf, ret>>
  BY DEF ungetc
<1>2. exact' \in BOOLEAN /\ (exact' => exact /\ (IsBefore(fd, c) \/ fd # inputFileDescriptor))
  BY <1>1
<1>3. /\ fds[fd].pos \in Nat /\ Size(fds[fd].file) \in Nat
      /\ fds[fd].pos <= Size(fds[fd].file)
      /\ fds[fd] \in Descriptor /\ streams[fd] \in Stream
      /\ streams[fd].from \in Nat /\ streams[fd].to \in Nat
      /\ streams[fd].from <= streams[fd].to /\ streams[fd].to <= Size(fds[fd].file)
      /\ Ahead(fd) = streams[fd].to - streams[fd].from
  BY <1>1, OpenType DEF LibcInv, Ahead
<1>4. fds' = [fds EXCEPT ![fd].pos = fds[fd].pos] /\ fds[fd].pos \in 0..Size(fds[fd].file)
  <2>1. fds[fd] = [fds[fd] EXCEPT !.pos = fds[fd].pos]
    BY <1>3 DEF Descriptor
  <2>2. fds = [fds EXCEPT ![fd] = [fds[fd] EXCEPT !.pos = fds[fd].pos]]
    BY <2>1 DEF LibcInv, Typed
  <2> QED BY <1>1, <1>3, <2>2
<1>5. inputOffset' \in Int /\ (fd # inputFileDescriptor => inputOffset' = inputOffset)
      /\ (fd = inputFileDescriptor => inputOffset' = inputOffset - 1)
  BY <1>1 DEF LibcInv, Typed, TypeOK, Advance
<1>6. CASE IsBefore(fd, c)
  <2> DEFINE p == Position(fd)
             s == [from |-> p - 1, to |-> p + Ahead(fd), back |-> NoChar]
  <2>1. p \in Nat /\ p > 0 /\ p + Ahead(fd) \in Nat /\ p + Ahead(fd) <= Size(fds[fd].file)
    BY <1>3, <1>6 DEF IsBefore, Position
  <2>2. s \in Stream /\ s.from = p - 1 /\ s.to = p + Ahead(fd) /\ s.back = NoChar
    BY <2>1 DEF Stream
  <2>3. streams' = [streams EXCEPT ![fd] = s]
    BY <1>6 DEF ungetc
  <2>4. Stepped(fd, fds[fd].pos, s)
    <3>1. s.from <= s.to /\ s.to <= Size(fds[fd].file)
      BY <1>3, <2>1, <2>2
    <3> HIDE DEF s
    <3> QED BY <1>4, <2>2, <2>3, <3>1 DEF Stepped
  <2>5. ASSUME exact', fd = inputFileDescriptor PROVE Aligned(fds[fd].pos, s, inputOffset')
    <3>1. /\ inputOffset = IF Ahead(fd) > 0 THEN streams[fd].from ELSE fds[fd].pos
          /\ Ahead(fd) > 0 => streams[fd].to = fds[fd].pos
      BY <1>1, <1>2, <2>5, InputAligned
    <3>2. p = inputOffset /\ p + Ahead(fd) = fds[fd].pos
      BY <1>3, <3>1 DEF Position
    <3>3. s.from < s.to /\ s.to = fds[fd].pos /\ inputOffset' = s.from
      BY <1>3, <1>5, <2>1, <2>2, <2>5, <3>2
    <3> HIDE DEF s
    <3> QED BY <2>2, <3>3 DEF Aligned
  <2> HIDE DEF s
  <2>6. Typed' /\ OffsetIsPosition' /\ StreamInStep'
    BY <1>1, <1>2, <1>5, <2>4, <2>5, SteppedKeeps DEF LibcInv
  <2> QED BY <1>1, <1>2, <2>6
          DEF LibcInv, ExactExpressionsMatch, ExpressionsMatch, Matches, InputByte
<1>7. CASE ~IsBefore(fd, c)
  <2> DEFINE s == [streams[fd] EXCEPT !.back = c]
  <2>1. s \in Stream /\ s.from = streams[fd].from /\ s.to = streams[fd].to
    BY <1>3 DEF Stream
  <2>2. streams' = [streams EXCEPT ![fd] = s]
    BY <1>7 DEF ungetc
  <2>3. Stepped(fd, fds[fd].pos, s)
    <3> HIDE DEF s
    <3> QED BY <1>3, <1>4, <2>1, <2>2 DEF Stepped
  <2> HIDE DEF s
  <2>4. ~(exact' /\ fd = inputFileDescriptor)
    BY <1>2, <1>7
  <2>5. Typed' /\ OffsetIsPosition' /\ StreamInStep'
    BY <1>1, <1>2, <1>5, <2>3, <2>4, SteppedKeeps DEF LibcInv
  <2> QED BY <1>1, <1>2, <2>5
          DEF LibcInv, ExactExpressionsMatch, ExpressionsMatch, Matches, InputByte
<1> QED BY <1>6, <1>7

\* Calls that position a descriptor and touch neither the buffer nor the result.
LEMMA RepositionKeeps ==
  ASSUME LibcInv, NEW fd \in Open, NEW pos \in Nat, NEW q, NEW s, Stepped(fd, q, s),
         Reposition(fd, pos), UNCHANGED <<input, inputFileDescriptor, buf, ret>>,
         exact' \in BOOLEAN, exact' => exact,
         exact' /\ fd = inputFileDescriptor => Aligned(q, s, pos)
  PROVE  LibcInv'
<1>1. inputOffset' \in Int /\ (fd # inputFileDescriptor => inputOffset' = inputOffset)
      /\ (fd = inputFileDescriptor => inputOffset' = pos)
  BY DEF LibcInv, Typed, TypeOK, Reposition
<1>2. Typed' /\ OffsetIsPosition' /\ StreamInStep'
  BY <1>1, SteppedKeeps DEF LibcInv
<1> QED BY <1>2 DEF LibcInv, ExactExpressionsMatch, ExpressionsMatch, Matches, InputByte

LEMMA lseek64Keeps ==
  ASSUME LibcInv, NEW fd \in Open, NEW pos \in 0..Size(fds[fd].file), lseek64(fd, pos)
  PROVE  LibcInv'
<1>1. /\ Move(fd, pos) /\ Reposition(fd, pos)
      /\ exact' = (exact /\ KernelInStep(fd))
      /\ UNCHANGED <<input, streams, inputFileDescriptor, buf, ret>>
  BY DEF lseek64
<1>2. exact' \in BOOLEAN /\ (exact' => exact /\ KernelInStep(fd))
  BY <1>1
<1>3. /\ streams[fd] \in Stream /\ streams[fd].from <= streams[fd].to
      /\ streams[fd].to <= Size(fds[fd].file) /\ Size(fds[fd].file) \in Nat
      /\ streams[fd].from \in Nat /\ streams[fd].to \in Nat
  BY OpenType DEF LibcInv
<1>4. Stepped(fd, pos, streams[fd])
  <2>1. streams' = [streams EXCEPT ![fd] = streams[fd]]
    BY <1>1 DEF LibcInv, Typed
  <2> QED BY <1>1, <1>3, <2>1 DEF Stepped, Move
<1>5. ASSUME exact', fd = inputFileDescriptor PROVE Aligned(pos, streams[fd], pos)
  <2>1. Ahead(fd) = 0 /\ Back(fd) = 0
    BY <1>2, <1>5, NothingHeld DEF KernelInStep
  <2>2. ~(streams[fd].from < streams[fd].to) /\ streams[fd].back = NoChar
    BY <1>3, <2>1 DEF Ahead, Back
  <2> QED BY <2>2 DEF Aligned
<1>6. pos \in Nat
  BY <1>3
<1> QED BY <1>1, <1>2, <1>4, <1>5, <1>6, RepositionKeeps

LEMMA fseekKeeps ==
  ASSUME LibcInv, NEW fd \in Open, NEW pos \in 0..Size(fds[fd].file), fseek(fd, pos)
  PROVE  LibcInv'
<1>1. /\ Seek(fd, pos) /\ Reposition(fd, pos)
      /\ UNCHANGED <<input, inputFileDescriptor, buf, ret, exact>>
  BY DEF fseek
<1>2. exact' \in BOOLEAN /\ pos \in Nat
  BY <1>1, OpenType DEF LibcInv, Typed, TypeOK
<1>3. PICK q, s : Stepped(fd, q, s) /\ Aligned(q, s, pos)
  BY <1>1, SeekSteps DEF LibcInv
<1> QED BY <1>1, <1>2, <1>3, RepositionKeeps

LEMMA rewindKeeps ==
  ASSUME LibcInv, NEW fd \in FD, rewind(fd)
  PROVE  LibcInv'
<1>1. /\ fd \in Open /\ Reposition(fd, 0)
      /\ exact' = (exact /\ (Seekable(fd) \/ fd # inputFileDescriptor))
      /\ UNCHANGED <<input, inputFileDescriptor, buf, ret>>
  BY DEF rewind
<1>2. exact' \in BOOLEAN /\ (exact' => exact /\ (Seekable(fd) \/ fd # inputFileDescriptor))
  BY <1>1
<1>3. CASE Seekable(fd)
  <2>1. Seek(fd, 0) /\ 0 \in 0..Size(fds[fd].file)
    BY <1>1, <1>3, OpenType DEF LibcInv, rewind
  <2>2. PICK q, s : Stepped(fd, q, s) /\ Aligned(q, s, 0)
    BY <1>1, <2>1, SeekSteps DEF LibcInv
  <2> QED BY <1>1, <1>2, <2>2, RepositionKeeps
<1>4. CASE ~Seekable(fd)
  <2>1. Stepped(fd, fds[fd].pos, streams[fd])
    BY <1>1, <1>4, StandsStill DEF LibcInv, rewind
  <2> QED BY <1>1, <1>2, <1>4, <2>1, RepositionKeeps
<1> QED BY <1>3, <1>4

LEMMA mmap64Keeps ==
  ASSUME LibcInv, NEW fd \in FD \cup {NoFD}, NEW len \in 1..BufLen, NEW off \in 0..BufLen,
         mmap64(fd, len, off)
  PROVE  LibcInv'
<1>1. /\ inputOffset' = IF fd = inputFileDescriptor THEN off + len ELSE inputOffset
      /\ exact' = (exact /\ ~(fd = inputFileDescriptor))
      /\ UNCHANGED <<input, fds, streams, inputFileDescriptor, ret>>
  BY DEF mmap64
<1>2. exact' \in BOOLEAN /\ (exact' => exact /\ fd # inputFileDescriptor)
  BY <1>1
<1>3. off + len \in Nat
  BY LibcAssumption
<1>4. Typed'
  BY <1>1, <1>2, <1>3 DEF LibcInv, Typed, TypeOK
<1>5. OffsetIsPosition' /\ StreamInStep'
  BY <1>1, <1>2 DEF LibcInv, OffsetIsPosition, StreamInStep, Position, Ahead, Open
<1>6. ExactExpressionsMatch'
  <2> SUFFICES ASSUME exact' PROVE ExpressionsMatch'
    BY DEF ExactExpressionsMatch
  <2>1. ASSUME NEW i \in Index PROVE Matches(buf'.expr[i], buf'.val[i])
    <3>1. /\ buf'.expr[i] = IF i >= len THEN buf.expr[i] ELSE Null
          /\ i >= len => buf'.val[i] = buf.val[i]
      <4>1. i \in Int /\ len \in Int
        BY DEF Index
      <4> QED BY <1>2, <4>1 DEF mmap64
    <3> QED BY <1>2, <3>1 DEF LibcInv, ExactExpressionsMatch, ExpressionsMatch, Matches
  <2> QED BY <1>1, <1>2, <2>1
          DEF LibcInv, ExactExpressionsMatch, ExpressionsMatch, Matches, InputByte
<1> QED BY <1>4, <1>5, <1>6 DEF LibcInv

\* fgets takes no more than there is room for, and no more than there is left.
LEMMA LineLengthIs ==
  ASSUME LibcInv, NEW fd \in Open, NEW n \in 1..BufLen
  PROVE  /\ LineLength(fd, n) \in Nat /\ LineLength(fd, n) <= n - 1
         /\ LineLength(fd, n) <= StreamLeft(fd)
<1> DEFINE stops == {i \in 0..(StreamLeft(fd) - 1) : StreamAt(fd, i) = Newline}
           S == {n - 1, StreamLeft(fd)} \cup {i + 1 : i \in stops}
<1>1. StreamLeft(fd) \in Nat /\ n - 1 \in Nat
  BY OpenType, LibcAssumption DEF LibcInv
<1>2. S \in SUBSET Nat /\ S # {}
  BY <1>1
<1>3. Min(S) \in S /\ Min(S) <= n - 1 /\ Min(S) <= StreamLeft(fd)
  BY <1>2, MinIs
<1>4. LineLength(fd, n) = Min(S)
  BY DEF LineLength
<1> QED BY <1>2, <1>3, <1>4

LEMMA strlenIs ==
  ASSUME NEW val, \E i \in Index : val[i] = 0
  PROVE  strlen(val) \in Index
<1>1. {i \in Index : val[i] = 0} \in SUBSET Nat
  BY LibcAssumption DEF Index
<1> QED BY <1>1, MinIs DEF strlen

LEMMA fgetsKeeps ==
  ASSUME LibcInv, NEW fd \in FD, NEW n \in 1..BufLen, fgets(fd, n)
  PROVE  LibcInv'
<1>1. fd \in Open
  BY DEF fgets
<1>2. PICK taken : taken = LineLength(fd, n)
  OBVIOUS
<1>3. taken \in Nat /\ taken <= n - 1 /\ taken <= StreamLeft(fd) /\ taken \in Index
  BY <1>1, <1>2, LineLengthIs, LibcAssumption DEF Index
<1>4. PICK val : val = IF StreamLeft(fd) = 0 THEN buf.val
                       ELSE [i \in Index |-> IF i < taken THEN StreamAt(fd, i)
                                             ELSE IF i = taken THEN 0 ELSE buf.val[i]]
  OBVIOUS
<1>5. PICK len : len = strlen(val)
  OBVIOUS
<1>6. /\ \E i \in Index : val[i] = 0
      /\ buf' = [val |-> val, expr |-> Shadow(fd, len)]
      /\ Take(fd, taken) /\ Advance(fd, len)
      /\ exact' = (exact /\ taken > 0 /\ len = taken /\ buf.expr[taken] = Null)
      /\ UNCHANGED <<input, inputFileDescriptor, ret>>
  BY <1>2, <1>4, <1>5 DEF fgets
<1>7. len \in Nat
  BY <1>5, <1>6, strlenIs, LibcAssumption DEF Index
<1>8. /\ exact' \in BOOLEAN
      /\ exact' => exact /\ taken > 0 /\ len = taken /\ buf.expr[taken] = Null
  BY <1>6
<1>9. Typed' /\ OffsetIsPosition' /\ StreamInStep'
  BY <1>1, <1>3, <1>6, <1>7, <1>8, TakeKeeps
<1>10. ExactExpressionsMatch'
  <2> SUFFICES ASSUME exact' PROVE ExpressionsMatch'
    BY DEF ExactExpressionsMatch
  <2>1. StreamLeft(fd) # 0 /\ exact /\ len = taken /\ StreamLeft(fd) \in Nat
    BY <1>1, <1>3, <1>8, OpenType DEF LibcInv
  <2>2. ASSUME NEW i \in Index PROVE Matches(buf'.expr[i], buf'.val[i])
    <3>1. /\ buf'.expr[i] = Shadow(fd, taken)[i]
          /\ buf'.val[i] = IF i < taken THEN StreamAt(fd, i)
                           ELSE IF i = taken THEN 0 ELSE buf.val[i]
      BY <1>4, <1>6, <2>1
    <3>2. i \in Nat /\ (i < taken => i < StreamLeft(fd))
      BY <1>3, <2>1, LibcAssumption DEF Index
    <3>3. i < taken /\ fd = inputFileDescriptor => Matches(inputOffset + i, StreamAt(fd, i))
      BY <1>1, <2>1, <3>2, InputAt
    <3>4. Matches(Shadow(fd, taken)[i], IF i < taken THEN StreamAt(fd, i) ELSE buf.val[i])
      BY <1>3, <2>1, <3>3, ShadowMatches
    <3>5. CASE i # taken
      BY <3>1, <3>4, <3>5
    <3>6. CASE i = taken
      <4>1. Shadow(fd, taken)[i] = Null
        BY <1>3, <1>8, <3>6 DEF Shadow
      <4> QED BY <3>1, <4>1 DEF Matches
    <3> QED BY <3>5, <3>6
  <2>3. Matches(ret'.expr, ret'.val)
    BY <1>6, <2>1 DEF LibcInv, ExactExpressionsMatch, ExpressionsMatch
  <2> QED BY <2>2, <2>3 DEF ExpressionsMatch, Matches, InputByte
<1> QED BY <1>9, <1>10 DEF LibcInv

-------------------------------------------------------------------------------
(* The theorems. *)

LEMMA InitHolds == Init => LibcInv
<1> SUFFICES ASSUME Init PROVE LibcInv
  OBVIOUS
<1>1. /\ [file |-> InputFile, pos |-> 0] \in Descriptor /\ Closed \in Descriptor
      /\ NoStream \in Stream
  BY LibcAssumption DEF Descriptor, Closed, Stream, NoStream
<1>2. Size(InputFile) \in Nat /\ InputFile \in File
  BY SizeType, LibcAssumption
<1>3. /\ input \in {"stdin", "pipe", "file"} /\ inputFileDescriptor \in {0, NoFD}
      /\ inputOffset = 0 /\ exact = TRUE /\ ret = [val |-> EOF, expr |-> Null]
      /\ buf = [val |-> [i \in Index |-> 0], expr |-> [i \in Index |-> Null]]
      /\ streams = [fd \in FD |-> NoStream]
  BY DEF Init
<1>4. /\ fds \in [FD -> Descriptor] /\ streams \in [FD -> Stream]
      /\ \A fd \in FD : fds[fd] = Closed \/ fds[fd] = [file |-> InputFile, pos |-> 0]
      /\ \A fd \in FD : streams[fd] = [from |-> 0, to |-> 0, back |-> NoChar]
  BY <1>1, <1>3 DEF Init, NoStream
<1>5. \A fd \in FD : /\ streams[fd].from \in 0..streams[fd].to
                     /\ streams[fd].back \in Char \cup {NoChar}
                     /\ fds[fd] = Closed \/ /\ fds[fd].file \in File
                                            /\ fds[fd].pos \in 0..Size(fds[fd].file)
                                            /\ streams[fd].to \in 0..Size(fds[fd].file)
  BY <1>2, <1>4
<1>6. Typed
  BY <1>3, <1>4, <1>5, LibcAssumption DEF Typed, TypeOK
<1>7. OffsetIsPosition /\ StreamInStep
  BY <1>3, <1>4 DEF OffsetIsPosition, StreamInStep, Position, Ahead, Open
<1>8. ExactExpressionsMatch
  BY <1>3 DEF ExactExpressionsMatch, ExpressionsMatch, Matches
<1> QED BY <1>6, <1>7, <1>8 DEF LibcInv

LEMMA NextKeeps ==
  ASSUME LibcInv, [Next]_vars
  PROVE  LibcInv'
<1>1. CASE \E p \in Path : open(p)
  BY <1>1, openKeeps
<1>2. CASE \E fd \in FD : close(fd)
  BY <1>2, closeKeeps
<1>3. CASE \E fd \in FD, n, result \in 0..BufLen : read(fd, n, result)
  BY <1>3, readKeeps
<1>4. CASE \E fd \in FD, size, nmemb \in 1..BufLen : fread(fd, size, nmemb)
  BY <1>4, freadKeeps
<1>5. CASE \E fd \in FD, n \in 1..BufLen : fgets(fd, n)
  BY <1>5, fgetsKeeps
<1>6. CASE \E fd \in FD : getc(fd)
  BY <1>6, getcKeeps
<1>7. CASE \E fd \in FD, c \in Char : ungetc(fd, c)
  BY <1>7, ungetcKeeps
<1>8. CASE \E fd \in FD : rewind(fd)
  BY <1>8, rewindKeeps
<1>9. CASE \E fd \in Open : \E pos \in 0..Size(fds[fd].file) : lseek64(fd, pos)
  BY <1>9, lseek64Keeps
<1>10. CASE \E fd \in Open : \E pos \in 0..Size(fds[fd].file) : fseek(fd, pos)
  BY <1>10, fseekKeeps
<1>11. CASE \E fd \in FD \cup {NoFD}, len \in 1..BufLen, off \in 0..BufLen :
              mmap64(fd, len, off)
  BY <1>11, mmap64Keeps
<1>12. CASE UNCHANGED vars
  BY <1>12 DEF vars, LibcInv, Typed, TypeOK, OffsetIsPosition, StreamInStep, Position, Ahead,
               Open, ExactExpressionsMatch, ExpressionsMatch, Matches, InputByte
<1> QED BY <1>1, <1>2, <1>3, <1>4, <1>5, <1>6, <1>7, <1>8, <1>9, <1>10, <1>11, <1>12 DEF Next

LEMMA LibcInvariance == Spec => []LibcInv
<1>1. LibcInv /\ [Next]_vars => LibcInv'
  BY NextKeeps
<1> QED BY <1>1, InitHolds, PTL DEF Spec

\* The variables of the wrappers have their types, whatever the files and however
\* many descriptors there are.
THEOREM LibcTypes == Spec => []TypeOK
<1>1. LibcInv => TypeOK
  BY DEF LibcInv, Typed
<1> QED BY <1>1, LibcInvariance, PTL

\* inputOffset is the position of the next byte of the input, in the stream or in
\* the kernel, as long as the program stays within the calls that the wrappers
\* support.
THEOREM OffsetIsRight == Spec => []OffsetIsPosition
<1>1. LibcInv => OffsetIsPosition
  BY DEF LibcInv
<1> QED BY <1>1, LibcInvariance, PTL

\* In that case the expressions of the buffer and of the last character name the
\* bytes of the input that are stored there.
THEOREM ExpressionsAreRight == Spec => []ExactExpressionsMatch
<1>1. LibcInv => ExactExpressionsMatch
  BY DEF LibcInv
<1> QED BY <1>1, LibcInvariance, PTL

\* What a call on descriptor fd does to the shadow of the buffer.
LEMMA OtherFile ==
  ASSUME LibcInv, exact, NEW fd \in Open, fds[fd].file # InputFile
  PROVE  /\ fd # inputFileDescriptor
         /\ \A n \in Int, i \in Index : Shadow(fd, n)[i] \in {buf.expr[i], Null}
<1>1. fd # inputFileDescriptor
  BY DEF LibcInv, OffsetIsPosition
<1> QED BY <1>1 DEF Shadow

\* A call that changes what descriptor fd has changes no other one.
LEMMA OneDescriptor ==
  ASSUME LibcInv, NEW x \in Open, NEW q, NEW s, Stepped(x, q, s), NEW fd \in Open,
         fds'[fd] # fds[fd] \/ streams'[fd] # streams[fd]
  PROVE  x = fd
<1>1. \A y \in FD \ {x} : fds'[y] = fds[y] /\ streams'[y] = streams[y]
  BY SteppedType DEF LibcInv
<1> QED BY <1>1 DEF Open

\* Only the input is symbolic: a supported call that reads from another file
\* neither moves the position in the input nor makes a byte symbolic.
THEOREM OthersAreConcrete == Spec => OthersStayConcrete
<1> DEFINE Kept == /\ inputOffset' = inputOffset
                   /\ \A i \in Index : buf'.expr[i] \in {buf.expr[i], Null}
           A == exact' => \A fd \in Open :
                  /\ fds[fd].file # InputFile /\ fds'[fd] # Closed
                  /\ fds'[fd] # fds[fd] \/ streams'[fd] # streams[fd]
                  => Kept
<1>1. LibcInv /\ [Next]_vars => [A]_vars
  <2> SUFFICES ASSUME LibcInv, Next, exact', NEW fd \in Open,
                      fds[fd].file # InputFile, fds'[fd] # Closed,
                      fds'[fd] # fds[fd] \/ streams'[fd] # streams[fd]
               PROVE  Kept
    OBVIOUS
  <2>0. fd \in FD /\ fds[fd] # Closed
    BY DEF Open
  <2>1. ASSUME NEW p \in Path, open(p) PROVE FALSE
    <3>1. PICK x \in FD : Opened(p, x)
      BY <2>1 DEF open
    <3>2. fds[x] = Closed /\ \A y \in FD \ {x} : fds'[y] = fds[y] /\ streams'[y] = streams[y]
      BY <3>1, OpenedIs DEF LibcInv
    <3> QED BY <2>0, <3>2
  <2>2. ASSUME NEW x \in FD, close(x) PROVE FALSE
    <3>1. /\ fds' = [fds EXCEPT ![x] = Closed] /\ streams' = [streams EXCEPT ![x] = NoStream]
      BY <2>2 DEF close
    <3>2. x # fd => fds'[fd] = fds[fd] /\ streams'[fd] = streams[fd]
      BY <2>0, <3>1 DEF LibcInv, Typed
    <3> QED BY <2>0, <3>1, <3>2 DEF LibcInv, Typed
  <2>3. ASSUME NEW n \in Int, exact, Advance(fd, n), NEW val,
               buf' = buf \/ buf' = [val |-> val, expr |-> Shadow(fd, n)]
        PROVE  Kept
    <3>1. fd # inputFileDescriptor
          /\ \A i \in Index : Shadow(fd, n)[i] \in {buf.expr[i], Null}
      BY <2>3, OtherFile
    <3>2. \/ \A i \in Index : buf'.expr[i] = buf.expr[i]
          \/ \A i \in Index : buf'.expr[i] = Shadow(fd, n)[i]
      BY <2>3
    <3> QED BY <2>3, <3>1, <3>2 DEF Advance
  <2>4. ASSUME NEW x \in Open, NEW n \in Nat, n <= StreamLeft(x), Take(x, n) PROVE x = fd
    BY <2>4, TakeSteps, OneDescriptor
  <2>5. ASSUME NEW x \in Open, NEW p, Move(x, p), UNCHANGED streams PROVE x = fd
    BY <2>0, <2>5 DEF Move, LibcInv, Typed
  <2>6. ASSUME exact, NEW p, Reposition(fd, p), buf' = buf
        PROVE  Kept
    BY <2>6, OtherFile DEF Reposition
  <2>7. ASSUME NEW x \in FD, NEW n \in 0..BufLen, NEW result \in 0..BufLen,
               read(x, n, result)
        PROVE  Kept
    <3>1. x = fd
      BY <2>5, <2>7 DEF read
    <3>2. exact /\ Advance(fd, result)
      BY <2>7, <3>1 DEF read
    <3>3. buf' = [val |-> Receive(At, fd, result), expr |-> Shadow(fd, result)]
      BY <2>7, <3>1 DEF read
    <3> QED BY <2>3, <3>2, <3>3
  <2>8. ASSUME NEW x \in FD, NEW size \in 1..BufLen, NEW nmemb \in 1..BufLen,
               fread(x, size, nmemb)
        PROVE  Kept
    <3>1. x \in Open
      BY <2>8 DEF fread
    <3>2. StreamLeft(x) \in Nat /\ size * nmemb \in Nat
      BY <3>1, OpenType, LibcAssumption DEF LibcInv
    <3>3. PICK n \in Nat : n = IF size * nmemb <= StreamLeft(x) THEN size * nmemb
                               ELSE StreamLeft(x)
      BY <3>2
    <3>4. PICK whole \in Int : whole = (n \div size) * size
      OBVIOUS
    <3>5. /\ Take(x, n) /\ Advance(x, whole)
          /\ buf' = [val |-> Receive(StreamAt, x, n), expr |-> Shadow(x, whole)]
          /\ exact' = (exact /\ n = whole)
      BY <2>8, <3>3, <3>4 DEF fread
    <3>6. exact
      BY <3>5
    <3>7. x = fd
      BY <2>4, <3>1, <3>2, <3>3, <3>5
    <3> QED BY <2>3, <3>5, <3>6, <3>7
  <2>9. ASSUME NEW x \in FD, NEW n \in 1..BufLen, fgets(x, n)
        PROVE  Kept
    <3>1. x \in Open /\ exact /\ Take(x, LineLength(x, n))
      BY <2>9 DEF fgets
    <3>2. x = fd
      BY <2>4, <3>1, LineLengthIs
    <3>3. PICK val : /\ Advance(fd, strlen(val)) /\ \E i \in Index : val[i] = 0
                     /\ buf' = [val |-> val, expr |-> Shadow(fd, strlen(val))]
      BY <2>9, <3>2 DEF fgets
    <3>4. strlen(val) \in Int
      BY <3>3, strlenIs DEF Index
    <3> QED BY <2>3, <3>1, <3>3, <3>4
  <2>10. ASSUME NEW x \in FD, getc(x)
         PROVE  Kept
    <3>1. x \in Open /\ exact /\ buf' = buf
      BY <2>10 DEF getc
    <3>2. StreamLeft(x) \in Nat
      BY <3>1, OpenType DEF LibcInv
    <3>3. CASE StreamLeft(x) = 0
      BY <2>10, <3>3 DEF getc
    <3>4. CASE StreamLeft(x) # 0
      <4>1. Take(x, 1) /\ Advance(x, 1) /\ 1 <= StreamLeft(x)
        BY <2>10, <3>2, <3>4 DEF getc
      <4>2. x = fd
        BY <2>4, <3>1, <4>1
      <4> QED BY <2>3, <3>1, <4>1, <4>2
    <3> QED BY <3>3, <3>4
  <2>11. ASSUME NEW x \in FD, NEW c \in Char, ungetc(x, c)
         PROVE  Kept
    <3>1. exact /\ buf' = buf /\ Advance(x, -1) /\ fds' = fds
      BY <2>11 DEF ungetc
    <3>2. PICK s : streams' = [streams EXCEPT ![x] = s]
      BY <2>11 DEF ungetc
    <3>3. x = fd
      BY <2>0, <3>1, <3>2 DEF LibcInv, Typed
    <3> QED BY <2>3, <3>1, <3>3
  <2>12. ASSUME NEW x \in Open, NEW p \in 0..Size(fds[x].file), fseek(x, p)
         PROVE  Kept
    <3>1. x = fd
      BY <2>12, SeekSteps, OneDescriptor DEF fseek, LibcInv
    <3> QED BY <2>6, <2>12, <3>1 DEF fseek
  <2>13. ASSUME NEW x \in FD, rewind(x)
         PROVE  Kept
    <3>1. x \in Open /\ exact /\ buf' = buf /\ Reposition(x, 0)
      BY <2>13 DEF rewind
    <3>2. x = fd
      <4>1. CASE Seekable(x)
        <5>1. Seek(x, 0) /\ 0 \in 0..Size(fds[x].file)
          BY <2>13, <3>1, <4>1, OpenType DEF rewind, LibcInv
        <5> QED BY <3>1, <5>1, SeekSteps, OneDescriptor DEF LibcInv
      <4>2. CASE ~Seekable(x)
        BY <2>13, <4>2 DEF rewind
      <4> QED BY <4>1, <4>2
    <3> QED BY <2>6, <3>1, <3>2
  <2>14. ASSUME NEW x \in Open, NEW p, lseek64(x, p)
         PROVE  Kept
    <3>1. exact /\ buf' = buf /\ Reposition(x, p) /\ x = fd
      BY <2>5, <2>14 DEF lseek64
    <3> QED BY <2>6, <3>1
  <2>15. ~\E x \in FD \cup {NoFD}, len \in 1..BufLen, off \in 0..BufLen : mmap64(x, len, off)
    BY DEF mmap64
  <2> HIDE DEF Kept
  <2> QED BY <2>1, <2>2, <2>7, <2>8, <2>9, <2>10, <2>11, <2>12, <2>13, <2>14, <2>15
          DEF Next
<1> QED BY <1>1, LibcInvariance, PTL DEF Spec, OthersStayConcrete
================================================================================
