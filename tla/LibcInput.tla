------------------------------- MODULE LibcInput -------------------------------
(***************************************************************************)
(* How the libc wrappers track the symbolic input file: the functions of    *)
(* runtime/src/LibcWrappers.cpp that open, read and position files.         *)
(*                                                                         *)
(* The wrappers keep one descriptor, inputFileDescriptor, and their own     *)
(* idea of the position in that file, inputOffset, next to the position     *)
(* that the kernel has.  Bytes that the program reads get the input         *)
(* variables that inputOffset says, so every call that moves the one        *)
(* position has to move the other one, too.  A stream adds a third one: it  *)
(* reads ahead of the program, and characters can be pushed back into it.   *)
(*                                                                         *)
(* The history variable exact remembers whether the program has stayed      *)
(* within the calls for which the wrappers get this right.                  *)
(***************************************************************************)
EXTENDS Integers, FiniteSets, FiniteSetsExt

CONSTANTS Content,   \* file -> its bytes, as functions from offsets
          FileAt,    \* path -> the file it leads to
          NameIn,    \* the paths in which the name of the input file occurs
          FD,        \* the descriptors a process can have, as numbers
          Char,      \* the characters that are pushed back
          BufLen     \* the size of the program's buffer

\* The symbolic input, which is standard input or the file that SYMCC_INPUT_FILE
\* names.
InputFile == "input"
File == DOMAIN Content
Path == DOMAIN FileAt
Size(f) == Cardinality(DOMAIN Content[f])

ASSUME LibcAssumption ==
  /\ FD \subseteq Nat /\ 0 \in FD
  /\ BufLen \in Nat \ {0}
  /\ InputFile \in File
  /\ FileAt \in [Path -> File] /\ NameIn \subseteq Path
  /\ Char \subseteq Nat
  /\ \A f \in File : /\ IsFiniteSet(DOMAIN Content[f])
                     /\ DOMAIN Content[f] = 0..(Size(f) - 1)

VARIABLES input,                \* g_config.input: "file", or standard input, which
                                \* is a file ("stdin") or cannot be positioned ("pipe")
          fds,                  \* the open files and their positions in the kernel
          streams,              \* what the stream on a descriptor holds
          inputFileDescriptor,  \* the descriptor taken for the symbolic input
          inputOffset,          \* the wrappers' position in the input
          buf,                  \* the program's buffer: values and expressions
          ret,                  \* the result of the last getc
          exact                 \* history, see above

vars == <<input, fds, streams, inputFileDescriptor, inputOffset, buf, ret, exact>>

NoFD == -1
EOF == -1

\* An expression is the offset of an input byte, or null.
Null == -1

Closed == [file |-> "closed", pos |-> 0]
Open == {fd \in FD : fds[fd] # Closed}
Index == 0..(BufLen - 1)

\* The bytes between the kernel's position and the end of the file.
Left(fd) == Size(fds[fd].file) - fds[fd].pos
At(fd, i) == Content[fds[fd].file][fds[fd].pos + i]

\* A stream holds a character that was pushed back and is not the one before it in
\* the file, and after that the bytes from `from` up to `to` of the file, which it
\* has read ahead.
NoChar == -1
NoStream == [from |-> 0, to |-> 0, back |-> NoChar]
Back(fd) == IF streams[fd].back = NoChar THEN 0 ELSE 1
Ahead(fd) == streams[fd].to - streams[fd].from
Held(fd) == Back(fd) + Ahead(fd)

\* The bytes that the program can still read from a stream: what it holds comes
\* first, then the bytes at the kernel's position.
StreamLeft(fd) == Held(fd) + Left(fd)
StreamAt(fd, i) ==
  CASE i < Back(fd) -> streams[fd].back
    [] i >= Back(fd) /\ i < Held(fd) ->
         Content[fds[fd].file][streams[fd].from + (i - Back(fd))]
    [] i >= Held(fd) -> At(fd, i - Held(fd))

\* Where the next byte of the file comes from.
Position(fd) == IF Ahead(fd) > 0 THEN streams[fd].from ELSE fds[fd].pos

\* A pipe or a terminal has no position that could be set.
Seekable(fd) == input = "pipe" => fds[fd].file # InputFile

Newline == 1

-------------------------------------------------------------------------------
(* Effects that the wrappers share *)

\* The first n cells of the buffer receive the next n bytes, from the kernel or
\* from the stream.
Receive(Byte(_, _), fd, n) ==
  [i \in Index |-> IF i < n THEN Byte(fd, i) ELSE buf.val[i]]

\* _sym_make_symbolic(buf, n, inputOffset), or the clearing of the shadow for
\* a descriptor that is not the input.
Shadow(fd, n) ==
  [i \in Index |-> IF i >= n THEN buf.expr[i]
                   ELSE IF fd = inputFileDescriptor THEN inputOffset + i ELSE Null]

\* Mutant: every file moves the position in the input.
MutantAdvanceAnyFile(fd, n) == inputOffset' = inputOffset + n

Advance(fd, n) ==
  inputOffset' = IF fd = inputFileDescriptor THEN inputOffset + n ELSE inputOffset

Move(fd, pos) == fds' = [fds EXCEPT ![fd].pos = pos]
Fill(fd, from, to) ==
  streams' = [streams EXCEPT ![fd] =
    IF from = to THEN NoStream ELSE [from |-> from, to |-> to, back |-> NoChar]]

\* The stream gives the program n bytes (external).  When what it holds is not
\* enough, it reads from the kernel, and as much more as it likes.
Take(fd, n) ==
  \/ /\ n = 0 /\ UNCHANGED <<fds, streams>>
  \/ /\ n > 0 /\ n <= Held(fd)
     /\ Fill(fd, streams[fd].from + (n - Back(fd)), streams[fd].to)
     /\ UNCHANGED fds
  \/ /\ n > 0 /\ n > Held(fd)
     /\ LET p == fds[fd].pos + (n - Held(fd))
        IN \E q \in p..Size(fds[fd].file) : Move(fd, q) /\ Fill(fd, p, q)

\* The program positions the stream (external).
Seek(fd, p) == \E q \in p..Size(fds[fd].file) : Move(fd, q) /\ Fill(fd, p, q)

\* The wrappers position themselves where the file is.
Reposition(fd, pos) ==
  inputOffset' = IF fd = inputFileDescriptor THEN pos ELSE inputOffset

-------------------------------------------------------------------------------
(* Wrappers *)

\* maybeSetInputFile looks for the name in the path only if the input is a file.
IsInputPath(p) == input = "file" /\ p \in NameIn

\* The kernel takes the lowest free descriptor.
Opened(p, fd) ==
  /\ \E x \in FD : fds[x] = Closed
  /\ fd = Min({x \in FD : fds[x] = Closed})
  /\ input = "pipe" => FileAt[p] # InputFile
  /\ fds' = [fds EXCEPT ![fd] = [file |-> FileAt[p], pos |-> 0]]
  /\ streams' = [streams EXCEPT ![fd] = NoStream]

\* Supported: the name is in the path of no other file, and the descriptor is not
\* the one that the wrappers still take for the input.
OpenSupported(p, fd) ==
  IF IsInputPath(p) THEN FileAt[p] = InputFile ELSE fd # inputFileDescriptor

\* Mutant: the offset of an earlier descriptor is kept.
MutantOpenKeepsOffset(p) ==
  \E fd \in FD :
    /\ Opened(p, fd)
    /\ inputFileDescriptor' = IF IsInputPath(p) THEN fd ELSE inputFileDescriptor
    /\ exact' = (exact /\ OpenSupported(p, fd))
    /\ UNCHANGED <<input, inputOffset, buf, ret>>

\* open, fopen and fopen64 with maybeSetInputFile.
open(p) ==
  \E fd \in FD :
    /\ Opened(p, fd)
    /\ IF IsInputPath(p)
       THEN inputFileDescriptor' = fd /\ inputOffset' = 0
       ELSE UNCHANGED <<inputFileDescriptor, inputOffset>>
    /\ exact' = (exact /\ OpenSupported(p, fd))
    /\ UNCHANGED <<input, buf, ret>>

\* close and fclose are not wrapped (external).
close(fd) ==
  /\ fd \in Open
  /\ fds' = [fds EXCEPT ![fd] = Closed]
  /\ streams' = [streams EXCEPT ![fd] = NoStream]
  /\ UNCHANGED <<input, inputFileDescriptor, inputOffset, buf, ret, exact>>

\* Calls that go to the kernel pass over what a stream holds, but the wrappers
\* have counted only what the program has got from it.
KernelInStep(fd) == fd = inputFileDescriptor => Held(fd) = 0

\* Mutant: the offset advances by what was asked for, not by what was read.
MutantReadAdvancesByRequest(fd, n, result) ==
  /\ fd \in Open
  /\ result <= n /\ result <= Left(fd)
  /\ buf' = [val |-> Receive(At, fd, result), expr |-> Shadow(fd, result)]
  /\ Move(fd, fds[fd].pos + result) /\ Advance(fd, n)
  /\ exact' = (exact /\ KernelInStep(fd))
  /\ UNCHANGED <<input, streams, inputFileDescriptor, ret>>

\* read, which may return fewer bytes than asked for.
read(fd, n, result) ==
  /\ fd \in Open
  /\ result <= n /\ result <= Left(fd)
  /\ buf' = [val |-> Receive(At, fd, result), expr |-> Shadow(fd, result)]
  /\ Move(fd, fds[fd].pos + result) /\ Advance(fd, result)
  /\ exact' = (exact /\ KernelInStep(fd))
  /\ UNCHANGED <<input, streams, inputFileDescriptor, ret>>

\* fread of nmemb items: the bytes of an item that is cut off by the end of the
\* file are in the buffer, but the wrapper does not count them.
fread(fd, size, nmemb) ==
  LET n     == IF size * nmemb <= StreamLeft(fd) THEN size * nmemb ELSE StreamLeft(fd)
      whole == (n \div size) * size
  IN /\ fd \in Open /\ size * nmemb <= BufLen
     /\ buf' = [val |-> Receive(StreamAt, fd, n), expr |-> Shadow(fd, whole)]
     /\ Take(fd, n) /\ Advance(fd, whole)
     /\ exact' = (exact /\ n = whole)
     /\ UNCHANGED <<input, inputFileDescriptor, ret>>

\* The number of characters that fgets takes from the stream: up to and with the
\* next newline, and fewer than n.
LineLength(fd, n) ==
  LET stops == {i \in 0..(StreamLeft(fd) - 1) : StreamAt(fd, i) = Newline}
  IN Min({n - 1, StreamLeft(fd)} \cup {i + 1 : i \in stops})

strlen(val) == Min({i \in Index : val[i] = 0})

\* fgets stores a terminator, whose shadow the wrapper leaves alone, and asks
\* strlen how much was read: less than that if there is a zero in the line.  At
\* the end of the file the buffer is unchanged and counts as read again.
fgets(fd, n) ==
  LET taken == LineLength(fd, n)
      val   == IF StreamLeft(fd) = 0 THEN buf.val
               ELSE [i \in Index |-> IF i < taken THEN StreamAt(fd, i)
                                     ELSE IF i = taken THEN 0 ELSE buf.val[i]]
      len   == strlen(val)
  IN /\ fd \in Open
     /\ \E i \in Index : val[i] = 0
     /\ buf' = [val |-> val, expr |-> Shadow(fd, len)]
     /\ Take(fd, taken) /\ Advance(fd, len)
     /\ exact' = (exact /\ taken > 0 /\ len = taken /\ buf.expr[taken] = Null)
     /\ UNCHANGED <<input, inputFileDescriptor, ret>>

\* getc, fgetc and getchar.
getc(fd) ==
  /\ fd \in Open
  /\ IF StreamLeft(fd) = 0
     THEN /\ ret' = [val |-> EOF, expr |-> Null]
          /\ UNCHANGED <<fds, streams, inputOffset>>
     ELSE /\ ret' = [val  |-> StreamAt(fd, 0),
                     expr |-> IF fd = inputFileDescriptor THEN inputOffset ELSE Null]
          /\ Take(fd, 1) /\ Advance(fd, 1)
  /\ UNCHANGED <<input, inputFileDescriptor, buf, exact>>

\* Is c the character before the position?  Then pushing it back is going back.
IsBefore(fd, c) ==
  Position(fd) > 0 /\ Content[fds[fd].file][Position(fd) - 1] = c

\* ungetc, of which one call at a time is sure to succeed.  The wrapper goes back
\* by one whatever the character is.
ungetc(fd, c) ==
  /\ fd \in Open /\ Back(fd) = 0
  /\ streams' = [streams EXCEPT ![fd] =
       IF IsBefore(fd, c)
       THEN [from |-> Position(fd) - 1, to |-> Position(fd) + Ahead(fd), back |-> NoChar]
       ELSE [@ EXCEPT !.back = c]]
  /\ Advance(fd, -1)
  /\ exact' = (exact /\ (IsBefore(fd, c) \/ fd # inputFileDescriptor))
  /\ UNCHANGED <<input, fds, inputFileDescriptor, buf, ret>>

\* lseek and lseek64 yield the position.
lseek64(fd, pos) ==
  /\ fd \in Open /\ Seekable(fd)
  /\ Move(fd, pos) /\ Reposition(fd, pos)
  /\ exact' = (exact /\ KernelInStep(fd))
  /\ UNCHANGED <<input, streams, inputFileDescriptor, buf, ret>>

\* fseek, fseeko and fseeko64 ask ftell.
fseek(fd, pos) ==
  /\ fd \in Open /\ Seekable(fd)
  /\ Seek(fd, pos) /\ Reposition(fd, pos)
  /\ UNCHANGED <<input, inputFileDescriptor, buf, ret, exact>>

\* rewind does not say whether it has succeeded.
rewind(fd) ==
  /\ fd \in Open
  /\ IF Seekable(fd) THEN Seek(fd, 0) ELSE UNCHANGED <<fds, streams>>
  /\ Reposition(fd, 0)
  /\ exact' = (exact /\ (Seekable(fd) \/ fd # inputFileDescriptor))
  /\ UNCHANGED <<input, inputFileDescriptor, buf, ret>>

\* mmap64 makes len bytes of the file, or with the descriptor -1 of zeros, visible
\* in the buffer.  It takes the end of the mapping for the position in the input,
\* which the kernel does not, and gives every byte the input variable of that
\* position; an anonymous mapping passes for the input as long as the wrappers
\* have no descriptor for it.
mmap64(fd, len, off) ==
  /\ fd \in Open => Seekable(fd) /\ off + len <= Size(fds[fd].file)
  /\ fd \in Open \cup {NoFD}
  /\ LET isInput == fd = inputFileDescriptor
         Byte(i) == IF fd = NoFD THEN 0 ELSE Content[fds[fd].file][off + i]
     IN /\ inputOffset' = IF isInput THEN off + len ELSE inputOffset
        /\ buf' = [val  |-> [i \in Index |-> IF i < len THEN Byte(i) ELSE buf.val[i]],
                   expr |-> [i \in Index |-> IF i >= len THEN buf.expr[i]
                                             ELSE IF isInput THEN off + len ELSE Null]]
        /\ exact' = (exact /\ ~isInput)
  /\ UNCHANGED <<input, fds, streams, inputFileDescriptor, ret>>

-------------------------------------------------------------------------------
\* initLibcWrappers: descriptor 0 is the input, or no descriptor is as yet.
Init ==
  /\ \/ /\ input \in {"stdin", "pipe"} /\ inputFileDescriptor = 0
        /\ fds = [fd \in FD |-> IF fd = 0 THEN [file |-> InputFile, pos |-> 0] ELSE Closed]
     \/ /\ input = "file" /\ inputFileDescriptor = NoFD
        /\ fds = [fd \in FD |-> Closed]
  /\ streams = [fd \in FD |-> NoStream]
  /\ inputOffset = 0
  /\ buf = [val |-> [i \in Index |-> 0], expr |-> [i \in Index |-> Null]]
  /\ ret = [val |-> EOF, expr |-> Null]
  /\ exact = TRUE

Next ==
  \/ \E p \in Path : open(p)
  \/ \E fd \in FD : close(fd)
  \/ \E fd \in FD, n, result \in 0..BufLen : read(fd, n, result)
  \/ \E fd \in FD, size, nmemb \in 1..BufLen : fread(fd, size, nmemb)
  \/ \E fd \in FD, n \in 1..BufLen : fgets(fd, n)
  \/ \E fd \in FD : getc(fd)
  \/ \E fd \in FD, c \in Char : ungetc(fd, c)
  \/ \E fd \in FD : rewind(fd)
  \/ \E fd \in Open : \E pos \in 0..Size(fds[fd].file) : lseek64(fd, pos)
  \/ \E fd \in Open : \E pos \in 0..Size(fds[fd].file) : fseek(fd, pos)
  \/ \E fd \in FD \cup {NoFD}, len \in 1..BufLen, off \in 0..BufLen : mmap64(fd, len, off)

Spec == Init /\ [][Next]_vars

-------------------------------------------------------------------------------
(* Properties *)

\* The position is a uint64_t; once the wrappers have lost track of it, ungetc may
\* take it below 0, where the code has the number modulo 2^64.
TypeOK ==
  /\ input \in {"stdin", "pipe", "file"}
  /\ \A fd \in FD : fds[fd] = Closed \/ /\ fds[fd].file \in File
                                        /\ fds[fd].pos \in 0..Size(fds[fd].file)
                                        /\ streams[fd].to \in 0..Size(fds[fd].file)
  /\ \A fd \in FD : /\ streams[fd].from \in 0..streams[fd].to
                     /\ streams[fd].back \in Char \cup {NoChar}
  /\ inputFileDescriptor \in FD \cup {NoFD}
  /\ inputOffset \in Int /\ (exact => inputOffset \in Nat)
  /\ exact \in BOOLEAN

\* The byte at offset k of the input.
InputByte(k) == Content[InputFile][k]

\* An expression names a byte of the input, and that byte has this value.
Matches(expr, val) ==
  expr # Null => expr \in DOMAIN Content[InputFile] /\ InputByte(expr) = val

\* "The current position in the (symbolic) input": as long as the program stays
\* within what the wrappers support, inputOffset is where the next byte of the
\* input file comes from, whatever mixture of short reads, read-ahead, seeks,
\* pushed-back characters and repeated opens has led there.
OffsetIsPosition ==
  exact /\ inputFileDescriptor \in Open
    => /\ fds[inputFileDescriptor].file = InputFile
       /\ inputOffset = Position(inputFileDescriptor)

\* The expressions match what the libc function has stored and returned.
ExpressionsMatch ==
  /\ \A i \in Index : Matches(buf.expr[i], buf.val[i])
  /\ Matches(ret.expr, ret.val)

\* The same, as far as the program stays within what the wrappers support.
ExactExpressionsMatch == exact => ExpressionsMatch

\* Only the input is symbolic: a byte that a supported call has just read from
\* any other file has no expression.
OthersStayConcrete ==
  [][exact' => \A fd \in Open :
       /\ fds[fd].file # InputFile /\ fds'[fd] # Closed
       /\ fds'[fd] # fds[fd] \/ streams'[fd] # streams[fd]
       => /\ inputOffset' = inputOffset
          /\ \A i \in Index : buf'.expr[i] \in {buf.expr[i], Null}]_vars
================================================================================
