------------------------------ MODULE MCLibcInput ------------------------------
(* An instance of LibcInput for TLC: an input of two lines, the first with one *)
(* character and the second without a newline, a file of one byte, and paths   *)
(* to either of them with and without the name of the input.                   *)
EXTENDS LibcInput

MCContent ==
  [f \in {"input", "other"} |->
     IF f = "input" THEN [i \in 0..2 |-> IF i = 1 THEN Newline ELSE 2]
     ELSE [i \in 0..0 |-> 3]]

MCFileAt ==
  [p \in {"input", "link", "other", "input.bak"} |->
     IF p \in {"input", "link"} THEN "input" ELSE "other"]
MCNameIn == {"input", "input.bak"}

\* Bounds: what the program does after the wrappers have lost track is cut off, and
\* so is what it does once both the buffer and the result of getc are in use.
Tracking == exact
OneInUse == ret.val = EOF \/ \A i \in Index : buf.val[i] = 0
================================================================================
