---------------------------- MODULE MCFuzzingHelper ----------------------------
(* An instance of FuzzingHelper for TLC: two properly named test cases, one of *)
(* which brings new coverage, and one whose name holds no id.                  *)
EXTENDS FuzzingHelper

CONSTANTS seed, found, unnamed

MCMeta ==
  [f \in Files |->
     CASE f = seed    -> [cov |-> FALSE, orig |-> TRUE, size |-> 1, name |-> 0]
       [] f = found   -> [cov |-> TRUE, orig |-> FALSE, size |-> 2, name |-> 1]
       [] f = unnamed -> [cov |-> FALSE, orig |-> TRUE, size |-> 1, name |-> 2]]

MCMaxTests == [f \in Files |-> IF f = seed THEN 2 ELSE 1]
================================================================================
