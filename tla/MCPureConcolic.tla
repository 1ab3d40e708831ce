---------------------------- MODULE MCPureConcolic ----------------------------
(* An instance of PureConcolic for TLC: the name of one seed occurs in the hash  *)
(* of a test case (a seed called "1", say), another one is not found in itself   *)
(* (one called "a[1]").                                                          *)
EXTENDS PureConcolic

CONSTANTS s1, s2, s3, c1, c2

MCSeedContent == [s \in Seeds |-> c1]
MCOccurs == {<<n, n>> : n \in (Seeds \ {s3}) \cup Contents} \cup {<<s1, c2>>}
================================================================================
