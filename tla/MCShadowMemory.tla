---------------------------- MODULE MCShadowMemory ----------------------------
(* Instances of ShadowMemory for TLC: an input of two bytes, 1 and 0. *)
EXTENDS ShadowMemory

MCInput == [k \in 0..1 |-> 1 - k]
===============================================================================
