------------------------------- MODULE Totals -------------------------------
(***************************************************************************)
(* The total of a function over a finite set: what accounts of damage,     *)
(* points and goods are stated with.                                       *)
(***************************************************************************)
EXTENDS Integers, FiniteSets, FiniteSetsExt

Total(f, S) == MapThenSumSet(LAMBDA x : f[x], S)
=============================================================================
