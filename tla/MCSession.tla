------------------------------ MODULE MCSession ------------------------------
(***************************************************************************)
(* Session for TLC.                                                        *)
(***************************************************************************)
EXTENDS Session, TLC

Symmetry == Permutations(Clients) \cup Permutations(Accounts)
=============================================================================
