--------------------------- MODULE MCServerThreads ---------------------------
(***************************************************************************)
(* ServerThreads for TLC.                                                  *)
(***************************************************************************)
EXTENDS ServerThreads

MCOptions == -1..MAX_THREADS + 1
=============================================================================
