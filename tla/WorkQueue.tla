------------------------------ MODULE WorkQueue ------------------------------
(***************************************************************************)
(* What util::ThreadPool promises its callers: work handed to it is begun  *)
(* in the order in which it was handed over, at most once, and, once       *)
(* begun, it is never taken back; work that has not begun may be removed,  *)
(* all of it at once.                                                      *)
(***************************************************************************)
EXTENDS Naturals, Sequences

CONSTANTS Jobs

VARIABLES waiting, running, done, removed

qvars == <<waiting, running, done, removed>>

QInit == waiting = <<>> /\ running = {} /\ done = {} /\ removed = {}

Submit(j) == /\ j \notin {waiting[i] : i \in DOMAIN waiting}
                          \cup running \cup done \cup removed
             /\ waiting' = Append(waiting, j)
             /\ UNCHANGED <<running, done, removed>>

Begin == /\ waiting # <<>>
         /\ running' = running \cup {Head(waiting)}
         /\ waiting' = Tail(waiting)
         /\ UNCHANGED <<done, removed>>

End(j) == /\ j \in running
          /\ running' = running \ {j}
          /\ done' = done \cup {j}
          /\ UNCHANGED <<waiting, removed>>

RemoveAll == /\ removed' = removed \cup {waiting[i] : i \in DOMAIN waiting}
             /\ waiting' = <<>>
             /\ UNCHANGED <<running, done>>

QNext == Begin \/ RemoveAll \/ \E j \in Jobs : Submit(j) \/ End(j)

QSpec == QInit /\ [][QNext]_qvars
=============================================================================
