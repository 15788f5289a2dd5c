------------------------------- MODULE MCTrade -------------------------------
(* Small instances of Trade for TLC.                                       *)
EXTENDS Trade, TLC, FiniteSetsExt

Symmetry == Permutations(Characters) \cup Permutations(Items)

SumGoods == MapThenSumSet(LAMBDA ci : inventory[ci[1]][ci[2]],
                          Characters \X Items)

\* Bound: at most three items in the game at once, of two kinds: enough to
\* fill a place in an inventory while another is offered.
FewGoods == SumGoods <= 3
==============================================================================
