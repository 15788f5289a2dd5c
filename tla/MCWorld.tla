------------------------------- MODULE MCWorld --------------------------------
(*****************************************************************************)
(* What monsters, characters and things do on a map, and whom characters     *)
(* deal with there, for TLC.  These modules share no state that they tell    *)
(* apart, so each is explored by itself: part says which one a behaviour is  *)
(* about, and the others stay where they began.                              *)
(*****************************************************************************)
EXTENDS Monsters, View, Goods, Errands

VARIABLE part

vars == <<part, monsterVars, viewVars, goodsVars, errandsVars>>

TypeOK == /\ part = "monsters" => MonstersTypeOK
          /\ part = "view" => ViewTypeOK
          /\ part = "goods" => GoodsTypeOK
          /\ part = "errands" => ErrandsTypeOK

Init == /\ MonstersInit /\ ViewInit /\ GoodsInit /\ ErrandsInit
        /\ part \in {"monsters", "view", "goods", "errands"}
        /\ part # "view" => cow = <<1, 1>>

Resting(p) == /\ p # "monsters" => UNCHANGED monsterVars
              /\ p # "view" => UNCHANGED viewVars
              /\ p # "goods" => UNCHANGED goodsVars
              /\ p # "errands" => UNCHANGED errandsVars

Next == /\ UNCHANGED part
        /\ \/ part = "monsters" /\ MonstersNext
           \/ part = "view" /\ ViewNext
           \/ part = "goods" /\ GoodsNext
           \/ part = "errands" /\ ErrandsNext
        /\ Resting(part)

Spec == Init /\ [][Next]_vars

-----------------------------------------------------------------------------
\* Instances

\* Monsters: a and b are in a party, and a has no level yet.
Grouping == [x \in Hunters |-> IF x = "c" THEN NoParty_ ELSE "p"]
Levels == [x \in Hunters |-> IF x = "a" THEN 0 ELSE 2]

\* View: a map of three by two with walls in two corners.
Corners == {<<0, 0>>, <<2, 1>>}
Spiked == {<<1, 0>>}
Seats == {<<0, 1>>}

\* Goods: an axe takes both hands, a buckler is cursed, a letter is lore.
Wearing == [k \in Kinds |-> CASE k = "axe" -> {"Weapon"}
                              [] k = "buckler" -> {"Shield"}
                              [] OTHER -> {}]
Weights == [k \in Kinds |-> CASE k = "axe" -> 2
                              [] k = "buckler" -> 1
                              [] OTHER -> 0]
Making == [k \in Kinds |-> IF k = "axe" THEN 2 ELSE 1]
Spawning == [s \in SpawnSlots |-> "axe"]

\* Errands: two maps, and a skill to learn.
Staff == [town |-> {"bank", "shop", "barber"}, inn |-> {"inn", "skills"}]
Requirements == [kick |-> "none"]
===============================================================================
