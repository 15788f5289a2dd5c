---------------------------------- MODULE Goods --------------------------------
(***************************************************************************)
(* Where things are: in an inventory, worn, on the ground, in a chest or   *)
(* in a bank locker, and the handlers that move them from one to another.  *)
(* Gold is one kind of thing; what it buys is in Errands, and trades are   *)
(* in Trade.                                                               *)
(*                                                                         *)
(* Everybody stands near enough to the one tile, chest and locker.         *)
(***************************************************************************)
EXTENDS Integers, Sequences, FiniteSets, Functions, SequencesExt, Totals

CONSTANTS Owners, Kinds, None,           \* None: no kind; nobody
          Slots, SlotsOf,                \* of the paperdoll, for each kind
          TwoHanded, Shields, Lore, Cursed,   \* sets of kinds
          Weight, MaxWeight, MaxItem, MaxTile,
          ChestSlots, MaxChest, SpawnSlots, SpawnKind,
          LockerMax, MaxBank,
          MaxMade                        \* bound on what is ever made

Uids == 1..(MaxTile + Cardinality(Owners)
                          * (Cardinality(Kinds) + Cardinality(Slots)))
Things == [kind : Kinds, amount : Nat \ {0}, owner : Owners \cup {None}]

(* Item types tell two-handed weapons from shields.                        *)
ASSUME GoodsAssumption ==
  /\ IsFiniteSet(Owners) /\ IsFiniteSet(Kinds) /\ IsFiniteSet(Slots)
  /\ None \notin Kinds \cup Owners \cup Things /\ Kinds \cap Slots = {}
  /\ SlotsOf \in [Kinds -> SUBSET Slots]
  /\ TwoHanded \cup Shields \cup Lore \cup Cursed \subseteq Kinds
  /\ TwoHanded \cap Shields = {}
  /\ Weight \in [Kinds -> Nat] /\ MaxMade \in [Kinds -> Nat]
  /\ {MaxWeight, MaxItem, MaxTile, ChestSlots, MaxChest, LockerMax, MaxBank}
       \subseteq Nat
  /\ SpawnKind \in [SpawnSlots -> Kinds] /\ 0 \notin SpawnSlots

VARIABLES
  inventory, paperdoll, locker,   \* of a character
  ground,    \* by uid: [kind, amount, owner], or None
  chest,     \* sequence of [kind, amount, slot]; slot 0: put in by a player
  made,      \* history: how many were made and not junked or used up
  spilt,     \* history: how many were dropped but are not on the ground
  clipped    \* history: how many were above MaxItem

goodsVars == <<inventory, paperdoll, locker, ground, chest, made, spilt,
               clipped>>
worn == <<paperdoll, locker>>
history == <<made, spilt, clipped>>

Counts(most) == [Kinds -> 0..most]

GoodsTypeOK ==
  /\ inventory \in [Owners -> Counts(MaxItem)]
  /\ paperdoll \in [Owners -> [Slots -> Kinds \cup {None}]]
  /\ locker \in [Owners -> Counts(MaxBank)]
  /\ \A u \in Uids : ground[u] = None \/ ground[u] \in Things
  /\ \A i \in DOMAIN chest : /\ chest[i].kind \in Kinds
                             /\ chest[i].amount \in {1} \cup 1..MaxChest
                             /\ chest[i].slot \in SpawnSlots \cup {0}
  /\ made \in [Kinds -> Nat]
  /\ spilt \in [Kinds -> Nat] /\ clipped \in [Kinds -> Nat]

GoodsInit ==
  /\ inventory = [c \in Owners |-> [k \in Kinds |-> 0]]
  /\ paperdoll = [c \in Owners |-> [s \in Slots |-> None]]
  /\ locker = [c \in Owners |-> [k \in Kinds |-> 0]]
  /\ ground = [u \in Uids |-> None]
  /\ chest = <<>>
  /\ made = [k \in Kinds |-> 0]
  /\ spilt = [k \in Kinds |-> 0] /\ clipped = [k \in Kinds |-> 0]

-----------------------------------------------------------------------------
Least(a, b) == IF a < b THEN a ELSE b
Lying == {u \in Uids : ground[u] # None}
Worn(c, k) == {s \in Slots : paperdoll[c][s] = k}

(* CalculateStats: what c carries and wears.                               *)
WeightOf(c) ==
  Total([k \in Kinds |->
           Weight[k] * (inventory[c][k] + Cardinality(Worn(c, k)))], Kinds)

(* How many of n more of kind k character c can hold.                      *)
CanHoldItem(c, k, n) ==
  LET room == IF WeightOf(c) > MaxWeight THEN 0
              ELSE IF Weight[k] = 0 THEN n
              ELSE Least((MaxWeight - WeightOf(c)) \div Weight[k], n)
  IN  Least(room, MaxItem)

(* AddItem: what is above MaxItem is lost.                                 *)
AddItem(c, k, n) ==
  LET held == Least(inventory[c][k] + n, MaxItem)
  IN  /\ inventory' = [inventory EXCEPT ![c][k] = held]
      /\ clipped' = [clipped EXCEPT ![k] = @ + inventory[c][k] + n - held]
DelItem(c, k, n) ==
  inventory' = [inventory EXCEPT ![c][k] = IF @ > n THEN @ - n ELSE 0]

(* GenerateItemID: the n lowest free ids.                                  *)
FreeUids(n) == LET free == Uids \ Lying
               IN  {u \in free : Cardinality({v \in free : v < u}) < n}

-----------------------------------------------------------------------------
(* Dropping n of kind k.  On a full tile Map::AddItem adds nothing, but    *)
(* what it returns says it did: the thing is gone.                         *)
Item_Drop(c, k, n) ==
  /\ k \notin Lore /\ n > 0 /\ inventory[c][k] >= n
  /\ DelItem(c, k, n)
  /\ IF Cardinality(Lying) >= MaxTile
     THEN spilt' = [spilt EXCEPT ![k] = @ + n] /\ UNCHANGED ground
     ELSE /\ \E u \in FreeUids(1) :
               ground' = [ground EXCEPT ![u] = [kind |-> k, amount |-> n,
                                                owner |-> c]]
          /\ UNCHANGED spilt
  /\ UNCHANGED <<worn, chest, made, clipped>>

(* Taking it up again: one's own, or when its protection has run out.      *)
(* The mutant leaves it on the ground when some of it was taken.           *)
LeaveIt(u, n) == ground' = ground
DelSomeItem(u, n) ==
  LET t    == ground[u]
      left == IF n < t.amount THEN [t EXCEPT !.amount = @ - n] ELSE None
  IN  ground' = [ground EXCEPT ![u] = left]

Item_Get(c, u) ==
  /\ u \in Lying /\ ground[u].owner \in {c, None}
  /\ LET k == ground[u].kind
         taken == CanHoldItem(c, k, ground[u].amount)
     IN  /\ taken > 0
         /\ AddItem(c, k, taken) /\ DelSomeItem(u, taken)
  /\ UNCHANGED <<worn, chest, made, spilt>>

Unprotect(u) ==
  /\ u \in Lying /\ ground[u].owner # None
  /\ ground' = [ground EXCEPT ![u].owner = None]
  /\ UNCHANGED <<inventory, worn, chest, history>>

(* world_despawn_items; it waits until the protection has run out.         *)
Despawn(u) ==
  /\ u \in Lying /\ ground[u].owner = None
  /\ ground' = [ground EXCEPT ![u] = None]
  /\ made' = [made EXCEPT ![ground[u].kind] = @ - ground[u].amount]
  /\ UNCHANGED <<inventory, worn, chest, spilt, clipped>>

Item_Junk(c, k, n) ==
  /\ n > 0 /\ inventory[c][k] >= n
  /\ DelItem(c, k, n)
  /\ made' = [made EXCEPT ![k] = @ - n]
  /\ UNCHANGED <<worn, ground, chest, spilt, clipped>>

(* What an NPC leaves when it is killed.                                   *)
NpcDrop(k, c) ==
  /\ made[k] < MaxMade[k] /\ FreeUids(1) # {}
  /\ \E u \in FreeUids(1) :
       ground' = [ground EXCEPT ![u] = [kind |-> k, amount |-> 1, owner |-> c]]
  /\ made' = [made EXCEPT ![k] = @ + 1]
  /\ UNCHANGED <<inventory, worn, chest, spilt, clipped>>

(* Death on a Deadly server, or by another player: what c has falls to the *)
(* ground, however full it is, protected for `to'.                         *)
Loose(c) == {k \in Kinds \ Lore : inventory[c][k] > 0}
Undone(c) == {s \in Slots : paperdoll[c][s] \in Kinds \ (Lore \cup Cursed)}
Piece(c, to, p) ==
  IF p \in Undone(c)
  THEN [kind |-> paperdoll[c][p], amount |-> 1, owner |-> to]
  ELSE [kind |-> p, amount |-> inventory[c][p], owner |-> to]

DropAll(c, to) ==
  LET parts == Loose(c) \cup Undone(c)
  IN  /\ parts # {} /\ Cardinality(parts) <= Cardinality(Uids \ Lying)
      /\ \E f \in Bijection(parts, FreeUids(Cardinality(parts))) :
           ground' = [u \in Uids |->
                        IF \E p \in parts : f[p] = u
                        THEN Piece(c, to, CHOOSE p \in parts : f[p] = u)
                        ELSE ground[u]]
      /\ inventory' = [inventory EXCEPT
                         ![c] = [k \in Kinds |-> IF k \in Loose(c) THEN 0
                                                                   ELSE @[k]]]
      /\ paperdoll' = [paperdoll EXCEPT
                         ![c] = [s \in Slots |-> IF s \in Undone(c) THEN None
                                                                    ELSE @[s]]]
      /\ UNCHANGED <<locker, chest, history>>

-----------------------------------------------------------------------------
(* The paperdoll.                                                          *)
HandsFull(c, k) ==
  \/ k \in TwoHanded /\ \E s \in Slots : paperdoll[c][s] \in Shields
  \/ k \in Shields   /\ \E s \in Slots : paperdoll[c][s] \in TwoHanded

Equip(c, k, s) ==
  /\ inventory[c][k] > 0 /\ s \in SlotsOf[k]
  /\ ~HandsFull(c, k)
  /\ paperdoll[c][s] = None
  /\ paperdoll' = [paperdoll EXCEPT ![c][s] = k]
  /\ DelItem(c, k, 1)
  /\ UNCHANGED <<locker, ground, chest, history>>

Unequip(c, s) ==
  LET k == paperdoll[c][s]
  IN  /\ k # None /\ k \notin Cursed
      /\ paperdoll' = [paperdoll EXCEPT ![c][s] = None]
      /\ AddItem(c, k, 1)
      /\ UNCHANGED <<locker, ground, chest, made, spilt>>

(* A potion against curses destroys the cursed things that are worn.       *)
CureCurse(c) ==
  LET off == {s \in Slots : paperdoll[c][s] \in Cursed}
  IN  /\ off # {}
      /\ paperdoll' = [paperdoll EXCEPT
                         ![c] = [s \in Slots |-> IF s \in off THEN None
                                                             ELSE @[s]]]
      /\ made' = [k \in Kinds |-> made[k] - Cardinality(off \cap Worn(c, k))]
      /\ UNCHANGED <<inventory, locker, ground, chest, spilt, clipped>>

-----------------------------------------------------------------------------
(* The chest.  HasItem, AddItem and DelItem look at the first entry of a   *)
(* kind; what spawns goes in front, in a slot kept for it.                 *)
EntryOf(k) == {i \in DOMAIN chest : chest[i].kind = k}
First(k) == CHOOSE i \in EntryOf(k) : \A j \in EntryOf(k) : i <= j
ChestHas(k) == IF EntryOf(k) = {} THEN 0 ELSE chest[First(k)].amount

(* All of kind k in a chest, whichever entry it is in.                     *)
OfKind(k, e) == IF e.kind = k THEN e.amount ELSE 0
InChest(k, entries) ==
  Total([i \in DOMAIN entries |-> OfKind(k, entries[i])], DOMAIN entries)

Chest_Add(c, k, n) ==
  LET amount == Least(n, MaxChest - ChestHas(k))
      own    == {i \in DOMAIN chest : chest[i].slot = 0}
  IN  /\ k \notin Lore /\ amount > 0 /\ inventory[c][k] >= amount
      /\ \/ /\ EntryOf(k) # {}
            /\ chest' = [chest EXCEPT ![First(k)].amount = @ + amount]
         \/ /\ EntryOf(k) = {} /\ Len(chest) < ChestSlots
            /\ Cardinality(own) + Cardinality(SpawnSlots) < ChestSlots
            /\ chest' = Append(chest,
                               [kind |-> k, amount |-> amount, slot |-> 0])
      /\ DelItem(c, k, amount)
      /\ UNCHANGED <<worn, ground, history>>

(* Part of an entry: the rest counts as put in by a player.                *)
Chest_Take(c, k) ==
  LET taken == CanHoldItem(c, k, ChestHas(k))
      entry == chest[First(k)]
  IN  /\ taken > 0
      /\ chest' = IF taken < ChestHas(k)
                  THEN [chest EXCEPT ![First(k)] =
                          [entry EXCEPT !.amount = @ - taken, !.slot = 0]]
                  ELSE RemoveAt(chest, First(k))
      /\ AddItem(c, k, taken)
      /\ UNCHANGED <<worn, ground, made, spilt>>

SlotFree(s) == \A i \in DOMAIN chest : chest[i].slot # s

ChestSpawn(s) ==
  LET k == SpawnKind[s]
  IN  /\ SlotFree(s) /\ Len(chest) < ChestSlots
      /\ made[k] < MaxMade[k]
      /\ chest' = <<[kind |-> k, amount |-> 1, slot |-> s]>> \o chest
      /\ made' = [made EXCEPT ![k] = @ + 1]
      /\ UNCHANGED <<inventory, worn, ground, spilt, clipped>>

(* A reload of the map empties its chests.                                 *)
ReloadChests ==
  /\ chest # <<>> /\ chest' = <<>>
  /\ made' = [k \in Kinds |-> made[k] - InChest(k, chest)]
  /\ UNCHANGED <<inventory, worn, ground, spilt, clipped>>

-----------------------------------------------------------------------------
(* The locker of c.                                                        *)
Locker_Add(c, k, n) ==
  LET amount == Least(n, MaxBank - locker[c][k])
      used   == {x \in Kinds : locker[c][x] > 0}
  IN  /\ inventory[c][k] >= n /\ amount > 0
      /\ k \in used \/ Cardinality(used) < LockerMax
      /\ locker' = [locker EXCEPT ![c][k] = @ + amount]
      /\ DelItem(c, k, amount)
      /\ UNCHANGED <<paperdoll, ground, chest, history>>

Locker_Take(c, k) ==
  LET taken == CanHoldItem(c, k, locker[c][k])
  IN  /\ taken > 0
      /\ locker' = [locker EXCEPT ![c][k] = @ - taken]
      /\ AddItem(c, k, taken)
      /\ UNCHANGED <<paperdoll, ground, chest, made, spilt>>

GoodsNext ==
  \/ \E c \in Owners :
       \/ \E k \in Kinds :
            \/ Chest_Take(c, k) \/ Locker_Take(c, k)
            \/ \E s \in Slots : Equip(c, k, s)
            \/ \E n \in 1..MaxItem :
                 \/ Item_Drop(c, k, n) \/ Item_Junk(c, k, n)
                 \/ Chest_Add(c, k, n) \/ Locker_Add(c, k, n)
       \/ \E u \in Uids : Item_Get(c, u)
       \/ \E s \in Slots : Unequip(c, s)
       \/ \E to \in Owners : DropAll(c, to)
       \/ CureCurse(c)
  \/ \E u \in Uids : Unprotect(u) \/ Despawn(u)
  \/ \E k \in Kinds, c \in Owners \cup {None} : NpcDrop(k, c)
  \/ \E s \in SpawnSlots : ChestSpawn(s)
  \/ ReloadChests

GoodsSpec == GoodsInit /\ [][GoodsNext]_goodsVars

-----------------------------------------------------------------------------
(* Everything that was made and not destroyed is in one place, and there   *)
(* is no more of it than was made: no handler loses, keeps or doubles what *)
(* it moves, but for what is dropped on a full tile or is above MaxItem.    *)
Has(c, k) == inventory[c][k] + locker[c][k] + Cardinality(Worn(c, k))
Lies(u, k) == IF ground[u] = None THEN 0 ELSE OfKind(k, ground[u])
InAllPlaces(k) == Total([c \in Owners |-> Has(c, k)], Owners)
                  + Total([u \in Uids |-> Lies(u, k)], Uids)
                  + InChest(k, chest)

GoodsAccounted ==
  \A k \in Kinds : InAllPlaces(k) + spilt[k] + clipped[k] = made[k]

(* No two-handed weapon is worn with a shield (Character::Equip), however  *)
(* they came to be put on.                                                 *)
HandsSuffice ==
  \A c \in Owners : ~ \E s, t \in Slots : /\ paperdoll[c][s] \in TwoHanded
                                          /\ paperdoll[c][t] \in Shields

(* Nobody becomes overweight by picking up, taking out or taking off       *)
(* (EnforceWeight 2, Character::CanHoldItem).                              *)
CarriesAtMost == \A c \in Owners : WeightOf(c) <= MaxWeight

(* A chest never exceeds its slots, and no spawn is in it twice            *)
(* (map_spawn_chests, Map_Chest::AddItem and DelSomeItem).                 *)
SpawnsOnce ==
  /\ Len(chest) <= ChestSlots
  /\ \A i, j \in DOMAIN chest : chest[i].slot = chest[j].slot /\ chest[i].slot # 0
                                => i = j

(* What lies on the ground, in a chest, in a locker, in an inventory or is  *)
(* worn is neither made nor lost on the way, however often it changes       *)
(* hands, and fits where it is.                                             *)
GoodsKept == GoodsAccounted /\ HandsSuffice /\ CarriesAtMost /\ SpawnsOnce
================================================================================
