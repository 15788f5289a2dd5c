------------------------------- MODULE Monsters --------------------------------
(***************************************************************************)
(* The NPCs of one map: being hit, dying, spawning again, bosses and their *)
(* children, and how the experience of a kill is handed out.               *)
(*                                                                         *)
(* An NPC lists its opponents by pointer, and each opponent lists the NPCs *)
(* it must be taken off from when it leaves the server.  Experience is     *)
(* shared among the opponents by ShareMode, and what falls to a player in  *)
(* a party is shared again among the party by PartyShareMode.              *)
(*                                                                         *)
(* Where on the map everybody stands is left out: a hunter is on it or     *)
(* not.  Levels and parties do not change.  Drops are in Goods.            *)
(***************************************************************************)
EXTENDS Integers, FiniteSets, Totals

CONSTANTS Hunters, Npcs, NoNpc,
          Bosses, Children, Temporary,   \* sets of Npcs
          Groups, NoParty_, PartyOf, Level,
          Hp, Exp, Amounts,              \* of every NPC; of a hit
          ShareModes, PartyShareModes,   \* the settings to look at
          MaxDamage                      \* bound: damage on an NPC's list

ASSUME MonstersAssumption ==
  /\ NoNpc \notin Npcs /\ NoParty_ \notin Groups /\ IsFiniteSet(Hunters)
  /\ Bosses \cup Children \cup Temporary \subseteq Npcs
  /\ Bosses \cap (Children \cup Temporary) = {}
  /\ PartyOf \in [Hunters -> Groups \cup {NoParty_}]
  /\ Level \in [Hunters -> Nat]
  /\ Hp \in Nat \ {0} /\ Exp \in Nat \ {0} /\ MaxDamage \in Nat
  /\ Amounts \subseteq Nat
  /\ ShareModes \subseteq 0..3 /\ PartyShareModes \subseteq 0..2

Unhurt == -1
NoOpponents == [h \in Hunters |-> Unhurt]

VARIABLES
  life,            \* of an NPC: "none" (no such object), "dead", "alive"
  npc_hp, parent,
  damagelist,      \* damage by each opponent of an NPC; Unhurt: not listed
  totaldamage,
  at,              \* of a hunter: "off", "away" and "here": on the map
  unregister_npc,
  temp_expsum,     \* of each party
  gained,          \* history: by the kill of this step, if it is one
  share            \* the settings: [mode, party]

lists == <<damagelist, totaldamage, unregister_npc>>
monsterVars == <<life, npc_hp, parent, lists, at,
                 temp_expsum, gained, share>>

MonstersTypeOK ==
  /\ life \in [Npcs -> {"none", "dead", "alive"}]
  /\ npc_hp \in [Npcs -> Int] /\ \A n \in Npcs : npc_hp[n] <= Hp
  /\ parent \in [Npcs -> Npcs \cup {NoNpc}]
  /\ damagelist \in [Npcs -> [Hunters -> -1..MaxDamage]]
  /\ totaldamage \in [Npcs -> 0..MaxDamage]
  /\ at \in [Hunters -> {"off", "away", "here"}]
  /\ unregister_npc \in [Hunters -> SUBSET Npcs]
  /\ temp_expsum \in [Groups -> Nat] /\ gained \in [Hunters -> Nat]
  /\ share \in [mode : ShareModes, party : PartyShareModes]

MonstersInit ==
  /\ life = [n \in Npcs |-> IF n \in Temporary THEN "none" ELSE "alive"]
  /\ npc_hp = [n \in Npcs |-> Hp]
  /\ parent = [n \in Npcs |-> NoNpc]
  /\ damagelist = [n \in Npcs |-> NoOpponents]
  /\ totaldamage = [n \in Npcs |-> 0]
  /\ at = [h \in Hunters |-> "off"]
  /\ unregister_npc = [h \in Hunters |-> {}]
  /\ temp_expsum = [p \in Groups |-> 0]
  /\ gained = [h \in Hunters |-> 0]
  /\ share \in [mode : ShareModes, party : PartyShareModes]

Here == {h \in Hunters : at[h] = "here"}
Opponents(list) == {h \in Hunters : list[h] # Unhurt}
Floor(a, b) == a \div b   \* a mutant of Ceil
Ceil(a, b) == (a + b - 1) \div b
NoGain == gained' = [h \in Hunters |-> 0] /\ UNCHANGED temp_expsum

-----------------------------------------------------------------------------
(* Experience.  ShareEXP: what each member of party p on the map gets.     *)
ShareEXP(p, exp) ==
  LET near   == {h \in Here : PartyOf[h] = p}
      weight == [h \in Hunters |-> IF Level[h] = 0 THEN 1 ELSE Level[h]]
  IN  [h \in Hunters |->
         IF h \notin near THEN 0
         ELSE IF share.party = 1 THEN Ceil(exp, Cardinality(near))
         ELSE Ceil(exp * weight[h], Total(weight, near))]

Partied(h) == share.party # 0 /\ PartyOf[h] # NoParty_

(* The reward of one opponent who is on the map; list and total are those  *)
(* at the time of the kill by `from', most has done the most damage.       *)
RewardOf(h, list, total, from, most) ==
  CASE share.mode = 0 -> IF h = from THEN Exp ELSE 0
    [] share.mode = 1 -> IF h = most THEN Exp ELSE 0
    [] share.mode = 2 -> Ceil(Exp * list[h], total)
    [] share.mode = 3 -> Exp * Cardinality(Opponents(list))

(* In modes 0 and 1 a party shares at once; in modes 2 and 3 its sum is    *)
(* collected, and shared for the parties that were noted: in mode 3 none.  *)
Noted(paid, reward, most) ==
  {p \in Groups :
     share.mode # 3 /\ \E h \in paid : /\ Partied(h) /\ PartyOf[h] = p
                                      /\ reward[h] > 0}

HandOut(list, total, from, most) ==
  LET paid   == Opponents(list) \cap Here
      reward == [h \in Hunters |->
                   IF h \in paid THEN RewardOf(h, list, total, from, most)
                   ELSE 0]
      sum    == [p \in Groups |->
                   temp_expsum[p]
                   + Total(reward, {h \in paid : Partied(h) /\ PartyOf[h] = p})]
      noted  == Noted(paid, reward, most)
  IN  /\ gained' = [h \in Hunters |->
                      (IF Partied(h) THEN 0 ELSE reward[h])
                      + Total([p \in noted |-> ShareEXP(p, sum[p])[h]], noted)]
      /\ temp_expsum' = [p \in Groups |-> IF p \in noted THEN 0 ELSE sum[p]]

-----------------------------------------------------------------------------
(* The NPCs of S have died: their opponents are let go, the temporary ones *)
(* are deleted.                                                            *)
Forget(S) ==
  /\ damagelist' = [n \in Npcs |-> IF n \in S THEN NoOpponents
                                   ELSE damagelist[n]]
  /\ totaldamage' = [n \in Npcs |-> IF n \in S THEN 0 ELSE totaldamage[n]]
  /\ unregister_npc' = [h \in Hunters |-> unregister_npc[h] \ S]

DeadLife(n) == IF n \in Temporary THEN "none" ELSE "dead"

(* A boss takes its children with it; they forget their parent.            *)
Killed(n, list, total, from) ==
  LET fallen == IF n \in Bosses
                THEN {m \in Children : life[m] = "alive"} ELSE {}
      dead   == fallen \cup {n}
      Best(h) == \A x \in Opponents(list) : list[x] <= list[h]
  IN  /\ \E most \in {h \in Opponents(list) : Best(h)} :
           HandOut(list, total, from, most)
      /\ Forget(dead)
      /\ life' = [m \in Npcs |-> IF m \in dead THEN DeadLife(m) ELSE life[m]]
      /\ parent' = [m \in Npcs |-> IF m \in fallen THEN NoNpc ELSE parent[m]]

(* A hit for some amount; with LimitDamage for no more than is left.       *)
Damage(n, from, amount) ==
  LET limit == IF amount < npc_hp[n] THEN amount ELSE npc_hp[n]
      was   == damagelist[n][from]
      list  == [damagelist[n] EXCEPT ![from] = IF @ = Unhurt THEN limit
                                               ELSE @ + limit]
      total == totaldamage[n] + limit
  IN  /\ life[n] = "alive" /\ from \in Here
      /\ total <= MaxDamage
      /\ npc_hp' = [npc_hp EXCEPT ![n] = @ - amount]
      /\ IF npc_hp[n] > amount
         THEN /\ damagelist' = [damagelist EXCEPT ![n] = list]
              /\ totaldamage' = [totaldamage EXCEPT ![n] = total]
              /\ unregister_npc' = [unregister_npc EXCEPT ![from] = @ \cup {n}]
              /\ NoGain
              /\ UNCHANGED <<life, parent>>
         ELSE Killed(n, list, total, from)
      /\ UNCHANGED <<at, share>>

(* world_spawn_npcs: a child only while the boss it belongs to is alive.   *)
(* A boss brings its dead children.                                        *)
MaySpawn(n) == n \in Children => parent[n] # NoNpc /\ life[parent[n]] = "alive"

Spawned(S) ==
  /\ life' = [n \in Npcs |-> IF n \in S THEN "alive" ELSE life[n]]
  /\ npc_hp' = [n \in Npcs |-> IF n \in S THEN Hp ELSE npc_hp[n]]

Spawn(n) ==
  LET children == IF n \in Bosses
                  THEN {m \in Children : life[m] = "dead"} ELSE {}
  IN  /\ life[n] = "dead" /\ MaySpawn(n)
      /\ Spawned(children \cup {n})
      /\ parent' = [m \in Npcs |-> IF m \in children THEN n ELSE parent[m]]
      /\ UNCHANGED <<lists, at, share>>
      /\ NoGain

(* An administrator's command makes a temporary NPC.                       *)
SpawnTemporary(n) ==
  /\ n \in Temporary /\ life[n] = "none"
  /\ Spawned({n})
  /\ parent' = [parent EXCEPT ![n] = NoNpc]
  /\ UNCHANGED <<lists, at, share>>
  /\ NoGain

(* Another one makes them die, for nobody's benefit.                       *)
DespawnNPC(n) ==
  /\ n \in Temporary /\ life[n] = "alive"
  /\ life' = [life EXCEPT ![n] = "none"]
  /\ parent' = [parent EXCEPT ![n] = NoNpc]
  /\ Forget({n})
  /\ UNCHANGED <<npc_hp, at, share>>
  /\ NoGain

(* An NPC's turn: a child looks for its parent; some player may be hit and *)
(* killed, which takes it off the map but not off any list.                *)
Act(n) ==
  /\ life[n] = "alive"
  /\ IF n \in Children /\ parent[n] = NoNpc /\ Bosses # {}
     THEN \E b \in Bosses : parent' = [parent EXCEPT ![n] = b]
     ELSE UNCHANGED parent
  /\ \/ \E h \in Here : at' = [at EXCEPT ![h] = "away"]
     \/ UNCHANGED at
  /\ UNCHANGED <<life, npc_hp, lists, share>>
  /\ NoGain

Recover(n) ==
  /\ life[n] = "alive" /\ npc_hp[n] < Hp
  /\ npc_hp' = [npc_hp EXCEPT ![n] = @ + 1]
  /\ UNCHANGED <<life, parent, lists, at, share>>
  /\ NoGain

(* A new version of the map is loaded: all NPCs are new.                   *)
ReloadNpcs ==
  /\ Forget(Npcs)
  /\ life' = [n \in Npcs |-> IF n \in Temporary THEN "none" ELSE "alive"]
  /\ npc_hp' = [n \in Npcs |-> Hp]
  /\ parent' = [n \in Npcs |-> NoNpc]
  /\ UNCHANGED <<at, share>>
  /\ NoGain

-----------------------------------------------------------------------------
HunterMoves(h, to) ==
  /\ at[h] # to /\ to # "off"
  /\ at' = [at EXCEPT ![h] = to]
  /\ UNCHANGED <<life, npc_hp, parent, lists, share>>
  /\ NoGain

(* A mutant of HunterLogout: the NPCs are not told.                        *)
LeaveListed(h) ==
  /\ at[h] # "off"
  /\ at' = [at EXCEPT ![h] = "off"]
  /\ unregister_npc' = [unregister_npc EXCEPT ![h] = {}]
  /\ UNCHANGED <<life, npc_hp, parent, damagelist, totaldamage, share>>
  /\ NoGain

(* Logout takes the hunter, and its damage, off the lists.                 *)
HunterLogout(h) ==
  LET S == unregister_npc[h]
  IN  /\ at[h] # "off"
      /\ at' = [at EXCEPT ![h] = "off"]
      /\ damagelist' = [n \in Npcs |-> IF n \in S
                          THEN [damagelist[n] EXCEPT ![h] = Unhurt]
                          ELSE damagelist[n]]
      /\ totaldamage' = [n \in Npcs |-> IF n \in S
                          THEN totaldamage[n] - damagelist[n][h]
                          ELSE totaldamage[n]]
      /\ unregister_npc' = [unregister_npc EXCEPT ![h] = {}]
      /\ UNCHANGED <<life, npc_hp, parent, share>>
      /\ NoGain

MonstersNext ==
  \/ \E n \in Npcs :
       \/ \E h \in Hunters, amount \in Amounts : Damage(n, h, amount)
       \/ Spawn(n) \/ SpawnTemporary(n) \/ DespawnNPC(n)
       \/ Act(n) \/ Recover(n)
  \/ ReloadNpcs
  \/ \E h \in Hunters : \/ \E to \in {"away", "here"} : HunterMoves(h, to)
                        \/ HunterLogout(h)

MonstersSpec == MonstersInit /\ [][MonstersNext]_monsterVars

-----------------------------------------------------------------------------
(* Every opponent on an NPC's list is still on the server and knows of the *)
(* NPC, and the damage adds up: NPC::Act, Killed and ~NPC follow these     *)
(* pointers, and the total divides the shares.                             *)
OpponentsRegistered ==
  \A n \in Npcs :
    /\ \A h \in Hunters : /\ damagelist[n][h] # Unhurt
                               <=> n \in unregister_npc[h]
                          /\ at[h] = "off" => n \notin unregister_npc[h]
    /\ totaldamage[n] = Total(damagelist[n], Opponents(damagelist[n]))
    /\ life[n] # "alive" => Opponents(damagelist[n]) = {}

(* On a map with bosses a child lives only as long as one of them does     *)
(* (NPC::Killed, Spawn and world_spawn_npcs), unless a command made it.    *)
ChildrenHaveBoss ==
  Bosses # {} => \A n \in Children \ Temporary :
    life[n] = "alive" => \E b \in Bosses : life[b] = "alive"

(* Nobody on a list or with a child is gone, in whatever order they leave, *)
(* die, are made and reloaded.                                             *)
MonstersSound == OpponentsRegistered /\ ChildrenHaveBoss

(* A kill whose opponents are all on the map gives them and their parties  *)
(* its experience, no less, and no more than rounding up each share twice  *)
(* (NPC::Killed, Party::ShareEXP).                                         *)
ExpHandedOut ==
  [][ \A n \in Npcs :
        /\ npc_hp[n] > 0 /\ npc_hp'[n] <= 0
        /\ Opponents(damagelist[n]) \subseteq Here
        => LET all == Total(gained', Hunters)
           IN  Exp <= all /\ all < Exp + 2 * Cardinality(Hunters)
    ]_monsterVars
================================================================================
