---------------------------- MODULE WorldProofs ----------------------------
(***************************************************************************)
(* Proofs about the parts of MCWorld, for any map, players and limits:     *)
(* what NPCs remember of who hurt them and give for it, what clients know  *)
(* of the characters near them, where things are, and the dealings with    *)
(* the people of a map (whoever is talked to is there, gold is neither had *)
(* nor spent twice, points come with levels only). Each part ends with its *)
(* types. The sums these keep are dealt with by the lemmas of              *)
(* TotalsProofs.                                                           *)
(***************************************************************************)
EXTENDS MCWorld, FiniteSetTheorems, TotalsProofs, TLAPS

-----------------------------------------------------------------------------
\* Monsters

Lists_ == [Hunters -> Nat \cup {Unhurt}]

MonsterTypes ==
  /\ life \in [Npcs -> {"none", "dead", "alive"}] /\ npc_hp \in [Npcs -> Int]
  /\ parent \in [Npcs -> Bosses \cup {NoNpc}]
  /\ damagelist \in [Npcs -> Lists_] /\ totaldamage \in [Npcs -> Int]
  /\ at \in [Hunters -> {"off", "away", "here"}]
  /\ unregister_npc \in [Hunters -> SUBSET Npcs]

\* OpponentsRegistered, for one NPC.
Registered(n) ==
  /\ \A h \in Hunters : /\ damagelist[n][h] # Unhurt <=> n \in unregister_npc[h]
                        /\ at[h] = "off" => n \notin unregister_npc[h]
  /\ totaldamage[n] = Total(damagelist[n], Opponents(damagelist[n]))
  /\ life[n] # "alive" => Opponents(damagelist[n]) = {}

\* Nobody lives with nothing to lose: so a hit takes something off.
LivesOn(n) == life[n] = "alive" => npc_hp[n] > 0

MonstersInv == /\ MonsterTypes /\ ChildrenHaveBoss
               /\ \A n \in Npcs : Registered(n) /\ LivesOn(n)

(* What the total of a list is: those not on it count for nothing.         *)
LEMMA DamageTotal ==
  ASSUME NEW list \in Lists_
  PROVE  /\ Total(list, Opponents(list))
              = Total([h \in Hunters |-> IF list[h] = Unhurt THEN 0
                                         ELSE list[h]], Hunters)
         /\ \A h \in Hunters : (IF list[h] = Unhurt THEN 0 ELSE list[h]) \in Nat
<1> DEFINE w == [h \in Hunters |-> IF list[h] = Unhurt THEN 0 ELSE list[h]]
           O == Opponents(list)
<1>1. /\ IsFiniteSet(Hunters) /\ O \in SUBSET Hunters
      /\ \A h \in Hunters : w[h] \in Nat /\ (h \notin O => w[h] = 0)
      /\ \A h \in O : list[h] = w[h]
  BY MonstersAssumption DEF Opponents, Lists_
<1> HIDE DEF w, O
<1>2. Total(w, Hunters) = Total(w, O)
  BY <1>1, TotalSupport
<1>3. IsFiniteSet(O)
  BY <1>1, FS_Subset
<1>4. Total(list, O) = Total(w, O)
  BY <1>1, <1>3, TotalSame
<1> QED
  BY <1>1, <1>2, <1>4 DEF w, O

LEMMA DamageChanged ==
  ASSUME NEW list \in Lists_, NEW h \in Hunters, NEW v \in Nat \cup {Unhurt},
         NEW new, new = [list EXCEPT ![h] = v]
  PROVE  /\ new \in Lists_
         /\ Total(list, Opponents(list)) \in Nat
         /\ Total(new, Opponents(new))
              = Total(list, Opponents(list))
                - (IF list[h] = Unhurt THEN 0 ELSE list[h])
                + (IF v = Unhurt THEN 0 ELSE v)
<1> DEFINE w == [x \in Hunters |-> IF list[x] = Unhurt THEN 0 ELSE list[x]]
           z == [x \in Hunters |-> IF new[x] = Unhurt THEN 0 ELSE new[x]]
<1>1. new \in Lists_
  BY DEF Lists_
<1>2. /\ Total(list, Opponents(list)) = Total(w, Hunters)
      /\ Total(new, Opponents(new)) = Total(z, Hunters)
  BY <1>1, DamageTotal
<1>3. /\ \A x \in Hunters : w[x] \in Nat
      /\ \A x \in Hunters \ {h} : z[x] = w[x]
      /\ w[h] = (IF list[h] = Unhurt THEN 0 ELSE list[h])
      /\ z[h] = (IF v = Unhurt THEN 0 ELSE v) /\ z[h] \in Nat
  BY DEF Lists_
<1> HIDE DEF w, z
<1>4. IsFiniteSet(Hunters)
  BY MonstersAssumption
<1>5. Total(z, Hunters) = Total(w, Hunters) - w[h] + z[h]
  BY <1>3, <1>4, TotalChange
<1>6. Total(w, Hunters) \in Nat
  BY <1>3, <1>4, TotalNat
<1> QED
  BY <1>1, <1>2, <1>3, <1>5, <1>6

(* A list without opponents adds up to nothing.                            *)
LEMMA NoDamage ==
  /\ NoOpponents \in Lists_ /\ Opponents(NoOpponents) = {}
  /\ Total(NoOpponents, Opponents(NoOpponents)) = 0
<1>1. NoOpponents \in Lists_ /\ Opponents(NoOpponents) = {}
  BY DEF NoOpponents, Lists_, Opponents
<1> QED
  BY <1>1, TotalEmpty

(* The opponents of those who die are let go.                              *)
LEMMA ForgetStep ==
  ASSUME MonstersInv, NEW S \in SUBSET Npcs, Forget(S), UNCHANGED at,
         \A n \in Npcs \ S : life'[n] = life[n] \/ life'[n] = "alive"
  PROVE  /\ damagelist' \in [Npcs -> Lists_] /\ totaldamage' \in [Npcs -> Int]
         /\ unregister_npc' \in [Hunters -> SUBSET Npcs]
         /\ \A n \in Npcs : Registered(n)'
<1>1. MonsterTypes /\ \A n \in Npcs : Registered(n)
  BY DEF MonstersInv
<1>2. /\ damagelist' \in [Npcs -> Lists_] /\ totaldamage' \in [Npcs -> Int]
      /\ unregister_npc' \in [Hunters -> SUBSET Npcs]
  BY <1>1, NoDamage DEF Forget, MonsterTypes
<1>3. ASSUME NEW n \in S PROVE Registered(n)'
  <2>1. /\ damagelist'[n] = NoOpponents /\ totaldamage'[n] = 0
        /\ \A h \in Hunters : n \notin unregister_npc'[h]
    BY <1>3 DEF Forget
  <2>2. Total(damagelist'[n], Opponents(damagelist'[n])) = 0
        /\ Opponents(damagelist'[n]) = {}
    BY <2>1, NoDamage
  <2>3. Opponents(damagelist[n])' = Opponents(damagelist'[n])
    BY DEF Opponents
  <2> QED
    BY <2>1, <2>2, <2>3 DEF Registered, NoOpponents
<1>4. ASSUME NEW n \in Npcs \ S PROVE Registered(n)'
  <2>1. /\ damagelist'[n] = damagelist[n] /\ totaldamage'[n] = totaldamage[n]
        /\ \A h \in Hunters : n \in unregister_npc'[h]
                              <=> n \in unregister_npc[h]
    BY <1>4 DEF Forget
  <2>2. Registered(n)
    BY <1>1
  <2> QED
    BY <2>1, <2>2, <1>4 DEF Registered, Opponents
<1> QED
  BY <1>2, <1>3, <1>4

LEMMA KilledStep ==
  ASSUME MonstersInv, NEW n \in Npcs, NEW list, NEW total, NEW from,
         Killed(n, list, total, from), life[n] = "alive", UNCHANGED at,
         NEW x \in Int, npc_hp' = [npc_hp EXCEPT ![n] = x]
  PROVE  MonstersInv'
<1> DEFINE fallen == IF n \in Bosses
                     THEN {m \in Children : life[m] = "alive"} ELSE {}
           dead   == fallen \cup {n}
<1>1. /\ Forget(dead)
      /\ life' = [m \in Npcs |-> IF m \in dead THEN DeadLife(m) ELSE life[m]]
      /\ parent' = [m \in Npcs |-> IF m \in fallen THEN NoNpc ELSE parent[m]]
  BY DEF Killed
<1>2. MonsterTypes /\ (\A m \in Npcs : LivesOn(m)) /\ ChildrenHaveBoss
  BY DEF MonstersInv
<1>3. /\ Bosses \subseteq Npcs /\ Children \subseteq Npcs /\ dead \subseteq Npcs
      /\ Bosses \cap Children = {} /\ Bosses \cap Temporary = {}
  BY MonstersAssumption
<1>4. \A m \in Npcs : DeadLife(m) \in {"none", "dead"} /\ DeadLife(m) # "alive"
  BY DEF DeadLife
<1>5. /\ damagelist' \in [Npcs -> Lists_] /\ totaldamage' \in [Npcs -> Int]
      /\ unregister_npc' \in [Hunters -> SUBSET Npcs]
      /\ \A m \in Npcs : Registered(m)'
  BY <1>1, <1>3, ForgetStep
<1>6. MonsterTypes'
  BY <1>1, <1>2, <1>4, <1>5 DEF MonsterTypes
<1>7. \A m \in Npcs : LivesOn(m)'
  BY <1>1, <1>2, <1>4 DEF LivesOn, MonsterTypes
<1>8. ChildrenHaveBoss'
  <2>1. CASE n \in Bosses
    <3>1. \A m \in Children : life'[m] # "alive"
      BY <1>1, <1>3, <1>4, <2>1
    <3> QED
      BY <3>1 DEF ChildrenHaveBoss
  <2>2. CASE n \notin Bosses
    <3>1. \A b \in Bosses : life'[b] = life[b]
      BY <1>1, <1>3, <2>2
    <3>2. \A m \in Children : life'[m] = "alive" => life[m] = "alive"
      BY <1>1, <1>3, <1>4
    <3> QED
      BY <1>2, <3>1, <3>2 DEF ChildrenHaveBoss
  <2> QED
    BY <2>1, <2>2
<1> QED
  BY <1>5, <1>6, <1>7, <1>8 DEF MonstersInv

LEMMA DamageStep ==
  ASSUME MonstersInv, NEW n \in Npcs, NEW from \in Hunters,
         NEW amount \in Amounts, Damage(n, from, amount)
  PROVE  MonstersInv'
<1> DEFINE limit == IF amount < npc_hp[n] THEN amount ELSE npc_hp[n]
           v == IF damagelist[n][from] = Unhurt THEN limit
                ELSE damagelist[n][from] + limit
           list == [damagelist[n] EXCEPT ![from] = v]
           total == totaldamage[n] + limit
<1>1. /\ life[n] = "alive" /\ at[from] = "here" /\ UNCHANGED at
      /\ npc_hp' = [npc_hp EXCEPT ![n] = npc_hp[n] - amount]
      /\ IF npc_hp[n] > amount
         THEN /\ damagelist' = [damagelist EXCEPT ![n] = list]
              /\ totaldamage' = [totaldamage EXCEPT ![n] = total]
              /\ unregister_npc' = [unregister_npc EXCEPT
                                      ![from] = unregister_npc[from] \cup {n}]
              /\ UNCHANGED <<life, parent>>
         ELSE Killed(n, [damagelist[n] EXCEPT ![from] =
                           IF @ = Unhurt THEN limit ELSE @ + limit],
                     total, from)
  BY DEF Damage, Here, MonstersInv, MonsterTypes
<1>2. /\ MonsterTypes /\ (\A m \in Npcs : LivesOn(m) /\ Registered(m))
      /\ ChildrenHaveBoss /\ amount \in Nat /\ npc_hp[n] \in Int
      /\ npc_hp[n] - amount \in Int /\ npc_hp[n] > 0
  BY <1>1, MonstersAssumption DEF MonstersInv, MonsterTypes, LivesOn
<1>3. CASE ~(npc_hp[n] > amount)
  <2> HIDE DEF limit, total
  <2> QED
    BY <1>1, <1>2, <1>3, KilledStep
<1>4. CASE npc_hp[n] > amount
  <2>1. damagelist[n] \in Lists_ /\ limit \in Nat
    BY <1>2, <1>4 DEF MonsterTypes
  <2>2. v \in Nat /\ v \in Nat \cup {Unhurt} /\ v # Unhurt
        /\ v = (IF damagelist[n][from] = Unhurt THEN 0 ELSE damagelist[n][from])
               + limit
    BY <2>1 DEF Lists_, Unhurt
  <2> HIDE DEF limit, v
  <2>3. /\ list \in Lists_
        /\ Total(damagelist[n], Opponents(damagelist[n])) \in Nat
        /\ Total(list, Opponents(list))
             = Total(damagelist[n], Opponents(damagelist[n]))
               - (IF damagelist[n][from] = Unhurt THEN 0
                  ELSE damagelist[n][from])
               + (IF v = Unhurt THEN 0 ELSE v)
    BY <2>1, <2>2, DamageChanged
  <2>4. (IF damagelist[n][from] = Unhurt THEN 0 ELSE damagelist[n][from]) \in Nat
    BY <2>1 DEF Lists_
  <2>5. Total(list, Opponents(list)) = total
    BY <1>2, <2>1, <2>2, <2>3, <2>4 DEF Registered
  <2>6. /\ damagelist' = [damagelist EXCEPT ![n] = list]
        /\ totaldamage' = [totaldamage EXCEPT ![n] = total]
        /\ unregister_npc' = [unregister_npc EXCEPT
                                ![from] = unregister_npc[from] \cup {n}]
        /\ UNCHANGED <<life, parent>>
    BY <1>1, <1>4
  <2>7. total \in Int
    BY <1>2, <2>1 DEF MonsterTypes
  <2>8. \A h \in Hunters : list[h] = IF h = from THEN v ELSE damagelist[n][h]
    BY <2>1 DEF Lists_
  <2> HIDE DEF list, total
  <2>9. MonsterTypes'
    BY <1>1, <1>2, <2>3, <2>6, <2>7 DEF MonsterTypes
  <2>10. ASSUME NEW m \in Npcs PROVE Registered(m)' /\ LivesOn(m)'
    <3>1. LivesOn(m)'
      BY <1>1, <1>2, <1>4, <2>6 DEF LivesOn, MonsterTypes
    <3>2. CASE m # n
      <4>1. /\ damagelist'[m] = damagelist[m] /\ totaldamage'[m] = totaldamage[m]
            /\ \A h \in Hunters : m \in unregister_npc'[h]
                                  <=> m \in unregister_npc[h]
        BY <1>2, <2>6, <3>2 DEF MonsterTypes
      <4>2. Opponents(damagelist[m])' = Opponents(damagelist[m])
        BY <4>1 DEF Opponents
      <4>3. Registered(m)
        BY <1>2
      <4>4. life' = life /\ at' = at
        BY <1>1, <2>6
      <4> HIDE DEF Opponents
      <4>5. Registered(m)'
        BY <4>1, <4>2, <4>3, <4>4 DEF Registered
      <4> QED
        BY <3>1, <4>5
    <3>3. CASE m = n
      <4>1. /\ damagelist'[m] = list /\ totaldamage'[m] = total
        BY <1>2, <2>6, <3>3 DEF MonsterTypes
      <4>2. \A h \in Hunters : m \in unregister_npc'[h]
                               <=> h = from \/ m \in unregister_npc[h]
        BY <1>2, <2>6, <3>3 DEF MonsterTypes
      <4>3. \A h \in Hunters :
              /\ damagelist'[m][h] # Unhurt <=> m \in unregister_npc'[h]
              /\ at'[h] = "off" => m \notin unregister_npc'[h]
        BY <1>1, <1>2, <2>2, <2>8, <3>3, <4>1, <4>2 DEF Registered
      <4>4. totaldamage'[m] = Total(damagelist'[m], Opponents(damagelist'[m]))
        BY <2>5, <4>1
      <4>5. life'[m] = "alive"
        BY <1>1, <2>6, <3>3
      <4>6. Opponents(damagelist[m])' = Opponents(damagelist'[m])
        BY DEF Opponents
      <4> QED
        BY <3>1, <4>3, <4>4, <4>5, <4>6 DEF Registered
    <3> QED
      BY <3>2, <3>3
  <2>11. ChildrenHaveBoss'
    BY <1>2, <2>6 DEF ChildrenHaveBoss
  <2> QED
    BY <2>9, <2>10, <2>11 DEF MonstersInv
<1> QED
  BY <1>3, <1>4

LEMMA SpawnedStep ==
  ASSUME MonstersInv, NEW S \in SUBSET Npcs, Spawned(S), UNCHANGED lists,
         UNCHANGED at, parent' \in [Npcs -> Bosses \cup {NoNpc}],
         S \cap (Children \ Temporary) # {} =>
           (Bosses # {} => \E b \in Bosses : life'[b] = "alive")
  PROVE  MonstersInv'
<1>1. /\ life' = [n \in Npcs |-> IF n \in S THEN "alive" ELSE life[n]]
      /\ npc_hp' = [n \in Npcs |-> IF n \in S THEN Hp ELSE npc_hp[n]]
      /\ UNCHANGED <<damagelist, totaldamage, unregister_npc, at>>
  BY DEF Spawned, lists
<1>2. MonsterTypes /\ ChildrenHaveBoss
  BY DEF MonstersInv
<1>3. Hp \in Int /\ Hp > 0 /\ Bosses \subseteq Npcs /\ Children \subseteq Npcs
  BY MonstersAssumption
<1>4. MonsterTypes'
  BY <1>1, <1>2, <1>3 DEF MonsterTypes
<1>5. ASSUME NEW n \in Npcs PROVE Registered(n)' /\ LivesOn(n)'
  <2>1. LivesOn(n)'
    BY <1>1, <1>3 DEF MonstersInv, LivesOn
  <2>2. Opponents(damagelist[n])' = Opponents(damagelist[n])
    BY <1>1 DEF Opponents
  <2>3. Registered(n) /\ (life'[n] # "alive" => life[n] # "alive")
    BY <1>1 DEF MonstersInv
  <2> QED
    BY <1>1, <2>1, <2>2, <2>3 DEF Registered
<1>6. ChildrenHaveBoss'
  BY <1>1, <1>2, <1>3 DEF ChildrenHaveBoss
<1> QED
  BY <1>4, <1>5, <1>6 DEF MonstersInv

(* Logout takes the hunter and its damage off every list it is on.         *)
LEMMA LogoutStep ==
  ASSUME MonstersInv, NEW h \in Hunters, HunterLogout(h)
  PROVE  MonstersInv'
<1> DEFINE S == unregister_npc[h]
<1>1. /\ at' = [at EXCEPT ![h] = "off"]
      /\ damagelist' = [n \in Npcs |-> IF n \in S
                          THEN [damagelist[n] EXCEPT ![h] = Unhurt]
                          ELSE damagelist[n]]
      /\ totaldamage' = [n \in Npcs |-> IF n \in S
                          THEN totaldamage[n] - damagelist[n][h]
                          ELSE totaldamage[n]]
      /\ unregister_npc' = [unregister_npc EXCEPT ![h] = {}]
      /\ UNCHANGED <<life, npc_hp, parent>>
  BY DEF HunterLogout
<1>2. MonsterTypes /\ ChildrenHaveBoss
      /\ \A n \in Npcs : Registered(n) /\ LivesOn(n)
  BY DEF MonstersInv
<1>3. \A n \in Npcs : damagelist[n] \in Lists_ /\ totaldamage[n] \in Int
                      /\ (damagelist[n][h] # Unhurt <=> n \in S)
  BY <1>2 DEF MonsterTypes, Registered
<1>4. ASSUME NEW n \in Npcs, n \in S
      PROVE  /\ damagelist'[n] \in Lists_ /\ totaldamage'[n] \in Int
             /\ totaldamage'[n] = Total(damagelist'[n],
                                        Opponents(damagelist'[n]))
             /\ \A x \in Hunters : damagelist'[n][x]
                  = IF x = h THEN Unhurt ELSE damagelist[n][x]
  <2>1. /\ damagelist'[n] = [damagelist[n] EXCEPT ![h] = Unhurt]
        /\ totaldamage'[n] = totaldamage[n] - damagelist[n][h]
        /\ damagelist[n] \in Lists_ /\ totaldamage[n] \in Int
        /\ damagelist[n][h] # Unhurt
    BY <1>1, <1>3, <1>4
  <2>2. damagelist[n][h] \in Nat
    BY <2>1 DEF Lists_
  <2>3. /\ damagelist'[n] \in Lists_
        /\ Total(damagelist[n], Opponents(damagelist[n])) \in Nat
        /\ Total(damagelist'[n], Opponents(damagelist'[n]))
             = Total(damagelist[n], Opponents(damagelist[n]))
               - (IF damagelist[n][h] = Unhurt THEN 0 ELSE damagelist[n][h])
               + (IF Unhurt = Unhurt THEN 0 ELSE Unhurt)
    BY <2>1, DamageChanged
  <2>4. totaldamage[n] = Total(damagelist[n], Opponents(damagelist[n]))
    BY <1>2 DEF Registered
  <2>5. \A x \in Hunters : damagelist'[n][x]
                  = IF x = h THEN Unhurt ELSE damagelist[n][x]
    BY <2>1 DEF Lists_
  <2> QED
    BY <2>1, <2>2, <2>3, <2>4, <2>5
<1>5. MonsterTypes'
  <2>1. /\ damagelist' \in [Npcs -> Lists_] /\ totaldamage' \in [Npcs -> Int]
    <3>1. \A n \in Npcs : damagelist'[n] \in Lists_ /\ totaldamage'[n] \in Int
      BY <1>1, <1>3, <1>4
    <3> QED
      BY <1>1, <3>1
  <2> QED
    BY <1>1, <1>2, <2>1 DEF MonsterTypes
<1>6. ASSUME NEW n \in Npcs PROVE Registered(n)' /\ LivesOn(n)'
  <2>0. Opponents(damagelist[n])' = Opponents(damagelist'[n])
    BY DEF Opponents
  <2>1. Registered(n) /\ LivesOn(n)'
    BY <1>1, <1>2 DEF LivesOn
  <2>2. \A x \in Hunters : /\ x # h => unregister_npc'[x] = unregister_npc[x]
                                       /\ at'[x] = at[x]
                           /\ x = h => unregister_npc'[x] = {}
    BY <1>1, <1>2 DEF MonsterTypes
  <2>3. CASE n \in S
    <3>1. \A x \in Hunters :
            /\ damagelist'[n][x] # Unhurt <=> n \in unregister_npc'[x]
            /\ at'[x] = "off" => n \notin unregister_npc'[x]
      BY <1>4, <2>1, <2>2, <2>3 DEF Registered
    <3>2. life'[n] = "alive"
      <4>1. h \in Opponents(damagelist[n])
        BY <1>3, <2>3 DEF Opponents
      <4> QED
        BY <1>1, <2>1, <4>1 DEF Registered
    <3>3. totaldamage'[n] = Total(damagelist'[n], Opponents(damagelist'[n]))
      BY <1>4, <2>3
    <3> QED
      BY <2>0, <2>1, <3>1, <3>2, <3>3 DEF Registered
  <2>4. CASE n \notin S
    <3>1. damagelist'[n] = damagelist[n] /\ totaldamage'[n] = totaldamage[n]
          /\ life' = life
      BY <1>1, <2>4
    <3>2. \A x \in Hunters :
            /\ damagelist'[n][x] # Unhurt <=> n \in unregister_npc'[x]
            /\ at'[x] = "off" => n \notin unregister_npc'[x]
      BY <2>1, <2>2, <2>4, <3>1 DEF Registered
    <3> QED
      BY <2>0, <2>1, <3>1, <3>2 DEF Registered
  <2> QED
    BY <2>3, <2>4
<1>7. ChildrenHaveBoss'
  BY <1>1, <1>2 DEF ChildrenHaveBoss
<1> QED
  BY <1>5, <1>6, <1>7 DEF MonstersInv

(* Whatever leaves the lists and the NPCs alone and takes nobody off the   *)
(* server.                                                                 *)
LEMMA ListsUntouched ==
  ASSUME MonstersInv, UNCHANGED <<life, damagelist, totaldamage,
                                  unregister_npc>>,
         parent' \in [Npcs -> Bosses \cup {NoNpc}],
         npc_hp' \in [Npcs -> Int], \A n \in Npcs : npc_hp'[n] >= npc_hp[n],
         at' \in [Hunters -> {"off", "away", "here"}],
         \A h \in Hunters : at'[h] = "off" => at[h] = "off"
  PROVE  MonstersInv'
<1>1. MonsterTypes' /\ ChildrenHaveBoss'
  BY DEF MonstersInv, MonsterTypes, ChildrenHaveBoss
<1>2. ASSUME NEW n \in Npcs PROVE Registered(n)' /\ LivesOn(n)'
  <2>1. Opponents(damagelist[n])' = Opponents(damagelist[n])
    BY DEF Opponents
  <2>2. Registered(n) /\ LivesOn(n) /\ npc_hp[n] \in Int /\ npc_hp'[n] \in Int
    BY DEF MonstersInv, MonsterTypes
  <2>3. LivesOn(n)'
    BY <2>2 DEF LivesOn
  <2>4. Registered(n)'
    BY <2>1, <2>2 DEF Registered
  <2> QED
    BY <2>3, <2>4
<1> QED
  BY <1>1, <1>2 DEF MonstersInv

LEMMA NextMonsters == MonstersInv /\ [MonstersNext]_monsterVars => MonstersInv'
<1> SUFFICES ASSUME MonstersInv, [MonstersNext]_monsterVars
             PROVE  MonstersInv'
  OBVIOUS
<1>0. /\ MonsterTypes /\ ChildrenHaveBoss
      /\ Bosses \subseteq Npcs /\ Children \subseteq Npcs /\ NoNpc \notin Npcs
      /\ Bosses \cap Temporary = {} /\ Bosses \cap Children = {}
  BY MonstersAssumption DEF MonstersInv
<1>1. CASE UNCHANGED monsterVars
  BY <1>0, <1>1, ListsUntouched DEF monsterVars, lists, MonsterTypes
<1>2. ASSUME NEW n \in Npcs, NEW h \in Hunters, NEW amount \in Amounts,
             Damage(n, h, amount)
      PROVE  MonstersInv'
  BY <1>2, DamageStep
<1>3. ASSUME NEW n \in Npcs, Spawn(n) PROVE MonstersInv'
  <2> DEFINE children == IF n \in Bosses
                         THEN {m \in Children : life[m] = "dead"} ELSE {}
  <2>1. /\ MaySpawn(n) /\ Spawned(children \cup {n})
        /\ parent' = [m \in Npcs |-> IF m \in children THEN n ELSE parent[m]]
        /\ UNCHANGED <<lists, at>>
    BY <1>3 DEF Spawn
  <2>2. children \cup {n} \in SUBSET Npcs
    BY <1>0
  <2>3. parent' \in [Npcs -> Bosses \cup {NoNpc}]
    BY <1>0, <2>1 DEF MonsterTypes
  <2>4. (children \cup {n}) \cap (Children \ Temporary) # {}
          => \E b \in Bosses : life'[b] = "alive"
    <3>1. CASE n \in Bosses
      <4>1. life'[n] = "alive"
        BY <2>1 DEF Spawned
      <4> QED
        BY <3>1, <4>1
    <3>2. CASE n \in Children
      <4>1. parent[n] \in Bosses /\ life[parent[n]] = "alive"
        BY <1>0, <2>1, <3>2 DEF MaySpawn, MonsterTypes
      <4>2. life'[parent[n]] = "alive"
        BY <1>0, <2>1, <4>1 DEF Spawned
      <4> QED
        BY <4>1, <4>2
    <3>3. CASE n \notin Bosses /\ n \notin Children
      BY <3>3
    <3> QED
      BY <3>1, <3>2, <3>3
  <2> HIDE DEF children
  <2> QED
    BY <2>1, <2>2, <2>3, <2>4, SpawnedStep
<1>4. ASSUME NEW n \in Npcs, SpawnTemporary(n) PROVE MonstersInv'
  <2>1. /\ n \in Temporary /\ Spawned({n})
        /\ parent' = [parent EXCEPT ![n] = NoNpc] /\ UNCHANGED <<lists, at>>
    BY <1>4 DEF SpawnTemporary
  <2>2. parent' \in [Npcs -> Bosses \cup {NoNpc}]
    BY <1>0, <2>1 DEF MonsterTypes
  <2> QED
    BY <2>1, <2>2, SpawnedStep
<1>5. ASSUME NEW n \in Npcs, DespawnNPC(n) PROVE MonstersInv'
  <2>1. /\ n \in Temporary /\ life' = [life EXCEPT ![n] = "none"]
        /\ parent' = [parent EXCEPT ![n] = NoNpc] /\ Forget({n})
        /\ UNCHANGED <<npc_hp, at>>
    BY <1>5 DEF DespawnNPC
  <2>2. \A m \in Npcs : m # n => life'[m] = life[m]
    BY <1>0, <2>1 DEF MonsterTypes
  <2>3. /\ damagelist' \in [Npcs -> Lists_] /\ totaldamage' \in [Npcs -> Int]
        /\ unregister_npc' \in [Hunters -> SUBSET Npcs]
        /\ \A m \in Npcs : Registered(m)'
    BY <2>1, <2>2, ForgetStep
  <2>4. MonsterTypes'
    BY <1>0, <2>1, <2>3 DEF MonsterTypes
  <2>5. \A m \in Npcs : LivesOn(m)'
    BY <1>0, <2>1, <2>2 DEF LivesOn, MonstersInv, MonsterTypes
  <2>6. ChildrenHaveBoss'
    BY <1>0, <2>1, <2>2 DEF ChildrenHaveBoss
  <2> QED
    BY <2>3, <2>4, <2>5, <2>6 DEF MonstersInv
<1>6. ASSUME NEW n \in Npcs, Act(n) PROVE MonstersInv'
  <2>1. /\ parent' = parent \/ \E b \in Bosses : parent' = [parent EXCEPT
                                                             ![n] = b]
        /\ at' = at \/ \E h \in Hunters : at' = [at EXCEPT ![h] = "away"]
        /\ UNCHANGED <<life, npc_hp, lists>>
    BY <1>6 DEF Act, Here
  <2>2. /\ parent' \in [Npcs -> Bosses \cup {NoNpc}]
        /\ at' \in [Hunters -> {"off", "away", "here"}]
        /\ \A h \in Hunters : at'[h] = "off" => at[h] = "off"
        /\ npc_hp' \in [Npcs -> Int] /\ \A m \in Npcs : npc_hp'[m] >= npc_hp[m]
    BY <1>0, <2>1 DEF MonsterTypes
  <2> QED
    BY <2>1, <2>2, ListsUntouched DEF lists
<1>7. ASSUME NEW n \in Npcs, Recover(n) PROVE MonstersInv'
  <2>1. /\ npc_hp' = [npc_hp EXCEPT ![n] = @ + 1]
        /\ UNCHANGED <<life, parent, lists, at>>
    BY <1>7 DEF Recover
  <2>2. npc_hp' \in [Npcs -> Int] /\ \A m \in Npcs : npc_hp'[m] >= npc_hp[m]
    BY <1>0, <2>1 DEF MonsterTypes
  <2> QED
    BY <1>0, <2>1, <2>2, ListsUntouched DEF lists, MonsterTypes
<1>8. CASE ReloadNpcs
  <2>1. /\ Forget(Npcs) /\ UNCHANGED at
        /\ life' = [n \in Npcs |-> IF n \in Temporary THEN "none" ELSE "alive"]
        /\ npc_hp' = [n \in Npcs |-> Hp] /\ parent' = [n \in Npcs |-> NoNpc]
    BY <1>8 DEF ReloadNpcs
  <2>2. /\ damagelist' \in [Npcs -> Lists_] /\ totaldamage' \in [Npcs -> Int]
        /\ unregister_npc' \in [Hunters -> SUBSET Npcs]
        /\ \A m \in Npcs : Registered(m)'
    BY <2>1, ForgetStep
  <2>3. Hp \in Int /\ Hp > 0
    BY MonstersAssumption
  <2>4. MonsterTypes'
    BY <1>0, <2>1, <2>2, <2>3 DEF MonsterTypes
  <2>5. \A m \in Npcs : LivesOn(m)'
    BY <2>1, <2>3 DEF LivesOn
  <2>6. ChildrenHaveBoss'
    BY <1>0, <2>1 DEF ChildrenHaveBoss
  <2> QED
    BY <2>2, <2>4, <2>5, <2>6 DEF MonstersInv
<1>9. ASSUME NEW h \in Hunters, NEW to \in {"away", "here"},
             HunterMoves(h, to)
      PROVE  MonstersInv'
  <2>1. /\ at' = [at EXCEPT ![h] = to]
        /\ UNCHANGED <<life, npc_hp, parent, lists>>
    BY <1>9 DEF HunterMoves
  <2>2. /\ at' \in [Hunters -> {"off", "away", "here"}]
        /\ \A x \in Hunters : at'[x] = "off" => at[x] = "off"
    BY <1>0, <2>1 DEF MonsterTypes
  <2> QED
    BY <1>0, <2>1, <2>2, ListsUntouched DEF lists, MonsterTypes
<1>10. ASSUME NEW h \in Hunters, HunterLogout(h) PROVE MonstersInv'
  BY <1>10, LogoutStep
<1> QED
  BY <1>1, <1>2, <1>3, <1>4, <1>5, <1>6, <1>7, <1>8, <1>9, <1>10
     DEF MonstersNext

LEMMA MonstersBegin == MonstersInit => MonstersInv
<1> SUFFICES ASSUME MonstersInit PROVE MonstersInv
  OBVIOUS
<1>1. /\ Hp \in Int /\ Hp > 0 /\ Bosses \subseteq Npcs
      /\ Bosses \cap Temporary = {}
  BY MonstersAssumption
<1>2. MonsterTypes
  BY <1>1, NoDamage DEF MonstersInit, MonsterTypes
<1>3. ASSUME NEW n \in Npcs PROVE Registered(n) /\ LivesOn(n)
  <2>1. /\ damagelist[n] = NoOpponents /\ totaldamage[n] = 0
        /\ \A h \in Hunters : unregister_npc[h] = {}
    BY DEF MonstersInit
  <2>2. Registered(n)
    BY <2>1, NoDamage DEF Registered, NoOpponents
  <2>3. LivesOn(n)
    BY <1>1 DEF MonstersInit, LivesOn
  <2> QED
    BY <2>2, <2>3
<1>4. ChildrenHaveBoss
  BY <1>1 DEF MonstersInit, ChildrenHaveBoss
<1> QED
  BY <1>2, <1>3, <1>4 DEF MonstersInv

(* For any NPCs, hunters, settings and amounts: an NPC's opponents are     *)
(* those who must be taken off its list when they leave, none of them has  *)
(* left, and its total is what they have done to it (NPC::Damage, Killed,  *)
(* UnregisterNPC, Character::Logout); and on a map with bosses no child    *)
(* outlives them.                                                          *)
THEOREM MonstersAreSound == MonstersSpec => []MonstersSound
<1>1. MonstersInit => MonstersInv
  BY MonstersBegin
<1>2. MonstersInv => MonstersSound
  BY DEF MonstersInv, MonstersSound, OpponentsRegistered, Registered
<1> QED
  BY <1>1, <1>2, NextMonsters, PTL DEF MonstersSpec

-----------------------------------------------------------------------------
\* The experience of a kill.

(* The total of multiples is the multiple of the total.                    *)
LEMMA TotalTimes ==
  ASSUME NEW S, IsFiniteSet(S), NEW k \in Int, NEW f, NEW g,
         \A x \in S : f[x] \in Int /\ g[x] = k * f[x]
  PROVE  Total(g, S) = k * Total(f, S)
<1> DEFINE Good == {T \in SUBSET S : Total(g, T) = k * Total(f, T)}
<1>1. {} \in Good
  BY TotalEmpty
<1>2. ASSUME NEW T \in SUBSET S, T # {}, \A x \in T : T \ {x} \in Good
      PROVE  T \in Good
  <2>1. PICK x \in T : TRUE
    BY <1>2
  <2> DEFINE U == T \ {x}
             a == Total(f, U)
             b == Total(g, U)
             c == f[x]
  <2>2. U \in Good
    BY <1>2, <2>1
  <2>3. IsFiniteSet(T)
    BY <1>2, FS_Subset
  <2>4. \A y \in T : f[y] \in Int /\ g[y] \in Int
    BY <1>2
  <2>5. Total(f, T) = a + c /\ a \in Int
    BY <2>1, <2>3, <2>4, TotalSplit
  <2>6. Total(g, T) = b + g[x]
    BY <2>1, <2>3, <2>4, TotalSplit
  <2>7. b = k * a /\ g[x] = k * c /\ c \in Int
    BY <1>2, <2>1, <2>2
  <2> HIDE DEF a, b, c
  <2>8. k * a + k * c = k * (a + c)
    BY <2>5, <2>7
  <2> QED BY <1>2, <2>5, <2>6, <2>7, <2>8
<1> HIDE DEF Good
<1>3. S \in Good
  BY <1>1, <1>2, SetInduction
<1> QED BY <1>3 DEF Good

(* What a function takes the elements of a finite set to.                  *)
LEMMA ImageFinite ==
  ASSUME NEW S, IsFiniteSet(S), NEW f
  PROVE  IsFiniteSet({f[x] : x \in S})
<1> DEFINE Image(T) == {f[x] : x \in T}
           Good == {T \in SUBSET S : IsFiniteSet(Image(T))}
<1>1. {} \in Good
  <2> Image({}) = {}
    OBVIOUS
  <2> HIDE DEF Image
  <2> QED BY FS_EmptySet
<1>2. ASSUME NEW T \in SUBSET S, T # {}, \A x \in T : T \ {x} \in Good
      PROVE  T \in Good
  <2>1. PICK x \in T : TRUE
    BY <1>2
  <2>2. Image(T) = Image(T \ {x}) \cup {f[x]}
    BY <2>1
  <2> HIDE DEF Image
  <2>3. IsFiniteSet(Image(T \ {x}))
    BY <1>2, <2>1
  <2> QED BY <2>2, <2>3, FS_AddElement
<1> HIDE DEF Good
<1>3. S \in Good
  BY <1>1, <1>2, SetInduction
<1> QED BY <1>3 DEF Good

(* What rounding up does.                                                  *)
LEMMA QuotientIs == \A W \in Nat \ {0} : \A n \in Int :
     n % W \in 0..W-1 /\ n \div W \in Int /\ n = W * (n \div W) + (n % W)
OBVIOUS

LEMMA ProductGrows == \A W \in Nat \ {0} : \A k \in Nat : W * k >= k /\ W * k \in Nat
OBVIOUS

LEMMA CeilIs ==
  ASSUME NEW a \in Nat, NEW W \in Nat \ {0}
  PROVE  Ceil(a, W) \in Nat /\ a <= W * Ceil(a, W) /\ W * Ceil(a, W) <= a + (W - 1)
<1> DEFINE n == a + W - 1
           q == n \div W
           r == n % W
<1>1. n \in Nat /\ r \in 0..W-1 /\ q \in Int /\ n = W * q + r
  <2> n \in Nat /\ n \in Int
    OBVIOUS
  <2> HIDE DEF n
  <2> QED BY QuotientIs
<1>2. Ceil(a, W) = q
  BY DEF Ceil
<1>3. n = a + W - 1
  OBVIOUS
<1> HIDE DEF n, q, r
<1>4. a <= W * q /\ W * q <= a + (W - 1)
  BY <1>1, <1>3
<1>5. q >= 0
  <2> SUFFICES ASSUME q < 0 PROVE FALSE
    BY <1>1
  <2>1. -q \in Nat /\ W * (-q) >= -q
    BY <1>1, ProductGrows
  <2>2. W * (-q) = -(W * q)
    BY <1>1
  <2> QED BY <1>1, <1>4, <2>1, <2>2
<1> QED BY <1>1, <1>2, <1>4, <1>5

(* Shares by weight, each rounded up, give what is shared, and less than   *)
(* one more for each share.                                                *)
LEMMA SharesSum ==
  ASSUME NEW S, IsFiniteSet(S), NEW w, \A x \in S : w[x] \in Nat,
         Total(w, S) > 0, NEW e \in Nat, NEW f,
         \A x \in S : f[x] = Ceil(e * w[x], Total(w, S))
  PROVE  /\ \A x \in S : f[x] \in Nat
         /\ Total(f, S) \in Nat /\ Cardinality(S) \in Nat
         /\ e <= Total(f, S) /\ Total(f, S) < e + Cardinality(S)
<1> DEFINE W == Total(w, S)
           C == Total(f, S)
           N == Cardinality(S)
           A == [x \in S |-> e * w[x]]
           F == [x \in S |-> W * f[x]]
           ones == [x \in S |-> 1]
           D == [x \in S |-> (W - 1) * ones[x]]
           B == [x \in S |-> A[x] + D[x]]
<1>1. W \in Nat \ {0}
  BY TotalNat
<1>2. \A x \in S : e * w[x] \in Nat
  OBVIOUS
<1>3. \A x \in S : f[x] \in Nat /\ A[x] <= F[x] /\ F[x] <= A[x] + (W - 1)
  <2> HIDE DEF W
  <2> QED BY <1>1, <1>2, CeilIs DEF W
<1>4. C \in Nat
  BY <1>3, TotalNat
<1>5. N \in Nat /\ N > 0
  <2>1. S # {}
    <3> SUFFICES ASSUME S = {} PROVE FALSE
      OBVIOUS
    <3>1. Total(w, {}) = 0
      BY TotalEmpty
    <3> QED BY <3>1
  <2> QED BY <2>1, FS_EmptySet, FS_CardinalityType
<1>6. Total(A, S) = e * W
  <2> \A x \in S : w[x] \in Int /\ A[x] = e * w[x]
    OBVIOUS
  <2> HIDE DEF A
  <2> QED BY TotalTimes
<1>7. Total(F, S) = W * C
  <2>1. \A x \in S : f[x] \in Int /\ F[x] = W * f[x]
    BY <1>3
  <2>2. W \in Int
    BY <1>1
  <2> HIDE DEF F, W
  <2> QED BY <2>1, <2>2, TotalTimes
<1>8. Total(B, S) = e * W + (W - 1) * N
  <2> DEFINE V == W - 1
  <2>1. /\ V \in Int
        /\ \A x \in S : ones[x] \in Int /\ D[x] = V * ones[x]
        /\ \A x \in S : ones[x] = 1
    BY <1>1
  <2>2. \A x \in S : A[x] \in Int /\ D[x] \in Int /\ B[x] = A[x] + D[x]
    BY <1>1, <1>2
  <2> HIDE DEF ones, D, A, B, V
  <2>3. Total(ones, S) = N
    BY <2>1, TotalOnes
  <2>4. Total(D, S) = V * N
    BY <2>1, <2>3, TotalTimes
  <2>5. Total(B, S) = Total(A, S) + Total(D, S)
    BY <2>2, TotalSum
  <2> QED BY <1>6, <2>4, <2>5 DEF V
<1>9. Total(A, S) <= Total(F, S) /\ Total(F, S) <= Total(B, S)
  <2>1. \A x \in S : /\ A[x] \in Int /\ F[x] \in Int /\ B[x] \in Int
                     /\ A[x] <= F[x] /\ F[x] <= B[x]
    BY <1>1, <1>2, <1>3
  <2> HIDE DEF A, F, B
  <2> QED BY <2>1, TotalMost
<1> HIDE DEF A, F, B, D, W, C, N
<1>10. e * W <= W * C /\ W * C <= e * W + (W - 1) * N
  BY <1>6, <1>7, <1>8, <1>9
<1>11. e <= C
  <2> SUFFICES ASSUME e > C PROVE FALSE
    BY <1>4
  <2>1. e - C \in Nat /\ e - C > 0
    BY <1>4
  <2>2. W * (e - C) >= e - C
    BY <1>1, <2>1, ProductGrows
  <2>3. W * (e - C) = e * W - W * C
    BY <1>1, <1>4
  <2> QED BY <1>1, <1>4, <1>10, <2>1, <2>2, <2>3
<1>12. C < e + N
  <2> SUFFICES ASSUME C >= e + N PROVE FALSE
    BY <1>4, <1>5
  <2> DEFINE d == C - (e + N)
  <2>1. d \in Nat /\ C = d + e + N
    BY <1>4, <1>5
  <2>2. W * d \in Nat
    BY <1>1, <2>1, ProductGrows
  <2> HIDE DEF d
  <2>3. W * C = W * d + e * W + (W - 1) * N + N
    BY <1>1, <1>5, <2>1
  <2>4. e * W \in Int /\ (W - 1) * N \in Int
    BY <1>1, <1>5
  <2> QED BY <1>5, <1>10, <2>2, <2>3, <2>4
<1> QED BY <1>3, <1>4, <1>5, <1>11, <1>12 DEF C, N, W

(* What one party gets.                                                    *)
LEMMA PartyGets ==
  ASSUME NEW p \in Groups, NEW e \in Nat, share.party \in {1, 2},
         \E h \in Here : PartyOf[h] = p
  PROVE  LET near == {h \in Here : PartyOf[h] = p}
             f    == ShareEXP(p, e)
         IN  /\ \A h \in Hunters : /\ f[h] \in Nat
                                   /\ h \notin near => f[h] = 0
             /\ Total(f, Hunters) \in Nat /\ Cardinality(near) \in Nat
             /\ e <= Total(f, Hunters)
             /\ Total(f, Hunters) <= e + Cardinality(near)
<1> DEFINE near == {h \in Here : PartyOf[h] = p}
           weight == [h \in Hunters |-> IF Level[h] = 0 THEN 1 ELSE Level[h]]
           ones == [h \in Hunters |-> 1]
           w == IF share.party = 1 THEN ones ELSE weight
           f == ShareEXP(p, e)
<1>1. /\ near \in SUBSET Hunters /\ IsFiniteSet(near) /\ IsFiniteSet(Hunters)
      /\ near # {}
  <2>1. near \in SUBSET Hunters /\ near # {} /\ IsFiniteSet(Hunters)
    BY MonstersAssumption DEF Here
  <2> QED BY <2>1, FS_Subset
<1>2. /\ \A h \in Hunters : ones[h] = 1 /\ weight[h] \in Nat /\ weight[h] > 0
      /\ \A h \in Hunters : w[h] \in Nat /\ w[h] > 0
  BY MonstersAssumption
<1>3. Total(ones, near) = Cardinality(near)
  <2> \A h \in near : ones[h] = 1
    BY <1>1, <1>2
  <2> HIDE DEF ones, near
  <2> QED BY <1>1, TotalOnes
<1>4. \A h \in Hunters : f[h] = IF h \in near THEN Ceil(e * w[h], Total(w, near))
                                ELSE 0
  <2>1. CASE share.party = 1
    <3>1. w = ones /\ Total(w, near) = Cardinality(near)
      BY <1>3, <2>1
    <3>2. \A h \in Hunters : e * ones[h] = e
      BY <1>2
    <3>3. \A h \in Hunters : f[h] = IF h \in near THEN Ceil(e, Cardinality(near)) ELSE 0
      BY <2>1 DEF ShareEXP
    <3> HIDE DEF f, ones, w, near
    <3> QED BY <3>1, <3>2, <3>3
  <2>2. CASE share.party = 2
    <3>1. w = weight
      BY <2>2
    <3>2. \A h \in Hunters :
            f[h] = IF h \in near THEN Ceil(e * weight[h], Total(weight, near)) ELSE 0
      BY <2>2 DEF ShareEXP
    <3> HIDE DEF f, weight, w, near
    <3> QED BY <3>1, <3>2
  <2> QED BY <2>1, <2>2
<1> HIDE DEF near, w, f, ones, weight
<1>5. Total(w, near) > 0
  <2>1. PICK h \in near : TRUE
    BY <1>1
  <2>2. \A x \in near : w[x] \in Nat
    BY <1>1, <1>2
  <2>3. w[h] <= Total(w, near) /\ Total(w, near) \in Nat
    BY <1>1, <2>1, <2>2, TotalNat
  <2>4. w[h] > 0 /\ w[h] \in Nat
    BY <1>1, <1>2, <2>1
  <2> QED BY <2>3, <2>4
<1>6. /\ \A x \in near : f[x] \in Nat
      /\ Total(f, near) \in Nat /\ Cardinality(near) \in Nat
      /\ e <= Total(f, near) /\ Total(f, near) < e + Cardinality(near)
  <2>1. \A x \in near : w[x] \in Nat /\ f[x] = Ceil(e * w[x], Total(w, near))
    BY <1>1, <1>2, <1>4
  <2> QED BY <1>1, <1>5, <2>1, SharesSum
<1>7. \A h \in Hunters : f[h] \in Nat /\ (h \notin near => f[h] = 0)
  BY <1>4, <1>6
<1>8. Total(f, Hunters) = Total(f, near)
  <2> \A h \in Hunters : f[h] \in Int
    BY <1>7
  <2> \A h \in Hunters \ near : f[h] = 0
    BY <1>7
  <2> QED BY <1>1, TotalSupport
<1> QED BY <1>6, <1>7, <1>8 DEF near, f

(* What falls to the parties of T, what its members had earned, and who of *)
(* them is there.                                                          *)
SharedOf(T, sum) ==
  [h \in Hunters |-> IF h \in Here /\ PartyOf[h] \in T
                     THEN ShareEXP(PartyOf[h], sum[PartyOf[h]])[h] ELSE 0]
EarnedOf(T, reward, paid) ==
  [h \in Hunters |-> IF h \in paid /\ PartyOf[h] \in T THEN reward[h] ELSE 0]
ThereOf(T) == [h \in Hunters |-> IF h \in Here /\ PartyOf[h] \in T THEN 1 ELSE 0]

LEMMA PartiesGet ==
  ASSUME share.party \in {1, 2}, NEW N \in SUBSET Groups, IsFiniteSet(N),
         NEW paid \in SUBSET Here, NEW reward, \A h \in Hunters : reward[h] \in Nat,
         NEW sum,
         \A p \in N : /\ sum[p] = Total(reward, {h \in paid : PartyOf[h] = p})
                      /\ \E h \in Here : PartyOf[h] = p
  PROVE  LET a == SharedOf(N, sum)
             b == EarnedOf(N, reward, paid)
         IN  /\ \A h \in Hunters : a[h] \in Nat
             /\ Total(b, Hunters) <= Total(a, Hunters)
             /\ Total(a, Hunters) <= Total(b, Hunters) + Cardinality(Hunters)
<1> DEFINE A(T) == SharedOf(T, sum)
           B(T) == EarnedOf(T, reward, paid)
           C(T) == ThereOf(T)
           Good == {T \in SUBSET N :
                      /\ Total(B(T), Hunters) <= Total(A(T), Hunters)
                      /\ Total(A(T), Hunters) <= Total(B(T), Hunters)
                                                 + Total(C(T), Hunters)}
<1>0. IsFiniteSet(Hunters) /\ Here \subseteq Hunters
  BY MonstersAssumption DEF Here
<1>1. ASSUME NEW p \in N
      PROVE  LET f == ShareEXP(p, sum[p])
             IN  /\ sum[p] \in Nat
                 /\ \A h \in Hunters : /\ f[h] \in Nat
                                       /\ ~(h \in Here /\ PartyOf[h] = p) => f[h] = 0
                 /\ \A h \in Hunters : C({p})[h] \in Nat /\ B({p})[h] \in Nat
                 /\ Total(f, Hunters) \in Nat
                 /\ Total(B({p}), Hunters) = sum[p]
                 /\ Total(C({p}), Hunters) \in Nat
                 /\ sum[p] <= Total(f, Hunters)
                 /\ Total(f, Hunters) <= sum[p] + Total(C({p}), Hunters)
  <2> DEFINE earned == {h \in paid : PartyOf[h] = p}
             near == {h \in Here : PartyOf[h] = p}
             f == ShareEXP(p, sum[p])
             b == B({p})
             c == C({p})
  <2>1. /\ earned \in SUBSET Hunters /\ near \in SUBSET Hunters
        /\ sum[p] = Total(reward, earned) /\ p \in Groups
        /\ \E h \in Here : PartyOf[h] = p
    BY <1>0
  <2>2. IsFiniteSet(earned) /\ IsFiniteSet(near)
    BY <1>0, <2>1, FS_Subset
  <2>3. /\ \A h \in Hunters : b[h] \in Nat /\ c[h] \in Nat
        /\ \A h \in earned : b[h] = reward[h] /\ reward[h] \in Int
        /\ \A h \in Hunters \ earned : b[h] = 0
        /\ \A h \in near : c[h] = 1
        /\ \A h \in Hunters \ near : c[h] = 0
    BY <1>0 DEF EarnedOf, ThereOf
  <2> HIDE DEF b, c, earned, near
  <2>4. sum[p] \in Nat
    <3> \A h \in earned : reward[h] \in Nat
      BY <2>1
    <3> QED BY <2>1, <2>2, TotalNat
  <2>5. Total(b, Hunters) = sum[p]
    <3> \A h \in Hunters : b[h] \in Int
      BY <2>3
    <3>1. Total(b, Hunters) = Total(b, earned)
      BY <1>0, <2>1, <2>3, TotalSupport
    <3>2. Total(b, earned) = Total(reward, earned)
      BY <2>2, <2>3, TotalSame
    <3> QED BY <2>1, <3>1, <3>2
  <2>6. Total(c, Hunters) = Cardinality(near)
    <3> \A h \in Hunters : c[h] \in Int
      BY <2>3
    <3>1. Total(c, Hunters) = Total(c, near)
      BY <1>0, <2>1, <2>3, TotalSupport
    <3>2. Total(c, near) = Cardinality(near)
      BY <2>2, <2>3, TotalOnes
    <3> QED BY <3>1, <3>2
  <2>7. /\ \A h \in Hunters : f[h] \in Nat /\ (h \notin near => f[h] = 0)
        /\ Total(f, Hunters) \in Nat /\ Cardinality(near) \in Nat
        /\ sum[p] <= Total(f, Hunters)
        /\ Total(f, Hunters) <= sum[p] + Cardinality(near)
    BY <2>1, <2>4, PartyGets DEF near
  <2>8. \A h \in Hunters : ~(h \in Here /\ PartyOf[h] = p) => f[h] = 0
    BY <2>7 DEF near
  <2> QED BY <2>3, <2>4, <2>5, <2>6, <2>7, <2>8 DEF b, c
<1>2. ASSUME NEW T \in SUBSET N
      PROVE  /\ \A h \in Hunters : /\ A(T)[h] \in Nat /\ B(T)[h] \in Nat
                                   /\ C(T)[h] \in Nat /\ C(T)[h] <= 1
             /\ Total(A(T), Hunters) \in Nat /\ Total(B(T), Hunters) \in Nat
             /\ Total(C(T), Hunters) \in Nat
  <2>1. \A h \in Hunters : A(T)[h] \in Nat
    <3> SUFFICES ASSUME NEW h \in Hunters PROVE A(T)[h] \in Nat
      OBVIOUS
    <3>1. CASE h \in Here /\ PartyOf[h] \in T
      <4> DEFINE p == PartyOf[h]
      <4>1. p \in N
        BY <3>1
      <4>2. ShareEXP(p, sum[p])[h] \in Nat
        <5> HIDE DEF p
        <5> QED BY <1>1, <4>1
      <4> QED BY <3>1, <4>2 DEF SharedOf
    <3>2. CASE ~(h \in Here /\ PartyOf[h] \in T)
      BY <3>2 DEF SharedOf
    <3> QED BY <3>1, <3>2
  <2>2. \A h \in Hunters : B(T)[h] \in Nat /\ C(T)[h] \in Nat /\ C(T)[h] <= 1
    BY DEF EarnedOf, ThereOf
  <2> HIDE DEF A, B, C
  <2> QED BY <1>0, <2>1, <2>2, TotalNat
<1>3. {} \in Good
  <2>1. \A h \in Hunters : A({})[h] = 0 /\ B({})[h] = 0 /\ C({})[h] = 0
    BY DEF SharedOf, EarnedOf, ThereOf
  <2> HIDE DEF A, B, C
  <2>2. Total(A({}), Hunters) = 0 /\ Total(B({}), Hunters) = 0
        /\ Total(C({}), Hunters) = 0
    BY <1>0, <2>1, TotalZero
  <2> QED BY <2>2
<1>4. ASSUME NEW T \in SUBSET N, T # {}, \A x \in T : T \ {x} \in Good
      PROVE  T \in Good
  <2>1. PICK p \in T : TRUE
    BY <1>4
  <2> DEFINE U == T \ {p}
             f == ShareEXP(p, sum[p])
             b == B({p})
             c == C({p})
  <2>2. /\ U \in SUBSET N /\ p \in N /\ U \in Good
        /\ PartyOf \in [Hunters -> Groups \cup {NoParty_}]
    BY <1>4, <2>1, MonstersAssumption
  <2>3. /\ \A h \in Hunters : /\ f[h] \in Nat
                              /\ ~(h \in Here /\ PartyOf[h] = p) => f[h] = 0
                              /\ b[h] \in Nat /\ c[h] \in Nat
        /\ sum[p] \in Nat /\ Total(f, Hunters) \in Nat /\ Total(b, Hunters) = sum[p]
        /\ Total(c, Hunters) \in Nat /\ sum[p] <= Total(f, Hunters)
        /\ Total(f, Hunters) <= sum[p] + Total(c, Hunters)
    BY <1>1, <2>2
  <2>4. /\ \A h \in Hunters : /\ A(U)[h] \in Nat /\ B(U)[h] \in Nat /\ C(U)[h] \in Nat
        /\ Total(A(U), Hunters) \in Nat /\ Total(B(U), Hunters) \in Nat
        /\ Total(C(U), Hunters) \in Nat
    BY <1>2, <2>2
  <2>5. \A h \in Hunters : A(T)[h] = A(U)[h] + f[h]
    <3> SUFFICES ASSUME NEW h \in Hunters PROVE A(T)[h] = A(U)[h] + f[h]
      OBVIOUS
    <3>1. CASE h \in Here /\ PartyOf[h] = p
      <4>1. A(T)[h] = f[h] /\ A(U)[h] = 0
        BY <2>1, <3>1 DEF SharedOf
      <4> QED BY <2>3, <4>1
    <3>2. CASE ~(h \in Here /\ PartyOf[h] = p)
      <4>1. A(T)[h] = A(U)[h]
        BY <3>2 DEF SharedOf
      <4>2. f[h] = 0
        BY <2>3, <3>2
      <4> HIDE DEF A, U, f
      <4> QED BY <2>4, <4>1, <4>2
    <3> QED BY <3>1, <3>2
  <2>6. \A h \in Hunters : /\ B(T)[h] = B(U)[h] + b[h]
                           /\ C(T)[h] = C(U)[h] + c[h]
    BY <2>1 DEF EarnedOf, ThereOf
  <2> HIDE DEF A, B, C, U, f, b, c
  <2>7. /\ Total(A(T), Hunters) = Total(A(U), Hunters) + Total(f, Hunters)
        /\ Total(B(T), Hunters) = Total(B(U), Hunters) + Total(b, Hunters)
        /\ Total(C(T), Hunters) = Total(C(U), Hunters) + Total(c, Hunters)
    <3>1. \A h \in Hunters : A(U)[h] \in Int /\ f[h] \in Int
      BY <2>3, <2>4
    <3>2. \A h \in Hunters : B(U)[h] \in Int /\ b[h] \in Int
      BY <2>3, <2>4
    <3>3. \A h \in Hunters : C(U)[h] \in Int /\ c[h] \in Int
      BY <2>3, <2>4
    <3>4. Total(A(T), Hunters) = Total(A(U), Hunters) + Total(f, Hunters)
      BY <1>0, <2>5, <3>1, TotalSum
    <3>5. Total(B(T), Hunters) = Total(B(U), Hunters) + Total(b, Hunters)
      BY <1>0, <2>6, <3>2, TotalSum
    <3>6. Total(C(T), Hunters) = Total(C(U), Hunters) + Total(c, Hunters)
      BY <1>0, <2>6, <3>3, TotalSum
    <3> QED BY <3>4, <3>5, <3>6
  <2>8. /\ Total(B(U), Hunters) <= Total(A(U), Hunters)
        /\ Total(A(U), Hunters) <= Total(B(U), Hunters) + Total(C(U), Hunters)
    BY <2>2
  <2> QED BY <2>3, <2>4, <2>7, <2>8
<1>5. N \in Good
  <2> HIDE DEF Good
  <2> QED BY <1>3, <1>4, SetInduction
<1>6. Total(C(N), Hunters) <= Cardinality(Hunters) /\ Cardinality(Hunters) \in Nat
  <2> DEFINE ones == [h \in Hunters |-> 1]
  <2>1. \A h \in Hunters : ones[h] = 1
    OBVIOUS
  <2> HIDE DEF ones, C
  <2>2. Total(ones, Hunters) = Cardinality(Hunters)
    BY <1>0, <2>1, TotalOnes
  <2>3. \A h \in Hunters : C(N)[h] \in Int /\ ones[h] \in Int /\ C(N)[h] <= ones[h]
    BY <1>2, <2>1
  <2> QED BY <1>0, <2>2, <2>3, TotalMost, FS_CardinalityType
<1>7. /\ \A h \in Hunters : A(N)[h] \in Nat
      /\ Total(A(N), Hunters) \in Nat /\ Total(B(N), Hunters) \in Nat
      /\ Total(C(N), Hunters) \in Nat
  BY <1>2
<1>8. /\ Total(B(N), Hunters) <= Total(A(N), Hunters)
      /\ Total(A(N), Hunters) <= Total(B(N), Hunters) + Total(C(N), Hunters)
  BY <1>5
<1> HIDE DEF A, B, C
<1>9. Total(A(N), Hunters) <= Total(B(N), Hunters) + Cardinality(Hunters)
  BY <1>6, <1>7, <1>8
<1> QED BY <1>7, <1>8, <1>9 DEF A, B

(* Nothing is kept back of what fell to a party.                           *)
ExpInv == /\ share.mode \in 0..2 /\ share.party \in 0..2
          /\ temp_expsum \in [Groups -> {0}]

PaidOf(list) == Opponents(list) \cap Here
RewardsOf(list, total, from, most) ==
  [h \in Hunters |-> IF h \in PaidOf(list)
                     THEN RewardOf(h, list, total, from, most) ELSE 0]
SumsOf(list, reward) ==
  [p \in Groups |->
     temp_expsum[p]
     + Total(reward, {h \in PaidOf(list) : Partied(h) /\ PartyOf[h] = p})]

LEMMA HandOutIs ==
  ASSUME NEW list, NEW total, NEW from, NEW most, HandOut(list, total, from, most)
  PROVE  LET reward == RewardsOf(list, total, from, most)
             sum    == SumsOf(list, reward)
             noted  == Noted(PaidOf(list), reward, most)
         IN  /\ gained' = [h \in Hunters |->
                             (IF Partied(h) THEN 0 ELSE reward[h])
                             + Total([p \in noted |-> ShareEXP(p, sum[p])[h]], noted)]
             /\ temp_expsum' = [p \in Groups |-> IF p \in noted THEN 0 ELSE sum[p]]
BY DEF HandOut, PaidOf, RewardsOf, SumsOf

LEMMA RewardsType ==
  ASSUME share.mode \in 0..3, NEW list \in Lists_, NEW total \in Nat \ {0}, NEW from, NEW most
  PROVE  \A h \in Hunters : /\ RewardsOf(list, total, from, most)[h] \in Nat
                            /\ h \notin PaidOf(list)
                                 => RewardsOf(list, total, from, most)[h] = 0
<1> SUFFICES ASSUME NEW h \in Hunters
             PROVE  /\ RewardsOf(list, total, from, most)[h] \in Nat
                    /\ h \notin PaidOf(list)
                         => RewardsOf(list, total, from, most)[h] = 0
  OBVIOUS
<1>1. CASE h \notin PaidOf(list)
  BY <1>1 DEF RewardsOf
<1>2. CASE h \in PaidOf(list)
  <2>1. list[h] \in Nat /\ Exp \in Nat
    BY <1>2, MonstersAssumption DEF PaidOf, Opponents, Lists_
  <2>2. Exp * list[h] \in Nat
    BY <2>1
  <2>3. Ceil(Exp * list[h], total) \in Nat
    BY <2>2, CeilIs
  <2>4. RewardsOf(list, total, from, most)[h] = RewardOf(h, list, total, from, most)
    BY <1>2 DEF RewardsOf
  <2>5. RewardOf(h, list, total, from, most) \in Nat
    <3>1. CASE share.mode = 0
      BY <2>1, <3>1 DEF RewardOf
    <3>2. CASE share.mode = 1
      BY <2>1, <3>2 DEF RewardOf
    <3>3. CASE share.mode = 2
      BY <2>3, <3>3 DEF RewardOf
    <3>4. CASE share.mode = 3
      <4>1. Cardinality(Opponents(list)) \in Nat
        <5> Opponents(list) \in SUBSET Hunters /\ IsFiniteSet(Hunters)
          BY MonstersAssumption DEF Opponents
        <5> QED BY FS_Subset, FS_CardinalityType
      <4>2. RewardOf(h, list, total, from, most) = Exp * Cardinality(Opponents(list))
        BY <3>4 DEF RewardOf
      <4> QED BY <2>1, <4>1, <4>2
    <3> QED BY <3>1, <3>2, <3>3, <3>4
  <2> QED BY <1>2, <2>4, <2>5
<1> QED BY <1>1, <1>2

(* The parties that are noted have a member among those who are paid.      *)
LEMMA NotedAre ==
  ASSUME NEW list, NEW reward, NEW most
  PROVE  LET noted == Noted(PaidOf(list), reward, most)
         IN  /\ noted \in SUBSET Groups /\ IsFiniteSet(noted)
             /\ \A p \in noted : \E h \in PaidOf(list) : Partied(h) /\ PartyOf[h] = p
<1> DEFINE noted == Noted(PaidOf(list), reward, most)
           paid == PaidOf(list)
           Image == {PartyOf[h] : h \in paid}
<1>1. IsFiniteSet(Hunters) /\ paid \in SUBSET Hunters
  BY MonstersAssumption DEF PaidOf, Opponents
<1>2. /\ noted \in SUBSET Groups /\ noted \in SUBSET Image
      /\ \A p \in noted : \E h \in paid : Partied(h) /\ PartyOf[h] = p
  BY DEF Noted
<1> HIDE DEF noted, paid
<1>3. IsFiniteSet(paid)
  BY <1>1, FS_Subset
<1>4. IsFiniteSet(Image)
  BY <1>3, ImageFinite
<1> HIDE DEF Image
<1>5. IsFiniteSet(noted)
  BY <1>2, <1>4, FS_Subset
<1> QED BY <1>2, <1>5 DEF noted, paid

(* What the members of a party have coming is noted, and then it is shared. *)
LEMMA SumsAre ==
  ASSUME ExpInv, NEW list \in Lists_, NEW total \in Nat \ {0}, NEW from, NEW most
  PROVE  LET reward == RewardsOf(list, total, from, most)
             sum    == SumsOf(list, reward)
             noted  == Noted(PaidOf(list), reward, most)
         IN  /\ noted \in SUBSET Groups /\ IsFiniteSet(noted)
             /\ \A p \in noted : \E h \in PaidOf(list) : Partied(h) /\ PartyOf[h] = p
             /\ \A p \in Groups \ noted : sum[p] = 0
             /\ \A h \in Hunters : Partied(h) /\ PartyOf[h] \notin noted
                                     => reward[h] = 0
<1> DEFINE reward == RewardsOf(list, total, from, most)
           sum == SumsOf(list, reward)
           noted == Noted(PaidOf(list), reward, most)
           paid == PaidOf(list)
<1>1. IsFiniteSet(Hunters) /\ paid \subseteq Hunters /\ IsFiniteSet(paid)
      /\ PartyOf \in [Hunters -> Groups \cup {NoParty_}]
  <2>1. IsFiniteSet(Hunters) /\ paid \in SUBSET Hunters
        /\ PartyOf \in [Hunters -> Groups \cup {NoParty_}]
    BY MonstersAssumption DEF PaidOf, Opponents
  <2> QED BY <2>1, FS_Subset
<1>2. \A h \in Hunters : reward[h] \in Nat /\ (h \notin paid => reward[h] = 0)
  <2> share.mode \in 0..3
    BY DEF ExpInv
  <2> QED BY RewardsType
<1>3. noted = {p \in Groups : \E h \in paid : /\ Partied(h) /\ PartyOf[h] = p
                                              /\ reward[h] > 0}
  BY DEF Noted, ExpInv
<1>4. \A p \in Groups : sum[p] = temp_expsum[p]
                           + Total(reward, {h \in paid : Partied(h) /\ PartyOf[h] = p})
  BY DEF SumsOf
<1> HIDE DEF reward, sum, noted, paid
<1>5. IsFiniteSet(noted)
  BY NotedAre DEF noted, paid
<1>6. \A p \in Groups \ noted : sum[p] = 0
  <2> SUFFICES ASSUME NEW p \in Groups \ noted PROVE sum[p] = 0
    OBVIOUS
  <2> DEFINE S == {h \in paid : Partied(h) /\ PartyOf[h] = p}
  <2>1. S \in SUBSET paid /\ \A h \in S : reward[h] = 0
    BY <1>1, <1>2, <1>3
  <2>2. sum[p] = temp_expsum[p] + Total(reward, S)
    BY <1>4
  <2> HIDE DEF S
  <2>3. IsFiniteSet(S)
    BY <1>1, <2>1, FS_Subset
  <2>4. Total(reward, S) = 0
    BY <2>1, <2>3, TotalZero
  <2>5. temp_expsum[p] = 0
    BY DEF ExpInv
  <2> QED BY <2>2, <2>4, <2>5
<1>7. \A h \in Hunters : Partied(h) /\ PartyOf[h] \notin noted => reward[h] = 0
  <2> SUFFICES ASSUME NEW h \in Hunters, Partied(h), PartyOf[h] \notin noted,
                      reward[h] # 0
               PROVE  FALSE
    OBVIOUS
  <2>1. h \in paid /\ reward[h] > 0
    BY <1>2
  <2>2. PartyOf[h] \in Groups
    BY <1>1 DEF Partied
  <2> QED BY <1>3, <2>1, <2>2
<1> QED BY <1>3, <1>5, <1>6, <1>7 DEF reward, sum, noted, paid

(* Among the opponents the experience of the kill is handed out once.      *)
LEMMA RewardsSum ==
  ASSUME ExpInv, NEW list \in Lists_, NEW total, total = Total(list, Opponents(list)),
         total > 0, Opponents(list) \subseteq Here,
         NEW from \in Opponents(list), NEW most \in Opponents(list)
  PROVE  LET reward == RewardsOf(list, total, from, most)
         IN  /\ Exp <= Total(reward, Hunters)
             /\ Total(reward, Hunters) < Exp + Cardinality(Hunters)
<1> DEFINE reward == RewardsOf(list, total, from, most)
           O == Opponents(list)
<1>1. /\ O \in SUBSET Hunters /\ IsFiniteSet(Hunters) /\ IsFiniteSet(O)
      /\ PaidOf(list) = O /\ \A h \in O : list[h] \in Nat
      /\ Exp \in Nat /\ from \in Hunters /\ most \in Hunters
  <2>1. /\ O \in SUBSET Hunters /\ IsFiniteSet(Hunters) /\ PaidOf(list) = O
        /\ \A h \in O : list[h] \in Nat /\ Exp \in Nat
        /\ from \in Hunters /\ most \in Hunters /\ Exp \in Nat
    BY MonstersAssumption DEF PaidOf, Opponents, Lists_
  <2> QED BY <2>1, FS_Subset
<1>2. total \in Nat \ {0}
  <2> Total(list, O) \in Nat
    <3> HIDE DEF O
    <3> QED BY <1>1, TotalNat
  <2> QED OBVIOUS
<1>3. \A h \in Hunters : reward[h] \in Nat /\ (h \notin O => reward[h] = 0)
  <2> share.mode \in 0..3
    BY DEF ExpInv
  <2> QED BY <1>1, <1>2, RewardsType
<1>4. \A h \in O : reward[h] = RewardOf(h, list, total, from, most)
  BY <1>1 DEF RewardsOf
<1>5. Cardinality(Hunters) \in Nat /\ Cardinality(Hunters) > 0
  <2> Hunters # {}
    BY <1>1
  <2> QED BY <1>1, FS_CardinalityType, FS_EmptySet
<1> HIDE DEF reward, O
<1>6. ASSUME NEW who \in O, \A h \in O : reward[h] = IF h = who THEN Exp ELSE 0
      PROVE  Total(reward, Hunters) = Exp
  <2>1. /\ who \in Hunters /\ {who} \in SUBSET Hunters /\ reward[who] = Exp
        /\ \A h \in Hunters \ {who} : reward[h] = 0
        /\ \A h \in Hunters : reward[h] \in Int
    BY <1>1, <1>3, <1>6
  <2>2. Total(reward, Hunters) = Total(reward, {who})
    BY <1>1, <2>1, TotalSupport
  <2>3. Total(reward, {who}) = reward[who]
    BY <2>1, TotalSingle
  <2> QED BY <2>1, <2>2, <2>3
<1>7. CASE share.mode = 0
  <2> \A h \in O : reward[h] = IF h = from THEN Exp ELSE 0
    BY <1>4, <1>7 DEF RewardOf
  <2>1. Total(reward, Hunters) = Exp
    BY <1>6 DEF O
  <2> QED BY <1>1, <1>5, <2>1 DEF reward
<1>8. CASE share.mode = 1
  <2> \A h \in O : reward[h] = IF h = most THEN Exp ELSE 0
    BY <1>4, <1>8 DEF RewardOf
  <2>1. Total(reward, Hunters) = Exp
    BY <1>6 DEF O
  <2> QED BY <1>1, <1>5, <2>1 DEF reward
<1>9. CASE share.mode = 2
  <2>1. \A h \in O : reward[h] = Ceil(Exp * list[h], total)
    BY <1>4, <1>9 DEF RewardOf
  <2>2. \A h \in O : reward[h] = Ceil(Exp * list[h], Total(list, O))
    BY <2>1 DEF O
  <2>3. Total(list, O) > 0
    BY DEF O
  <2>4. /\ Total(reward, O) \in Nat /\ Cardinality(O) \in Nat
        /\ Exp <= Total(reward, O) /\ Total(reward, O) < Exp + Cardinality(O)
    BY <1>1, <2>2, <2>3, SharesSum
  <2>5. Total(reward, Hunters) = Total(reward, O)
    <3> \A h \in Hunters : reward[h] \in Int
      BY <1>3
    <3> \A h \in Hunters \ O : reward[h] = 0
      BY <1>3
    <3> QED BY <1>1, TotalSupport
  <2>6. Cardinality(O) <= Cardinality(Hunters)
    BY <1>1, FS_Subset
  <2>7. Total(reward, Hunters) < Exp + Cardinality(Hunters)
    BY <1>1, <1>5, <2>4, <2>5, <2>6
  <2> QED BY <2>4, <2>5, <2>7 DEF reward
<1> QED BY <1>7, <1>8, <1>9 DEF ExpInv

LEMMA AllHandedOut ==
  ASSUME ExpInv, NEW list \in Lists_, NEW total, total = Total(list, Opponents(list)),
         total > 0, Opponents(list) \subseteq Here,
         NEW from \in Opponents(list), NEW most \in Opponents(list),
         HandOut(list, total, from, most)
  PROVE  /\ Exp <= Total(gained', Hunters)
         /\ Total(gained', Hunters) < Exp + 2 * Cardinality(Hunters)
<1> DEFINE reward == RewardsOf(list, total, from, most)
           sum == SumsOf(list, reward)
           noted == Noted(PaidOf(list), reward, most)
           paid == PaidOf(list)
           u == [h \in Hunters |-> IF Partied(h) THEN 0 ELSE reward[h]]
           b == EarnedOf(noted, reward, paid)
           x == [h \in Hunters |-> Total([p \in noted |-> ShareEXP(p, sum[p])[h]], noted)]
<1>1. /\ IsFiniteSet(Hunters) /\ total \in Nat \ {0} /\ Exp \in Nat
      /\ Cardinality(Hunters) \in Nat
  <2>1. IsFiniteSet(Hunters) /\ Exp \in Nat
    BY MonstersAssumption
  <2>2. Opponents(list) \in SUBSET Hunters
    BY DEF Opponents
  <2>3. IsFiniteSet(Opponents(list))
    BY <2>1, <2>2, FS_Subset
  <2>4. \A h \in Opponents(list) : list[h] \in Nat
    BY DEF Opponents, Lists_
  <2>5. Total(list, Opponents(list)) \in Nat
    BY <2>3, <2>4, TotalNat
  <2> QED BY <2>1, <2>5, FS_CardinalityType
<1>2. /\ \A h \in Hunters : reward[h] \in Nat /\ (h \notin paid => reward[h] = 0)
      /\ noted \in SUBSET Groups /\ IsFiniteSet(noted)
      /\ \A p \in noted : \E h \in paid : Partied(h) /\ PartyOf[h] = p
      /\ \A h \in Hunters : Partied(h) /\ PartyOf[h] \notin noted => reward[h] = 0
  <2> share.mode \in 0..3
    BY DEF ExpInv
  <2> QED BY <1>1, RewardsType, SumsAre
<1>3. /\ Exp <= Total(reward, Hunters)
      /\ Total(reward, Hunters) < Exp + Cardinality(Hunters)
  BY RewardsSum
<1>4. gained' = [h \in Hunters |-> u[h] + x[h]]
  <2>1. gained' = [h \in Hunters |->
                     (IF Partied(h) THEN 0 ELSE reward[h])
                     + Total([p \in noted |-> ShareEXP(p, sum[p])[h]], noted)]
    BY HandOutIs
  <2> HIDE DEF reward, sum, noted
  <2> QED BY <2>1
<1>5. paid \in SUBSET Here /\ Here \subseteq Hunters
  BY DEF PaidOf, Here
<1>6. \A p \in noted : sum[p] = Total(reward, {h \in paid : Partied(h) /\ PartyOf[h] = p})
  <2> SUFFICES ASSUME NEW p \in noted
               PROVE  sum[p] = Total(reward, {h \in paid : Partied(h) /\ PartyOf[h] = p})
    OBVIOUS
  <2> DEFINE S == {h \in paid : Partied(h) /\ PartyOf[h] = p}
  <2>1. p \in Groups /\ temp_expsum[p] = 0
    BY <1>2 DEF ExpInv
  <2>2. sum[p] = temp_expsum[p] + Total(reward, S)
    BY <2>1 DEF SumsOf
  <2>3. S \in SUBSET Hunters /\ \A h \in S : reward[h] \in Int
    BY <1>2, <1>5
  <2> HIDE DEF S, reward, sum, noted, paid
  <2>4. IsFiniteSet(S)
    BY <1>1, <2>3, FS_Subset
  <2>5. Total(reward, S) \in Int
    BY <2>3, <2>4, TotalType
  <2> QED BY <2>1, <2>2, <2>5 DEF S
<1> HIDE DEF reward, sum, noted, paid
<1>7. CASE share.party = 0
  <2>1. \A h \in Hunters : ~Partied(h)
    BY <1>7 DEF Partied
  <2>2. noted = {}
    BY <1>2, <1>5, <2>1
  <2>3. \A h \in Hunters : gained'[h] = reward[h]
    <3> SUFFICES ASSUME NEW h \in Hunters PROVE gained'[h] = reward[h]
      OBVIOUS
    <3>1. x[h] = 0
      BY <2>2, TotalEmpty
    <3>2. u[h] = reward[h]
      BY <2>1
    <3> HIDE DEF x, u
    <3> QED BY <1>2, <1>4, <3>1, <3>2
  <2>4. Total(gained', Hunters) = Total(reward, Hunters)
    <3> \A h \in Hunters : reward[h] \in Int
      BY <1>2
    <3> QED BY <1>1, <2>3, TotalSame
  <2>5. Total(reward, Hunters) \in Int
    BY <1>1, <1>2, TotalType
  <2> QED BY <1>1, <1>3, <2>4, <2>5
<1>8. CASE share.party \in {1, 2}
  <2>1. \A h \in Hunters : Partied(h) <=> PartyOf[h] # NoParty_
    BY <1>8 DEF Partied
  <2>2. \A p \in noted : /\ sum[p] = Total(reward, {h \in paid : PartyOf[h] = p})
                         /\ \E h \in Here : PartyOf[h] = p
    <3> SUFFICES ASSUME NEW p \in noted
                 PROVE  /\ sum[p] = Total(reward, {h \in paid : PartyOf[h] = p})
                        /\ \E h \in Here : PartyOf[h] = p
      OBVIOUS
    <3>1. p # NoParty_
      BY <1>2, MonstersAssumption
    <3>2. {h \in paid : Partied(h) /\ PartyOf[h] = p} = {h \in paid : PartyOf[h] = p}
      BY <1>5, <2>1, <3>1
    <3>3. sum[p] = Total(reward, {h \in paid : Partied(h) /\ PartyOf[h] = p})
      BY <1>6
    <3> QED BY <1>2, <1>5, <3>2, <3>3
  <2> DEFINE a == SharedOf(noted, sum)
  <2>3. /\ \A h \in Hunters : a[h] \in Nat
        /\ Total(b, Hunters) <= Total(a, Hunters)
        /\ Total(a, Hunters) <= Total(b, Hunters) + Cardinality(Hunters)
    BY <1>2, <1>5, <1>8, <2>2, PartiesGet
  <2>4. \A h \in Hunters : x[h] = a[h]
    <3> SUFFICES ASSUME NEW h \in Hunters PROVE x[h] = a[h]
      OBVIOUS
    <3> DEFINE g == [p \in noted |-> ShareEXP(p, sum[p])[h]]
               q == PartyOf[h]
    <3>1. x[h] = Total(g, noted)
      OBVIOUS
    <3>2. ASSUME NEW p \in noted, ~(h \in Here /\ PartyOf[h] = p) PROVE g[p] = 0
      BY <3>2 DEF ShareEXP
    <3>3. CASE h \in Here /\ q \in noted
      <4>1. a[h] = g[q]
        BY <3>3 DEF SharedOf
      <4>2. a[h] \in Nat
        BY <2>3
      <4>3. \A p \in noted : g[p] \in Int /\ (p # q => g[p] = 0)
        BY <3>2, <4>1, <4>2
      <4> HIDE DEF g, a, q
      <4>4. Total(g, noted) = Total(g, {q})
        BY <1>2, <3>3, <4>3, TotalSupport
      <4>5. Total(g, {q}) = g[q]
        BY <3>3, <4>3, TotalSingle
      <4> QED BY <3>1, <4>1, <4>4, <4>5
    <3>4. CASE ~(h \in Here /\ q \in noted)
      <4>1. a[h] = 0
        BY <3>4 DEF SharedOf
      <4>2. \A p \in noted : g[p] = 0
        BY <3>2, <3>4
      <4> HIDE DEF g, a, q
      <4>3. Total(g, noted) = 0
        BY <1>2, <4>2, TotalZero
      <4> QED BY <3>1, <4>1, <4>3
    <3> QED BY <3>3, <3>4
  <2>5. \A h \in Hunters : u[h] \in Nat /\ b[h] \in Nat /\ reward[h] = u[h] + b[h]
    <3> SUFFICES ASSUME NEW h \in Hunters
                 PROVE  u[h] \in Nat /\ b[h] \in Nat /\ reward[h] = u[h] + b[h]
      OBVIOUS
    <3>1. reward[h] \in Nat /\ (h \notin paid => reward[h] = 0)
          /\ (Partied(h) /\ PartyOf[h] \notin noted => reward[h] = 0)
      BY <1>2
    <3>2. u[h] = IF Partied(h) THEN 0 ELSE reward[h]
      OBVIOUS
    <3>3. b[h] = IF h \in paid /\ PartyOf[h] \in noted THEN reward[h] ELSE 0
      BY DEF EarnedOf
    <3>4. ~Partied(h) => PartyOf[h] \notin noted
      BY <1>2, <2>1, MonstersAssumption
    <3> HIDE DEF u, b
    <3>5. CASE Partied(h)
      <4>1. u[h] = 0
        BY <3>2, <3>5
      <4>2. b[h] = reward[h]
        BY <3>1, <3>3, <3>5
      <4> QED BY <3>1, <4>1, <4>2
    <3>6. CASE ~Partied(h)
      <4>1. u[h] = reward[h] /\ b[h] = 0
        BY <3>2, <3>3, <3>4, <3>6
      <4> QED BY <3>1, <4>1
    <3> QED BY <3>5, <3>6
  <2>6. \A h \in Hunters : gained'[h] = u[h] + a[h]
    <3> HIDE DEF u, a, x
    <3> QED BY <1>4, <2>4
  <2> HIDE DEF u, a, b, x
  <2>7. Total(gained', Hunters) = Total(u, Hunters) + Total(a, Hunters)
    <3> \A h \in Hunters : u[h] \in Int /\ a[h] \in Int
      BY <2>3, <2>5
    <3> QED BY <1>1, <2>6, TotalSum
  <2>8. Total(reward, Hunters) = Total(u, Hunters) + Total(b, Hunters)
    <3> \A h \in Hunters : u[h] \in Int /\ b[h] \in Int
      BY <2>5
    <3> QED BY <1>1, <2>5, TotalSum
  <2>9. Total(u, Hunters) \in Nat /\ Total(a, Hunters) \in Nat /\ Total(b, Hunters) \in Nat
    BY <1>1, <2>3, <2>5, TotalNat
  <2> QED BY <1>1, <1>3, <2>3, <2>7, <2>8, <2>9
<1> QED BY <1>7, <1>8 DEF ExpInv

(* A hit that kills hands out by the list with the hit on it.              *)
LEMMA KillIs ==
  ASSUME MonstersInv, NEW n \in Npcs, NEW from \in Hunters, NEW amount \in Amounts,
         Damage(n, from, amount), ~(npc_hp[n] > amount)
  PROVE  \E list \in Lists_, total \in Nat \ {0}, most \in Hunters :
           /\ HandOut(list, total, from, most) /\ UNCHANGED share
           /\ total = Total(list, Opponents(list))
           /\ Opponents(list) = Opponents(damagelist[n]) \cup {from}
           /\ most \in Opponents(list) /\ from \in Here
<1> DEFINE limit == IF amount < npc_hp[n] THEN amount ELSE npc_hp[n]
           v == IF damagelist[n][from] = Unhurt THEN limit
                ELSE damagelist[n][from] + limit
           list == [damagelist[n] EXCEPT ![from] = v]
           total == totaldamage[n] + limit
           old == damagelist[n]
<1>1. /\ life[n] = "alive" /\ from \in Here /\ UNCHANGED share
      /\ Killed(n, [damagelist[n] EXCEPT ![from] =
                      IF @ = Unhurt THEN limit ELSE @ + limit], total, from)
  BY DEF Damage
<1>2. /\ old \in Lists_ /\ npc_hp[n] \in Int /\ npc_hp[n] > 0 /\ amount \in Nat
      /\ Registered(n) /\ totaldamage[n] \in Int
  BY <1>1, MonstersAssumption DEF MonstersInv, MonsterTypes, LivesOn
<1>3. limit \in Nat /\ limit > 0
  BY <1>2
<1>4. [damagelist[n] EXCEPT ![from] = IF @ = Unhurt THEN limit ELSE @ + limit] = list
  BY <1>2 DEF Lists_
<1>5. PICK most \in Opponents(list) : HandOut(list, total, from, most)
  BY <1>1, <1>4 DEF Killed
<1> HIDE DEF limit, total
<1>6. v \in Nat /\ v \in Nat \cup {Unhurt} /\ v # Unhurt
      /\ v = (IF old[from] = Unhurt THEN 0 ELSE old[from]) + limit
  BY <1>2, <1>3 DEF Lists_, Unhurt
<1>7. /\ list \in Lists_ /\ Total(old, Opponents(old)) \in Nat
      /\ Total(list, Opponents(list))
           = Total(old, Opponents(old))
             - (IF old[from] = Unhurt THEN 0 ELSE old[from])
             + (IF v = Unhurt THEN 0 ELSE v)
  <2> HIDE DEF v, old
  <2> QED BY <1>2, <1>6, DamageChanged DEF old
<1>8. Opponents(list) = Opponents(old) \cup {from}
  BY <1>2, <1>6 DEF Opponents, Lists_
<1>9. totaldamage[n] = Total(old, Opponents(old))
  BY <1>2 DEF Registered
<1>10. old[from] \in Nat \cup {Unhurt}
  BY <1>2 DEF Lists_
<1> HIDE DEF v, list, old
<1>11. Total(list, Opponents(list)) = Total(old, Opponents(old)) + limit
  BY <1>3, <1>6, <1>7, <1>10
<1>12. total = Total(list, Opponents(list)) /\ total \in Nat \ {0}
  BY <1>3, <1>7, <1>9, <1>11 DEF total
<1>13. most \in Hunters
  BY <1>5 DEF Opponents
<1> QED BY <1>1, <1>5, <1>7, <1>8, <1>12, <1>13 DEF old

(* A step of the map keeps nothing back, whoever gets something.           *)
LEMMA ExpKept ==
  ASSUME MonstersInv, ExpInv, [MonstersNext]_monsterVars
  PROVE  ExpInv'
<1>1. CASE UNCHANGED <<share, temp_expsum>>
  BY <1>1 DEF ExpInv
<1>2. ASSUME NEW n \in Npcs, NEW h \in Hunters, NEW amount \in Amounts,
             Damage(n, h, amount)
      PROVE  ExpInv'
  <2>1. CASE npc_hp[n] > amount
    <3> UNCHANGED <<share, temp_expsum>>
      BY <1>2, <2>1 DEF Damage, NoGain
    <3> QED BY <1>1
  <2>2. CASE ~(npc_hp[n] > amount)
    <3>1. PICK list \in Lists_, total \in Nat \ {0}, most \in Hunters :
            /\ HandOut(list, total, h, most) /\ UNCHANGED share
      BY <1>2, <2>2, KillIs
    <3> DEFINE reward == RewardsOf(list, total, h, most)
               sum    == SumsOf(list, reward)
               noted  == Noted(PaidOf(list), reward, most)
    <3>2. temp_expsum' = [p \in Groups |-> IF p \in noted THEN 0 ELSE sum[p]]
      BY <3>1, HandOutIs
    <3>3. \A p \in Groups \ noted : sum[p] = 0
      BY SumsAre
    <3> HIDE DEF reward, sum, noted
    <3> QED BY <3>1, <3>2, <3>3 DEF ExpInv
  <2> QED BY <2>1, <2>2
<1>3. CASE UNCHANGED monsterVars
  BY <1>1, <1>3 DEF monsterVars
<1>4. ASSUME NEW n \in Npcs,
             Spawn(n) \/ SpawnTemporary(n) \/ DespawnNPC(n) \/ Act(n) \/ Recover(n)
      PROVE  ExpInv'
  BY <1>1, <1>4 DEF Spawn, SpawnTemporary, DespawnNPC, Act, Recover, NoGain
<1>5. CASE ReloadNpcs
  BY <1>1, <1>5 DEF ReloadNpcs, NoGain
<1>6. ASSUME NEW h \in Hunters,
             HunterLogout(h) \/ \E to \in {"away", "here"} : HunterMoves(h, to)
      PROVE  ExpInv'
  BY <1>1, <1>6 DEF HunterLogout, HunterMoves, NoGain
<1> QED BY <1>2, <1>3, <1>4, <1>5, <1>6 DEF MonstersNext

(* A kill gives its experience to opponents who are there.                 *)
LEMMA KillGives ==
  ASSUME MonstersInv, ExpInv, [MonstersNext]_monsterVars, NEW n \in Npcs,
         npc_hp[n] > 0, npc_hp'[n] <= 0, Opponents(damagelist[n]) \subseteq Here
  PROVE  LET all == Total(gained', Hunters)
         IN  Exp <= all /\ all < Exp + 2 * Cardinality(Hunters)
<1>0. npc_hp \in [Npcs -> Int] /\ Hp > 0
  BY MonstersAssumption DEF MonstersInv, MonsterTypes
<1>1. ASSUME npc_hp'[n] = npc_hp[n] \/ npc_hp'[n] = Hp \/ npc_hp'[n] = npc_hp[n] + 1
      PROVE  FALSE
  BY <1>0, <1>1, MonstersAssumption
<1>2. ASSUME NEW m \in Npcs, NEW h \in Hunters, NEW amount \in Amounts,
             Damage(m, h, amount)
      PROVE  LET all == Total(gained', Hunters)
             IN  Exp <= all /\ all < Exp + 2 * Cardinality(Hunters)
  <2>1. npc_hp' = [npc_hp EXCEPT ![m] = @ - amount]
    BY <1>2 DEF Damage
  <2>2. m = n
    BY <1>0, <1>1, <2>1
  <2>3. npc_hp'[n] = npc_hp[n] - amount /\ amount \in Nat
    BY <1>0, <2>1, <2>2, MonstersAssumption
  <2>4. ~(npc_hp[n] > amount)
    BY <1>0, <2>3
  <2>5. PICK list \in Lists_, total \in Nat \ {0}, most \in Hunters :
          /\ HandOut(list, total, h, most)
          /\ total = Total(list, Opponents(list))
          /\ Opponents(list) = Opponents(damagelist[n]) \cup {h}
          /\ most \in Opponents(list) /\ h \in Here
    BY <1>2, <2>2, <2>4, KillIs
  <2>6. /\ Opponents(list) \subseteq Here /\ h \in Opponents(list)
        /\ most \in Opponents(list) /\ HandOut(list, total, h, most)
        /\ total = Total(list, Opponents(list)) /\ total > 0
    BY <2>5
  <2>7. /\ Exp <= Total(gained', Hunters)
        /\ Total(gained', Hunters) < Exp + 2 * Cardinality(Hunters)
    BY <2>6, AllHandedOut
  <2> QED BY <2>7
<1>3. CASE UNCHANGED monsterVars
  BY <1>1, <1>3 DEF monsterVars
<1>4. ASSUME NEW m \in Npcs, Recover(m)
      PROVE  FALSE
  BY <1>0, <1>1, <1>4 DEF Recover
<1>5. ASSUME NEW m \in Npcs, Spawn(m) \/ SpawnTemporary(m) PROVE FALSE
  BY <1>1, <1>5 DEF Spawn, SpawnTemporary, Spawned
<1>6. ASSUME NEW m \in Npcs, DespawnNPC(m) \/ Act(m) PROVE FALSE
  BY <1>1, <1>6 DEF DespawnNPC, Act
<1>7. CASE ReloadNpcs
  BY <1>1, <1>7 DEF ReloadNpcs
<1>8. ASSUME NEW h \in Hunters,
             HunterLogout(h) \/ \E to \in {"away", "here"} : HunterMoves(h, to)
      PROVE  FALSE
  BY <1>1, <1>8 DEF HunterLogout, HunterMoves
<1> QED BY <1>2, <1>3, <1>4, <1>5, <1>6, <1>7, <1>8 DEF MonstersNext

\* A kill whose opponents are all on the map gives them and their parties its
\* experience, no less, and no more than rounding up each share twice
\* (NPC::Killed, Party::ShareEXP).  In ShareMode 3 every opponent gets all of it,
\* times the number of opponents.
THEOREM ExperienceIsHandedOut ==
  ASSUME 3 \notin ShareModes
  PROVE  MonstersSpec => ExpHandedOut
<1> DEFINE Both == MonstersInv /\ ExpInv
           Kill == \A n \in Npcs :
                     /\ npc_hp[n] > 0 /\ npc_hp'[n] <= 0
                     /\ Opponents(damagelist[n]) \subseteq Here
                     => LET all == Total(gained', Hunters)
                        IN  Exp <= all /\ all < Exp + 2 * Cardinality(Hunters)
<1>1. MonstersInit => Both
  <2> SUFFICES ASSUME MonstersInit PROVE Both
    OBVIOUS
  <2>1. MonstersInv
    BY MonstersBegin
  <2>2. share \in [mode : ShareModes, party : PartyShareModes]
        /\ temp_expsum = [p \in Groups |-> 0]
    BY DEF MonstersInit
  <2>3. share.mode \in ShareModes /\ share.party \in PartyShareModes
    BY <2>2
  <2>4. ShareModes \subseteq 0..2 /\ PartyShareModes \subseteq 0..2
    BY MonstersAssumption
  <2>5. ExpInv
    BY <2>2, <2>3, <2>4 DEF ExpInv
  <2> QED BY <2>1, <2>5
<1>2. Both /\ [MonstersNext]_monsterVars => Both'
  BY NextMonsters, ExpKept
<1>3. Both /\ [MonstersNext]_monsterVars => [Kill]_monsterVars
  <2> SUFFICES ASSUME MonstersInv, ExpInv, [MonstersNext]_monsterVars PROVE Kill
    OBVIOUS
  <2> QED BY KillGives
<1> QED BY <1>1, <1>2, <1>3, PTL DEF MonstersSpec, ExpHandedOut

-----------------------------------------------------------------------------
\* The rest of the types of Monsters: what is handed out is never negative.

MoreTypes ==
  /\ \A n \in Npcs : npc_hp[n] <= Hp /\ totaldamage[n] <= MaxDamage
  /\ temp_expsum \in [Groups -> Nat] /\ gained \in [Hunters -> Nat]
  /\ share \in [mode : ShareModes, party : PartyShareModes]

LEMMA HandOutTypes ==
  ASSUME MoreTypes, NEW list \in Lists_, NEW total \in Nat \ {0}, NEW from, NEW most,
         HandOut(list, total, from, most)
  PROVE  temp_expsum' \in [Groups -> Nat] /\ gained' \in [Hunters -> Nat]
<1> DEFINE reward == RewardsOf(list, total, from, most)
           sum == SumsOf(list, reward)
           noted == Noted(PaidOf(list), reward, most)
           paid == PaidOf(list)
<1>1. share.mode \in 0..3 /\ share.party \in 0..2
  <2> share.mode \in ShareModes /\ share.party \in PartyShareModes
    BY DEF MoreTypes
  <2> QED BY MonstersAssumption
<1>2. \A h \in Hunters : reward[h] \in Nat
  BY <1>1, RewardsType
<1>3. /\ noted \in SUBSET Groups /\ IsFiniteSet(noted)
      /\ \A p \in noted : \E h \in paid : Partied(h) /\ PartyOf[h] = p
  BY NotedAre
<1>4. paid \in SUBSET Here /\ Here \in SUBSET Hunters /\ IsFiniteSet(Hunters)
  BY MonstersAssumption DEF PaidOf, Here
<1>5. /\ gained' = [h \in Hunters |->
                      (IF Partied(h) THEN 0 ELSE reward[h])
                      + Total([p \in noted |-> ShareEXP(p, sum[p])[h]], noted)]
      /\ temp_expsum' = [p \in Groups |-> IF p \in noted THEN 0 ELSE sum[p]]
  BY HandOutIs
<1>6. \A p \in Groups : sum[p] \in Nat
  <2> SUFFICES ASSUME NEW p \in Groups PROVE sum[p] \in Nat
    OBVIOUS
  <2> DEFINE S == {h \in paid : Partied(h) /\ PartyOf[h] = p}
  <2>1. sum[p] = temp_expsum[p] + Total(reward, S)
    BY DEF SumsOf
  <2>2. S \in SUBSET Hunters /\ \A h \in S : reward[h] \in Nat
    BY <1>2, <1>4
  <2> HIDE DEF S, reward, sum
  <2>3. IsFiniteSet(S)
    BY <1>4, <2>2, FS_Subset
  <2>4. Total(reward, S) \in Nat
    BY <2>2, <2>3, TotalNat
  <2>5. temp_expsum[p] \in Nat
    BY DEF MoreTypes
  <2> QED BY <2>1, <2>4, <2>5
<1> HIDE DEF reward, sum, noted, paid
<1>7. \A p \in noted : \A h \in Hunters : ShareEXP(p, sum[p])[h] \in Nat
  <2> SUFFICES ASSUME NEW p \in noted, NEW h \in Hunters
               PROVE  ShareEXP(p, sum[p])[h] \in Nat
    OBVIOUS
  <2>1. PICK x \in Here : Partied(x) /\ PartyOf[x] = p
    BY <1>3, <1>4
  <2>2. share.party \in {1, 2}
    BY <1>1, <2>1 DEF Partied
  <2>3. p \in Groups /\ sum[p] \in Nat /\ \E y \in Here : PartyOf[y] = p
    BY <1>3, <1>6, <2>1
  <2> QED BY <2>2, <2>3, PartyGets
<1>8. temp_expsum' \in [Groups -> Nat]
  BY <1>5, <1>6
<1>9. \A h \in Hunters : Total([p \in noted |-> ShareEXP(p, sum[p])[h]], noted) \in Nat
  <2> SUFFICES ASSUME NEW h \in Hunters
               PROVE  Total([p \in noted |-> ShareEXP(p, sum[p])[h]], noted) \in Nat
    OBVIOUS
  <2> DEFINE g == [p \in noted |-> ShareEXP(p, sum[p])[h]]
  <2> \A p \in noted : g[p] \in Nat
    BY <1>7
  <2> HIDE DEF g
  <2> Total(g, noted) \in Nat
    BY <1>3, TotalNat
  <2> QED BY DEF g
<1>10. gained' \in [Hunters -> Nat]
  BY <1>2, <1>5, <1>9
<1> QED BY <1>8, <1>10

LEMMA MoreTypesKept ==
  ASSUME MonstersInv, MoreTypes, [MonstersNext]_monsterVars
  PROVE  MoreTypes'
<1>0. /\ MonsterTypes /\ Hp \in Int /\ Hp > 0 /\ MaxDamage \in Nat
      /\ \A h \in Hunters : 0 \in Nat
      /\ \A a \in Amounts : a \in Nat
  BY MonstersAssumption DEF MonstersInv
<1>1. ASSUME NoGain, UNCHANGED share PROVE
        /\ temp_expsum' \in [Groups -> Nat] /\ gained' \in [Hunters -> Nat]
        /\ share' \in [mode : ShareModes, party : PartyShareModes]
  BY <1>1 DEF NoGain, MoreTypes
<1>2. ASSUME NEW S \in SUBSET Npcs, Forget(S)
      PROVE  \A n \in Npcs : totaldamage'[n] <= MaxDamage
  BY <1>0, <1>2 DEF Forget, MoreTypes
<1>3. ASSUME NEW n \in Npcs, NEW h \in Hunters, NEW amount \in Amounts,
             Damage(n, h, amount)
      PROVE  MoreTypes'
  <2>1. \A m \in Npcs : npc_hp'[m] <= Hp
    <3> npc_hp' = [npc_hp EXCEPT ![n] = @ - amount]
      BY <1>3 DEF Damage
    <3> QED BY <1>0 DEF MoreTypes, MonsterTypes
  <2>2. CASE npc_hp[n] > amount
    <3>1. /\ NoGain /\ UNCHANGED share
          /\ totaldamage' = [totaldamage EXCEPT ![n] = totaldamage[n] + amount]
          /\ totaldamage[n] + amount <= MaxDamage
      <4>1. amount < npc_hp[n]
        BY <1>0, <2>2 DEF MonsterTypes
      <4> QED BY <1>3, <2>2, <4>1 DEF Damage
    <3>2. \A m \in Npcs : totaldamage'[m] <= MaxDamage
      BY <1>0, <3>1 DEF MonsterTypes, MoreTypes
    <3> QED BY <1>1, <2>1, <3>1, <3>2 DEF MoreTypes
  <2>3. CASE ~(npc_hp[n] > amount)
    <3>1. PICK list \in Lists_, total \in Nat \ {0}, most \in Hunters :
            HandOut(list, total, h, most) /\ UNCHANGED share
      BY <1>3, <2>3, KillIs
    <3>2. temp_expsum' \in [Groups -> Nat] /\ gained' \in [Hunters -> Nat]
      BY <3>1, HandOutTypes
    <3>3. PICK S \in SUBSET Npcs : Forget(S)
      <4>1. Children \subseteq Npcs
        BY MonstersAssumption
      <4> DEFINE fallen == IF n \in Bosses
                           THEN {m \in Children : life[m] = "alive"} ELSE {}
      <4>2. Forget(fallen \cup {n})
        BY <1>3, <2>3 DEF Damage, Killed
      <4> QED BY <4>1, <4>2
    <3> QED BY <1>2, <2>1, <3>1, <3>2, <3>3 DEF MoreTypes
  <2> QED BY <2>2, <2>3
<1>4. ASSUME NEW n \in Npcs, Spawn(n) \/ SpawnTemporary(n)
      PROVE  MoreTypes'
  BY <1>0, <1>1, <1>4 DEF Spawn, SpawnTemporary, Spawned, MoreTypes, lists
<1>5. ASSUME NEW n \in Npcs, DespawnNPC(n) PROVE MoreTypes'
  BY <1>1, <1>2, <1>5 DEF DespawnNPC, MoreTypes
<1>6. ASSUME NEW n \in Npcs, Act(n) PROVE MoreTypes'
  BY <1>1, <1>6 DEF Act, MoreTypes, lists
<1>7. ASSUME NEW n \in Npcs, Recover(n) PROVE MoreTypes'
  BY <1>0, <1>1, <1>7 DEF Recover, MoreTypes, MonsterTypes, lists
<1>8. CASE ReloadNpcs
  BY <1>0, <1>1, <1>2, <1>8 DEF ReloadNpcs, MoreTypes
<1>9. ASSUME NEW h \in Hunters, NEW to \in {"away", "here"}, HunterMoves(h, to)
      PROVE  MoreTypes'
  BY <1>1, <1>9 DEF HunterMoves, MoreTypes, lists
<1>10. ASSUME NEW h \in Hunters, HunterLogout(h) PROVE MoreTypes'
  <2>1. \A n \in Npcs : totaldamage'[n] <= MaxDamage
    <3> SUFFICES ASSUME NEW n \in Npcs PROVE totaldamage'[n] <= MaxDamage
      OBVIOUS
    <3>1. CASE n \in unregister_npc[h]
      <4>1. damagelist[n][h] \in Nat
        BY <1>0, <3>1 DEF MonstersInv, Registered, MonsterTypes, Lists_
      <4>2. totaldamage'[n] = totaldamage[n] - damagelist[n][h]
        BY <1>10, <3>1 DEF HunterLogout
      <4> QED BY <1>0, <4>1, <4>2 DEF MoreTypes, MonsterTypes
    <3>2. CASE n \notin unregister_npc[h]
      BY <1>10, <3>2 DEF HunterLogout, MoreTypes
    <3> QED BY <3>1, <3>2
  <2>2. NoGain /\ UNCHANGED <<share, npc_hp>>
    BY <1>10 DEF HunterLogout
  <2> QED BY <1>1, <2>1, <2>2 DEF MoreTypes
<1>11. CASE UNCHANGED monsterVars
  BY <1>11 DEF monsterVars, lists, MoreTypes
<1> QED
  BY <1>3, <1>4, <1>5, <1>6, <1>7, <1>8, <1>9, <1>10, <1>11 DEF MonstersNext

\* What NPCs remember and hand out is of its type, and nobody on a list has
\* done more damage than all of them together (NPC::Damage).
LEMMA MonstersTyped == MonstersInv /\ MoreTypes => MonstersTypeOK
<1> SUFFICES ASSUME MonstersInv, MoreTypes PROVE MonstersTypeOK
  OBVIOUS
<1>1. MonsterTypes /\ Bosses \subseteq Npcs /\ MaxDamage \in Nat
  BY MonstersAssumption DEF MonstersInv
<1>2. ASSUME NEW n \in Npcs
      PROVE  totaldamage[n] \in 0..MaxDamage /\ damagelist[n] \in [Hunters -> -1..MaxDamage]
  <2> DEFINE list == damagelist[n]
  <2>1. /\ list \in Lists_ /\ totaldamage[n] = Total(list, Opponents(list))
        /\ totaldamage[n] \in Int /\ totaldamage[n] <= MaxDamage
    BY <1>1 DEF MonstersInv, MonsterTypes, MoreTypes, Registered
  <2>2. Opponents(list) \in SUBSET Hunters /\ IsFiniteSet(Hunters)
    BY MonstersAssumption DEF Opponents
  <2>3. IsFiniteSet(Opponents(list)) /\ \A h \in Opponents(list) : list[h] \in Nat
    <3> \A h \in Opponents(list) : list[h] \in Nat
      BY <2>1 DEF Lists_, Opponents
    <3> QED BY <2>2, FS_Subset
  <2>4. /\ Total(list, Opponents(list)) \in Nat
        /\ \A h \in Opponents(list) : list[h] <= Total(list, Opponents(list))
    BY <2>3, TotalNat
  <2>5. \A h \in Hunters : list[h] \in -1..MaxDamage
    <3> SUFFICES ASSUME NEW h \in Hunters PROVE list[h] \in -1..MaxDamage
      OBVIOUS
    <3>1. CASE h \in Opponents(list)
      BY <1>1, <2>1, <2>3, <2>4, <3>1
    <3>2. CASE h \notin Opponents(list)
      BY <1>1, <3>2 DEF Opponents, Unhurt
    <3> QED BY <3>1, <3>2
  <2>6. list \in [Hunters -> -1..MaxDamage]
    BY <2>1, <2>5 DEF Lists_
  <2> QED BY <1>1, <2>1, <2>4, <2>6
<1>3. /\ totaldamage \in [Npcs -> 0..MaxDamage]
      /\ damagelist \in [Npcs -> [Hunters -> -1..MaxDamage]]
  BY <1>1, <1>2 DEF MonsterTypes
<1>4. parent \in [Npcs -> Npcs \cup {NoNpc}]
  BY <1>1 DEF MonsterTypes
<1> QED BY <1>1, <1>3, <1>4 DEF MonsterTypes, MoreTypes, MonstersTypeOK

LEMMA MoreTypesBegin == MonstersInit => MoreTypes
<1> SUFFICES ASSUME MonstersInit PROVE MoreTypes
  OBVIOUS
<1> Hp \in Int /\ MaxDamage \in Nat
  BY MonstersAssumption
<1> QED BY DEF MonstersInit, MoreTypes

(* The type invariant of Monsters, for any NPCs, hunters and amounts: what *)
(* an NPC has on its list, and all of it together, is never more than the  *)
(* bound, and nobody's experience is ever taken away by a kill.            *)
THEOREM MonstersAreTyped == MonstersSpec => []MonstersTypeOK
<1>1. MonstersInv /\ MoreTypes /\ [MonstersNext]_monsterVars => MoreTypes'
  BY MoreTypesKept
<1> QED
  BY <1>1, MonstersBegin, NextMonsters, MoreTypesBegin, MonstersTyped, PTL
     DEF MonstersSpec

-----------------------------------------------------------------------------
\* View

Grid == Int \X Int

(* A tile has come into range by a step, or gone out of it, if and only if *)
(* it is on the edge of the diamond that Map::Walk works out.              *)
LEMMA AbsCases ==
  \A n \in Int : /\ n >= 0 => Abs(n) = n
                 /\ n < 0 => Abs(n) = -n
                 /\ Abs(n) \in Nat /\ Abs(-n) = Abs(n)
BY DEF Abs

LEMMA Steps ==
  ASSUME NEW t \in Grid, NEW d \in Directions
  PROVE  /\ StepFrom(t, d) \in Grid
         /\ d = "up" => StepFrom(t, d) = <<t[1], t[2] - 1>>
         /\ d = "right" => StepFrom(t, d) = <<t[1] + 1, t[2]>>
         /\ d = "down" => StepFrom(t, d) = <<t[1], t[2] + 1>>
         /\ d = "left" => StepFrom(t, d) = <<t[1] - 1, t[2]>>
<1>1. t[1] \in Int /\ t[2] \in Int
  BY DEF Grid
<1>2. CASE d = "up"
  BY <1>1, <1>2 DEF StepFrom, Grid
<1>3. CASE d = "right"
  BY <1>1, <1>3 DEF StepFrom, Grid
<1>4. CASE d = "down"
  BY <1>1, <1>4 DEF StepFrom, Grid
<1>5. CASE d = "left"
  BY <1>1, <1>5 DEF StepFrom, Grid
<1> QED
  BY <1>2, <1>3, <1>4, <1>5 DEF Directions

LEMMA Edges ==
  ASSUME NEW t \in Grid, NEW d \in Directions, NEW s \in Grid
  PROVE  LET u == StepFrom(t, d)
         IN  /\ s \in NewCoords(u, d)
                  <=> Apart(s, u) <= SeeDistance /\ Apart(s, t) > SeeDistance
             /\ s \in OldCoords(u, d)
                  <=> Apart(s, t) <= SeeDistance /\ Apart(s, u) > SeeDistance
<1> DEFINE u == StepFrom(t, d)
           S == SeeDistance
           x == s[1] - u[1]
           y == s[2] - u[2]
<1>1. /\ t[1] \in Int /\ t[2] \in Int /\ s[1] \in Int /\ s[2] \in Int
      /\ u[1] \in Int /\ u[2] \in Int /\ S \in Nat \ {0}
      /\ s = <<s[1], s[2]>> /\ x \in Int /\ y \in Int
  BY Steps, ViewAssumption DEF Grid
<1>a. \A n \in Int : /\ n >= 0 => Abs(n) = n
                     /\ n < 0 => Abs(n) = -n
                     /\ Abs(n) \in Nat /\ Abs(-n) = Abs(n)
  BY AbsCases
<1>2. /\ d = "up" => u[1] = t[1] /\ u[2] = t[2] - 1
      /\ d = "right" => u[1] = t[1] + 1 /\ u[2] = t[2]
      /\ d = "down" => u[1] = t[1] /\ u[2] = t[2] + 1
      /\ d = "left" => u[1] = t[1] - 1 /\ u[2] = t[2]
  BY Steps
<1>3. Apart(s, u) = Abs(x) + Abs(y)
  BY DEF Apart
<1>4. /\ d = "up" => Apart(s, t) = Abs(x) + Abs(y - 1)
      /\ d = "right" => Apart(s, t) = Abs(x + 1) + Abs(y)
      /\ d = "down" => Apart(s, t) = Abs(x) + Abs(y + 1)
      /\ d = "left" => Apart(s, t) = Abs(x - 1) + Abs(y)
  <2>1. Apart(s, t) = Abs(s[1] - t[1]) + Abs(s[2] - t[2])
    BY DEF Apart
  <2>2. /\ d = "up" => s[1] - t[1] = x /\ s[2] - t[2] = y - 1
        /\ d = "right" => s[1] - t[1] = x + 1 /\ s[2] - t[2] = y
        /\ d = "down" => s[1] - t[1] = x /\ s[2] - t[2] = y + 1
        /\ d = "left" => s[1] - t[1] = x - 1 /\ s[2] - t[2] = y
    BY <1>1, <1>2
  <2> HIDE DEF x, y, u
  <2> QED
    BY <2>1, <2>2
<1>5. /\ d = "up" => /\ s \in NewCoords(u, d) <=> x \in -S..S /\ y = -S + Abs(x)
                     /\ s \in OldCoords(u, d) <=> x \in -S..S /\ y = S + 1 - Abs(x)
      /\ d = "down" => /\ s \in NewCoords(u, d) <=> x \in -S..S /\ y = S - Abs(x)
                       /\ s \in OldCoords(u, d)
                            <=> x \in -S..S /\ y = -S - 1 + Abs(x)
      /\ d = "right" => /\ s \in NewCoords(u, d) <=> y \in -S..S /\ x = S - Abs(y)
                        /\ s \in OldCoords(u, d)
                             <=> y \in -S..S /\ x = -S - 1 + Abs(y)
      /\ d = "left" => /\ s \in NewCoords(u, d) <=> y \in -S..S /\ x = -S + Abs(y)
                       /\ s \in OldCoords(u, d)
                            <=> y \in -S..S /\ x = S + 1 - Abs(y)
  <2>1. \A i \in -S..S : i \in Int /\ Abs(i) \in Int
    BY <1>1, <1>a
  <2> HIDE DEF u
  <2>2. CASE d = "up"
    <3>1. s \in NewCoords(u, d) <=> x \in -S..S /\ y = -S + Abs(x)
      BY <1>1, <2>1, <2>2 DEF NewCoords, Offsets
    <3>2. s \in OldCoords(u, d) <=> x \in -S..S /\ y = S + 1 - Abs(x)
      BY <1>1, <2>1, <2>2 DEF OldCoords, Offsets
    <3> QED
      BY <2>2, <3>1, <3>2
  <2>3. CASE d = "down"
    BY <1>1, <2>1, <2>3 DEF NewCoords, OldCoords, Offsets
  <2>4. CASE d = "right"
    BY <1>1, <2>1, <2>4 DEF NewCoords, OldCoords, Offsets
  <2>5. CASE d = "left"
    BY <1>1, <2>1, <2>5 DEF NewCoords, OldCoords, Offsets
  <2> QED
    BY <2>2, <2>3, <2>4, <2>5
<1> HIDE DEF x, y, u, S
<1>6. CASE d = "up"
  BY <1>1, <1>3, <1>4, <1>5, <1>6 DEF Abs, S, u
<1>7. CASE d = "down"
  BY <1>1, <1>3, <1>4, <1>5, <1>7 DEF Abs, S, u
<1>8. CASE d = "right"
  <2>1. s \in NewCoords(u, d) <=> Apart(s, u) <= S /\ Apart(s, t) > S
    BY <1>1, <1>3, <1>4, <1>5, <1>8 DEF Abs
  <2>2. s \in OldCoords(u, d) <=> Apart(s, t) <= S /\ Apart(s, u) > S
    BY <1>1, <1>3, <1>4, <1>5, <1>8 DEF Abs
  <2> QED
    BY <2>1, <2>2 DEF S, u
<1>9. CASE d = "left"
  BY <1>1, <1>3, <1>4, <1>5, <1>9 DEF Abs, S, u
<1> QED
  BY <1>6, <1>7, <1>8, <1>9 DEF Directions, u, S

(* What is in range after a step, for who took it and for the others.      *)
LEMMA RangeAfterStep ==
  ASSUME NEW t \in Grid, NEW d \in Directions, NEW s \in Grid \cup {OffMap},
         NEW u, u = StepFrom(t, d)
  PROVE  /\ s \in NewCoords(u, d) => InRange(s, u)
         /\ s \in OldCoords(u, d) => ~InRange(s, u)
         /\ s \notin NewCoords(u, d) \cup OldCoords(u, d)
              => (InRange(s, u) <=> InRange(s, t))
<1>1. u \in Grid /\ OffMap \notin Grid
  BY Steps, ViewAssumption DEF Grid
<1>2. CASE s \in Grid
  <2>1. /\ s \in NewCoords(u, d)
             <=> Apart(s, u) <= SeeDistance /\ Apart(s, t) > SeeDistance
        /\ s \in OldCoords(u, d)
             <=> Apart(s, t) <= SeeDistance /\ Apart(s, u) > SeeDistance
    BY <1>2, Edges
  <2>2. Apart(s, u) \in Int /\ Apart(s, t) \in Int /\ SeeDistance \in Int
    BY <1>1, <1>2, AbsCases, ViewAssumption DEF Apart, Grid
  <2> QED
    BY <1>1, <1>2, <2>1, <2>2 DEF InRange
<1>3. CASE s = OffMap
  <2>1. s \notin NewCoords(u, d) /\ s \notin OldCoords(u, d)
    <3>1. u[1] \in Int /\ u[2] \in Int
      BY <1>1 DEF Grid
    <3>2. SeeDistance \in Int /\ \A i \in Offsets : i \in Int /\ Abs(i) \in Int
      BY AbsCases, ViewAssumption DEF Offsets
    <3>3. \A a, b \in Int : s # <<a, b>>
      BY <1>1, <1>3 DEF Grid
    <3>4. s \notin NewCoords(u, d)
      BY <3>1, <3>2, <3>3 DEF NewCoords, Directions
    <3>5. s \notin OldCoords(u, d)
      BY <3>1, <3>2, <3>3 DEF OldCoords, Directions
    <3> QED
      BY <3>4, <3>5
  <2> QED
    BY <1>3, <2>1 DEF InRange
<1> QED
  BY <1>2, <1>3

LEMMA RangeIsMutual ==
  ASSUME NEW s \in Grid \cup {OffMap}, NEW t \in Grid \cup {OffMap}
  PROVE  InRange(s, t) <=> InRange(t, s)
<1>1. CASE s \in Grid /\ t \in Grid
  <2>1. /\ s[1] - t[1] \in Int /\ s[2] - t[2] \in Int
        /\ t[1] - s[1] = -(s[1] - t[1]) /\ t[2] - s[2] = -(s[2] - t[2])
    BY <1>1 DEF Grid
  <2>2. Apart(s, t) = Apart(t, s)
    BY <2>1, AbsCases DEF Apart
  <2> QED
    BY <2>2 DEF InRange
<1> QED
  BY <1>1 DEF InRange

-----------------------------------------------------------------------------
Things_ == Walkers \cup {Cow, Coin}

ViewTypes ==
  /\ whereabouts \in [Walkers -> {"away", "here", "dead"}]
  /\ tile \in [Walkers -> Grid \cup {OffMap}]
  /\ \A c \in Walkers : whereabouts[c] = "here" <=> tile[c] # OffMap
  /\ sitting \in [Walkers -> {"stand", "floor"} \cup Directions]
  /\ cow \in Grid \cup {OffMap} /\ coin \in Grid \cup {OffMap}
  /\ shown \in [Walkers -> SUBSET Things_]

\* A client shows whoever and whatever is in range of its character.
Seeing(c) ==
  /\ \A o \in Walkers : o \in shown[c] <=> o # c /\ InRange(tile[c], tile[o])
  /\ Cow \in shown[c] <=> InRange(tile[c], cow)
  /\ Coin \in shown[c] <=> InRange(tile[c], coin)

ViewInv == /\ ViewTypes
           /\ \A c \in Present \ (loading \cup misled) : Seeing(c)

LEMMA Distinct ==
  /\ Cow \notin Walkers /\ Coin \notin Walkers /\ Cow # Coin
  /\ OffMap \notin Grid /\ Tiles \subseteq Grid
BY ViewAssumption DEF Grid, Tiles

LEMMA SeeingIsInView ==
  ASSUME ViewTypes, NEW c \in Walkers
  PROVE  Seeing(c) <=> shown[c] = InView(c)
<1>1. \A o \in Walkers : o \in Present <=> tile[o] # OffMap
  BY DEF ViewTypes, Present
<1>2. \A o \in Walkers :
        o \in InView(c) <=> o # c /\ InRange(tile[c], tile[o])
  BY <1>1, Distinct DEF InView, InRange, Present
<1>3. /\ Cow \in InView(c) <=> InRange(tile[c], cow)
      /\ Coin \in InView(c) <=> InRange(tile[c], coin)
  BY Distinct DEF InView, Present
<1>4. InView(c) \subseteq Things_ /\ shown[c] \subseteq Things_
  BY DEF InView, Present, Things_, ViewTypes
<1> HIDE DEF InView
<1> QED
  BY <1>2, <1>3, <1>4 DEF Seeing, Things_

LEMMA Told ==
  ASSUME NEW what, Tell(what), \A c \in Walkers : what[c] \subseteq Things_
  PROVE  /\ shown' \in [Walkers -> SUBSET Things_]
         /\ \A c \in Present' \ loading' : shown'[c] = what[c]
BY DEF Tell, Present

(* Going from the map, or dying on it.                                     *)
LEMMA GoneStep ==
  ASSUME ViewInv, NEW c \in Walkers, NEW to \in {"away", "dead"}, Gone(c, to),
         sitting' \in [Walkers -> {"stand", "floor"} \cup Directions]
  PROVE  ViewInv'
<1> DEFINE what == [o \in Walkers |-> IF InRange(tile[o], tile[c])
                                      THEN shown[o] \ {c} ELSE shown[o]]
<1>1. /\ whereabouts' = [whereabouts EXCEPT ![c] = to]
      /\ tile' = [tile EXCEPT ![c] = OffMap]
      /\ loading' = loading \ {c} /\ misled' = misled \ {c}
      /\ UNCHANGED <<cow, coin>> /\ Tell(what)
  BY DEF Gone
<1>2. ViewTypes
  BY DEF ViewInv
<1>3. \A o \in Walkers : what[o] \subseteq Things_
  BY <1>2 DEF ViewTypes
<1> HIDE DEF what
<1>4. /\ shown' \in [Walkers -> SUBSET Things_]
      /\ \A o \in Present' \ loading' : shown'[o] = what[o]
  BY <1>1, <1>3, Told
<1>5. ViewTypes'
  BY <1>1, <1>2, <1>4, Distinct DEF ViewTypes
<1>6. ASSUME NEW o \in Present' \ (loading' \cup misled')
      PROVE  Seeing(o)'
  <2>1. o \in Walkers /\ o # c /\ o \in Present \ (loading \cup misled)
    BY <1>1, <1>2, <1>6 DEF Present, ViewTypes
  <2>2. Seeing(o)
    BY <2>1 DEF ViewInv
  <2>3. shown'[o] = IF InRange(tile[o], tile[c]) THEN shown[o] \ {c}
                                                 ELSE shown[o]
    BY <1>4, <1>6, <2>1 DEF what
  <2>4. tile'[o] = tile[o] /\ tile'[c] = OffMap
        /\ \A x \in Walkers \ {c} : tile'[x] = tile[x]
    BY <1>1, <1>2, <2>1 DEF ViewTypes
  <2>5. ~InRange(tile'[o], tile'[c])
    BY <2>4 DEF InRange
  <2>6. \A x \in Walkers : x \in shown'[o] <=> x # o
                                           /\ InRange(tile'[o], tile'[x])
    BY <2>1, <2>2, <2>3, <2>4, <2>5 DEF Seeing
  <2>7. (Cow \in shown'[o] <=> Cow \in shown[o])
        /\ (Coin \in shown'[o] <=> Coin \in shown[o])
    BY <2>3, Distinct
  <2> QED
    BY <1>1, <2>2, <2>4, <2>6, <2>7 DEF Seeing
<1> QED
  BY <1>5, <1>6 DEF ViewInv

(* Map::Leave where one was and Map::Enter where one goes.                 *)
LEMMA WarpToStep ==
  ASSUME ViewInv, NEW c \in Walkers, NEW t \in Tiles, WarpTo(c, t)
  PROVE  ViewInv'
<1> DEFINE left(o) == IF InRange(tile[o], tile[c]) THEN shown[o] \ {c}
                      ELSE shown[o]
           what == [o \in Walkers |-> IF InRange(tile[o], t)
                                      THEN left(o) \cup {c} ELSE left(o)]
<1>1. /\ whereabouts' = [whereabouts EXCEPT ![c] = "here"]
      /\ tile' = [tile EXCEPT ![c] = t]
      /\ sitting' = [sitting EXCEPT ![c] = "stand"]
      /\ loading' = loading \cup {c} /\ misled' = misled \ {c}
      /\ UNCHANGED <<cow, coin>> /\ Tell(what)
  BY DEF WarpTo
<1>2. ViewTypes /\ t \in Grid /\ t # OffMap
  BY Distinct DEF ViewInv
<1>3. \A o \in Walkers : what[o] \subseteq Things_
  BY <1>2 DEF ViewTypes, Things_
<1> HIDE DEF what
<1>4. /\ shown' \in [Walkers -> SUBSET Things_]
      /\ \A o \in Present' \ loading' : shown'[o] = what[o]
  BY <1>1, <1>3, Told
<1>5. ViewTypes'
  BY <1>1, <1>2, <1>4 DEF ViewTypes
<1>6. ASSUME NEW o \in Present' \ (loading' \cup misled')
      PROVE  Seeing(o)'
  <2>1. o \in Walkers /\ o # c /\ o \in Present \ (loading \cup misled)
    BY <1>1, <1>2, <1>6 DEF Present, ViewTypes
  <2>2. Seeing(o)
    BY <2>1 DEF ViewInv
  <2>3. shown'[o] = IF InRange(tile[o], t) THEN left(o) \cup {c} ELSE left(o)
    BY <1>4, <1>6, <2>1 DEF what
  <2>4. tile'[o] = tile[o] /\ tile'[c] = t
        /\ \A x \in Walkers \ {c} : tile'[x] = tile[x]
    BY <1>1, <1>2, <2>1 DEF ViewTypes
  <2>5. /\ \A x \in Things_ \ {c} : x \in shown'[o] <=> x \in shown[o]
        /\ c \in shown'[o] <=> InRange(tile[o], t)
    BY <2>1, <2>2, <2>3 DEF Seeing
  <2>6. \A x \in Walkers : x \in shown'[o] <=> x # o
                                           /\ InRange(tile'[o], tile'[x])
    BY <2>1, <2>2, <2>4, <2>5 DEF Seeing, Things_
  <2>7. (Cow \in shown'[o] <=> Cow \in shown[o])
        /\ (Coin \in shown'[o] <=> Coin \in shown[o])
    BY <2>5, Distinct DEF Things_
  <2> QED
    BY <1>1, <2>2, <2>4, <2>6, <2>7 DEF Seeing
<1> QED
  BY <1>5, <1>6 DEF ViewInv

(* All in view is listed for one client.                                   *)
LEMMA RefreshStep ==
  ASSUME ViewInv, NEW c \in Walkers, Warp_Accept(c) \/ Refresh(c)
  PROVE  ViewInv'
<1>1. /\ shown' = [shown EXCEPT ![c] = InView(c)] /\ misled' = misled \ {c}
      /\ UNCHANGED <<whereabouts, tile, sitting, cow, coin>>
      /\ loading \ {c} \subseteq loading'
  BY DEF Warp_Accept, Refresh
<1>2. ViewTypes
  BY DEF ViewInv
<1>3. InView(c) \subseteq Things_
  BY DEF InView, Present, Things_
<1>4. ViewTypes' /\ Present' = Present
  BY <1>1, <1>2, <1>3 DEF ViewTypes, Present
<1>5. InView(c)' = InView(c) /\ \A o \in Walkers \ {c} : Seeing(o) => Seeing(o)'
  <2>1. \A o \in Walkers \ {c} : shown'[o] = shown[o]
    BY <1>1, <1>2 DEF ViewTypes
  <2> QED
    BY <1>1, <2>1 DEF InView, Present, Seeing
<1>6. ASSUME NEW o \in Present' \ (loading' \cup misled')
      PROVE  Seeing(o)'
  <2>1. o \in Walkers
    BY DEF Present
  <2>2. CASE o = c
    <3>1. shown'[c] = InView(c)'
      BY <1>1, <1>2, <1>5 DEF ViewTypes
    <3>2. Seeing(c)' <=> (shown[c] = InView(c))'
      BY <1>4, SeeingIsInView, PTL
    <3> QED
      BY <2>2, <3>1, <3>2
  <2>3. CASE o # c
    <3>1. o \in Present \ (loading \cup misled)
      BY <1>1, <1>4, <2>3
    <3> QED
      BY <1>5, <2>1, <2>3, <3>1 DEF ViewInv
  <2> QED
    BY <2>2, <2>3
<1> QED
  BY <1>4, <1>6 DEF ViewInv

(* A chair is left or taken, and all are misled; or nothing is to be seen. *)
LEMMA SeatStep ==
  ASSUME ViewInv, NEW c \in Walkers,
         Sit(c) \/ Stand(c) \/ \E d \in Directions : Chair_Request(c, d)
  PROVE  ViewInv'
<1>1. ViewTypes /\ whereabouts[c] = "here"
      /\ UNCHANGED <<whereabouts, loading, cow, coin, shown>>
  BY DEF ViewInv, Sit, Stand, Chair_Request
<1>2. Present' = Present
  BY <1>1 DEF Present
<1>3. CASE \E d \in Directions : Chair_Request(c, d)
  <2>1. PICK d \in Directions, t \in Chairs :
           /\ tile' = [tile EXCEPT ![c] = t]
           /\ sitting' = [sitting EXCEPT ![c] = d] /\ misled' = Present
    BY <1>3 DEF Chair_Request
  <2>2. t \in Grid /\ t # OffMap
    BY Distinct, ViewAssumption
  <2>3. ViewTypes'
    BY <1>1, <2>1, <2>2 DEF ViewTypes
  <2> QED
    BY <1>2, <2>1, <2>3 DEF ViewInv
<1>4. CASE Stand(c) /\ sitting[c] # "floor"
  <2>1. /\ tile' = [tile EXCEPT ![c] = StepFrom(tile[c], sitting[c])]
        /\ sitting' = [sitting EXCEPT ![c] = "stand"] /\ misled' = Present
        /\ sitting[c] \in Directions
    BY <1>1, <1>4 DEF Stand, ViewTypes
  <2>2. StepFrom(tile[c], sitting[c]) \in Grid
    BY <1>1, <2>1, Steps DEF ViewTypes
  <2>3. ViewTypes'
    BY <1>1, <2>1, <2>2, Distinct DEF ViewTypes
  <2> QED
    BY <1>2, <2>1, <2>3 DEF ViewInv
<1>5. CASE Sit(c) \/ (Stand(c) /\ sitting[c] = "floor")
  <2>1. UNCHANGED <<tile, misled>>
        /\ sitting' \in [Walkers -> {"stand", "floor"} \cup Directions]
    BY <1>1, <1>5 DEF Sit, Stand, ViewTypes
  <2>2. ViewTypes'
    BY <1>1, <2>1 DEF ViewTypes
  <2>3. \A o \in Walkers : Seeing(o) => Seeing(o)'
    BY <1>1, <2>1 DEF Seeing
  <2> QED
    BY <1>1, <1>2, <2>1, <2>2, <2>3 DEF ViewInv, Present
<1> QED
  BY <1>3, <1>4, <1>5

(* A step: who walks is shown what has come into range and not what has    *)
(* gone out of it, and so are those on the two edges.                      *)
LEMMA WalkStep ==
  ASSUME ViewInv, NEW c \in Walkers, NEW d \in Directions, WalkOn(c, d)
  PROVE  ViewInv'
<1> DEFINE t    == StepFrom(tile[c], d)
           old  == OldCoords(t, d)
           new  == NewCoords(t, d)
           gone == {o \in Present \ {c} : tile[o] \in old}
           come == {o \in Present \ {c} : tile[o] \in new}
           mine == (shown[c] \ (gone \cup (IF cow \in old THEN {Cow} ELSE {})
                                \cup (IF InRange(t, coin) THEN {}
                                      ELSE {Coin})))
                   \cup come \cup (IF cow \in new THEN {Cow} ELSE {})
                   \cup (IF coin \in new THEN {Coin} ELSE {})
           what == [o \in Walkers |-> CASE o = c       -> mine
                                        [] o \in come  -> shown[o] \cup {c}
                                        [] o \in gone  -> shown[o] \ {c}
                                        [] OTHER       -> shown[o]]
           last == [o \in Walkers |->
                      IF o \in gone \/ InRange(tile[o], t)
                      THEN shown[o] \ {c} ELSE shown[o]]
<1>1. /\ whereabouts[c] = "here" /\ t \in Tiles /\ UNCHANGED <<sitting, cow, coin>>
      /\ \/ /\ tile' = [tile EXCEPT ![c] = t]
            /\ UNCHANGED <<whereabouts, loading, misled>> /\ Tell(what)
         \/ /\ whereabouts' = [whereabouts EXCEPT ![c] = "dead"]
            /\ tile' = [tile EXCEPT ![c] = OffMap]
            /\ loading' = loading \ {c} /\ misled' = misled \ {c}
            /\ Tell(last)
  BY DEF WalkOn
<1>2. ViewTypes /\ tile[c] \in Grid /\ t \in Grid /\ t # OffMap
  BY <1>1, Distinct DEF ViewInv, ViewTypes
<1>3. ASSUME NEW s \in Grid \cup {OffMap}
      PROVE  /\ s \in new => InRange(s, t) /\ InRange(t, s)
             /\ s \in old => ~InRange(s, t) /\ ~InRange(t, s) /\ s \notin new
             /\ s \notin new \cup old
                  => /\ InRange(s, t) <=> InRange(s, tile[c])
                     /\ InRange(t, s) <=> InRange(tile[c], s)
  <2>1. /\ s \in new => InRange(s, t)
        /\ s \in old => ~InRange(s, t)
        /\ s \notin new \cup old => (InRange(s, t) <=> InRange(s, tile[c]))
    BY <1>2, RangeAfterStep
  <2>2. /\ InRange(s, t) <=> InRange(t, s)
        /\ InRange(s, tile[c]) <=> InRange(tile[c], s)
    BY <1>2, RangeIsMutual
  <2> QED
    BY <2>1, <2>2
<1>4. \A o \in Walkers : o \in Present <=> tile[o] # OffMap
  BY <1>2 DEF ViewTypes, Present
<1>5. OffMap \notin new /\ OffMap \notin old
  <2>1. ~InRange(OffMap, t) /\ ~InRange(OffMap, tile[c])
    BY DEF InRange
  <2>2. OffMap \notin old
    <3>1. t[1] \in Int /\ t[2] \in Int
      BY <1>2 DEF Grid
    <3>2. SeeDistance \in Int /\ \A i \in Offsets : i \in Int /\ Abs(i) \in Int
      BY AbsCases, ViewAssumption DEF Offsets
    <3>3. \A a, b \in Int : OffMap # <<a, b>>
      BY Distinct DEF Grid
    <3> QED
      BY <3>1, <3>2, <3>3 DEF OldCoords, Directions
  <2> QED
    BY <1>3, <2>1, <2>2
<1>6. \A o \in Walkers \ {c} : /\ o \in gone <=> tile[o] \in old
                               /\ o \in come <=> tile[o] \in new
  BY <1>4, <1>5
<1>7. /\ gone \subseteq Walkers \ {c} /\ come \subseteq Walkers \ {c}
  BY DEF Present
<1>8. \A o \in Walkers : what[o] \subseteq Things_ /\ last[o] \subseteq Things_
  <2>1. \A o \in Walkers : shown[o] \subseteq Things_
    BY <1>2 DEF ViewTypes
  <2>2. mine \subseteq Things_
    BY <1>7, <2>1 DEF Things_
  <2> HIDE DEF mine, gone, come
  <2> QED
    BY <2>1, <2>2 DEF Things_
<1>11. /\ cow \in Grid \cup {OffMap} /\ coin \in Grid \cup {OffMap}
       /\ \A o \in Walkers : tile[o] \in Grid \cup {OffMap}
  BY <1>2 DEF ViewTypes
<1>9. /\ what[c] = mine
      /\ \A o \in Walkers \ {c} :
           what[o] = IF o \in come THEN shown[o] \cup {c}
                     ELSE IF o \in gone THEN shown[o] \ {c} ELSE shown[o]
      /\ \A o \in Walkers : last[o] = IF o \in gone \/ InRange(tile[o], t)
                                      THEN shown[o] \ {c} ELSE shown[o]
  <2>1. \A o \in come : o \notin gone /\ o # c
    BY <1>3, <1>11, <1>7
  <2>2. c \notin come /\ c \notin gone
    OBVIOUS
  <2> HIDE DEF mine, gone, come
  <2>3. what[c] = mine
    BY <2>2
  <2>4. ASSUME NEW o \in Walkers \ {c}
        PROVE  what[o] = IF o \in come THEN shown[o] \cup {c}
                         ELSE IF o \in gone THEN shown[o] \ {c} ELSE shown[o]
    <3>1. o # c
      OBVIOUS
    <3>2. CASE o \in come
      BY <2>1, <3>1, <3>2
    <3>3. CASE o \in gone
      BY <2>1, <3>1, <3>3
    <3>4. CASE o \notin come /\ o \notin gone
      BY <3>1, <3>4
    <3> QED
      BY <3>2, <3>3, <3>4
  <2> QED
    BY <2>3, <2>4
<1>10. /\ \A o \in Walkers : o \in mine <=> o \in come
                                       \/ (o \in shown[c] /\ o \notin gone)
       /\ Cow \in mine <=> cow \in new \/ (Cow \in shown[c] /\ cow \notin old)
       /\ Coin \in mine <=> coin \in new
                            \/ (Coin \in shown[c] /\ InRange(t, coin))
  BY <1>7, Distinct
<1> HIDE DEF mine, what, last, gone, come, new, old, t
<1>12. CASE /\ tile' = [tile EXCEPT ![c] = t]
            /\ UNCHANGED <<whereabouts, loading, misled>> /\ Tell(what)
  <2>1. /\ shown' \in [Walkers -> SUBSET Things_]
        /\ \A o \in Present' \ loading' : shown'[o] = what[o]
    BY <1>8, <1>12, Told
  <2>2. ViewTypes' /\ Present' = Present
    BY <1>1, <1>2, <1>12, <2>1 DEF ViewTypes, Present
  <2>3. tile'[c] = t /\ \A x \in Walkers \ {c} : tile'[x] = tile[x]
    BY <1>2, <1>12 DEF ViewTypes
  <2>4. ASSUME NEW o \in Present \ (loading \cup misled)
        PROVE  Seeing(o)'
    <3>1. o \in Walkers /\ Seeing(o) /\ shown'[o] = what[o]
      BY <1>12, <2>1, <2>2 DEF ViewInv, Present
    <3>2. CASE o = c
      <4>1. shown'[c] = mine
        BY <1>9, <3>1, <3>2
      <4>2. \A x \in Walkers : x \in mine <=> x # c /\ InRange(t, tile'[x])
        <5> SUFFICES ASSUME NEW x \in Walkers
                     PROVE  x \in mine <=> x # c /\ InRange(t, tile'[x])
          OBVIOUS
        <5>1. CASE x = c
          BY <1>7, <1>10, <3>1, <3>2, <5>1 DEF Seeing
        <5>2. CASE x # c
          <6>1. /\ tile[x] \in new => InRange(t, tile[x])
                /\ tile[x] \in old => ~InRange(t, tile[x]) /\ tile[x] \notin new
                /\ tile[x] \notin new \cup old
                     => (InRange(t, tile[x]) <=> InRange(tile[c], tile[x]))
            BY <1>3, <1>11
          <6>2. x \in shown[c] <=> InRange(tile[c], tile[x])
            BY <3>1, <3>2, <5>2 DEF Seeing
          <6> QED
            BY <1>6, <1>10, <2>3, <5>2, <6>1, <6>2
        <5> QED
          BY <5>1, <5>2
      <4>3. Cow \in mine <=> InRange(t, cow)
        BY <1>3, <1>10, <1>11, <3>1, <3>2 DEF Seeing
      <4>4. Coin \in mine <=> InRange(t, coin)
        BY <1>3, <1>10, <1>11, <3>1, <3>2 DEF Seeing
      <4> QED
        BY <1>1, <2>3, <3>2, <4>1, <4>2, <4>3, <4>4 DEF Seeing
    <3>3. CASE o # c
      <4>1. shown'[o] = IF o \in come THEN shown[o] \cup {c}
                        ELSE IF o \in gone THEN shown[o] \ {c} ELSE shown[o]
        BY <1>9, <3>1, <3>3
      <4>2. c \in shown'[o] <=> InRange(tile[o], t)
        <5>1. /\ tile[o] \in new => InRange(tile[o], t)
              /\ tile[o] \in old => ~InRange(tile[o], t) /\ tile[o] \notin new
              /\ tile[o] \notin new \cup old
                   => (InRange(tile[o], t) <=> InRange(tile[o], tile[c]))
          BY <1>3, <1>11, <3>1
        <5>2. c \in shown[o] <=> InRange(tile[o], tile[c])
          BY <3>1, <3>3 DEF Seeing
        <5> QED
          BY <1>6, <3>1, <3>3, <4>1, <5>1, <5>2
      <4>3. \A x \in Things_ \ {c} : x \in shown'[o] <=> x \in shown[o]
        BY <4>1
      <4>4. \A x \in Walkers : x \in shown'[o] <=> x # o
                                              /\ InRange(tile'[o], tile'[x])
        BY <2>3, <3>1, <3>3, <4>2, <4>3 DEF Seeing, Things_
      <4>5. (Cow \in shown'[o] <=> Cow \in shown[o])
            /\ (Coin \in shown'[o] <=> Coin \in shown[o])
        BY <4>3, Distinct DEF Things_
      <4> QED
        BY <1>1, <2>3, <3>1, <3>3, <4>4, <4>5 DEF Seeing
    <3> QED
      BY <3>2, <3>3
  <2> QED
    BY <1>12, <2>2, <2>4 DEF ViewInv
<1>13. CASE /\ whereabouts' = [whereabouts EXCEPT ![c] = "dead"]
            /\ tile' = [tile EXCEPT ![c] = OffMap]
            /\ loading' = loading \ {c} /\ misled' = misled \ {c}
            /\ Tell(last)
  <2>1. /\ shown' \in [Walkers -> SUBSET Things_]
        /\ \A o \in Present' \ loading' : shown'[o] = last[o]
    BY <1>8, <1>13, Told
  <2>2. ViewTypes'
    BY <1>1, <1>2, <1>13, <2>1, Distinct DEF ViewTypes
  <2>3. tile'[c] = OffMap /\ \A x \in Walkers \ {c} : tile'[x] = tile[x]
    BY <1>2, <1>13 DEF ViewTypes
  <2>4. ASSUME NEW o \in Present' \ (loading' \cup misled')
        PROVE  Seeing(o)'
    <3>1. o \in Walkers /\ o # c /\ o \in Present \ (loading \cup misled)
      BY <1>2, <1>13 DEF Present, ViewTypes
    <3>2. Seeing(o) /\ shown'[o] = last[o]
      BY <2>1, <2>4, <3>1 DEF ViewInv
    <3>3. shown'[o] = IF o \in gone \/ InRange(tile[o], t)
                      THEN shown[o] \ {c} ELSE shown[o]
      BY <1>9, <3>1, <3>2
    <3>4. c \notin shown'[o]
      <4>1. /\ tile[o] \in new => InRange(tile[o], t)
            /\ tile[o] \notin new \cup old
                 => (InRange(tile[o], t) <=> InRange(tile[o], tile[c]))
        BY <1>3, <1>11, <3>1
      <4>2. c \in shown[o] => InRange(tile[o], tile[c])
        BY <3>1, <3>2 DEF Seeing
      <4> QED
        BY <1>6, <3>1, <3>3, <4>1, <4>2
    <3>5. \A x \in Things_ \ {c} : x \in shown'[o] <=> x \in shown[o]
      BY <3>3
    <3>6. ~InRange(tile'[o], tile'[c])
      BY <2>3 DEF InRange
    <3>7. \A x \in Walkers : x \in shown'[o] <=> x # o
                                            /\ InRange(tile'[o], tile'[x])
      BY <2>3, <3>1, <3>2, <3>4, <3>5, <3>6 DEF Seeing, Things_
    <3>8. (Cow \in shown'[o] <=> Cow \in shown[o])
          /\ (Coin \in shown'[o] <=> Coin \in shown[o])
      BY <3>5, Distinct DEF Things_
    <3> QED
      BY <1>1, <2>3, <3>1, <3>2, <3>7, <3>8 DEF Seeing
  <2> QED
    BY <2>2, <2>4 DEF ViewInv
<1> QED
  BY <1>1, <1>12, <1>13

(* The NPC or the item comes, goes or moves, and all clients are told that *)
(* have it in range, before or after.                                      *)
LEMMA ThingStep ==
  ASSUME ViewInv, NEW what, Tell(what),
         UNCHANGED <<whereabouts, tile, sitting, loading, misled>>,
         cow' \in Grid \cup {OffMap}, coin' \in Grid \cup {OffMap},
         \A o \in Walkers :
           /\ what[o] \subseteq Things_
           /\ \A x \in Walkers : x \in what[o] <=> x \in shown[o]
           /\ o \in Present /\ Seeing(o)
                => /\ Cow \in what[o] <=> InRange(tile[o], cow')
                   /\ Coin \in what[o] <=> InRange(tile[o], coin')
  PROVE  ViewInv'
<1>1. /\ shown' \in [Walkers -> SUBSET Things_]
      /\ \A o \in Present' \ loading' : shown'[o] = what[o]
  BY Told
<1>2. ViewTypes' /\ Present' = Present
  BY <1>1 DEF ViewInv, ViewTypes, Present
<1>3. ASSUME NEW o \in Present \ (loading \cup misled)
      PROVE  Seeing(o)'
  <2>1. o \in Walkers /\ Seeing(o) /\ shown'[o] = what[o]
    BY <1>1, <1>2 DEF ViewInv, Present
  <2> QED
    BY <2>1 DEF Seeing
<1> QED
  BY <1>2, <1>3 DEF ViewInv

LEMMA CowStep ==
  ASSUME ViewInv,
         \/ \E d \in Directions : CowWalks(d)
         \/ \E t \in Tiles : CowAppears(t)
         \/ CowDies
  PROVE  ViewInv'
<1>1. ViewTypes /\ cow \in Grid \cup {OffMap} /\ coin \in Grid \cup {OffMap}
  BY DEF ViewInv, ViewTypes
<1>2. \A o \in Walkers : tile[o] \in Grid \cup {OffMap}
                         /\ shown[o] \subseteq Things_
  BY <1>1 DEF ViewTypes
<1>3. ASSUME NEW d \in Directions, CowWalks(d)
      PROVE  ViewInv'
  <2> DEFINE t   == StepFrom(cow, d)
             old == OldCoords(t, d)
             new == NewCoords(t, d)
             what == [o \in Walkers |->
                        CASE tile[o] \in new -> shown[o] \cup {Cow}
                          [] tile[o] \in old -> shown[o] \ {Cow}
                          [] OTHER           -> shown[o]]
  <2>1. /\ cow # OffMap /\ t \in Tiles /\ cow' = t
        /\ UNCHANGED <<whereabouts, tile, sitting, loading, coin, misled>>
        /\ Tell(what)
    BY <1>3 DEF CowWalks
  <2>2. cow \in Grid /\ t \in Grid
    BY <1>1, <2>1, Distinct
  <2>3. \A o \in Walkers :
          /\ tile[o] \in new => InRange(tile[o], t)
          /\ tile[o] \in old => ~InRange(tile[o], t) /\ tile[o] \notin new
          /\ tile[o] \notin new \cup old
               => (InRange(tile[o], t) <=> InRange(tile[o], cow))
    BY <1>2, <2>2, RangeAfterStep
  <2> HIDE DEF t, old, new
  <2>4. \A o \in Walkers : what[o] = IF tile[o] \in new THEN shown[o] \cup {Cow}
                                     ELSE IF tile[o] \in old
                                          THEN shown[o] \ {Cow} ELSE shown[o]
    <3> SUFFICES ASSUME NEW o \in Walkers
                 PROVE  what[o] = IF tile[o] \in new THEN shown[o] \cup {Cow}
                                  ELSE IF tile[o] \in old
                                       THEN shown[o] \ {Cow} ELSE shown[o]
      OBVIOUS
    <3>1. CASE tile[o] \in new
      BY <2>3, <3>1
    <3>2. CASE tile[o] \in old
      BY <2>3, <3>2
    <3>3. CASE tile[o] \notin new /\ tile[o] \notin old
      BY <3>3
    <3> QED
      BY <3>1, <3>2, <3>3
  <2> HIDE DEF what
  <2>5. ASSUME NEW o \in Walkers
        PROVE  /\ what[o] \subseteq Things_
               /\ \A x \in Walkers : x \in what[o] <=> x \in shown[o]
               /\ o \in Present /\ Seeing(o)
                    => /\ Cow \in what[o] <=> InRange(tile[o], cow')
                       /\ Coin \in what[o] <=> InRange(tile[o], coin')
    <3>1. what[o] \subseteq Things_
          /\ (\A x \in Walkers \cup {Coin} : x \in what[o] <=> x \in shown[o])
      BY <1>2, <2>4, Distinct DEF Things_
    <3>2. Seeing(o) => (Cow \in what[o] <=> InRange(tile[o], t))
      BY <2>3, <2>4 DEF Seeing
    <3> QED
      BY <2>1, <3>1, <3>2 DEF Seeing
  <2> QED
    BY <1>1, <2>1, <2>2, <2>5, ThingStep
<1>4. ASSUME NEW t \in Tiles, CowAppears(t)
      PROVE  ViewInv'
  <2> DEFINE what == [o \in Walkers |-> IF InRange(tile[o], t)
                                        THEN shown[o] \cup {Cow} ELSE shown[o]]
  <2>1. /\ cow = OffMap /\ cow' = t
        /\ UNCHANGED <<whereabouts, tile, sitting, loading, coin, misled>>
        /\ Tell(what)
    BY <1>4 DEF CowAppears
  <2>2. ASSUME NEW o \in Walkers
        PROVE  /\ what[o] \subseteq Things_
               /\ \A x \in Walkers : x \in what[o] <=> x \in shown[o]
               /\ o \in Present /\ Seeing(o)
                    => /\ Cow \in what[o] <=> InRange(tile[o], cow')
                       /\ Coin \in what[o] <=> InRange(tile[o], coin')
    <3>1. what[o] = IF InRange(tile[o], t) THEN shown[o] \cup {Cow}
                                           ELSE shown[o]
      OBVIOUS
    <3>2. ~InRange(tile[o], cow)
      BY <2>1 DEF InRange
    <3> HIDE DEF what
    <3> QED
      BY <1>2, <2>1, <3>1, <3>2, Distinct DEF Seeing, Things_
  <2> HIDE DEF what
  <2> QED
    BY <1>1, <2>1, <2>2, Distinct, ThingStep
<1>5. CASE CowDies
  <2> DEFINE what == [o \in Walkers |-> IF InRange(tile[o], cow)
                                        THEN shown[o] \ {Cow} ELSE shown[o]]
  <2>1. /\ cow' = OffMap
        /\ UNCHANGED <<whereabouts, tile, sitting, loading, coin, misled>>
        /\ Tell(what)
    BY <1>5 DEF CowDies
  <2>2. ASSUME NEW o \in Walkers
        PROVE  /\ what[o] \subseteq Things_
               /\ \A x \in Walkers : x \in what[o] <=> x \in shown[o]
               /\ o \in Present /\ Seeing(o)
                    => /\ Cow \in what[o] <=> InRange(tile[o], cow')
                       /\ Coin \in what[o] <=> InRange(tile[o], coin')
    <3>1. what[o] = IF InRange(tile[o], cow) THEN shown[o] \ {Cow}
                                             ELSE shown[o]
      OBVIOUS
    <3>2. ~InRange(tile[o], cow')
      BY <2>1 DEF InRange
    <3> HIDE DEF what
    <3> QED
      BY <1>2, <2>1, <3>1, <3>2, Distinct DEF Seeing, Things_
  <2> HIDE DEF what
  <2> QED
    BY <1>1, <2>1, <2>2, Distinct, ThingStep
<1> QED
  BY <1>3, <1>4, <1>5

LEMMA CoinStep ==
  ASSUME ViewInv,
         \/ \E c \in Walkers, t \in Tiles : CoinDropped(c, t)
         \/ CoinTaken
  PROVE  ViewInv'
<1>1. ViewTypes /\ cow \in Grid \cup {OffMap} /\ coin \in Grid \cup {OffMap}
  BY DEF ViewInv, ViewTypes
<1>2. \A o \in Walkers : tile[o] \in Grid \cup {OffMap}
                         /\ shown[o] \subseteq Things_
  BY <1>1 DEF ViewTypes
<1>3. ASSUME NEW c \in Walkers, NEW t \in Tiles, CoinDropped(c, t)
      PROVE  ViewInv'
  <2> DEFINE what == [o \in Walkers |-> IF o = c \/ InRange(tile[o], t)
                                        THEN shown[o] \cup {Coin} ELSE shown[o]]
  <2>1. /\ coin = OffMap /\ coin' = t /\ c \in Present
        /\ Apart(tile[c], t) <= DropDistance
        /\ UNCHANGED <<whereabouts, tile, sitting, loading, cow, misled>>
        /\ Tell(what)
    BY <1>3 DEF CoinDropped
  <2>2. InRange(tile[c], t)
    <3>1. tile[c] \in Grid /\ t \in Grid
      BY <1>1, <2>1, Distinct DEF ViewTypes, Present
    <3>2. Apart(tile[c], t) \in Int
      BY <3>1, AbsCases DEF Apart, Grid
    <3> QED
      BY <2>1, <3>1, <3>2, Distinct, ViewAssumption DEF InRange
  <2>3. ASSUME NEW o \in Walkers
        PROVE  /\ what[o] \subseteq Things_
               /\ \A x \in Walkers : x \in what[o] <=> x \in shown[o]
               /\ o \in Present /\ Seeing(o)
                    => /\ Cow \in what[o] <=> InRange(tile[o], cow')
                       /\ Coin \in what[o] <=> InRange(tile[o], coin')
    <3>1. what[o] = IF InRange(tile[o], t) THEN shown[o] \cup {Coin}
                                           ELSE shown[o]
      BY <2>2
    <3>2. ~InRange(tile[o], coin)
      BY <2>1 DEF InRange
    <3> HIDE DEF what
    <3> QED
      BY <1>2, <2>1, <3>1, <3>2, Distinct DEF Seeing, Things_
  <2> HIDE DEF what
  <2> QED
    BY <1>1, <2>1, <2>3, Distinct, ThingStep
<1>4. CASE CoinTaken
  <2> DEFINE what == [o \in Walkers |-> IF InRange(tile[o], coin)
                                        THEN shown[o] \ {Coin} ELSE shown[o]]
  <2>1. /\ coin' = OffMap
        /\ UNCHANGED <<whereabouts, tile, sitting, loading, cow, misled>>
        /\ Tell(what)
    BY <1>4 DEF CoinTaken
  <2>2. ASSUME NEW o \in Walkers
        PROVE  /\ what[o] \subseteq Things_
               /\ \A x \in Walkers : x \in what[o] <=> x \in shown[o]
               /\ o \in Present /\ Seeing(o)
                    => /\ Cow \in what[o] <=> InRange(tile[o], cow')
                       /\ Coin \in what[o] <=> InRange(tile[o], coin')
    <3>1. what[o] = IF InRange(tile[o], coin) THEN shown[o] \ {Coin}
                                              ELSE shown[o]
      OBVIOUS
    <3>2. ~InRange(tile[o], coin')
      BY <2>1 DEF InRange
    <3> HIDE DEF what
    <3> QED
      BY <1>2, <2>1, <3>1, <3>2, Distinct DEF Seeing, Things_
  <2> HIDE DEF what
  <2> QED
    BY <1>1, <2>1, <2>2, Distinct, ThingStep
<1> QED
  BY <1>3, <1>4

LEMMA NextView == ViewInv /\ [ViewNext]_viewVars => ViewInv'
<1> SUFFICES ASSUME ViewInv, [ViewNext]_viewVars PROVE ViewInv'
  OBVIOUS
<1>1. CASE UNCHANGED viewVars
  BY <1>1 DEF viewVars, ViewInv, ViewTypes, Present, Seeing
<1>2. CASE \E c \in Walkers : WarpAway(c) \/ Dies(c)
  <2>1. PICK c \in Walkers : WarpAway(c) \/ Dies(c)
    BY <1>2
  <2>2. sitting' \in [Walkers -> {"stand", "floor"} \cup Directions]
    BY <2>1 DEF WarpAway, Dies, ViewInv, ViewTypes
  <2>3. Gone(c, "away") \/ Gone(c, "dead")
    BY <2>1 DEF WarpAway, Dies
  <2> QED
    BY <2>2, <2>3, GoneStep
<1>3. CASE \E c \in Walkers : Warp_Accept(c) \/ Refresh(c)
  BY <1>3, RefreshStep
<1>4. CASE \E c \in Walkers : \/ Sit(c) \/ Stand(c)
                              \/ \E d \in Directions : Chair_Request(c, d)
  BY <1>4, SeatStep
<1>5. CASE \E c \in Walkers, t \in Tiles : WarpTo(c, t)
  BY <1>5, WarpToStep
<1>6. CASE \E c \in Walkers, d \in Directions : WalkOn(c, d)
  BY <1>6, WalkStep
<1> QED
  BY <1>1, <1>2, <1>3, <1>4, <1>5, <1>6, CowStep, CoinStep DEF ViewNext

LEMMA ViewBegin == ViewInit => ViewInv
<1> SUFFICES ASSUME ViewInit PROVE ViewInv
  OBVIOUS
<1>1. Present = {}
  BY DEF ViewInit, Present
<1>2. ViewTypes
  BY Distinct DEF ViewInit, ViewTypes
<1> QED
  BY <1>1, <1>2 DEF ViewInv

(* A client shows exactly what is in range of its character, on a map of   *)
(* any size and shape, with any number of players and any distance of      *)
(* sight: the two edges that Map::Walk works out are the tiles that come   *)
(* into range and go out of it, and Enter, Leave, death, Refresh and the   *)
(* NPC's and the item's own messages miss nobody.                          *)
THEOREM ClientsShowWhatIsThere == ViewSpec => []ShowsWhatIsThere
<1>1. ViewInv => ShowsWhatIsThere
  <2> SUFFICES ASSUME ViewInv, NEW c \in Present \ (loading \cup misled)
               PROVE  shown[c] = InView(c)
    BY DEF ShowsWhatIsThere
  <2> QED
    BY SeeingIsInView DEF ViewInv, Present
<1> QED
  BY <1>1, ViewBegin, NextView, PTL DEF ViewSpec

-----------------------------------------------------------------------------
\* The rest of the types of View: nobody is beyond the edge of the map, and
\* who gets up from a chair steps back to where they came from.

SteppingOff(c) == tile[c] # OffMap /\ sitting[c] \in Directions
                    => StepFrom(tile[c], sitting[c]) \in Tiles

PlaceTypes ==
  /\ tile \in [Walkers -> Tiles \cup {OffMap}]
  /\ cow \in Tiles \cup {OffMap} /\ coin \in Tiles \cup {OffMap}
  /\ loading \subseteq Walkers /\ misled \subseteq Walkers
  /\ \A c \in Walkers : /\ whereabouts[c] # "here" => c \notin loading
                        /\ SteppingOff(c)

(* When one character changes, the others are where they were.             *)
LEMMA OnePlaced ==
  ASSUME ViewTypes, PlaceTypes, NEW c \in Walkers,
         NEW t \in Tiles \cup {OffMap}, NEW s \in {"stand", "floor"} \cup Directions,
         tile' = [tile EXCEPT ![c] = t], sitting' = [sitting EXCEPT ![c] = s],
         t # OffMap /\ s \in Directions => StepFrom(t, s) \in Tiles
  PROVE  /\ tile' \in [Walkers -> Tiles \cup {OffMap}]
         /\ \A o \in Walkers : SteppingOff(o)'
<1>1. tile \in [Walkers -> Tiles \cup {OffMap}] /\ DOMAIN sitting = Walkers
  BY DEF ViewTypes, PlaceTypes
<1>2. ASSUME NEW o \in Walkers PROVE SteppingOff(o)'
  <2>1. CASE o = c
    <3>1. tile'[o] = t /\ sitting'[o] = s
      BY <1>1, <2>1
    <3> QED BY <3>1 DEF SteppingOff
  <2>2. CASE o # c
    <3>1. tile'[o] = tile[o] /\ sitting'[o] = sitting[o]
      BY <1>1, <2>2
    <3> QED BY <3>1 DEF SteppingOff, PlaceTypes
  <2> QED BY <2>1, <2>2
<1> QED BY <1>1, <1>2

LEMMA PlacesUntouched ==
  ASSUME PlaceTypes, UNCHANGED <<tile, sitting>>
  PROVE  /\ tile' \in [Walkers -> Tiles \cup {OffMap}]
         /\ \A o \in Walkers : SteppingOff(o)'
BY DEF PlaceTypes, SteppingOff

LEMMA PlacesKept ==
  ASSUME ViewInv, PlaceTypes, [ViewNext]_viewVars
  PROVE  PlaceTypes'
<1>0. /\ ViewTypes /\ OffMap \notin Tiles
      /\ \A c \in Walkers : /\ tile[c] \in Tiles \cup {OffMap}
                            /\ sitting[c] \in {"stand", "floor"} \cup Directions
                            /\ whereabouts[c] = "here" <=> tile[c] # OffMap
      /\ sitting \in [Walkers -> {"stand", "floor"} \cup Directions]
      /\ whereabouts \in [Walkers -> {"away", "here", "dead"}]
      /\ "stand" \notin Directions /\ "floor" \notin Directions
  BY Distinct DEF ViewInv, PlaceTypes, ViewTypes, Directions
<1> DEFINE Loads(S) == /\ S \subseteq Walkers
                       /\ \A o \in Walkers : whereabouts'[o] # "here" => o \notin S
           Placed == /\ tile' \in [Walkers -> Tiles \cup {OffMap}]
                     /\ \A o \in Walkers : SteppingOff(o)'
<1>1. ASSUME Placed, Loads(loading'), misled' \subseteq Walkers,
             cow' \in Tiles \cup {OffMap}, coin' \in Tiles \cup {OffMap}
      PROVE  PlaceTypes'
  BY <1>1 DEF PlaceTypes
<1>2. ASSUME UNCHANGED <<whereabouts, loading>> PROVE Loads(loading')
  BY <1>2 DEF PlaceTypes
<1>3. misled \subseteq Walkers /\ Present \subseteq Walkers /\ loading \subseteq Walkers
      /\ cow \in Tiles \cup {OffMap} /\ coin \in Tiles \cup {OffMap}
  BY DEF PlaceTypes, Present
<1>4. ASSUME NEW c \in Walkers, NEW to \in {"away", "dead"}, Gone(c, to),
             NEW s \in {"stand", "floor"} \cup Directions,
             sitting' = [sitting EXCEPT ![c] = s]
      PROVE  PlaceTypes'
  <2>1. Placed
    BY <1>0, <1>4, OnePlaced DEF Gone
  <2>2. Loads(loading')
    BY <1>0, <1>3, <1>4 DEF Gone, PlaceTypes
  <2> HIDE DEF Loads, Placed
  <2> QED BY <1>1, <1>3, <1>4, <2>1, <2>2 DEF Gone
<1>5. ASSUME NEW c \in Walkers, WarpAway(c) PROVE PlaceTypes'
  BY <1>4, <1>5 DEF WarpAway
<1>6. ASSUME NEW c \in Walkers, Dies(c) PROVE PlaceTypes'
  <2>1. sitting' = [sitting EXCEPT ![c] = sitting[c]]
    BY <1>0, <1>6 DEF Dies
  <2> QED BY <1>0, <1>4, <1>6, <2>1 DEF Dies
<1>7. ASSUME NEW c \in Walkers, NEW t \in Tiles \ Walls, WarpTo(c, t)
      PROVE  PlaceTypes'
  <2>1. Placed
    <3> t \in Tiles \cup {OffMap} /\ "stand" \in {"stand", "floor"} \cup Directions
      OBVIOUS
    <3> QED BY <1>0, <1>7, OnePlaced DEF WarpTo
  <2>2. Loads(loading')
    BY <1>0, <1>3, <1>7 DEF WarpTo, PlaceTypes
  <2> HIDE DEF Loads, Placed
  <2> QED BY <1>1, <1>3, <1>7, <2>1, <2>2 DEF WarpTo
<1>8. ASSUME NEW c \in Walkers, Warp_Accept(c) \/ Refresh(c) PROVE PlaceTypes'
  <2>1. Placed
    BY <1>8, PlacesUntouched DEF Warp_Accept, Refresh
  <2>2. Loads(loading')
    BY <1>3, <1>8 DEF Warp_Accept, Refresh, PlaceTypes
  <2> HIDE DEF Loads, Placed
  <2> QED BY <1>1, <1>3, <1>8, <2>1, <2>2 DEF Warp_Accept, Refresh
<1>9. ASSUME NEW c \in Walkers, NEW d \in Directions, WalkOn(c, d)
      PROVE  PlaceTypes'
  <2> DEFINE t == StepFrom(tile[c], d)
  <2>1. /\ whereabouts[c] = "here" /\ t \in Tiles /\ UNCHANGED <<sitting, cow, coin>>
        /\ sitting[c] = "stand"
        /\ \/ /\ tile' = [tile EXCEPT ![c] = t]
              /\ UNCHANGED <<whereabouts, loading, misled>>
           \/ /\ whereabouts' = [whereabouts EXCEPT ![c] = "dead"]
              /\ tile' = [tile EXCEPT ![c] = OffMap]
              /\ loading' = loading \ {c} /\ misled' = misled \ {c}
    BY <1>9 DEF WalkOn
  <2>2. sitting' = [sitting EXCEPT ![c] = sitting[c]]
    BY <1>0, <2>1
  <2> HIDE DEF t
  <2>3. Placed
    <3>1. PICK x \in {t, OffMap} : tile' = [tile EXCEPT ![c] = x]
      BY <2>1
    <3>2. x \in Tiles \cup {OffMap} /\ sitting[c] \notin Directions
      BY <1>0, <2>1, <3>1
    <3> QED BY <1>0, <2>2, <3>1, <3>2, OnePlaced
  <2>4. Loads(loading')
    BY <1>0, <1>2, <1>3, <2>1 DEF PlaceTypes
  <2> HIDE DEF Loads, Placed
  <2> QED BY <1>1, <1>3, <2>1, <2>3, <2>4
<1>10. ASSUME NEW c \in Walkers, Sit(c) PROVE PlaceTypes'
  <2>1. tile' = [tile EXCEPT ![c] = tile[c]]
    BY <1>0, <1>10 DEF Sit, PlaceTypes
  <2>2. Placed
    BY <1>0, <1>10, <2>1, OnePlaced DEF Sit
  <2>3. Loads(loading')
    BY <1>2, <1>10 DEF Sit
  <2> HIDE DEF Loads, Placed
  <2> QED BY <1>1, <1>3, <1>10, <2>2, <2>3 DEF Sit
<1>11. ASSUME NEW c \in Walkers, NEW d \in Directions, Chair_Request(c, d)
      PROVE  PlaceTypes'
  <2>1. PICK t \in Chairs : StepFrom(t, d) = tile[c] /\ tile' = [tile EXCEPT ![c] = t]
    BY <1>11 DEF Chair_Request
  <2>2. t \in Tiles /\ tile[c] \in Tiles
    BY <1>0, <1>11, ViewAssumption DEF Chair_Request
  <2>3. Placed
    BY <1>0, <1>11, <2>1, <2>2, OnePlaced DEF Chair_Request
  <2>4. Loads(loading')
    BY <1>2, <1>11 DEF Chair_Request
  <2> HIDE DEF Loads, Placed
  <2> QED BY <1>1, <1>3, <1>11, <2>3, <2>4 DEF Chair_Request
<1>12. ASSUME NEW c \in Walkers, Stand(c) PROVE PlaceTypes'
  <2>1. PICK t \in Tiles : tile' = [tile EXCEPT ![c] = t]
    <3>1. CASE sitting[c] = "floor"
      <4> tile' = [tile EXCEPT ![c] = tile[c]]
        BY <1>0, <1>12, <3>1 DEF Stand, PlaceTypes
      <4> QED BY <1>0, <1>12 DEF Stand
    <3>2. CASE sitting[c] # "floor"
      <4>1. sitting[c] \in Directions /\ tile[c] # OffMap
        BY <1>0, <1>12, <3>2 DEF Stand
      <4>2. StepFrom(tile[c], sitting[c]) \in Tiles
        BY <4>1 DEF PlaceTypes, SteppingOff
      <4> QED BY <1>12, <3>2, <4>2 DEF Stand
    <3> QED BY <3>1, <3>2
  <2>2. Placed
    BY <1>0, <1>12, <2>1, OnePlaced DEF Stand
  <2>3. Loads(loading') /\ misled' \subseteq Walkers
    BY <1>2, <1>3, <1>12 DEF Stand
  <2> HIDE DEF Loads, Placed
  <2> QED BY <1>1, <1>3, <1>12, <2>2, <2>3 DEF Stand
<1>13. ASSUME UNCHANGED <<whereabouts, tile, sitting, loading, misled>>,
              cow' \in Tiles \cup {OffMap}, coin' \in Tiles \cup {OffMap}
       PROVE  PlaceTypes'
  <2>1. Placed /\ Loads(loading')
    BY <1>2, <1>13, PlacesUntouched
  <2> HIDE DEF Loads, Placed
  <2> QED BY <1>1, <1>3, <1>13, <2>1
<1>14. ASSUME NEW d \in Directions, CowWalks(d) PROVE PlaceTypes'
  BY <1>3, <1>13, <1>14 DEF CowWalks
<1>15. ASSUME NEW t \in Tiles, CowAppears(t) PROVE PlaceTypes'
  BY <1>3, <1>13, <1>15 DEF CowAppears
<1>16. ASSUME NEW c \in Walkers, NEW t \in Tiles \ Walls, CoinDropped(c, t)
       PROVE  PlaceTypes'
  BY <1>3, <1>13, <1>16 DEF CoinDropped
<1>17. CASE CowDies \/ CoinTaken
  BY <1>3, <1>13, <1>17 DEF CowDies, CoinTaken
<1>18. CASE UNCHANGED viewVars
  BY <1>3, <1>13, <1>18 DEF viewVars
<1> QED
  BY <1>5, <1>6, <1>7, <1>8, <1>9, <1>10, <1>11, <1>12, <1>14, <1>15, <1>16,
     <1>17, <1>18 DEF ViewNext

LEMMA PlacesBegin == ViewInit => PlaceTypes
  BY DEF ViewInit, PlaceTypes, SteppingOff

LEMMA ViewTyped == ViewInv /\ PlaceTypes => ViewTypeOK
  BY DEF ViewInv, ViewTypes, PlaceTypes, ViewTypeOK, Things_

(* The type invariant of View, for a map of any size and shape: nobody     *)
(* gets beyond its edge, by walking, warping, or getting up from a chair   *)
(* towards where they had come from.                                       *)
THEOREM ViewsAreTyped == ViewSpec => []ViewTypeOK
<1>1. ViewInv /\ PlaceTypes /\ [ViewNext]_viewVars => PlaceTypes'
  BY PlacesKept
<1> QED
  BY <1>1, ViewBegin, NextView, PlacesBegin, ViewTyped, PTL DEF ViewSpec

-----------------------------------------------------------------------------
\* Goods

Entries == [kind : Kinds, amount : Nat \ {0}, slot : SpawnSlots \cup {0}]

GoodsTypes ==
  /\ inventory \in [Owners -> [Kinds -> Nat]]
  /\ paperdoll \in [Owners -> [Slots -> Kinds \cup {None}]]
  /\ locker \in [Owners -> [Kinds -> Nat]]
  /\ ground \in [Uids -> Things \cup {None}] /\ chest \in Seq(Entries)
  /\ made \in [Kinds -> Int] /\ spilt \in [Kinds -> Int]
  /\ clipped \in [Kinds -> Int]

GoodsInv == GoodsTypes /\ GoodsKept

(* The three places, of which an action changes at most two.               *)
Own(k)    == Total([c \in Owners |-> Has(c, k)], Owners)
Ground(k) == Total([u \in Uids |-> Lies(u, k)], Uids)

LEMMA UidsFinite == IsFiniteSet(Uids)
<1>1. \A n \in Int : IsFiniteSet(1..n)
  BY FS_Interval
<1>2. Cardinality(Owners) \in Int /\ Cardinality(Kinds) \in Int
      /\ Cardinality(Slots) \in Int /\ MaxTile \in Int
  BY FS_CardinalityType, GoodsAssumption
<1>3. MaxTile + Cardinality(Owners)
                * (Cardinality(Kinds) + Cardinality(Slots)) \in Int
  BY <1>2
<1> QED
  BY <1>1, <1>3 DEF Uids

LEMMA ThingFields ==
  \A t \in Things : /\ t # None /\ t.kind \in Kinds /\ t.amount \in Nat \ {0}
                    /\ t.owner \in Owners \cup {None}
BY GoodsAssumption DEF Things

LEMMA EntryFields ==
  \A e \in Entries : /\ e.kind \in Kinds /\ e.amount \in Nat \ {0}
                     /\ e.slot \in SpawnSlots \cup {0}
BY DEF Entries

LEMMA OfKindType ==
  \A k \in Kinds : /\ \A t \in Things : OfKind(k, t) \in Nat
                   /\ \A e \in Entries : OfKind(k, e) \in Nat
BY ThingFields, EntryFields DEF OfKind

LEMMA WornFinite ==
  ASSUME GoodsTypes, NEW c \in Owners, NEW k \in Kinds
  PROVE  IsFiniteSet(Worn(c, k)) /\ Cardinality(Worn(c, k)) \in Nat
BY FS_Subset, FS_CardinalityType, GoodsAssumption DEF Worn

LEMMA HasType ==
  ASSUME GoodsTypes, NEW c \in Owners, NEW k \in Kinds
  PROVE  Has(c, k) \in Nat
<1>1. inventory[c][k] \in Nat /\ locker[c][k] \in Nat
  BY DEF GoodsTypes
<1> QED
  BY <1>1, WornFinite DEF Has

LEMMA LiesType ==
  ASSUME GoodsTypes, NEW u \in Uids, NEW k \in Kinds
  PROVE  Lies(u, k) \in Nat
<1>1. ground[u] \in Things \cup {None}
  BY DEF GoodsTypes
<1> QED
  BY <1>1, OfKindType DEF Lies

LEMMA OwnType == ASSUME GoodsTypes, NEW k \in Kinds PROVE Own(k) \in Nat
<1> DEFINE f == [c \in Owners |-> Has(c, k)]
<1>1. \A c \in Owners : f[c] \in Nat
  BY HasType
<1> HIDE DEF f
<1>2. Total(f, Owners) \in Nat
  BY <1>1, TotalNat, GoodsAssumption
<1> QED
  BY <1>2 DEF Own, f

LEMMA GroundType == ASSUME GoodsTypes, NEW k \in Kinds PROVE Ground(k) \in Nat
<1> DEFINE f == [u \in Uids |-> Lies(u, k)]
<1>1. \A u \in Uids : f[u] \in Nat
  BY LiesType
<1> HIDE DEF f
<1>2. Total(f, Uids) \in Nat
  BY <1>1, TotalNat, UidsFinite
<1> QED
  BY <1>2 DEF Ground, f

LEMMA AllHave == GoodsTypes => \A d \in Owners, j \in Kinds : Has(d, j) \in Nat
BY HasType

(* Only c's things have changed.                                           *)
LEMMA OwnChanged ==
  ASSUME GoodsTypes, GoodsTypes', NEW k \in Kinds, NEW c \in Owners,
         \A d \in Owners \ {c} : Has(d, k)' = Has(d, k)
  PROVE  Own(k)' = Own(k) - Has(c, k) + Has(c, k)'
<1> DEFINE f == [d \in Owners |-> Has(d, k)]
           g == [d \in Owners |-> Has(d, k)']
<1>1. \A d \in Owners : f[d] = Has(d, k) /\ g[d] = Has(d, k)'
  OBVIOUS
<1>2. \A d \in Owners : Has(d, k) \in Int /\ Has(d, k)' \in Int
  <2>1. \A d \in Owners : Has(d, k) \in Nat
    BY HasType
  <2>2. (\A d \in Owners, j \in Kinds : Has(d, j) \in Nat)'
    BY GoodsTypes', AllHave, PTL
  <2> QED
    BY <2>1, <2>2
<1>3. Own(k) = Total(f, Owners) /\ Own(k)' = Total(g, Owners)
  BY DEF Own
<1> HIDE DEF f, g
<1>4. Total(g, Owners) = Total(f, Owners) - f[c] + g[c]
  <2>1. \A d \in Owners : f[d] \in Int
    BY <1>1, <1>2
  <2>2. g[c] \in Int /\ \A d \in Owners \ {c} : g[d] = f[d]
    BY <1>1, <1>2
  <2> QED
    BY <2>1, <2>2, TotalChange, GoodsAssumption
<1> QED
  BY <1>1, <1>3, <1>4

LEMMA OwnSame ==
  ASSUME NEW k \in Kinds, UNCHANGED <<inventory, paperdoll, locker>>
  PROVE  /\ Own(k)' = Own(k)
         /\ \A c \in Owners : Has(c, k)' = Has(c, k) /\ WeightOf(c)' = WeightOf(c)
BY DEF Own, Has, Worn, WeightOf

LEMMA GroundSame ==
  ASSUME NEW k \in Kinds, UNCHANGED ground PROVE Ground(k)' = Ground(k)
BY DEF Ground, Lies

(* Only what lies at u has changed.                                        *)
LEMMA GroundChanged ==
  ASSUME GoodsTypes, NEW k \in Kinds, NEW u \in Uids,
         NEW x \in Things \cup {None}, ground' = [ground EXCEPT ![u] = x]
  PROVE  /\ ground' \in [Uids -> Things \cup {None}]
         /\ Ground(k)' = Ground(k) - Lies(u, k)
                         + (IF x = None THEN 0 ELSE OfKind(k, x))
<1>0. ground' \in [Uids -> Things \cup {None}] /\ ground'[u] = x
      /\ \A v \in Uids \ {u} : ground'[v] = ground[v]
  BY DEF GoodsTypes
<1> DEFINE f == [v \in Uids |-> Lies(v, k)]
           g == [v \in Uids |-> Lies(v, k)']
<1>1. \A v \in Uids : f[v] = Lies(v, k) /\ g[v] = Lies(v, k)'
  OBVIOUS
<1>2. \A v \in Uids : Lies(v, k) \in Int
  BY LiesType
<1>3. Lies(u, k)' = (IF x = None THEN 0 ELSE OfKind(k, x))
      /\ \A v \in Uids \ {u} : Lies(v, k)' = Lies(v, k)
  BY <1>0 DEF Lies
<1>4. Lies(u, k)' \in Int
  BY <1>3, OfKindType
<1>5. Ground(k) = Total(f, Uids) /\ Ground(k)' = Total(g, Uids)
  BY <1>0 DEF Ground
<1> HIDE DEF f, g
<1>6. Total(g, Uids) = Total(f, Uids) - f[u] + g[u]
  <2>1. \A v \in Uids : f[v] \in Int
    BY <1>1, <1>2
  <2>2. g[u] \in Int /\ \A v \in Uids \ {u} : g[v] = f[v]
    BY <1>1, <1>3, <1>4
  <2> QED
    BY <2>1, <2>2, TotalChange, UidsFinite
<1> QED
  BY <1>0, <1>1, <1>3, <1>5, <1>6

\* What is in a chest: sequences of entries.

LEMMA LeastOf ==
  ASSUME NEW S \in SUBSET Nat, IsFiniteSet(S), S # {}
  PROVE  \E i \in S : \A j \in S : i <= j
<1> DEFINE Good == {T \in SUBSET S : T = {} \/ \E i \in T : \A j \in T : i <= j}
<1>1. {} \in Good
  OBVIOUS
<1>2. ASSUME NEW T \in SUBSET S, T # {}, \A x \in T : T \ {x} \in Good
      PROVE  T \in Good
  <2>1. PICK x \in T : T \ {x} \in Good
    BY <1>2
  <2>2. CASE T \ {x} = {}
    <3>1. \A j \in T : x <= j
      BY <2>2
    <3> QED
      BY <3>1
  <2>3. CASE \E i \in T \ {x} : \A j \in T \ {x} : i <= j
    <3>1. PICK i \in T \ {x} : \A j \in T \ {x} : i <= j
      BY <2>3
    <3>2. CASE i <= x
      BY <3>1, <3>2
    <3>3. CASE ~(i <= x)
      <4>1. \A j \in T : x <= j
        BY <3>1, <3>3
      <4> QED
        BY <4>1
    <3> QED
      BY <3>2, <3>3
  <2> QED
    BY <2>1, <2>2, <2>3
<1> HIDE DEF Good
<1>3. S \in Good
  BY <1>1, <1>2, SetInduction
<1> QED
  BY <1>3 DEF Good

LEMMA EntryAt ==
  ASSUME NEW s \in Seq(Entries), NEW k \in Kinds
  PROVE  /\ DOMAIN s = 1..Len(s) /\ Len(s) \in Nat /\ IsFiniteSet(DOMAIN s)
         /\ \A i \in DOMAIN s : s[i] \in Entries /\ OfKind(k, s[i]) \in Nat
<1>1. DOMAIN s = 1..Len(s) /\ Len(s) \in Nat
      /\ \A i \in DOMAIN s : s[i] \in Entries
  OBVIOUS
<1>2. IsFiniteSet(1..Len(s))
  BY <1>1, FS_Interval
<1> QED
  BY <1>1, <1>2, OfKindType

LEMMA InChestType ==
  ASSUME NEW s \in Seq(Entries), NEW k \in Kinds
  PROVE  InChest(k, s) \in Nat
<1> DEFINE f == [i \in DOMAIN s |-> OfKind(k, s[i])]
<1>1. IsFiniteSet(DOMAIN s) /\ \A i \in DOMAIN s : f[i] \in Nat
  BY EntryAt
<1> HIDE DEF f
<1>2. Total(f, DOMAIN s) \in Nat
  BY <1>1, TotalNat
<1> QED
  BY <1>2 DEF InChest, f

(* Another entry at i.                                                     *)
LEMMA ChestReplace ==
  ASSUME NEW s \in Seq(Entries), NEW k \in Kinds, NEW i \in DOMAIN s,
         NEW e \in Entries, NEW t, t = [s EXCEPT ![i] = e]
  PROVE  /\ t \in Seq(Entries) /\ Len(t) = Len(s) /\ DOMAIN t = DOMAIN s
         /\ t[i] = e /\ \A j \in DOMAIN s \ {i} : t[j] = s[j]
         /\ InChest(k, t) = InChest(k, s) - OfKind(k, s[i]) + OfKind(k, e)
<1>1. t \in Seq(Entries) /\ Len(t) = Len(s) /\ DOMAIN t = DOMAIN s
      /\ t[i] = e /\ \A j \in DOMAIN s \ {i} : t[j] = s[j]
  OBVIOUS
<1> DEFINE f == [j \in DOMAIN s |-> OfKind(k, s[j])]
           g == [j \in DOMAIN s |-> OfKind(k, t[j])]
<1>2. IsFiniteSet(DOMAIN s) /\ \A j \in DOMAIN s : f[j] \in Int
  BY EntryAt
<1>3. f[i] = OfKind(k, s[i]) /\ g[i] = OfKind(k, e)
      /\ \A j \in DOMAIN s \ {i} : g[j] = f[j]
  BY <1>1
<1>4. g[i] \in Int
  BY <1>3, OfKindType
<1>5. InChest(k, s) = Total(f, DOMAIN s) /\ InChest(k, t) = Total(g, DOMAIN s)
  BY <1>1 DEF InChest
<1> HIDE DEF f, g
<1>6. Total(g, DOMAIN s) = Total(f, DOMAIN s) - f[i] + g[i]
  BY <1>2, <1>3, <1>4, TotalChange
<1> QED
  BY <1>1, <1>3, <1>5, <1>6

(* An entry at the end.                                                    *)
LEMMA ChestAppend ==
  ASSUME NEW s \in Seq(Entries), NEW k \in Kinds, NEW e \in Entries
  PROVE  InChest(k, Append(s, e)) = InChest(k, s) + OfKind(k, e)
<1> PICK t : t = Append(s, e)
  OBVIOUS
<1>1. /\ t \in Seq(Entries) /\ Len(t) = Len(s) + 1
      /\ t[Len(s) + 1] = e /\ \A j \in DOMAIN s : t[j] = s[j]
  OBVIOUS
<1> DEFINE n == Len(s) + 1
<1>2. n \notin DOMAIN s /\ DOMAIN t = DOMAIN s \cup {n}
  BY <1>1
<1> DEFINE f == [j \in DOMAIN s |-> OfKind(k, s[j])]
           g == [j \in DOMAIN t |-> OfKind(k, t[j])]
<1>3. IsFiniteSet(DOMAIN s) /\ \A j \in DOMAIN s : f[j] \in Int /\ g[j] = f[j]
  BY <1>1, <1>2, EntryAt
<1>4. g[n] = OfKind(k, e) /\ g[n] \in Int
  BY <1>1, <1>2, OfKindType
<1>5. InChest(k, s) = Total(f, DOMAIN s) /\ InChest(k, t) = Total(g, DOMAIN t)
  BY DEF InChest
<1> HIDE DEF f, g, n
<1>6. Total(g, DOMAIN s \cup {n}) = Total(g, DOMAIN s) + g[n]
  BY <1>2, <1>3, <1>4, TotalAdd
<1>7. Total(g, DOMAIN s) = Total(f, DOMAIN s)
  BY <1>3, TotalSame
<1>8. InChest(k, t) = InChest(k, s) + OfKind(k, e)
  BY <1>2, <1>4, <1>5, <1>6, <1>7
<1> QED
  BY <1>8

(* An entry in front.                                                      *)
LEMMA ChestPrepend ==
  ASSUME NEW s \in Seq(Entries), NEW k \in Kinds, NEW e \in Entries
  PROVE  InChest(k, <<e>> \o s) = InChest(k, s) + OfKind(k, e)
<1> PICK t : t = <<e>> \o s
  OBVIOUS
<1>1. /\ t \in Seq(Entries) /\ Len(t) = Len(s) + 1
      /\ t[1] = e /\ \A j \in DOMAIN s : t[j + 1] = s[j]
  OBVIOUS
<1> DEFINE h == [j \in DOMAIN s |-> j + 1]
           Im == {h[j] : j \in DOMAIN s}
<1>2. DOMAIN s = 1..Len(s) /\ Len(s) \in Nat /\ IsFiniteSet(DOMAIN s)
  BY EntryAt
<1>3. DOMAIN t = Im \cup {1}
  <2>1. DOMAIN t = 1..(Len(s) + 1)
    BY <1>1
  <2>2. ASSUME NEW j \in DOMAIN t PROVE j \in Im \cup {1}
    <3>1. CASE j = 1
      BY <3>1
    <3>2. CASE j # 1
      <4>1. j - 1 \in DOMAIN s /\ h[j - 1] = j
        BY <2>1, <2>2, <3>2, <1>2
      <4> QED
        BY <4>1
    <3> QED
      BY <3>1, <3>2
  <2>3. ASSUME NEW j \in DOMAIN s PROVE h[j] \in DOMAIN t
    BY <2>1, <1>2
  <2>4. 1 \in DOMAIN t
    BY <2>1, <1>2
  <2> QED
    BY <2>2, <2>3, <2>4
<1>4. 1 \notin Im
  BY <1>2
<1> DEFINE f == [j \in DOMAIN s |-> OfKind(k, s[j])]
           g == [j \in DOMAIN t |-> OfKind(k, t[j])]
<1>5. \A j \in DOMAIN s : f[j] \in Int /\ g[h[j]] = f[j]
  <2> SUFFICES ASSUME NEW j \in DOMAIN s PROVE f[j] \in Int /\ g[h[j]] = f[j]
    OBVIOUS
  <2>1. h[j] = j + 1 /\ h[j] \in DOMAIN t
    BY <1>3
  <2> QED
    BY <2>1, <1>1, EntryAt
<1>6. g[1] = OfKind(k, e) /\ g[1] \in Int
  BY <1>1, <1>3, OfKindType
<1>7. InChest(k, s) = Total(f, DOMAIN s) /\ InChest(k, t) = Total(g, DOMAIN t)
  BY DEF InChest
<1>8. \A i, j \in DOMAIN s : h[i] = h[j] => i = j
  BY <1>2
<1>9. IsFiniteSet(Im)
  <2>1. IsFiniteSet(DOMAIN t) /\ Im \subseteq DOMAIN t
    BY <1>1, <1>3, EntryAt
  <2> HIDE DEF Im
  <2> QED
    BY <2>1, FS_Subset
<1>10. \A x \in Im : g[x] \in Int
  BY <1>5
<1> HIDE DEF f, g, h
<1>11. Total(g, Im) = Total(f, DOMAIN s)
  <2> DEFINE D == DOMAIN s
  <2>1. /\ IsFiniteSet(D) /\ \A x \in D : f[x] \in Int /\ g[h[x]] = f[x]
        /\ \A x, y \in D : h[x] = h[y] => x = y
    BY <1>2, <1>5, <1>8
  <2> HIDE DEF D
  <2>2. Total(g, {h[x] : x \in D}) = Total(f, D)
    BY <2>1, TotalImage
  <2> QED
    BY <2>2 DEF D
<1> HIDE DEF Im
<1>12. Total(g, Im \cup {1}) = Total(g, Im) + g[1]
  BY <1>4, <1>6, <1>9, <1>10, TotalAdd
<1>13. InChest(k, t) = InChest(k, s) + OfKind(k, e)
  BY <1>3, <1>6, <1>7, <1>11, <1>12
<1> QED
  BY <1>13

(* One entry less.                                                         *)
LEMMA ChestRemove ==
  ASSUME NEW s \in Seq(Entries), NEW k \in Kinds, NEW i \in DOMAIN s,
         NEW t, t = RemoveAt(s, i)
  PROVE  /\ t \in Seq(Entries) /\ Len(t) = Len(s) - 1
         /\ \A j \in DOMAIN t : t[j] = s[IF j < i THEN j ELSE j + 1]
         /\ InChest(k, t) = InChest(k, s) - OfKind(k, s[i])
<1>0. DOMAIN s = 1..Len(s) /\ Len(s) \in Nat /\ IsFiniteSet(DOMAIN s)
      /\ i \in 1..Len(s)
  BY EntryAt
<1>1. /\ t \in Seq(Entries) /\ Len(t) = Len(s) - 1
      /\ \A j \in DOMAIN t : t[j] = s[IF j < i THEN j ELSE j + 1]
  <2> DEFINE a == SubSeq(s, 1, i - 1)
             b == SubSeq(s, i + 1, Len(s))
  <2>1. a \in Seq(Entries) /\ Len(a) = i - 1 /\ \A j \in 1..(i - 1) : a[j] = s[j]
    BY <1>0
  <2>2. b \in Seq(Entries) /\ Len(b) = Len(s) - i
        /\ \A j \in 1..(Len(s) - i) : b[j] = s[i + j]
    BY <1>0
  <2>3. t = a \o b
    BY DEF RemoveAt
  <2> HIDE DEF a, b
  <2>4. t \in Seq(Entries) /\ Len(t) = Len(s) - 1
    <3>1. t \in Seq(Entries) /\ Len(t) = Len(a) + Len(b)
      BY <2>1, <2>2, <2>3
    <3> QED
      BY <1>0, <2>1, <2>2, <3>1
  <2>5. ASSUME NEW j \in DOMAIN t PROVE t[j] = s[IF j < i THEN j ELSE j + 1]
    <3>1. j \in 1..(Len(s) - 1)
      BY <2>4
    <3>2. CASE j < i
      <4>1. t[j] = a[j] /\ a[j] = s[j]
        BY <1>0, <2>1, <2>2, <2>3, <3>1, <3>2
      <4> QED
        BY <4>1, <3>2
    <3>3. CASE ~(j < i)
      <4>1. t[j] = b[j - (i - 1)]
        BY <1>0, <2>1, <2>2, <2>3, <3>1, <3>3
      <4>2. j - (i - 1) \in 1..(Len(s) - i) /\ i + (j - (i - 1)) = j + 1
        BY <1>0, <3>1, <3>3
      <4> QED
        BY <2>2, <3>3, <4>1, <4>2
    <3> QED
      BY <3>2, <3>3
  <2> QED
    BY <2>4, <2>5
<1> DEFINE h == [j \in DOMAIN s |-> IF j < i THEN j ELSE j - 1]
           D == DOMAIN s \ {i}
           Im == {h[j] : j \in D}
<1>2. DOMAIN t = 1..(Len(s) - 1)
  BY <1>1
<1>3. \A j \in D : /\ h[j] \in DOMAIN t
                   /\ (IF h[j] < i THEN h[j] ELSE h[j] + 1) = j
  BY <1>0, <1>2
<1>4. DOMAIN t = Im
  <2>1. ASSUME NEW j \in DOMAIN t PROVE j \in Im
    <3>1. CASE j < i
      <4>1. j \in D /\ h[j] = j
        BY <1>0, <1>2, <3>1
      <4> QED
        BY <4>1
    <3>2. CASE ~(j < i)
      <4>1. j + 1 \in D /\ h[j + 1] = j
        BY <1>0, <1>2, <3>2
      <4> QED
        BY <4>1
    <3> QED
      BY <3>1, <3>2
  <2> QED
    BY <1>3, <2>1
<1> DEFINE f == [j \in DOMAIN s |-> OfKind(k, s[j])]
           g == [j \in DOMAIN t |-> OfKind(k, t[j])]
<1>5. \A j \in DOMAIN s : f[j] \in Int
  BY EntryAt
<1>6. \A j \in D : g[h[j]] = f[j]
  BY <1>1, <1>3
<1>7. InChest(k, s) = Total(f, DOMAIN s) /\ InChest(k, t) = Total(g, DOMAIN t)
      /\ f[i] = OfKind(k, s[i])
  BY DEF InChest
<1>8. \A x, y \in D : h[x] = h[y] => x = y
  BY <1>3
<1>9. IsFiniteSet(D) /\ D \subseteq DOMAIN s
  BY <1>0, FS_Subset
<1>10. Total(f, DOMAIN s) = Total(f, D) + f[i] /\ Total(f, D) \in Int
  <2> HIDE DEF f
  <2> QED
    BY <1>0, <1>5, TotalSplit
<1>11. Total(g, Im) = Total(f, D)
  <2>1. \A x \in D : f[x] \in Int
    BY <1>5, <1>9
  <2> HIDE DEF f, g, h, D
  <2> QED
    BY <1>6, <1>8, <1>9, <2>1, TotalImage
<1>12. OfKind(k, s[i]) \in Nat
  BY EntryAt
<1> HIDE DEF f, g, h, D, Im
<1>13. InChest(k, t) = InChest(k, s) - OfKind(k, s[i])
  BY <1>4, <1>7, <1>10, <1>11, <1>12
<1> QED
  BY <1>1, <1>13

-----------------------------------------------------------------------------
\* What one character has, and what it weighs.

Carried(c, k) == inventory[c][k] + Cardinality(Worn(c, k))

LEMMA Constants ==
  /\ \A k \in Kinds : Weight[k] \in Nat
  /\ MaxWeight \in Nat /\ MaxItem \in Nat /\ MaxChest \in Nat /\ MaxBank \in Nat
  /\ ChestSlots \in Nat /\ 0 \notin SpawnSlots
  /\ \A s \in SpawnSlots : SpawnKind[s] \in Kinds
BY GoodsAssumption

LEMMA AllCarry ==
  GoodsTypes => \A d \in Owners, j \in Kinds : Carried(d, j) \in Nat
<1> SUFFICES ASSUME GoodsTypes, NEW d \in Owners, NEW j \in Kinds
             PROVE  Carried(d, j) \in Nat
  OBVIOUS
<1>1. inventory[d][j] \in Nat
  BY DEF GoodsTypes
<1> QED
  BY <1>1, WornFinite DEF Carried

LEMMA AllWeigh == GoodsTypes => \A d \in Owners : WeightOf(d) \in Nat
<1> SUFFICES ASSUME GoodsTypes, NEW d \in Owners PROVE WeightOf(d) \in Nat
  OBVIOUS
<1> DEFINE f == [k \in Kinds |-> Weight[k] * (inventory[d][k]
                                              + Cardinality(Worn(d, k)))]
<1>1. \A k \in Kinds : f[k] \in Nat
  <2>1. \A w, n \in Nat : w * n \in Nat
    OBVIOUS
  <2>2. \A k \in Kinds : inventory[d][k] + Cardinality(Worn(d, k)) \in Nat
    BY AllCarry DEF Carried
  <2> QED
    BY <2>1, <2>2, Constants
<1>2. WeightOf(d) = Total(f, Kinds)
  BY DEF WeightOf
<1> HIDE DEF f
<1> QED
  BY <1>1, <1>2, TotalNat, GoodsAssumption

(* A load that changes in one kind, and one that shrinks.                  *)
LEMMA WeightChanged ==
  ASSUME GoodsTypes, GoodsTypes', NEW c \in Owners, NEW k \in Kinds,
         \A j \in Kinds \ {k} : Carried(c, j)' = Carried(c, j)
  PROVE  WeightOf(c)' = WeightOf(c) + Weight[k] * (Carried(c, k)' - Carried(c, k))
<1> DEFINE f == [j \in Kinds |-> Weight[j] * Carried(c, j)]
           g == [j \in Kinds |-> Weight[j] * Carried(c, j)']
<1>1. \A d \in Owners, j \in Kinds : Carried(d, j) \in Nat
  BY AllCarry
<1>2. (\A d \in Owners, j \in Kinds : Carried(d, j) \in Nat)'
  BY GoodsTypes', AllCarry, PTL
<1>3. \A w, n \in Nat : w * n \in Nat
  OBVIOUS
<1>4. \A j \in Kinds : /\ f[j] = Weight[j] * Carried(c, j) /\ f[j] \in Nat
                       /\ g[j] = Weight[j] * Carried(c, j)' /\ g[j] \in Nat
                       /\ j # k => g[j] = f[j]
  BY <1>1, <1>2, <1>3, Constants
<1>5. WeightOf(c) = Total(f, Kinds) /\ WeightOf(c)' = Total(g, Kinds)
  BY DEF WeightOf, Carried
<1> HIDE DEF f, g
<1>6. Total(g, Kinds) = Total(f, Kinds) - f[k] + g[k]
  <2>1. (\A x \in Kinds : f[x] \in Int) /\ g[k] \in Int
        /\ \A x \in Kinds \ {k} : g[x] = f[x]
    BY <1>4
  <2> QED
    BY <2>1, TotalChange, GoodsAssumption
<1>7. \A w, a, b \in Nat : w * (a - b) = w * a - w * b
  OBVIOUS
<1>8. Weight[k] * (Carried(c, k)' - Carried(c, k)) = g[k] - f[k]
  BY <1>1, <1>2, <1>4, <1>7, Constants
<1>9. Total(f, Kinds) \in Int /\ f[k] \in Int /\ g[k] \in Int
  BY <1>4, TotalType, GoodsAssumption
<1> QED
  BY <1>5, <1>6, <1>8, <1>9

LEMMA WeightShrinks ==
  ASSUME GoodsTypes, GoodsTypes', NEW c \in Owners,
         \A j \in Kinds : Carried(c, j)' <= Carried(c, j)
  PROVE  WeightOf(c)' <= WeightOf(c)
<1> DEFINE f == [j \in Kinds |-> Weight[j] * Carried(c, j)]
           g == [j \in Kinds |-> Weight[j] * Carried(c, j)']
<1>1. \A d \in Owners, j \in Kinds : Carried(d, j) \in Nat
  BY AllCarry
<1>2. (\A d \in Owners, j \in Kinds : Carried(d, j) \in Nat)'
  BY GoodsTypes', AllCarry, PTL
<1>3. \A w, a, b \in Nat : w * a \in Int /\ (a <= b => w * a <= w * b)
  OBVIOUS
<1>4. \A j \in Kinds : g[j] \in Int /\ f[j] \in Int /\ g[j] <= f[j]
  BY <1>1, <1>2, <1>3, Constants
<1>5. WeightOf(c) = Total(f, Kinds) /\ WeightOf(c)' = Total(g, Kinds)
  BY DEF WeightOf, Carried
<1> HIDE DEF f, g
<1> QED
  BY <1>4, <1>5, TotalMost, GoodsAssumption

(* Everyone but c has, wears and weighs what it did.                       *)
LEMMA OthersSame ==
  ASSUME NEW c \in Owners, NEW d \in Owners \ {c},
         inventory'[d] = inventory[d], paperdoll'[d] = paperdoll[d],
         locker'[d] = locker[d]
  PROVE  /\ \A j \in Kinds : Has(d, j)' = Has(d, j) /\ Carried(d, j)' = Carried(d, j)
         /\ WeightOf(d)' = WeightOf(d)
BY DEF Has, Worn, WeightOf, Carried

(* c has been given or has lost some of kind k, or moved it to or from its *)
(* locker.                                                                 *)
LEMMA HoldingChanged ==
  ASSUME GoodsTypes, GoodsTypes', NEW c \in Owners, NEW k \in Kinds,
         UNCHANGED paperdoll,
         \A d \in Owners \ {c} : inventory'[d] = inventory[d]
                                 /\ locker'[d] = locker[d],
         \A j \in Kinds \ {k} : inventory'[c][j] = inventory[c][j]
                                /\ locker'[c][j] = locker[c][j]
  PROVE  /\ \A j \in Kinds \ {k} : Own(j)' = Own(j)
         /\ Own(k)' = Own(k) + (inventory'[c][k] - inventory[c][k])
                             + (locker'[c][k] - locker[c][k])
         /\ HandsSuffice => HandsSuffice'
         /\ \A d \in Owners \ {c} : WeightOf(d)' = WeightOf(d)
         /\ WeightOf(c)' = WeightOf(c)
                           + Weight[k] * (inventory'[c][k] - inventory[c][k])
<1>1. \A d \in Owners \ {c} : /\ \A j \in Kinds : Has(d, j)' = Has(d, j)
                              /\ WeightOf(d)' = WeightOf(d)
  BY OthersSame
<1>2. \A j \in Kinds : Worn(c, j)' = Worn(c, j)
  BY DEF Worn
<1>3. \A j \in Kinds : /\ inventory[c][j] \in Nat /\ inventory'[c][j] \in Nat
                       /\ locker[c][j] \in Nat /\ locker'[c][j] \in Nat
                       /\ Cardinality(Worn(c, j)) \in Nat
  BY WornFinite DEF GoodsTypes
<1>4. \A j \in Kinds \ {k} : Has(c, j)' = Has(c, j) /\ Carried(c, j)' = Carried(c, j)
  BY <1>2 DEF Has, Carried
<1>5. /\ Has(c, k)' = Has(c, k) + (inventory'[c][k] - inventory[c][k])
                      + (locker'[c][k] - locker[c][k])
      /\ Carried(c, k)' - Carried(c, k) = inventory'[c][k] - inventory[c][k]
  <2>1. /\ Has(c, k)' = inventory'[c][k] + locker'[c][k] + Cardinality(Worn(c, k))
        /\ Carried(c, k)' = inventory'[c][k] + Cardinality(Worn(c, k))
    BY <1>2 DEF Has, Carried
  <2> QED
    BY <1>3, <2>1 DEF Has, Carried
<1>6. \A j \in Kinds : Own(j)' = Own(j) - Has(c, j) + Has(c, j)'
  BY <1>1, OwnChanged
<1>7. \A j \in Kinds : Own(j) \in Nat /\ Has(c, j) \in Nat
  BY OwnType, HasType
<1>8. \A j \in Kinds \ {k} : Own(j)' = Own(j)
  BY <1>4, <1>6, <1>7
<1>9. Own(k)' = Own(k) + (inventory'[c][k] - inventory[c][k])
                + (locker'[c][k] - locker[c][k])
  BY <1>3, <1>5, <1>6, <1>7
<1>10. WeightOf(c)' = WeightOf(c)
                      + Weight[k] * (inventory'[c][k] - inventory[c][k])
  BY <1>4, <1>5, WeightChanged
<1>11. HandsSuffice => HandsSuffice'
  BY DEF HandsSuffice
<1> QED
  BY <1>1, <1>8, <1>9, <1>10, <1>11

LEMMA ItemAdded ==
  ASSUME GoodsTypes, NEW c \in Owners, NEW k \in Kinds, NEW n \in Nat,
         AddItem(c, k, n)
  PROVE  /\ inventory' \in [Owners -> [Kinds -> Nat]]
         /\ clipped' \in [Kinds -> Int]
         /\ \A d \in Owners \ {c} : inventory'[d] = inventory[d]
         /\ \A j \in Kinds \ {k} : inventory'[c][j] = inventory[c][j]
                                   /\ clipped'[j] = clipped[j]
         /\ inventory'[c][k] <= inventory[c][k] + n
         /\ clipped'[k] = clipped[k] + (inventory[c][k] + n - inventory'[c][k])
<1> DEFINE held == Least(inventory[c][k] + n, MaxItem)
<1>1. inventory[c][k] \in Nat /\ clipped[k] \in Int
  BY DEF GoodsTypes
<1>2. held \in Nat /\ held <= inventory[c][k] + n
  BY <1>1, Constants DEF Least
<1>3. /\ inventory' = [inventory EXCEPT ![c][k] = held]
      /\ clipped' = [clipped EXCEPT ![k] = @ + inventory[c][k] + n - held]
  BY DEF AddItem
<1> HIDE DEF held
<1>4. /\ inventory' \in [Owners -> [Kinds -> Nat]]
      /\ \A d \in Owners \ {c} : inventory'[d] = inventory[d]
      /\ \A j \in Kinds \ {k} : inventory'[c][j] = inventory[c][j]
      /\ inventory'[c][k] = held
  BY <1>2, <1>3 DEF GoodsTypes
<1>5. /\ clipped' \in [Kinds -> Int]
      /\ \A j \in Kinds \ {k} : clipped'[j] = clipped[j]
      /\ clipped'[k] = clipped[k] + inventory[c][k] + n - held
  BY <1>1, <1>2, <1>3 DEF GoodsTypes
<1> QED
  BY <1>1, <1>2, <1>4, <1>5

LEMMA ItemDeleted ==
  ASSUME GoodsTypes, NEW c \in Owners, NEW k \in Kinds, NEW n \in Nat,
         n <= inventory[c][k], DelItem(c, k, n)
  PROVE  /\ inventory' \in [Owners -> [Kinds -> Nat]]
         /\ \A d \in Owners \ {c} : inventory'[d] = inventory[d]
         /\ \A j \in Kinds \ {k} : inventory'[c][j] = inventory[c][j]
         /\ inventory'[c][k] = inventory[c][k] - n
<1>1. inventory[c][k] \in Nat
  BY DEF GoodsTypes
<1> DEFINE held == IF inventory[c][k] > n THEN inventory[c][k] - n ELSE 0
<1>2. held = inventory[c][k] - n /\ held \in Nat
  BY <1>1
<1>3. inventory' = [inventory EXCEPT ![c][k] = held]
  BY DEF DelItem
<1> HIDE DEF held
<1>4. /\ inventory' \in [Owners -> [Kinds -> Nat]]
      /\ \A d \in Owners \ {c} : inventory'[d] = inventory[d]
      /\ \A j \in Kinds \ {k} : inventory'[c][j] = inventory[c][j]
      /\ inventory'[c][k] = held
  BY <1>2, <1>3 DEF GoodsTypes
<1> QED
  BY <1>2, <1>4

(* What can be held is there and is not too heavy.                         *)
LEMMA CanHold ==
  ASSUME GoodsTypes, NEW c \in Owners, NEW k \in Kinds, NEW n \in Nat,
         CanHoldItem(c, k, n) > 0
  PROVE  /\ CanHoldItem(c, k, n) \in Nat /\ CanHoldItem(c, k, n) <= n
         /\ WeightOf(c) + Weight[k] * CanHoldItem(c, k, n) <= MaxWeight
<1> DEFINE W == WeightOf(c)
           w == Weight[k]
           q == (MaxWeight - W) \div w
           taken == CanHoldItem(c, k, n)
<1>1. W \in Nat /\ w \in Nat /\ MaxWeight \in Nat /\ MaxItem \in Nat
  BY AllWeigh, Constants
<1>2. CASE W > MaxWeight
  <2>1. taken = Least(0, MaxItem)
    BY <1>2 DEF CanHoldItem
  <2> QED
    BY <1>1, <2>1 DEF Least
<1>3. CASE ~(W > MaxWeight) /\ w = 0
  <2>1. taken = Least(n, MaxItem)
    BY <1>3 DEF CanHoldItem
  <2>2. taken \in Nat /\ taken <= n
    BY <1>1, <2>1 DEF Least
  <2> QED
    BY <1>1, <1>3, <2>2
<1>4. CASE ~(W > MaxWeight) /\ w # 0
  <2>1. taken = Least(Least(q, n), MaxItem)
    BY <1>4 DEF CanHoldItem
  <2>2. MaxWeight - W \in Nat /\ w \in Nat \ {0}
    BY <1>1, <1>4
  <2>3. \A m \in Nat, v \in Nat \ {0} : m \div v \in Nat /\ v * (m \div v) <= m
    OBVIOUS
  <2>4. q \in Nat /\ w * q <= MaxWeight - W
    BY <2>2, <2>3
  <2> HIDE DEF q, taken
  <2>5. taken \in Nat /\ taken <= n /\ taken <= q
    BY <1>1, <2>1, <2>4 DEF Least
  <2>6. \A v, a, b \in Nat : /\ v * a \in Nat /\ v * b \in Nat
                             /\ a <= b => v * a <= v * b
    OBVIOUS
  <2>7. w * taken <= w * q /\ w * taken \in Nat /\ w * q \in Nat
    BY <1>1, <2>4, <2>5, <2>6
  <2>8. W + w * taken <= MaxWeight
    <3> DEFINE x == w * taken
               y == w * q
    <3> HIDE DEF x, y, W
    <3>1. x <= y /\ x \in Nat /\ y \in Nat /\ y <= MaxWeight - W
      BY <2>4, <2>7 DEF x, y
    <3>2. W + x <= MaxWeight
      BY <1>1, <3>1
    <3> QED
      BY <3>2 DEF x
  <2> QED
    BY <2>5, <2>8 DEF taken
<1> QED
  BY <1>2, <1>3, <1>4

LEMMA HoldingMoved ==
  ASSUME GoodsInv, GoodsTypes', NEW c \in Owners, NEW k \in Kinds, NEW n \in Nat,
         UNCHANGED paperdoll,
         \A d \in Owners \ {c} : inventory'[d] = inventory[d]
                                 /\ locker'[d] = locker[d],
         \A j \in Kinds \ {k} : inventory'[c][j] = inventory[c][j]
                                /\ locker'[c][j] = locker[c][j],
         inventory'[c][k] <= inventory[c][k] + n,
         n = 0 \/ WeightOf(c) + Weight[k] * n <= MaxWeight
  PROVE  /\ \A j \in Kinds \ {k} : Own(j)' = Own(j)
         /\ Own(k)' = Own(k) + (inventory'[c][k] - inventory[c][k])
                             + (locker'[c][k] - locker[c][k])
         /\ HandsSuffice' /\ CarriesAtMost'
<1> GoodsTypes /\ HandsSuffice /\ CarriesAtMost
  BY DEF GoodsInv, GoodsKept
<1>1. /\ \A j \in Kinds \ {k} : Own(j)' = Own(j)
      /\ Own(k)' = Own(k) + (inventory'[c][k] - inventory[c][k])
                          + (locker'[c][k] - locker[c][k])
      /\ HandsSuffice => HandsSuffice'
      /\ \A d \in Owners \ {c} : WeightOf(d)' = WeightOf(d)
      /\ WeightOf(c)' = WeightOf(c)
                        + Weight[k] * (inventory'[c][k] - inventory[c][k])
  BY HoldingChanged
<1> DEFINE w == Weight[k]
           W == WeightOf(c)
           m == inventory'[c][k] - inventory[c][k]
<1>2. w \in Nat /\ W \in Nat /\ MaxWeight \in Nat /\ W <= MaxWeight
  BY Constants, AllWeigh DEF CarriesAtMost
<1>3. m \in Int /\ m <= n
  BY DEF GoodsTypes
<1>4. W + w * n <= MaxWeight
  <2>1. CASE n = 0
    <3>1. w * n = 0
      BY <1>2, <2>1
    <3> QED
      BY <1>2, <3>1
  <2>2. CASE n # 0
    BY <2>2
  <2> QED
    BY <2>1, <2>2
<1>5. WeightOf(c)' = W + w * m
  BY <1>1
<1> HIDE DEF w, W, m
<1>6. w * m <= w * n /\ w * m \in Int /\ w * n \in Int
  <2>1. \A v \in Nat, a \in Int, b \in Nat : /\ v * a \in Int /\ v * b \in Int
                                             /\ a <= b => v * a <= v * b
    OBVIOUS
  <2> QED
    BY <1>2, <1>3, <2>1
<1>7. WeightOf(c)' <= MaxWeight
  <2> DEFINE x == w * m
             y == w * n
  <2> HIDE DEF x, y
  <2>1. x <= y /\ x \in Int /\ y \in Int /\ W + y <= MaxWeight
    BY <1>4, <1>6 DEF x, y
  <2>2. W + x <= MaxWeight
    BY <1>2, <2>1
  <2> QED
    BY <1>5, <2>2 DEF x
<1>8. CarriesAtMost'
  BY <1>1, <1>7 DEF CarriesAtMost
<1> QED
  BY <1>1, <1>8

LEMMA PlacesCounted ==
  GoodsTypes => \A j \in Kinds : /\ Own(j) \in Nat /\ Ground(j) \in Nat
                                  /\ InChest(j, chest) \in Nat
BY OwnType, GroundType, InChestType DEF GoodsTypes

LEMMA OwnAndGround ==
  GoodsTypes => \A j \in Kinds : Own(j) \in Nat /\ Ground(j) \in Nat
BY OwnType, GroundType

LEMMA PlacesCountedNext ==
  ASSUME GoodsTypes'
  PROVE  \A j \in Kinds : /\ Own(j)' \in Nat /\ Ground(j)' \in Nat
                          /\ InChest(j, chest') \in Nat
<1>1. (\A j \in Kinds : Own(j) \in Nat /\ Ground(j) \in Nat)'
  BY GoodsTypes', OwnAndGround, PTL
<1>2. \A j \in Kinds : InChest(j, chest') \in Nat
  BY GoodsTypes', InChestType DEF GoodsTypes
<1> QED
  BY <1>1, <1>2

(* What has left one place has come to another, kind by kind.              *)
LEMMA Accounted ==
  ASSUME GoodsInv, GoodsTypes',
         \A k \in Kinds :
           (Own(k)' - Own(k)) + (Ground(k)' - Ground(k))
           + (InChest(k, chest') - InChest(k, chest)) + (spilt'[k] - spilt[k])
           + (clipped'[k] - clipped[k]) = made'[k] - made[k]
  PROVE  GoodsAccounted'
<1> SUFFICES ASSUME NEW k \in Kinds
             PROVE  InAllPlaces(k)' + spilt'[k] + clipped'[k] = made'[k]
  BY DEF GoodsAccounted
<1>1. /\ InAllPlaces(k) = Own(k) + Ground(k) + InChest(k, chest)
      /\ InAllPlaces(k)' = Own(k)' + Ground(k)' + InChest(k, chest')
  BY DEF InAllPlaces, Own, Ground, InChest, Has, Worn, Lies
<1>2. GoodsTypes
  BY DEF GoodsInv
<1>4. Own(k) \in Nat /\ Ground(k) \in Nat /\ InChest(k, chest) \in Nat
  BY <1>2, PlacesCounted
<1>6. Own(k)' \in Nat /\ Ground(k)' \in Nat /\ InChest(k, chest') \in Nat
  BY PlacesCountedNext
<1>7. /\ made[k] \in Int /\ made'[k] \in Int /\ spilt[k] \in Int
      /\ spilt'[k] \in Int /\ clipped[k] \in Int /\ clipped'[k] \in Int
  BY <1>2, GoodsTypes' DEF GoodsTypes
<1>8. InAllPlaces(k) + spilt[k] + clipped[k] = made[k]
  BY DEF GoodsInv, GoodsKept, GoodsAccounted
<1> QED
  BY <1>1, <1>4, <1>6, <1>7, <1>8

LEMMA FirstEntry ==
  ASSUME GoodsTypes, NEW k \in Kinds, EntryOf(k) # {}
  PROVE  /\ First(k) \in DOMAIN chest /\ chest[First(k)] \in Entries
         /\ chest[First(k)].kind = k /\ ChestHas(k) = chest[First(k)].amount
         /\ OfKind(k, chest[First(k)]) = ChestHas(k)
<1>1. chest \in Seq(Entries)
  BY DEF GoodsTypes
<1>2. EntryOf(k) \in SUBSET DOMAIN chest /\ EntryOf(k) \in SUBSET Nat
      /\ IsFiniteSet(EntryOf(k))
  <2>1. DOMAIN chest = 1..Len(chest) /\ Len(chest) \in Nat
        /\ IsFiniteSet(DOMAIN chest)
    BY <1>1, EntryAt
  <2>2. EntryOf(k) \in SUBSET DOMAIN chest
    BY DEF EntryOf
  <2> QED
    BY <2>1, <2>2, FS_Subset
<1>3. \E i \in EntryOf(k) : \A j \in EntryOf(k) : i <= j
  BY <1>2, LeastOf
<1>4. First(k) \in EntryOf(k)
  <2> DEFINE P(i) == \A j \in EntryOf(k) : i <= j
  <2>1. \E i \in EntryOf(k) : P(i)
    BY <1>3
  <2>2. First(k) = CHOOSE i \in EntryOf(k) : P(i)
    BY DEF First
  <2> HIDE DEF P
  <2> QED
    BY <2>1, <2>2
<1>5. First(k) \in DOMAIN chest /\ chest[First(k)].kind = k
  BY <1>4 DEF EntryOf
<1>6. chest[First(k)] \in Entries
  BY <1>1, <1>5
<1> QED
  BY <1>5, <1>6 DEF ChestHas, OfKind

LEMMA ChestHasType ==
  ASSUME GoodsTypes, NEW k \in Kinds
  PROVE  ChestHas(k) \in Nat /\ (ChestHas(k) > 0 => EntryOf(k) # {})
<1>1. CASE EntryOf(k) = {}
  BY <1>1 DEF ChestHas
<1>2. CASE EntryOf(k) # {}
  BY <1>2, FirstEntry, EntryFields
<1> QED
  BY <1>1, <1>2

LEMMA InvParts ==
  GoodsInv => GoodsTypes /\ HandsSuffice /\ CarriesAtMost /\ SpawnsOnce
BY DEF GoodsInv, GoodsKept

LEMMA InChestSame ==
  ASSUME UNCHANGED chest
  PROVE  (\A k \in Kinds : InChest(k, chest') = InChest(k, chest))
         /\ (SpawnsOnce => SpawnsOnce')
BY DEF InChest, SpawnsOnce

LEMMA GroundPut ==
  ASSUME GoodsTypes, NEW k \in Kinds, NEW n \in Nat \ {0},
         NEW o \in Owners \cup {None}, NEW u \in FreeUids(1),
         ground' = [ground EXCEPT ![u] = [kind |-> k, amount |-> n, owner |-> o]]
  PROVE  /\ ground' \in [Uids -> Things \cup {None}]
         /\ Ground(k)' = Ground(k) + n
         /\ \A j \in Kinds \ {k} : Ground(j)' = Ground(j)
<1> DEFINE x == [kind |-> k, amount |-> n, owner |-> o]
<1>1. x \in Things /\ x # None
      /\ \A j \in Kinds : OfKind(j, x) = IF j = k THEN n ELSE 0
  BY ThingFields DEF Things, OfKind
<1>2. ground' = [ground EXCEPT ![u] = x]
  OBVIOUS
<1>3. u \in Uids /\ ground[u] = None /\ \A j \in Kinds : Lies(u, j) = 0
  BY DEF FreeUids, Lying, Lies
<1> HIDE DEF x
<1>4. ground' \in [Uids -> Things \cup {None}]
  BY <1>1, <1>2, <1>3, GroundChanged
<1>5. \A j \in Kinds : Ground(j) \in Nat
  BY GroundType
<1>6. \A j \in Kinds : Ground(j)' = Ground(j) - Lies(u, j)
                         + (IF x = None THEN 0 ELSE OfKind(j, x))
  BY <1>1, <1>2, <1>3, GroundChanged
<1>7. \A j \in Kinds : Ground(j)' = Ground(j) + (IF j = k THEN n ELSE 0)
  BY <1>1, <1>3, <1>5, <1>6
<1> QED
  BY <1>4, <1>5, <1>7

-----------------------------------------------------------------------------
\* The actions.

LEMMA DropKeeps ==
  ASSUME GoodsInv, NEW c \in Owners, NEW k \in Kinds, NEW n \in 1..MaxItem,
         Item_Drop(c, k, n)
  PROVE  GoodsInv'
<1> GoodsTypes /\ HandsSuffice /\ CarriesAtMost /\ SpawnsOnce
  BY InvParts
<1>0. n \in Nat \ {0} /\ n <= inventory[c][k] /\ inventory[c][k] \in Nat
      /\ spilt[k] \in Int
  BY Constants DEF Item_Drop, GoodsTypes
<1>1. /\ inventory' \in [Owners -> [Kinds -> Nat]]
      /\ \A d \in Owners \ {c} : inventory'[d] = inventory[d]
      /\ \A j \in Kinds \ {k} : inventory'[c][j] = inventory[c][j]
      /\ inventory'[c][k] = inventory[c][k] - n
  BY <1>0, ItemDeleted DEF Item_Drop
<1>2. UNCHANGED <<paperdoll, locker, chest, made, clipped>>
  BY DEF Item_Drop, worn
<1>3. \A j \in Kinds : Ground(j) \in Nat
  BY GroundType
<1>4. /\ ground' \in [Uids -> Things \cup {None}] /\ spilt' \in [Kinds -> Int]
      /\ \A j \in Kinds : (Ground(j)' - Ground(j)) + (spilt'[j] - spilt[j])
                          = IF j = k THEN n ELSE 0
  <2>1. CASE spilt' = [spilt EXCEPT ![k] = @ + n] /\ UNCHANGED ground
    <3>1. spilt' \in [Kinds -> Int]
          /\ \A j \in Kinds : spilt[j] \in Int /\ spilt'[j] \in Int
                              /\ spilt'[j] - spilt[j] = IF j = k THEN n ELSE 0
      BY <1>0, <2>1 DEF GoodsTypes
    <3>2. \A j \in Kinds : Ground(j)' = Ground(j)
      BY <2>1, GroundSame
    <3>3. ground' \in [Uids -> Things \cup {None}]
      BY <2>1 DEF GoodsTypes
    <3> QED
      BY <1>3, <3>1, <3>2, <3>3
  <2>2. ASSUME NEW u \in FreeUids(1), UNCHANGED spilt,
               ground' = [ground EXCEPT ![u] = [kind |-> k, amount |-> n,
                                                owner |-> c]]
        PROVE  /\ ground' \in [Uids -> Things \cup {None}]
               /\ spilt' \in [Kinds -> Int]
               /\ \A j \in Kinds : (Ground(j)' - Ground(j)) + (spilt'[j] - spilt[j])
                                   = IF j = k THEN n ELSE 0
    <3>1. /\ ground' \in [Uids -> Things \cup {None}]
          /\ Ground(k)' = Ground(k) + n
          /\ \A j \in Kinds \ {k} : Ground(j)' = Ground(j)
      BY <1>0, <2>2, GroundPut
    <3>2. \A j \in Kinds : spilt[j] \in Int /\ spilt'[j] = spilt[j]
      BY <2>2 DEF GoodsTypes
    <3> QED
      BY <1>0, <1>3, <2>2, <3>1, <3>2 DEF GoodsTypes
  <2> QED
    BY <2>1, <2>2 DEF Item_Drop
<1>5. GoodsTypes'
  BY <1>1, <1>2, <1>4 DEF GoodsTypes
<1>6. /\ \A j \in Kinds \ {k} : Own(j)' = Own(j)
      /\ Own(k)' = Own(k) + (inventory'[c][k] - inventory[c][k])
                          + (locker'[c][k] - locker[c][k])
      /\ HandsSuffice' /\ CarriesAtMost'
  <2>1. inventory'[c][k] <= inventory[c][k] + 0 /\ 0 \in Nat
    BY <1>0, <1>1
  <2> QED
    BY <1>1, <1>2, <1>5, <2>1, HoldingMoved
<1>7. GoodsAccounted'
  <2>1. \A j \in Kinds : InChest(j, chest') = InChest(j, chest)
                         /\ InChest(j, chest) \in Nat /\ Own(j) \in Nat
    BY <1>2, InChestSame, InChestType, OwnType DEF GoodsTypes
  <2>2. locker[c][k] \in Nat /\ \A j \in Kinds : made[j] \in Int /\ clipped[j] \in Int
    BY DEF GoodsTypes
  <2>3. \A j \in Kinds : Own(j)' - Own(j) = IF j = k THEN -n ELSE 0
    BY <1>0, <1>1, <1>2, <1>6, <2>1, <2>2
  <2>4. ASSUME NEW j \in Kinds
        PROVE  (Own(j)' - Own(j)) + (Ground(j)' - Ground(j))
               + (InChest(j, chest') - InChest(j, chest)) + (spilt'[j] - spilt[j])
               + (clipped'[j] - clipped[j]) = made'[j] - made[j]
    <3>1. Ground(j) \in Nat /\ spilt[j] \in Int
          /\ Ground(j)' \in Nat /\ spilt'[j] \in Int
      BY <1>3, <1>4, <1>5, PlacesCountedNext DEF GoodsTypes
    <3> QED
      BY <1>0, <1>2, <1>4, <2>1, <2>2, <2>3, <3>1
  <2> QED
    BY <1>5, <2>4, Accounted
<1> QED
  BY <1>2, <1>5, <1>6, <1>7, InChestSame DEF GoodsInv, GoodsKept

(* Only one kind is concerned.                                             *)
LEMMA Moved ==
  ASSUME GoodsInv, GoodsTypes', NEW k \in Kinds,
         \A j \in Kinds \ {k} :
           /\ Own(j)' = Own(j) /\ Ground(j)' = Ground(j)
           /\ InChest(j, chest') = InChest(j, chest) /\ made'[j] = made[j]
           /\ spilt'[j] = spilt[j] /\ clipped'[j] = clipped[j],
         (Own(k)' - Own(k)) + (Ground(k)' - Ground(k))
           + (InChest(k, chest') - InChest(k, chest)) + (spilt'[k] - spilt[k])
           + (clipped'[k] - clipped[k]) = made'[k] - made[k]
  PROVE  GoodsAccounted'
<1>1. ASSUME NEW j \in Kinds \ {k}
      PROVE  (Own(j)' - Own(j)) + (Ground(j)' - Ground(j))
             + (InChest(j, chest') - InChest(j, chest)) + (spilt'[j] - spilt[j])
             + (clipped'[j] - clipped[j]) = made'[j] - made[j]
  <2>1. /\ Own(j) \in Nat /\ Ground(j) \in Nat /\ InChest(j, chest) \in Nat
        /\ made[j] \in Int /\ spilt[j] \in Int /\ clipped[j] \in Int
    BY InvParts, PlacesCounted DEF GoodsTypes
  <2> QED
    BY <2>1
<1>2. \A j \in Kinds :
           (Own(j)' - Own(j)) + (Ground(j)' - Ground(j))
           + (InChest(j, chest') - InChest(j, chest)) + (spilt'[j] - spilt[j])
           + (clipped'[j] - clipped[j]) = made'[j] - made[j]
  BY <1>1
<1> QED
  BY <1>2, Accounted

LEMMA FieldTypes ==
  ASSUME GoodsTypes, NEW c \in Owners, NEW k \in Kinds
  PROVE  /\ inventory[c][k] \in Nat /\ locker[c][k] \in Nat
         /\ made[k] \in Int /\ spilt[k] \in Int /\ clipped[k] \in Int
         /\ Own(k) \in Nat /\ Ground(k) \in Nat /\ InChest(k, chest) \in Nat
BY PlacesCounted DEF GoodsTypes

LEMMA GetKeeps ==
  ASSUME GoodsInv, NEW c \in Owners, NEW u \in Uids, Item_Get(c, u)
  PROVE  GoodsInv'
<1> GoodsTypes /\ HandsSuffice /\ CarriesAtMost /\ SpawnsOnce
  BY InvParts
<1>0. ground[u] \in Things /\ ground[u] # None /\ ground[u].kind \in Kinds
      /\ ground[u].amount \in Nat \ {0}
      /\ ground[u].owner \in Owners \cup {None}
  BY ThingFields DEF Item_Get, Lying, GoodsTypes
<1> PICK k \in Kinds, held \in Nat \ {0} :
           k = ground[u].kind /\ held = ground[u].amount
  BY <1>0
<1> PICK n : n = CanHoldItem(c, k, held)
  OBVIOUS
<1> DEFINE x == IF n < held THEN [ground[u] EXCEPT !.amount = held - n] ELSE None
<1>1. ground[u] \in Things /\ ground[u] # None /\ k \in Kinds
      /\ held \in Nat \ {0} /\ ground[u].owner \in Owners \cup {None}
  BY <1>0
<1>2. n > 0 /\ AddItem(c, k, n) /\ DelSomeItem(u, n)
      /\ UNCHANGED <<paperdoll, locker, chest, made, spilt>>
  BY DEF Item_Get, worn
<1>3. n \in Nat \ {0} /\ n <= held /\ WeightOf(c) + Weight[k] * n <= MaxWeight
  BY <1>1, <1>2, CanHold
<1>4. ground' = [ground EXCEPT ![u] = x]
  <2>1. CASE n < held
    <3>1. ground' = [ground EXCEPT ![u] = [ground[u] EXCEPT !.amount = held - n]]
      BY <1>2, <2>1 DEF DelSomeItem
    <3> QED
      BY <2>1, <3>1
  <2>2. CASE ~(n < held)
    <3>1. ground' = [ground EXCEPT ![u] = None]
      BY <1>2, <2>2 DEF DelSomeItem
    <3> QED
      BY <2>2, <3>1
  <2> QED
    BY <2>1, <2>2
<1>5. /\ x \in Things \cup {None}
      /\ (IF x = None THEN 0 ELSE OfKind(k, x)) = held - n
      /\ \A j \in Kinds \ {k} : (IF x = None THEN 0 ELSE OfKind(j, x)) = 0
  <2>1. CASE n < held
    <3> DEFINE y == [ground[u] EXCEPT !.amount = held - n]
    <3>1. held - n \in Nat \ {0}
      BY <1>1, <1>3, <2>1
    <3>2. y \in Things /\ y.kind = k /\ y.amount = held - n
      BY <1>1, <3>1 DEF Things
    <3>3. y # None /\ x = y
      BY <2>1, <3>2, ThingFields
    <3> HIDE DEF y, x
    <3> QED
      BY <3>2, <3>3 DEF OfKind
  <2>2. CASE ~(n < held)
    BY <1>1, <1>3, <2>2
  <2> QED
    BY <2>1, <2>2
<1>6. Lies(u, k) = held /\ \A j \in Kinds \ {k} : Lies(u, j) = 0
  BY <1>1 DEF Lies, OfKind
<1> HIDE DEF x
<1>7. /\ ground' \in [Uids -> Things \cup {None}]
      /\ Ground(k)' = Ground(k) - n /\ \A j \in Kinds \ {k} : Ground(j)' = Ground(j)
  <2>1. \A j \in Kinds : Ground(j) \in Nat
    BY GroundType
  <2>2. /\ ground' \in [Uids -> Things \cup {None}]
        /\ \A j \in Kinds : Ground(j)' = Ground(j) - Lies(u, j)
                            + (IF x = None THEN 0 ELSE OfKind(j, x))
    BY <1>1, <1>4, <1>5, GroundChanged
  <2>3. Ground(k)' = Ground(k) - n
    BY <1>1, <1>3, <1>5, <1>6, <2>1, <2>2
  <2>4. \A j \in Kinds \ {k} : Ground(j)' = Ground(j)
    <3> SUFFICES ASSUME NEW j \in Kinds \ {k} PROVE Ground(j)' = Ground(j)
      OBVIOUS
    <3>1. Ground(j) \in Nat /\ Lies(u, j) = 0
          /\ (IF x = None THEN 0 ELSE OfKind(j, x)) = 0
      BY <1>5, <1>6, <2>1
    <3>2. Ground(j)' = Ground(j) - Lies(u, j)
                       + (IF x = None THEN 0 ELSE OfKind(j, x))
      BY <2>2
    <3> QED
      BY <3>1, <3>2
  <2> QED
    BY <2>2, <2>3, <2>4
<1>8. /\ inventory' \in [Owners -> [Kinds -> Nat]]
      /\ clipped' \in [Kinds -> Int]
      /\ \A d \in Owners \ {c} : inventory'[d] = inventory[d]
      /\ \A j \in Kinds \ {k} : inventory'[c][j] = inventory[c][j]
                                /\ clipped'[j] = clipped[j]
      /\ inventory'[c][k] <= inventory[c][k] + n
      /\ clipped'[k] = clipped[k] + (inventory[c][k] + n - inventory'[c][k])
  BY <1>1, <1>2, <1>3, ItemAdded
<1>9. GoodsTypes'
  BY <1>2, <1>7, <1>8 DEF GoodsTypes
<1>10. /\ \A j \in Kinds \ {k} : Own(j)' = Own(j)
       /\ Own(k)' = Own(k) + (inventory'[c][k] - inventory[c][k])
                           + (locker'[c][k] - locker[c][k])
       /\ HandsSuffice' /\ CarriesAtMost'
  <2>1. /\ n \in Nat /\ UNCHANGED paperdoll
        /\ \A d \in Owners \ {c} : inventory'[d] = inventory[d]
                                   /\ locker'[d] = locker[d]
        /\ \A j \in Kinds \ {k} : inventory'[c][j] = inventory[c][j]
                                  /\ locker'[c][j] = locker[c][j]
    BY <1>2, <1>3, <1>8
  <2> QED
    BY <1>1, <1>3, <1>8, <1>9, <2>1, HoldingMoved
<1>11. (\A j \in Kinds : InChest(j, chest') = InChest(j, chest)) /\ SpawnsOnce'
  BY <1>2, InChestSame
<1>12. GoodsAccounted'
  <2>1. inventory'[c][k] \in Nat
    BY <1>1, <1>8
  <2>2. (Own(k)' - Own(k)) + (Ground(k)' - Ground(k))
        + (InChest(k, chest') - InChest(k, chest)) + (spilt'[k] - spilt[k])
        + (clipped'[k] - clipped[k]) = made'[k] - made[k]
    BY <1>1, <1>2, <1>3, <1>7, <1>8, <1>10, <1>11, <2>1, FieldTypes
  <2>3. \A j \in Kinds \ {k} :
           /\ Own(j)' = Own(j) /\ Ground(j)' = Ground(j)
           /\ InChest(j, chest') = InChest(j, chest) /\ made'[j] = made[j]
           /\ spilt'[j] = spilt[j] /\ clipped'[j] = clipped[j]
    BY <1>2, <1>7, <1>8, <1>10, <1>11
  <2> QED
    BY <1>1, <1>9, <2>2, <2>3, Moved
<1> QED
  BY <1>9, <1>10, <1>11, <1>12 DEF GoodsInv, GoodsKept

LEMMA UnprotectKeeps ==
  ASSUME GoodsInv, NEW u \in Uids, Unprotect(u)
  PROVE  GoodsInv'
<1> GoodsTypes /\ HandsSuffice /\ CarriesAtMost /\ SpawnsOnce
  BY InvParts
<1> DEFINE x == [ground[u] EXCEPT !.owner = None]
<1>1. ground[u] \in Things /\ ground[u] # None
  BY DEF Unprotect, Lying, GoodsTypes
<1>2. UNCHANGED <<inventory, paperdoll, locker, chest, made, spilt, clipped>>
  BY DEF Unprotect, worn, history
<1>3. ground' = [ground EXCEPT ![u] = x]
  BY DEF Unprotect, GoodsTypes
<1>4. x \in Things /\ x # None /\ x.kind = ground[u].kind
      /\ x.amount = ground[u].amount
  <2>1. x \in Things /\ x.kind = ground[u].kind /\ x.amount = ground[u].amount
    BY <1>1 DEF Things
  <2> QED
    BY <2>1, ThingFields
<1> HIDE DEF x
<1>5. ground' \in [Uids -> Things \cup {None}]
      /\ \A j \in Kinds : Ground(j)' = Ground(j)
  <2>1. \A j \in Kinds : /\ ground' \in [Uids -> Things \cup {None}]
                         /\ Ground(j)' = Ground(j) - Lies(u, j) + OfKind(j, x)
    BY <1>3, <1>4, GroundChanged
  <2>2. \A j \in Kinds : Ground(j) \in Nat /\ Lies(u, j) \in Nat
                         /\ Lies(u, j) = OfKind(j, x)
    BY <1>1, <1>4, GroundType, LiesType DEF Lies, OfKind
  <2>3. ground' \in [Uids -> Things \cup {None}]
    BY <1>3, <1>4 DEF GoodsTypes
  <2> QED
    BY <2>1, <2>2, <2>3
<1>6. GoodsTypes'
  BY <1>2, <1>5 DEF GoodsTypes
<1>7. (\A j \in Kinds : InChest(j, chest') = InChest(j, chest)) /\ SpawnsOnce'
  BY <1>2, InChestSame
<1>8. HandsSuffice' /\ CarriesAtMost'
  BY <1>2 DEF HandsSuffice, CarriesAtMost, WeightOf, Worn
<1>9. \A j \in Kinds : Own(j)' = Own(j)
  BY <1>2, OwnSame
<1>10. GoodsAccounted'
  <2>1. \A j \in Kinds : /\ Own(j) \in Nat /\ Ground(j) \in Nat
                         /\ InChest(j, chest) \in Nat /\ made[j] \in Int
                         /\ spilt[j] \in Int /\ clipped[j] \in Int
    BY PlacesCounted DEF GoodsTypes
  <2>2. \A k \in Kinds :
          (Own(k)' - Own(k)) + (Ground(k)' - Ground(k))
          + (InChest(k, chest') - InChest(k, chest)) + (spilt'[k] - spilt[k])
          + (clipped'[k] - clipped[k]) = made'[k] - made[k]
    BY <1>2, <1>5, <1>7, <1>9, <2>1
  <2> QED
    BY <1>6, <2>2, Accounted
<1> QED
  BY <1>6, <1>7, <1>8, <1>10 DEF GoodsInv, GoodsKept

LEMMA DespawnKeeps ==
  ASSUME GoodsInv, NEW u \in Uids, Despawn(u)
  PROVE  GoodsInv'
<1> GoodsTypes /\ HandsSuffice /\ CarriesAtMost /\ SpawnsOnce
  BY InvParts
<1>0. ground[u] \in Things /\ ground[u] # None /\ ground[u].kind \in Kinds
      /\ ground[u].amount \in Nat \ {0}
  BY ThingFields DEF Despawn, Lying, GoodsTypes
<1> PICK k \in Kinds, n \in Nat \ {0} : k = ground[u].kind /\ n = ground[u].amount
  BY <1>0
<1>1. ground[u] \in Things /\ ground[u] # None /\ k \in Kinds /\ n \in Nat \ {0}
  BY <1>0
<1>2. UNCHANGED <<inventory, paperdoll, locker, chest, spilt, clipped>>
      /\ ground' = [ground EXCEPT ![u] = None]
      /\ made' = [made EXCEPT ![k] = @ - n]
  BY DEF Despawn, worn
<1>3. Lies(u, k) = n /\ \A j \in Kinds \ {k} : Lies(u, j) = 0
  BY <1>1 DEF Lies, OfKind
<1>4. /\ ground' \in [Uids -> Things \cup {None}]
      /\ Ground(k)' = Ground(k) - n /\ \A j \in Kinds \ {k} : Ground(j)' = Ground(j)
  <2>1. \A j \in Kinds : Ground(j) \in Nat
    BY GroundType
  <2>2. \A j \in Kinds : Ground(j)' = Ground(j) - Lies(u, j)
                            + (IF None = None THEN 0 ELSE OfKind(j, None))
    BY <1>2, GroundChanged
  <2>3. ground' \in [Uids -> Things \cup {None}]
    BY <1>2 DEF GoodsTypes
  <2>4. Ground(k)' = Ground(k) - n
    BY <1>1, <1>3, <2>1, <2>2
  <2>5. \A j \in Kinds \ {k} : Ground(j)' = Ground(j)
    <3> SUFFICES ASSUME NEW j \in Kinds \ {k} PROVE Ground(j)' = Ground(j)
      OBVIOUS
    <3>1. Ground(j) \in Nat /\ Lies(u, j) = 0
      BY <1>3, <2>1
    <3>2. Ground(j)' = Ground(j) - Lies(u, j)
                       + (IF None = None THEN 0 ELSE OfKind(j, None))
      BY <2>2
    <3> QED
      BY <3>1, <3>2
  <2> QED
    BY <2>3, <2>4, <2>5
<1>5. made' \in [Kinds -> Int] /\ made[k] \in Int /\ made'[k] = made[k] - n
      /\ \A j \in Kinds \ {k} : made'[j] = made[j]
  BY <1>1, <1>2 DEF GoodsTypes
<1>6. GoodsTypes'
  BY <1>2, <1>4, <1>5 DEF GoodsTypes
<1>7. (\A j \in Kinds : InChest(j, chest') = InChest(j, chest)) /\ SpawnsOnce'
  BY <1>2, InChestSame
<1>8. HandsSuffice' /\ CarriesAtMost'
  BY <1>2 DEF HandsSuffice, CarriesAtMost, WeightOf, Worn
<1>9. \A j \in Kinds : Own(j)' = Own(j)
  BY <1>2, OwnSame
<1>10. GoodsAccounted'
  <2>0. /\ Own(k) \in Nat /\ Ground(k) \in Nat /\ InChest(k, chest) \in Nat
        /\ made[k] \in Int /\ spilt[k] \in Int /\ clipped[k] \in Int
    BY <1>1, PlacesCounted DEF GoodsTypes
  <2>1. (Own(k)' - Own(k)) + (Ground(k)' - Ground(k))
        + (InChest(k, chest') - InChest(k, chest)) + (spilt'[k] - spilt[k])
        + (clipped'[k] - clipped[k]) = made'[k] - made[k]
    <3>1. Ground(k)' - Ground(k) = -n /\ made'[k] - made[k] = -n
      BY <1>1, <1>4, <1>5, <2>0
    <3>2. /\ Own(k)' - Own(k) = 0 /\ InChest(k, chest') - InChest(k, chest) = 0
          /\ spilt'[k] - spilt[k] = 0 /\ clipped'[k] - clipped[k] = 0
      BY <1>1, <1>2, <1>7, <1>9, <2>0
    <3> QED
      BY <1>1, <3>1, <3>2
  <2>2. \A j \in Kinds \ {k} :
           /\ Own(j)' = Own(j) /\ Ground(j)' = Ground(j)
           /\ InChest(j, chest') = InChest(j, chest) /\ made'[j] = made[j]
           /\ spilt'[j] = spilt[j] /\ clipped'[j] = clipped[j]
    BY <1>2, <1>4, <1>5, <1>7, <1>9
  <2> QED
    BY <1>1, <1>6, <2>1, <2>2, Moved
<1> QED
  BY <1>6, <1>7, <1>8, <1>10 DEF GoodsInv, GoodsKept

LEMMA JunkKeeps ==
  ASSUME GoodsInv, NEW c \in Owners, NEW k \in Kinds, NEW n \in 1..MaxItem,
         Item_Junk(c, k, n)
  PROVE  GoodsInv'
<1> GoodsTypes /\ HandsSuffice /\ CarriesAtMost /\ SpawnsOnce
  BY InvParts
<1>0. n \in Nat \ {0} /\ n <= inventory[c][k]
  BY Constants DEF Item_Junk
<1>1. /\ inventory' \in [Owners -> [Kinds -> Nat]]
      /\ \A d \in Owners \ {c} : inventory'[d] = inventory[d]
      /\ \A j \in Kinds \ {k} : inventory'[c][j] = inventory[c][j]
      /\ inventory'[c][k] = inventory[c][k] - n
  BY <1>0, ItemDeleted DEF Item_Junk
<1>2. /\ UNCHANGED <<paperdoll, locker, chest, ground, spilt, clipped>>
      /\ made' = [made EXCEPT ![k] = @ - n]
  BY DEF Item_Junk, worn
<1>3. made' \in [Kinds -> Int] /\ made'[k] = made[k] - n
      /\ \A j \in Kinds \ {k} : made'[j] = made[j]
  BY <1>0, <1>2 DEF GoodsTypes
<1>4. GoodsTypes'
  BY <1>1, <1>2, <1>3 DEF GoodsTypes
<1>5. /\ \A j \in Kinds \ {k} : Own(j)' = Own(j)
      /\ Own(k)' = Own(k) + (inventory'[c][k] - inventory[c][k])
                          + (locker'[c][k] - locker[c][k])
      /\ HandsSuffice' /\ CarriesAtMost'
  <2>1. inventory'[c][k] <= inventory[c][k] + 0 /\ 0 \in Nat
    BY <1>0, <1>1, FieldTypes
  <2> QED
    BY <1>1, <1>2, <1>4, <2>1, HoldingMoved
<1>6. (\A j \in Kinds : InChest(j, chest') = InChest(j, chest)) /\ SpawnsOnce'
      /\ \A j \in Kinds : Ground(j)' = Ground(j)
  BY <1>2, InChestSame, GroundSame
<1>7. GoodsAccounted'
  <2>1. (Own(k)' - Own(k)) + (Ground(k)' - Ground(k))
        + (InChest(k, chest') - InChest(k, chest)) + (spilt'[k] - spilt[k])
        + (clipped'[k] - clipped[k]) = made'[k] - made[k]
    BY <1>0, <1>1, <1>2, <1>3, <1>5, <1>6, FieldTypes
  <2>2. \A j \in Kinds \ {k} :
           /\ Own(j)' = Own(j) /\ Ground(j)' = Ground(j)
           /\ InChest(j, chest') = InChest(j, chest) /\ made'[j] = made[j]
           /\ spilt'[j] = spilt[j] /\ clipped'[j] = clipped[j]
    BY <1>2, <1>3, <1>5, <1>6
  <2> QED
    BY <1>4, <2>1, <2>2, Moved
<1> QED
  BY <1>4, <1>5, <1>6, <1>7 DEF GoodsInv, GoodsKept

LEMMA NpcDropKeeps ==
  ASSUME GoodsInv, NEW k \in Kinds, NEW c \in Owners \cup {None}, NpcDrop(k, c)
  PROVE  GoodsInv'
<1> GoodsTypes /\ HandsSuffice /\ CarriesAtMost /\ SpawnsOnce
  BY InvParts
<1>1. /\ UNCHANGED <<inventory, paperdoll, locker, chest, spilt, clipped>>
      /\ made' = [made EXCEPT ![k] = @ + 1]
  BY DEF NpcDrop, worn
<1>2. made' \in [Kinds -> Int] /\ made'[k] = made[k] + 1 /\ made[k] \in Int
      /\ \A j \in Kinds \ {k} : made'[j] = made[j]
  BY <1>1 DEF GoodsTypes
<1>3. PICK u \in FreeUids(1) :
        ground' = [ground EXCEPT ![u] = [kind |-> k, amount |-> 1, owner |-> c]]
  BY DEF NpcDrop
<1>4. /\ ground' \in [Uids -> Things \cup {None}]
      /\ Ground(k)' = Ground(k) + 1
      /\ \A j \in Kinds \ {k} : Ground(j)' = Ground(j)
  <2>1. 1 \in Nat \ {0}
    OBVIOUS
  <2> QED
    BY <1>3, <2>1, GroundPut
<1>5. GoodsTypes'
  BY <1>1, <1>2, <1>4 DEF GoodsTypes
<1>6. (\A j \in Kinds : InChest(j, chest') = InChest(j, chest)) /\ SpawnsOnce'
      /\ \A j \in Kinds : Own(j)' = Own(j)
  BY <1>1, InChestSame, OwnSame
<1>7. HandsSuffice' /\ CarriesAtMost'
  BY <1>1 DEF HandsSuffice, CarriesAtMost, WeightOf, Worn
<1>8. GoodsAccounted'
  <2>0. /\ Own(k) \in Nat /\ Ground(k) \in Nat /\ InChest(k, chest) \in Nat
        /\ made[k] \in Int /\ spilt[k] \in Int /\ clipped[k] \in Int
    BY PlacesCounted DEF GoodsTypes
  <2>1. (Own(k)' - Own(k)) + (Ground(k)' - Ground(k))
        + (InChest(k, chest') - InChest(k, chest)) + (spilt'[k] - spilt[k])
        + (clipped'[k] - clipped[k]) = made'[k] - made[k]
    BY <1>1, <1>2, <1>4, <1>6, <2>0
  <2>2. \A j \in Kinds \ {k} :
           /\ Own(j)' = Own(j) /\ Ground(j)' = Ground(j)
           /\ InChest(j, chest') = InChest(j, chest) /\ made'[j] = made[j]
           /\ spilt'[j] = spilt[j] /\ clipped'[j] = clipped[j]
    BY <1>1, <1>2, <1>4, <1>6
  <2> QED
    BY <1>5, <2>1, <2>2, Moved
<1> QED
  BY <1>5, <1>6, <1>7, <1>8 DEF GoodsInv, GoodsKept

LEMMA LockerAddKeeps ==
  ASSUME GoodsInv, NEW c \in Owners, NEW k \in Kinds, NEW n \in 1..MaxItem,
         Locker_Add(c, k, n)
  PROVE  GoodsInv'
<1> GoodsTypes /\ HandsSuffice /\ CarriesAtMost /\ SpawnsOnce
  BY InvParts
<1> DEFINE amount == Least(n, MaxBank - locker[c][k])
<1> PICK m : m = amount
  OBVIOUS
<1>0. /\ n \in Nat /\ inventory[c][k] \in Nat /\ locker[c][k] \in Nat
      /\ MaxBank \in Nat /\ inventory[c][k] >= n /\ m > 0
  BY Constants DEF Locker_Add, GoodsTypes
<1>1. m \in Nat \ {0} /\ m <= inventory[c][k]
  BY <1>0 DEF Least
<1>2. /\ DelItem(c, k, m) /\ locker' = [locker EXCEPT ![c][k] = @ + m]
      /\ UNCHANGED <<paperdoll, ground, chest, made, spilt, clipped>>
  BY DEF Locker_Add, history
<1>3. /\ inventory' \in [Owners -> [Kinds -> Nat]]
      /\ \A d \in Owners \ {c} : inventory'[d] = inventory[d]
      /\ \A j \in Kinds \ {k} : inventory'[c][j] = inventory[c][j]
      /\ inventory'[c][k] = inventory[c][k] - m
  BY <1>1, <1>2, ItemDeleted
<1>4. /\ locker' \in [Owners -> [Kinds -> Nat]]
      /\ \A d \in Owners \ {c} : locker'[d] = locker[d]
      /\ \A j \in Kinds \ {k} : locker'[c][j] = locker[c][j]
      /\ locker'[c][k] = locker[c][k] + m
  BY <1>1, <1>2 DEF GoodsTypes
<1>5. GoodsTypes'
  BY <1>2, <1>3, <1>4 DEF GoodsTypes
<1>6. /\ \A j \in Kinds \ {k} : Own(j)' = Own(j)
      /\ Own(k)' = Own(k) + (inventory'[c][k] - inventory[c][k])
                          + (locker'[c][k] - locker[c][k])
      /\ HandsSuffice' /\ CarriesAtMost'
  <2>1. inventory'[c][k] <= inventory[c][k] + 0 /\ 0 \in Nat
    BY <1>0, <1>1, <1>3
  <2> QED
    BY <1>2, <1>3, <1>4, <1>5, <2>1, HoldingMoved
<1>7. (\A j \in Kinds : InChest(j, chest') = InChest(j, chest)) /\ SpawnsOnce'
      /\ \A j \in Kinds : Ground(j)' = Ground(j)
  BY <1>2, InChestSame, GroundSame
<1>8. GoodsAccounted'
  <2>1. (Own(k)' - Own(k)) + (Ground(k)' - Ground(k))
        + (InChest(k, chest') - InChest(k, chest)) + (spilt'[k] - spilt[k])
        + (clipped'[k] - clipped[k]) = made'[k] - made[k]
    BY <1>1, <1>2, <1>3, <1>4, <1>6, <1>7, FieldTypes
  <2>2. \A j \in Kinds \ {k} :
           /\ Own(j)' = Own(j) /\ Ground(j)' = Ground(j)
           /\ InChest(j, chest') = InChest(j, chest) /\ made'[j] = made[j]
           /\ spilt'[j] = spilt[j] /\ clipped'[j] = clipped[j]
    BY <1>2, <1>6, <1>7
  <2> QED
    BY <1>5, <2>1, <2>2, Moved
<1> QED
  BY <1>5, <1>6, <1>7, <1>8 DEF GoodsInv, GoodsKept

LEMMA LockerTakeKeeps ==
  ASSUME GoodsInv, NEW c \in Owners, NEW k \in Kinds, Locker_Take(c, k)
  PROVE  GoodsInv'
<1> GoodsTypes /\ HandsSuffice /\ CarriesAtMost /\ SpawnsOnce
  BY InvParts
<1> PICK n : n = CanHoldItem(c, k, locker[c][k])
  OBVIOUS
<1>1. /\ n > 0 /\ AddItem(c, k, n) /\ locker' = [locker EXCEPT ![c][k] = @ - n]
      /\ UNCHANGED <<paperdoll, ground, chest, made, spilt>>
  BY DEF Locker_Take
<1>2. locker[c][k] \in Nat /\ inventory[c][k] \in Nat
  BY DEF GoodsTypes
<1>3. n \in Nat \ {0} /\ n <= locker[c][k]
      /\ WeightOf(c) + Weight[k] * n <= MaxWeight
  BY <1>1, <1>2, CanHold
<1>4. /\ inventory' \in [Owners -> [Kinds -> Nat]]
      /\ clipped' \in [Kinds -> Int]
      /\ \A d \in Owners \ {c} : inventory'[d] = inventory[d]
      /\ \A j \in Kinds \ {k} : inventory'[c][j] = inventory[c][j]
                                /\ clipped'[j] = clipped[j]
      /\ inventory'[c][k] <= inventory[c][k] + n
      /\ clipped'[k] = clipped[k] + (inventory[c][k] + n - inventory'[c][k])
  BY <1>1, <1>3, ItemAdded
<1>5. /\ locker' \in [Owners -> [Kinds -> Nat]]
      /\ \A d \in Owners \ {c} : locker'[d] = locker[d]
      /\ \A j \in Kinds \ {k} : locker'[c][j] = locker[c][j]
      /\ locker'[c][k] = locker[c][k] - n
  <2>1. locker[c][k] - n \in Nat
    BY <1>2, <1>3
  <2> QED
    BY <1>1, <2>1 DEF GoodsTypes
<1>6. GoodsTypes'
  BY <1>1, <1>4, <1>5 DEF GoodsTypes
<1>7. /\ \A j \in Kinds \ {k} : Own(j)' = Own(j)
      /\ Own(k)' = Own(k) + (inventory'[c][k] - inventory[c][k])
                          + (locker'[c][k] - locker[c][k])
      /\ HandsSuffice' /\ CarriesAtMost'
  BY <1>1, <1>3, <1>4, <1>5, <1>6, HoldingMoved
<1>8. (\A j \in Kinds : InChest(j, chest') = InChest(j, chest)) /\ SpawnsOnce'
      /\ \A j \in Kinds : Ground(j)' = Ground(j)
  BY <1>1, InChestSame, GroundSame
<1>9. GoodsAccounted'
  <2>0. inventory'[c][k] \in Nat
    BY <1>4
  <2>1. (Own(k)' - Own(k)) + (Ground(k)' - Ground(k))
        + (InChest(k, chest') - InChest(k, chest)) + (spilt'[k] - spilt[k])
        + (clipped'[k] - clipped[k]) = made'[k] - made[k]
    BY <1>1, <1>3, <1>4, <1>5, <1>7, <1>8, <2>0, FieldTypes
  <2>2. \A j \in Kinds \ {k} :
           /\ Own(j)' = Own(j) /\ Ground(j)' = Ground(j)
           /\ InChest(j, chest') = InChest(j, chest) /\ made'[j] = made[j]
           /\ spilt'[j] = spilt[j] /\ clipped'[j] = clipped[j]
    BY <1>1, <1>4, <1>7, <1>8
  <2> QED
    BY <1>6, <2>1, <2>2, Moved
<1> QED
  BY <1>6, <1>7, <1>8, <1>9 DEF GoodsInv, GoodsKept

(* The same, for the terms themselves.                                     *)
LEMMA ReplaceTotal ==
  \A s \in Seq(Entries) : \A k \in Kinds, i \in DOMAIN s, e \in Entries :
    InChest(k, [s EXCEPT ![i] = e])
      = InChest(k, s) - OfKind(k, s[i]) + OfKind(k, e)
BY ChestReplace

LEMMA AppendTotal ==
  \A s \in Seq(Entries) : \A k \in Kinds, e \in Entries :
    InChest(k, Append(s, e)) = InChest(k, s) + OfKind(k, e)
BY ChestAppend, Zenon

LEMMA PrependTotal ==
  \A s \in Seq(Entries) : \A k \in Kinds, e \in Entries :
    InChest(k, <<e>> \o s) = InChest(k, s) + OfKind(k, e)
BY ChestPrepend, Zenon

LEMMA RemoveTotal ==
  \A s \in Seq(Entries) : \A k \in Kinds, i \in DOMAIN s :
    /\ RemoveAt(s, i) \in Seq(Entries) /\ Len(RemoveAt(s, i)) = Len(s) - 1
    /\ \A j \in DOMAIN RemoveAt(s, i) :
         RemoveAt(s, i)[j] = s[IF j < i THEN j ELSE j + 1]
    /\ InChest(k, RemoveAt(s, i)) = InChest(k, s) - OfKind(k, s[i])
BY ChestRemove

(* An entry has changed its amount, and has its slot still or none.        *)
LEMMA EntryChanged ==
  ASSUME GoodsTypes, SpawnsOnce, NEW k \in Kinds, NEW i \in DOMAIN chest,
         NEW e \in Entries, chest[i].kind = k, e.kind = k,
         e.slot = chest[i].slot \/ e.slot = 0,
         chest' = [chest EXCEPT ![i] = e]
  PROVE  /\ chest' \in Seq(Entries) /\ SpawnsOnce'
         /\ \A j \in Kinds \ {k} : InChest(j, chest') = InChest(j, chest)
         /\ InChest(k, chest') = InChest(k, chest) + (e.amount - chest[i].amount)
<1>1. chest \in Seq(Entries)
  BY DEF GoodsTypes
<1>2. \A j \in Kinds :
        /\ chest' \in Seq(Entries) /\ Len(chest') = Len(chest)
        /\ DOMAIN chest' = DOMAIN chest
        /\ chest'[i] = e /\ \A x \in DOMAIN chest \ {i} : chest'[x] = chest[x]
        /\ InChest(j, chest') = InChest(j, chest) - OfKind(j, chest[i])
                                + OfKind(j, e)
  <2>1. /\ chest' \in Seq(Entries) /\ Len(chest') = Len(chest)
        /\ DOMAIN chest' = DOMAIN chest
        /\ chest'[i] = e /\ \A x \in DOMAIN chest \ {i} : chest'[x] = chest[x]
    BY <1>1
  <2>2. \A j \in Kinds : InChest(j, chest') = InChest(j, chest)
                                            - OfKind(j, chest[i]) + OfKind(j, e)
    BY <1>1, ReplaceTotal, Zenon
  <2> QED
    BY <2>1, <2>2
<1>3. chest[i] \in Entries /\ chest[i].amount \in Nat /\ e.amount \in Nat
  BY <1>1, EntryFields
<1>4. \A j \in Kinds : InChest(j, chest) \in Nat
  BY <1>1, InChestType
<1>5. /\ OfKind(k, chest[i]) = chest[i].amount /\ OfKind(k, e) = e.amount
      /\ \A j \in Kinds \ {k} : OfKind(j, chest[i]) = 0 /\ OfKind(j, e) = 0
  BY DEF OfKind
<1>6. InChest(k, chest') = InChest(k, chest) + (e.amount - chest[i].amount)
  <2>1. InChest(k, chest') = InChest(k, chest) - chest[i].amount + e.amount
    BY <1>2, <1>5
  <2>2. InChest(k, chest) \in Nat
    BY <1>4
  <2> QED
    BY <1>3, <2>1, <2>2
<1>7. \A j \in Kinds \ {k} : InChest(j, chest') = InChest(j, chest)
  <2> SUFFICES ASSUME NEW j \in Kinds \ {k}
               PROVE  InChest(j, chest') = InChest(j, chest)
    OBVIOUS
  <2>1. InChest(j, chest') = InChest(j, chest) - 0 + 0
    BY <1>2, <1>5
  <2>2. InChest(j, chest) \in Nat
    BY <1>4
  <2> QED
    BY <2>1, <2>2
<1>8. SpawnsOnce'
  <2>1. Len(chest') <= ChestSlots
    BY <1>2 DEF SpawnsOnce
  <2>2. ASSUME NEW x \in DOMAIN chest, NEW y \in DOMAIN chest,
               chest'[x].slot = chest'[y].slot, chest'[x].slot # 0
        PROVE  x = y
    <3>1. \A z \in DOMAIN chest : chest'[z].slot = chest[z].slot
                                  \/ chest'[z].slot = 0
      BY <1>2
    <3> QED
      BY <2>2, <3>1 DEF SpawnsOnce
  <2> QED
    BY <1>2, <2>1, <2>2 DEF SpawnsOnce
<1> QED
  BY <1>2, <1>6, <1>7, <1>8

LEMMA ChestAddKeeps ==
  ASSUME GoodsInv, NEW c \in Owners, NEW k \in Kinds, NEW n \in 1..MaxItem,
         Chest_Add(c, k, n)
  PROVE  GoodsInv'
<1> GoodsTypes /\ HandsSuffice /\ CarriesAtMost /\ SpawnsOnce
  BY InvParts
<1> PICK m : m = Least(n, MaxChest - ChestHas(k))
  OBVIOUS
<1>0. m \in Nat \ {0} /\ m <= inventory[c][k] /\ inventory[c][k] \in Nat
  <2>1. n \in Nat /\ ChestHas(k) \in Nat /\ MaxChest \in Nat /\ m > 0
        /\ inventory[c][k] >= m /\ inventory[c][k] \in Nat
    BY Constants, ChestHasType DEF Chest_Add, GoodsTypes
  <2> QED
    BY <2>1 DEF Least
<1>1. DelItem(c, k, m)
      /\ UNCHANGED <<paperdoll, locker, ground, made, spilt, clipped>>
  BY DEF Chest_Add, worn, history
<1>2. /\ chest' \in Seq(Entries) /\ SpawnsOnce'
      /\ \A j \in Kinds \ {k} : InChest(j, chest') = InChest(j, chest)
      /\ InChest(k, chest') = InChest(k, chest) + m
  <2>1. CASE EntryOf(k) # {} /\ chest' = [chest EXCEPT ![First(k)].amount = @ + m]
    <3> PICK i : i = First(k)
      OBVIOUS
    <3> DEFINE e == [chest[i] EXCEPT !.amount = @ + m]
    <3>1. i \in DOMAIN chest /\ chest[i] \in Entries /\ chest[i].kind = k
      BY <2>1, FirstEntry
    <3>2. chest' = [chest EXCEPT ![i] = e]
      BY <2>1
    <3>3. e \in Entries /\ e.kind = k /\ e.slot = chest[i].slot
          /\ e.amount = chest[i].amount + m /\ chest[i].amount \in Nat
      BY <1>0, <3>1, EntryFields DEF Entries
    <3> HIDE DEF e
    <3>4. /\ chest' \in Seq(Entries) /\ SpawnsOnce'
          /\ \A j \in Kinds \ {k} : InChest(j, chest') = InChest(j, chest)
          /\ InChest(k, chest') = InChest(k, chest) + (e.amount - chest[i].amount)
      BY <3>1, <3>2, <3>3, EntryChanged
    <3> QED
      BY <1>0, <3>3, <3>4, FieldTypes
  <2>2. CASE /\ EntryOf(k) = {} /\ Len(chest) < ChestSlots
             /\ chest' = Append(chest, [kind |-> k, amount |-> m, slot |-> 0])
    <3> DEFINE e == [kind |-> k, amount |-> m, slot |-> 0]
    <3>1. e \in Entries /\ chest' = Append(chest, e) /\ e.slot = 0
          /\ \A j \in Kinds : OfKind(j, e) = IF j = k THEN m ELSE 0
      BY <1>0, <2>2 DEF Entries, OfKind
    <3> HIDE DEF e
    <3>2. chest \in Seq(Entries) /\ DOMAIN chest = 1..Len(chest)
          /\ Len(chest) \in Nat /\ ChestSlots \in Nat
      BY Constants DEF GoodsTypes
    <3>3. \A j \in Kinds :
            /\ chest' \in Seq(Entries) /\ Len(chest') = Len(chest) + 1
            /\ chest'[Len(chest) + 1] = e
            /\ \A x \in DOMAIN chest : chest'[x] = chest[x]
            /\ DOMAIN chest' = DOMAIN chest \cup {Len(chest) + 1}
            /\ InChest(j, chest') = InChest(j, chest) + OfKind(j, e)
      <4>1. /\ chest' \in Seq(Entries) /\ Len(chest') = Len(chest) + 1
            /\ chest'[Len(chest) + 1] = e
            /\ \A x \in DOMAIN chest : chest'[x] = chest[x]
            /\ DOMAIN chest' = DOMAIN chest \cup {Len(chest) + 1}
        BY <3>1, <3>2
      <4>2. \A j \in Kinds : InChest(j, chest') = InChest(j, chest) + OfKind(j, e)
        BY <3>1, <3>2, AppendTotal, Zenon
      <4> QED
        BY <4>1, <4>2
    <3>4. \A j \in Kinds : InChest(j, chest) \in Nat
      BY <3>2, InChestType
    <3>5. SpawnsOnce'
      <4>1. Len(chest') <= ChestSlots
        BY <2>2, <3>2, <3>3
      <4>2. ASSUME NEW x \in DOMAIN chest', NEW y \in DOMAIN chest',
                   chest'[x].slot = chest'[y].slot, chest'[x].slot # 0
            PROVE  x = y
        <5>1. x # Len(chest) + 1 /\ y # Len(chest) + 1
          BY <3>1, <3>3, <4>2
        <5>2. x \in DOMAIN chest /\ y \in DOMAIN chest
          BY <3>3, <5>1
        <5> QED
          BY <3>3, <4>2, <5>2 DEF SpawnsOnce
      <4> QED
        BY <4>1, <4>2 DEF SpawnsOnce
    <3> QED
      BY <1>0, <3>1, <3>3, <3>4, <3>5
  <2> QED
    BY <2>1, <2>2 DEF Chest_Add
<1>3. /\ inventory' \in [Owners -> [Kinds -> Nat]]
      /\ \A d \in Owners \ {c} : inventory'[d] = inventory[d]
      /\ \A j \in Kinds \ {k} : inventory'[c][j] = inventory[c][j]
      /\ inventory'[c][k] = inventory[c][k] - m
  BY <1>0, <1>1, ItemDeleted
<1>4. GoodsTypes'
  BY <1>1, <1>2, <1>3 DEF GoodsTypes
<1>5. /\ \A j \in Kinds \ {k} : Own(j)' = Own(j)
      /\ Own(k)' = Own(k) + (inventory'[c][k] - inventory[c][k])
                          + (locker'[c][k] - locker[c][k])
      /\ HandsSuffice' /\ CarriesAtMost'
  <2>1. inventory'[c][k] <= inventory[c][k] + 0 /\ 0 \in Nat
    BY <1>0, <1>3
  <2> QED
    BY <1>1, <1>3, <1>4, <2>1, HoldingMoved
<1>6. \A j \in Kinds : Ground(j)' = Ground(j)
  BY <1>1, GroundSame
<1>7. GoodsAccounted'
  <2>1. (Own(k)' - Own(k)) + (Ground(k)' - Ground(k))
        + (InChest(k, chest') - InChest(k, chest)) + (spilt'[k] - spilt[k])
        + (clipped'[k] - clipped[k]) = made'[k] - made[k]
    <3>1. /\ Own(k)' - Own(k) = -m /\ Ground(k)' - Ground(k) = 0
          /\ spilt'[k] - spilt[k] = 0 /\ clipped'[k] - clipped[k] = 0
          /\ made'[k] - made[k] = 0
      BY <1>0, <1>1, <1>3, <1>5, <1>6, FieldTypes
    <3>2. InChest(k, chest') - InChest(k, chest) = m
      BY <1>0, <1>2, FieldTypes
    <3> QED
      BY <1>0, <3>1, <3>2
  <2>2. \A j \in Kinds \ {k} :
           /\ Own(j)' = Own(j) /\ Ground(j)' = Ground(j)
           /\ InChest(j, chest') = InChest(j, chest) /\ made'[j] = made[j]
           /\ spilt'[j] = spilt[j] /\ clipped'[j] = clipped[j]
    BY <1>1, <1>2, <1>5, <1>6
  <2> QED
    BY <1>4, <2>1, <2>2, Moved
<1> QED
  BY <1>2, <1>4, <1>5, <1>7 DEF GoodsInv, GoodsKept

LEMMA ChestTakeKeeps ==
  ASSUME GoodsInv, NEW c \in Owners, NEW k \in Kinds, Chest_Take(c, k)
  PROVE  GoodsInv'
<1> GoodsTypes /\ HandsSuffice /\ CarriesAtMost /\ SpawnsOnce
  BY InvParts
<1> PICK n : n = CanHoldItem(c, k, ChestHas(k))
  OBVIOUS
<1>1. n > 0 /\ AddItem(c, k, n)
      /\ UNCHANGED <<paperdoll, locker, ground, made, spilt>>
  BY DEF Chest_Take, worn
<1>2. ChestHas(k) \in Nat
  BY ChestHasType
<1>3. n \in Nat \ {0} /\ n <= ChestHas(k)
      /\ WeightOf(c) + Weight[k] * n <= MaxWeight
  BY <1>1, <1>2, CanHold
<1> PICK i : i = First(k)
  OBVIOUS
<1>4. i \in DOMAIN chest /\ chest[i] \in Entries /\ chest[i].kind = k
      /\ ChestHas(k) = chest[i].amount /\ OfKind(k, chest[i]) = ChestHas(k)
  <2>1. EntryOf(k) # {}
    BY <1>2, <1>3, ChestHasType
  <2> QED
    BY <2>1, FirstEntry
<1>5. /\ chest' \in Seq(Entries) /\ SpawnsOnce'
      /\ \A j \in Kinds \ {k} : InChest(j, chest') = InChest(j, chest)
      /\ InChest(k, chest') = InChest(k, chest) - n
  <2>1. CASE n < ChestHas(k)
    <3> DEFINE e == [chest[i] EXCEPT !.amount = @ - n, !.slot = 0]
    <3>1. chest' = [chest EXCEPT ![i] = e]
      BY <2>1 DEF Chest_Take
    <3>2. e \in Entries /\ e.kind = k /\ e.slot = 0
          /\ e.amount = chest[i].amount - n /\ chest[i].amount \in Nat
      <4>1. chest[i].amount - n \in Nat \ {0} /\ chest[i].amount \in Nat
        BY <1>2, <1>3, <1>4, <2>1
      <4> QED
        BY <1>4, <4>1 DEF Entries
    <3> HIDE DEF e
    <3>3. /\ chest' \in Seq(Entries) /\ SpawnsOnce'
          /\ \A j \in Kinds \ {k} : InChest(j, chest') = InChest(j, chest)
          /\ InChest(k, chest') = InChest(k, chest) + (e.amount - chest[i].amount)
      BY <1>4, <3>1, <3>2, EntryChanged
    <3> QED
      BY <1>3, <3>2, <3>3, FieldTypes
  <2>2. CASE ~(n < ChestHas(k))
    <3>1. chest' = RemoveAt(chest, i)
      BY <2>2 DEF Chest_Take
    <3>2. chest \in Seq(Entries) /\ DOMAIN chest = 1..Len(chest)
          /\ Len(chest) \in Nat /\ ChestSlots \in Nat /\ i \in 1..Len(chest)
      BY <1>4, Constants DEF GoodsTypes
    <3>3. \A j \in Kinds :
            /\ chest' \in Seq(Entries) /\ Len(chest') = Len(chest) - 1
            /\ \A x \in DOMAIN chest' : chest'[x] = chest[IF x < i THEN x ELSE x + 1]
            /\ InChest(j, chest') = InChest(j, chest) - OfKind(j, chest[i])
      BY <1>4, <3>1, <3>2, RemoveTotal, Zenon
    <3>4. \A j \in Kinds \ {k} : OfKind(j, chest[i]) = 0 /\ InChest(j, chest) \in Nat
      BY <1>4, <3>2, InChestType DEF OfKind
    <3>5. n = OfKind(k, chest[i])
      BY <1>2, <1>3, <1>4, <2>2
    <3>6. SpawnsOnce'
      <4>1. Len(chest') <= ChestSlots /\ DOMAIN chest' = 1..(Len(chest) - 1)
        <5>1. chest' \in Seq(Entries) /\ Len(chest') = Len(chest) - 1
          BY <3>3
        <5> QED
          BY <3>2, <5>1 DEF SpawnsOnce
      <4>2. ASSUME NEW x \in DOMAIN chest', NEW y \in DOMAIN chest',
                   chest'[x].slot = chest'[y].slot, chest'[x].slot # 0
            PROVE  x = y
        <5> DEFINE a == IF x < i THEN x ELSE x + 1
                   b == IF y < i THEN y ELSE y + 1
        <5>1. a \in DOMAIN chest /\ b \in DOMAIN chest /\ (a = b => x = y)
          BY <3>2, <4>1
        <5>2. chest'[x] = chest[a] /\ chest'[y] = chest[b]
          BY <3>3
        <5> HIDE DEF a, b
        <5>3. a = b
          BY <4>2, <5>1, <5>2 DEF SpawnsOnce
        <5> QED
          BY <5>1, <5>3
      <4> QED
        BY <4>1, <4>2 DEF SpawnsOnce
    <3> QED
      BY <3>3, <3>4, <3>5, <3>6
  <2> QED
    BY <2>1, <2>2
<1>6. /\ inventory' \in [Owners -> [Kinds -> Nat]]
      /\ clipped' \in [Kinds -> Int]
      /\ \A d \in Owners \ {c} : inventory'[d] = inventory[d]
      /\ \A j \in Kinds \ {k} : inventory'[c][j] = inventory[c][j]
                                /\ clipped'[j] = clipped[j]
      /\ inventory'[c][k] <= inventory[c][k] + n
      /\ clipped'[k] = clipped[k] + (inventory[c][k] + n - inventory'[c][k])
  BY <1>1, <1>3, ItemAdded
<1>7. GoodsTypes'
  BY <1>1, <1>5, <1>6 DEF GoodsTypes
<1>8. /\ \A j \in Kinds \ {k} : Own(j)' = Own(j)
      /\ Own(k)' = Own(k) + (inventory'[c][k] - inventory[c][k])
                          + (locker'[c][k] - locker[c][k])
      /\ HandsSuffice' /\ CarriesAtMost'
  BY <1>1, <1>3, <1>6, <1>7, HoldingMoved
<1>9. \A j \in Kinds : Ground(j)' = Ground(j)
  BY <1>1, GroundSame
<1>10. GoodsAccounted'
  <2>0. inventory'[c][k] \in Nat
    BY <1>6
  <2>1. (Own(k)' - Own(k)) + (Ground(k)' - Ground(k))
        + (InChest(k, chest') - InChest(k, chest)) + (spilt'[k] - spilt[k])
        + (clipped'[k] - clipped[k]) = made'[k] - made[k]
    <3>1. /\ Own(k)' - Own(k) = inventory'[c][k] - inventory[c][k]
          /\ Ground(k)' - Ground(k) = 0 /\ spilt'[k] - spilt[k] = 0
          /\ clipped'[k] - clipped[k] = inventory[c][k] + n - inventory'[c][k]
          /\ made'[k] - made[k] = 0
      BY <1>1, <1>3, <1>6, <1>8, <1>9, <2>0, FieldTypes
    <3>2. InChest(k, chest') - InChest(k, chest) = -n
      BY <1>3, <1>5, FieldTypes
    <3> QED
      BY <1>3, <2>0, <3>1, <3>2, FieldTypes
  <2>2. \A j \in Kinds \ {k} :
           /\ Own(j)' = Own(j) /\ Ground(j)' = Ground(j)
           /\ InChest(j, chest') = InChest(j, chest) /\ made'[j] = made[j]
           /\ spilt'[j] = spilt[j] /\ clipped'[j] = clipped[j]
    BY <1>1, <1>5, <1>6, <1>8, <1>9
  <2> QED
    BY <1>7, <2>1, <2>2, Moved
<1> QED
  BY <1>5, <1>7, <1>8, <1>10 DEF GoodsInv, GoodsKept

LEMMA ChestSpawnKeeps ==
  ASSUME GoodsInv, NEW s \in SpawnSlots, ChestSpawn(s)
  PROVE  GoodsInv'
<1> GoodsTypes /\ HandsSuffice /\ CarriesAtMost /\ SpawnsOnce
  BY InvParts
<1> PICK k \in Kinds : k = SpawnKind[s]
  BY Constants
<1> DEFINE e == [kind |-> k, amount |-> 1, slot |-> s]
<1>1. /\ UNCHANGED <<inventory, paperdoll, locker, ground, spilt, clipped>>
      /\ made' = [made EXCEPT ![k] = @ + 1] /\ chest' = <<e>> \o chest
      /\ SlotFree(s) /\ Len(chest) < ChestSlots
  BY DEF ChestSpawn, worn
<1>2. e \in Entries /\ e.slot = s
      /\ \A j \in Kinds : OfKind(j, e) = IF j = k THEN 1 ELSE 0
  BY DEF Entries, OfKind
<1> HIDE DEF e
<1>3. chest \in Seq(Entries) /\ DOMAIN chest = 1..Len(chest)
      /\ Len(chest) \in Nat /\ ChestSlots \in Nat
  BY Constants DEF GoodsTypes
<1>4. \A j \in Kinds :
        /\ chest' \in Seq(Entries) /\ Len(chest') = Len(chest) + 1
        /\ chest'[1] = e /\ \A x \in DOMAIN chest : chest'[x + 1] = chest[x]
        /\ InChest(j, chest') = InChest(j, chest) + OfKind(j, e)
  <2>1. /\ chest' \in Seq(Entries) /\ Len(chest') = Len(chest) + 1
        /\ chest'[1] = e /\ \A x \in DOMAIN chest : chest'[x + 1] = chest[x]
    BY <1>1, <1>2, <1>3
  <2>2. \A j \in Kinds : InChest(j, chest') = InChest(j, chest) + OfKind(j, e)
    BY <1>1, <1>2, <1>3, PrependTotal, Zenon
  <2> QED
    BY <2>1, <2>2
<1>5. SpawnsOnce'
  <2>1. Len(chest') <= ChestSlots /\ DOMAIN chest' = 1..(Len(chest) + 1)
    BY <1>1, <1>3, <1>4
  <2>2. \A x \in DOMAIN chest' \ {1} : x - 1 \in DOMAIN chest
                                       /\ chest'[x] = chest[x - 1]
    <3> SUFFICES ASSUME NEW x \in DOMAIN chest' \ {1}
                 PROVE  x - 1 \in DOMAIN chest /\ chest'[x] = chest[x - 1]
      OBVIOUS
    <3>1. x - 1 \in DOMAIN chest /\ (x - 1) + 1 = x
      BY <1>3, <2>1
    <3>2. chest'[(x - 1) + 1] = chest[x - 1]
      BY <1>4, <3>1
    <3> QED
      BY <3>1, <3>2
  <2>3. \A x \in DOMAIN chest' \ {1} : chest'[x].slot # s
    BY <1>1, <2>2 DEF SlotFree
  <2>4. ASSUME NEW x \in DOMAIN chest', NEW y \in DOMAIN chest',
               chest'[x].slot = chest'[y].slot, chest'[x].slot # 0
        PROVE  x = y
    <3>1. CASE x = 1 \/ y = 1
      BY <1>2, <1>4, <2>3, <2>4, <3>1
    <3>2. CASE x # 1 /\ y # 1
      <4>1. x - 1 = y - 1
        BY <2>2, <2>4, <3>2 DEF SpawnsOnce
      <4> QED
        BY <1>3, <2>1, <4>1
    <3> QED
      BY <3>1, <3>2
  <2> QED
    BY <2>1, <2>4 DEF SpawnsOnce
<1>6. made' \in [Kinds -> Int] /\ made'[k] = made[k] + 1
      /\ \A j \in Kinds \ {k} : made'[j] = made[j]
  BY <1>1 DEF GoodsTypes
<1>7. GoodsTypes'
  BY <1>1, <1>4, <1>6 DEF GoodsTypes
<1>8. HandsSuffice' /\ CarriesAtMost'
  BY <1>1 DEF HandsSuffice, CarriesAtMost, WeightOf, Worn
<1>9. \A j \in Kinds : Own(j)' = Own(j) /\ Ground(j)' = Ground(j)
  BY <1>1, OwnSame, GroundSame
<1>10. GoodsAccounted'
  <2>0. /\ \A j \in Kinds : InChest(j, chest) \in Nat
        /\ Own(k) \in Nat /\ Ground(k) \in Nat
        /\ made[k] \in Int /\ spilt[k] \in Int /\ clipped[k] \in Int
    BY PlacesCounted DEF GoodsTypes
  <2>1. (Own(k)' - Own(k)) + (Ground(k)' - Ground(k))
        + (InChest(k, chest') - InChest(k, chest)) + (spilt'[k] - spilt[k])
        + (clipped'[k] - clipped[k]) = made'[k] - made[k]
    BY <1>1, <1>2, <1>4, <1>6, <1>9, <2>0
  <2>2. \A j \in Kinds \ {k} :
           /\ Own(j)' = Own(j) /\ Ground(j)' = Ground(j)
           /\ InChest(j, chest') = InChest(j, chest) /\ made'[j] = made[j]
           /\ spilt'[j] = spilt[j] /\ clipped'[j] = clipped[j]
    <3> SUFFICES ASSUME NEW j \in Kinds \ {k}
                 PROVE  /\ Own(j)' = Own(j) /\ Ground(j)' = Ground(j)
                        /\ InChest(j, chest') = InChest(j, chest)
                        /\ made'[j] = made[j] /\ spilt'[j] = spilt[j]
                        /\ clipped'[j] = clipped[j]
      OBVIOUS
    <3>1. InChest(j, chest') = InChest(j, chest) + 0 /\ InChest(j, chest) \in Nat
      BY <1>2, <1>4, <2>0
    <3> QED
      BY <1>1, <1>6, <1>9, <3>1
  <2> QED
    BY <1>7, <2>1, <2>2, Moved
<1> QED
  BY <1>5, <1>7, <1>8, <1>10 DEF GoodsInv, GoodsKept

LEMMA ReloadKeeps ==
  ASSUME GoodsInv, ReloadChests
  PROVE  GoodsInv'
<1> GoodsTypes /\ HandsSuffice /\ CarriesAtMost /\ SpawnsOnce
  BY InvParts
<1>1. /\ UNCHANGED <<inventory, paperdoll, locker, ground, spilt, clipped>>
      /\ chest' = <<>>
      /\ made' = [j \in Kinds |-> made[j] - InChest(j, chest)]
  BY DEF ReloadChests, worn
<1>2. \A j \in Kinds : /\ made[j] \in Int /\ spilt[j] \in Int /\ clipped[j] \in Int
                       /\ InChest(j, chest) \in Nat
                       /\ Own(j) \in Nat /\ Ground(j) \in Nat
  BY PlacesCounted DEF GoodsTypes
<1>3. made' \in [Kinds -> Int]
      /\ \A j \in Kinds : made'[j] - made[j] = - InChest(j, chest)
  BY <1>1, <1>2
<1>4. \A j \in Kinds : InChest(j, chest') = 0
  BY <1>1, TotalEmpty DEF InChest
<1>5. GoodsTypes'
  BY <1>1, <1>3 DEF GoodsTypes
<1>6. HandsSuffice' /\ CarriesAtMost' /\ SpawnsOnce'
  BY <1>1, Constants DEF HandsSuffice, CarriesAtMost, WeightOf, Worn, SpawnsOnce
<1>7. \A j \in Kinds : Own(j)' = Own(j) /\ Ground(j)' = Ground(j)
  BY <1>1, OwnSame, GroundSame
<1>8. \A k \in Kinds :
        (Own(k)' - Own(k)) + (Ground(k)' - Ground(k))
        + (InChest(k, chest') - InChest(k, chest)) + (spilt'[k] - spilt[k])
        + (clipped'[k] - clipped[k]) = made'[k] - made[k]
  BY <1>1, <1>2, <1>3, <1>4, <1>7
<1>9. GoodsAccounted'
  BY <1>5, <1>8, Accounted
<1> QED
  BY <1>5, <1>6, <1>9 DEF GoodsInv, GoodsKept

-----------------------------------------------------------------------------
\* The paperdoll.

Off(shed, c, k) == Cardinality(shed \cap Worn(c, k))

(* What c wore at the places of off it wears no longer.                    *)
LEMMA TakenOff ==
  ASSUME GoodsTypes, NEW c \in Owners, NEW shed \in SUBSET Slots,
         paperdoll' = [paperdoll EXCEPT ![c] = [s \in Slots |->
                         IF s \in shed THEN None ELSE paperdoll[c][s]]]
  PROVE  /\ paperdoll' \in [Owners -> [Slots -> Kinds \cup {None}]]
         /\ \A d \in Owners \ {c} : paperdoll'[d] = paperdoll[d]
         /\ HandsSuffice => HandsSuffice'
         /\ \A j \in Kinds :
              /\ Cardinality(Worn(c, j)) \in Nat
              /\ Off(shed, c, j) \in Nat
              /\ Cardinality(Worn(c, j))'
                   = Cardinality(Worn(c, j)) - Off(shed, c, j)
<1> DEFINE doll == [s \in Slots |-> IF s \in shed THEN None ELSE paperdoll[c][s]]
<1>1. paperdoll' = [paperdoll EXCEPT ![c] = doll]
  OBVIOUS
<1>2. doll \in [Slots -> Kinds \cup {None}]
      /\ \A s \in Slots : doll[s] = IF s \in shed THEN None ELSE paperdoll[c][s]
  BY DEF GoodsTypes
<1> HIDE DEF doll
<1>3. /\ paperdoll' \in [Owners -> [Slots -> Kinds \cup {None}]]
      /\ \A d \in Owners \ {c} : paperdoll'[d] = paperdoll[d]
      /\ paperdoll'[c] = doll
  BY <1>1, <1>2 DEF GoodsTypes
<1>4. None \notin Kinds /\ None \notin TwoHanded /\ None \notin Shields
  BY GoodsAssumption
<1>5. HandsSuffice => HandsSuffice'
  <2> SUFFICES ASSUME HandsSuffice, NEW d \in Owners, NEW s \in Slots, NEW t \in Slots,
                      paperdoll'[d][s] \in TwoHanded, paperdoll'[d][t] \in Shields
               PROVE  FALSE
    BY DEF HandsSuffice
  <2>1. paperdoll[d][s] \in TwoHanded /\ paperdoll[d][t] \in Shields
    <3>1. CASE d = c
      BY <1>2, <1>3, <1>4, <3>1
    <3>2. CASE d # c
      BY <1>3, <3>2
    <3> QED
      BY <3>1, <3>2
  <2> QED
    BY <2>1 DEF HandsSuffice
<1>6. ASSUME NEW j \in Kinds
      PROVE  /\ Cardinality(Worn(c, j)) \in Nat
             /\ Off(shed, c, j) \in Nat
             /\ Cardinality(Worn(c, j))'
                  = Cardinality(Worn(c, j)) - Off(shed, c, j)
  <2> DEFINE W == Worn(c, j)
  <2>1. Worn(c, j)' = W \ shed
    BY <1>2, <1>3, <1>4 DEF Worn
  <2>2. IsFiniteSet(W) /\ IsFiniteSet(shed) /\ IsFiniteSet(shed \cap W)
    BY GoodsAssumption, WornFinite, FS_Subset
  <2> PICK V : V = W
    OBVIOUS
  <2>3. Cardinality(V \ shed) = Cardinality(V) - Cardinality(V \cap shed)
    BY <2>2, FS_Difference
  <2>4. Cardinality(V) \in Nat /\ Cardinality(shed \cap V) \in Nat
    BY <2>2, FS_CardinalityType
  <2>5. V \cap shed = shed \cap V
    OBVIOUS
  <2> HIDE DEF W
  <2>6. Cardinality(Worn(c, j))' = Cardinality(V \ shed)
    BY <2>1
  <2> QED
    BY <2>3, <2>4, <2>5, <2>6 DEF W, Off
<1> QED
  BY <1>3, <1>5, <1>6

LEMMA EquipKeeps ==
  ASSUME GoodsInv, NEW c \in Owners, NEW k \in Kinds, NEW s \in Slots,
         Equip(c, k, s)
  PROVE  GoodsInv'
<1> GoodsTypes /\ HandsSuffice /\ CarriesAtMost /\ SpawnsOnce
  BY InvParts
<1>1. /\ inventory[c][k] \in Nat /\ inventory[c][k] > 0 /\ ~HandsFull(c, k)
      /\ paperdoll[c][s] = None /\ paperdoll' = [paperdoll EXCEPT ![c][s] = k]
      /\ DelItem(c, k, 1)
      /\ UNCHANGED <<locker, ground, chest, made, spilt, clipped>>
  BY DEF Equip, history, GoodsTypes
<1>2. /\ inventory' \in [Owners -> [Kinds -> Nat]]
      /\ \A d \in Owners \ {c} : inventory'[d] = inventory[d]
      /\ \A j \in Kinds \ {k} : inventory'[c][j] = inventory[c][j]
      /\ inventory'[c][k] = inventory[c][k] - 1
  BY <1>1, ItemDeleted
<1>3. /\ paperdoll' \in [Owners -> [Slots -> Kinds \cup {None}]]
      /\ \A d \in Owners \ {c} : paperdoll'[d] = paperdoll[d]
      /\ paperdoll'[c][s] = k
      /\ \A t \in Slots \ {s} : paperdoll'[c][t] = paperdoll[c][t]
  BY <1>1 DEF GoodsTypes
<1>4. GoodsTypes'
  BY <1>1, <1>2, <1>3 DEF GoodsTypes
<1>5. None \notin Kinds /\ TwoHanded \cap Shields = {}
  BY GoodsAssumption
<1>6. HandsSuffice'
  <2> SUFFICES ASSUME NEW d \in Owners, NEW x \in Slots, NEW y \in Slots,
                      paperdoll'[d][x] \in TwoHanded, paperdoll'[d][y] \in Shields
               PROVE  FALSE
    BY DEF HandsSuffice
  <2>1. CASE d # c
    BY <1>3, <2>1 DEF HandsSuffice
  <2>2. CASE d = c /\ x # s /\ y # s
    BY <1>3, <2>2 DEF HandsSuffice
  <2>3. CASE d = c /\ (x = s \/ y = s)
    BY <1>1, <1>3, <1>5, <2>3 DEF HandsFull
  <2> QED
    BY <2>1, <2>2, <2>3
<1>7. \A j \in Kinds \ {k} : Worn(c, j)' = Worn(c, j)
  BY <1>1, <1>3, <1>5 DEF Worn
<1>8. /\ Cardinality(Worn(c, k))' = Cardinality(Worn(c, k)) + 1
      /\ Cardinality(Worn(c, k)) \in Nat
  <2>1. Worn(c, k)' = Worn(c, k) \cup {s} /\ s \notin Worn(c, k)
    BY <1>1, <1>3, <1>5 DEF Worn
  <2>2. IsFiniteSet(Worn(c, k)) /\ Cardinality(Worn(c, k)) \in Nat
    BY WornFinite
  <2> PICK V : V = Worn(c, k)
    OBVIOUS
  <2>3. Cardinality(V \cup {s}) = Cardinality(V) + 1
    BY <2>1, <2>2, FS_AddElement
  <2>4. Cardinality(Worn(c, k))' = Cardinality(V \cup {s})
    BY <2>1
  <2> QED
    BY <2>2, <2>3, <2>4
<1>9. \A j \in Kinds : Has(c, j)' = Has(c, j) /\ Carried(c, j)' = Carried(c, j)
  <2>1. /\ Has(c, k)' = inventory'[c][k] + locker'[c][k] + Cardinality(Worn(c, k))'
        /\ Carried(c, k)' = inventory'[c][k] + Cardinality(Worn(c, k))'
    BY DEF Has, Carried
  <2>2. locker[c][k] \in Nat /\ locker' = locker
    BY <1>1, FieldTypes
  <2>3. Has(c, k)' = Has(c, k) /\ Carried(c, k)' = Carried(c, k)
    <3>1. /\ Has(c, k) = inventory[c][k] + locker[c][k] + Cardinality(Worn(c, k))
          /\ Carried(c, k) = inventory[c][k] + Cardinality(Worn(c, k))
      BY DEF Has, Carried
    <3> QED
      BY <1>1, <1>2, <1>8, <2>1, <2>2, <3>1
  <2>4. \A j \in Kinds \ {k} : Has(c, j)' = Has(c, j) /\ Carried(c, j)' = Carried(c, j)
    BY <1>1, <1>2, <1>7 DEF Has, Carried
  <2> QED
    BY <2>3, <2>4
<1>10. \A d \in Owners \ {c} : /\ \A j \in Kinds : Has(d, j)' = Has(d, j)
                               /\ WeightOf(d)' = WeightOf(d)
  BY <1>1, <1>2, <1>3, OthersSame
<1>11. \A j \in Kinds : Own(j)' = Own(j)
  BY <1>9, <1>10 DEF Own
<1>12. WeightOf(c)' <= WeightOf(c)
  <2>1. \A j \in Kinds : Carried(c, j)' <= Carried(c, j)
    BY <1>9, AllCarry
  <2> QED
    BY <1>4, <2>1, WeightShrinks
<1>13. CarriesAtMost'
  <2>1. WeightOf(c) \in Nat /\ WeightOf(c)' \in Nat /\ MaxWeight \in Nat
    <3>1. (\A d \in Owners : WeightOf(d) \in Nat)'
      BY <1>4, AllWeigh, PTL
    <3> QED
      BY <3>1, AllWeigh, Constants
  <2>2. WeightOf(c)' <= MaxWeight
    BY <1>12, <2>1 DEF CarriesAtMost
  <2> QED
    BY <1>10, <2>2 DEF CarriesAtMost
<1>14. (\A j \in Kinds : InChest(j, chest') = InChest(j, chest)) /\ SpawnsOnce'
       /\ \A j \in Kinds : Ground(j)' = Ground(j)
  BY <1>1, InChestSame, GroundSame
<1>15. GoodsAccounted'
  <2>1. \A j \in Kinds : /\ Own(j) \in Nat /\ Ground(j) \in Nat
                         /\ InChest(j, chest) \in Nat /\ made[j] \in Int
                         /\ spilt[j] \in Int /\ clipped[j] \in Int
    BY PlacesCounted DEF GoodsTypes
  <2>2. \A j \in Kinds :
          (Own(j)' - Own(j)) + (Ground(j)' - Ground(j))
          + (InChest(j, chest') - InChest(j, chest)) + (spilt'[j] - spilt[j])
          + (clipped'[j] - clipped[j]) = made'[j] - made[j]
    BY <1>1, <1>11, <1>14, <2>1
  <2> QED
    BY <1>4, <2>2, Accounted
<1> QED
  BY <1>4, <1>6, <1>13, <1>14, <1>15 DEF GoodsInv, GoodsKept

(* c has taken something off, and has not come by more than that.          *)
LEMMA Unburdened ==
  ASSUME GoodsInv, GoodsTypes', NEW c \in Owners,
         \A d \in Owners \ {c} : /\ inventory'[d] = inventory[d]
                                 /\ paperdoll'[d] = paperdoll[d]
                                 /\ locker'[d] = locker[d],
         \A j \in Kinds : Carried(c, j)' <= Carried(c, j)
  PROVE  CarriesAtMost' /\ \A j \in Kinds : Own(j)' = Own(j) - Has(c, j) + Has(c, j)'
<1> GoodsTypes /\ CarriesAtMost
  BY InvParts
<1>1. \A d \in Owners \ {c} : /\ \A j \in Kinds : Has(d, j)' = Has(d, j)
                              /\ WeightOf(d)' = WeightOf(d)
  BY OthersSame
<1>2. WeightOf(c)' <= WeightOf(c)
  BY WeightShrinks
<1>3. WeightOf(c) \in Nat /\ WeightOf(c)' \in Nat /\ MaxWeight \in Nat
  <2>1. (\A d \in Owners : WeightOf(d) \in Nat)'
    BY GoodsTypes', AllWeigh, PTL
  <2> QED
    BY <2>1, AllWeigh, Constants
<1>4. WeightOf(c)' <= MaxWeight
  BY <1>2, <1>3 DEF CarriesAtMost
<1>5. CarriesAtMost'
  BY <1>1, <1>4 DEF CarriesAtMost
<1> QED
  BY <1>1, <1>5, OwnChanged

LEMMA UnequipKeeps ==
  ASSUME GoodsInv, NEW c \in Owners, NEW s \in Slots, Unequip(c, s)
  PROVE  GoodsInv'
<1> GoodsTypes /\ HandsSuffice /\ CarriesAtMost /\ SpawnsOnce
  BY InvParts
<1>0. paperdoll[c][s] \in Kinds
  BY DEF Unequip, GoodsTypes
<1> PICK k \in Kinds : k = paperdoll[c][s]
  BY <1>0
<1> PICK shed \in SUBSET Slots : shed = {s}
  OBVIOUS
<1>1. /\ AddItem(c, k, 1) /\ paperdoll' = [paperdoll EXCEPT ![c][s] = None]
      /\ UNCHANGED <<locker, ground, chest, made, spilt>>
  BY DEF Unequip
<1>2. /\ inventory' \in [Owners -> [Kinds -> Nat]]
      /\ clipped' \in [Kinds -> Int]
      /\ \A d \in Owners \ {c} : inventory'[d] = inventory[d]
      /\ \A j \in Kinds \ {k} : inventory'[c][j] = inventory[c][j]
                                /\ clipped'[j] = clipped[j]
      /\ inventory'[c][k] <= inventory[c][k] + 1
      /\ clipped'[k] = clipped[k] + (inventory[c][k] + 1 - inventory'[c][k])
  <2>1. 1 \in Nat
    OBVIOUS
  <2> QED
    BY <1>1, <2>1, ItemAdded
<1>3. /\ paperdoll' \in [Owners -> [Slots -> Kinds \cup {None}]]
      /\ \A d \in Owners \ {c} : paperdoll'[d] = paperdoll[d]
      /\ HandsSuffice'
      /\ \A j \in Kinds :
              /\ Cardinality(Worn(c, j)) \in Nat
              /\ Off(shed, c, j) \in Nat
              /\ Cardinality(Worn(c, j))'
                   = Cardinality(Worn(c, j)) - Off(shed, c, j)
  <2>1. paperdoll' = [paperdoll EXCEPT ![c] = [t \in Slots |->
                        IF t \in shed THEN None ELSE paperdoll[c][t]]]
    <3>1. paperdoll[c] \in [Slots -> Kinds \cup {None}]
          /\ paperdoll \in [Owners -> [Slots -> Kinds \cup {None}]]
      BY DEF GoodsTypes
    <3>2. [paperdoll[c] EXCEPT ![s] = None]
            = [t \in Slots |-> IF t \in shed THEN None ELSE paperdoll[c][t]]
      BY <3>1
    <3> QED
      BY <1>1, <3>1, <3>2
  <2> QED
    BY <2>1, TakenOff
<1>4. /\ Off(shed, c, k) = 1
      /\ \A j \in Kinds \ {k} : Off(shed, c, j) = 0
  <2>1. shed \cap Worn(c, k) = {s} /\ \A j \in Kinds \ {k} : shed \cap Worn(c, j) = {}
    BY DEF Worn
  <2>2. Cardinality({s}) = 1 /\ Cardinality({}) = 0
    BY FS_Singleton, FS_EmptySet
  <2> QED
    BY <2>1, <2>2 DEF Off
<1>5. GoodsTypes'
  BY <1>1, <1>2, <1>3 DEF GoodsTypes
<1>6. \A j \in Kinds :
        /\ Has(c, j)' = inventory'[c][j] + locker[c][j] + Cardinality(Worn(c, j))'
        /\ Carried(c, j)' = inventory'[c][j] + Cardinality(Worn(c, j))'
        /\ Has(c, j) = inventory[c][j] + locker[c][j] + Cardinality(Worn(c, j))
        /\ Carried(c, j) = inventory[c][j] + Cardinality(Worn(c, j))
        /\ inventory[c][j] \in Nat /\ inventory'[c][j] \in Nat
        /\ locker[c][j] \in Nat
  BY <1>1, <1>2, FieldTypes DEF Has, Carried
<1>7. /\ Carried(c, k)' <= Carried(c, k)
      /\ Has(c, k)' = Has(c, k) + (inventory'[c][k] - inventory[c][k]) - 1
  <2>1. /\ Cardinality(Worn(c, k)) \in Nat
        /\ Cardinality(Worn(c, k))' = Cardinality(Worn(c, k)) - 1
    BY <1>3, <1>4
  <2>2. inventory'[c][k] <= inventory[c][k] + 1
    BY <1>2
  <2> QED
    BY <1>6, <2>1, <2>2
<1>8. \A j \in Kinds \ {k} : Carried(c, j)' <= Carried(c, j) /\ Has(c, j)' = Has(c, j)
  <2> SUFFICES ASSUME NEW j \in Kinds \ {k}
               PROVE  Carried(c, j)' <= Carried(c, j) /\ Has(c, j)' = Has(c, j)
    OBVIOUS
  <2>1. /\ Cardinality(Worn(c, j)) \in Nat
        /\ Cardinality(Worn(c, j))' = Cardinality(Worn(c, j))
    <3>1. Off(shed, c, j) = 0
      BY <1>4
    <3>2. /\ Cardinality(Worn(c, j)) \in Nat
          /\ Cardinality(Worn(c, j))' = Cardinality(Worn(c, j)) - Off(shed, c, j)
      BY <1>3
    <3> QED
      BY <3>1, <3>2
  <2>2. inventory'[c][j] = inventory[c][j]
    BY <1>2
  <2> QED
    BY <1>6, <2>1, <2>2
<1>9. CarriesAtMost' /\ \A j \in Kinds : Own(j)' = Own(j) - Has(c, j) + Has(c, j)'
  <2>1. \A d \in Owners \ {c} : /\ inventory'[d] = inventory[d]
                                /\ paperdoll'[d] = paperdoll[d]
                                /\ locker'[d] = locker[d]
    BY <1>1, <1>2, <1>3
  <2>2. \A j \in Kinds : Carried(c, j)' <= Carried(c, j)
    BY <1>7, <1>8
  <2> QED
    BY <1>5, <2>1, <2>2, Unburdened
<1>10. (\A j \in Kinds : InChest(j, chest') = InChest(j, chest)) /\ SpawnsOnce'
       /\ \A j \in Kinds : Ground(j)' = Ground(j)
  BY <1>1, InChestSame, GroundSame
<1>11. GoodsAccounted'
  <2>0. \A j \in Kinds : Has(c, j) \in Nat /\ Own(j) \in Nat
    BY HasType, OwnType
  <2>1. (Own(k)' - Own(k)) + (Ground(k)' - Ground(k))
        + (InChest(k, chest') - InChest(k, chest)) + (spilt'[k] - spilt[k])
        + (clipped'[k] - clipped[k]) = made'[k] - made[k]
    <3>1. Own(k)' - Own(k) = (inventory'[c][k] - inventory[c][k]) - 1
      BY <1>6, <1>7, <1>9, <2>0
    <3> QED
      BY <1>1, <1>2, <1>6, <1>10, <3>1, FieldTypes
  <2>2. \A j \in Kinds \ {k} :
           /\ Own(j)' = Own(j) /\ Ground(j)' = Ground(j)
           /\ InChest(j, chest') = InChest(j, chest) /\ made'[j] = made[j]
           /\ spilt'[j] = spilt[j] /\ clipped'[j] = clipped[j]
    BY <1>1, <1>2, <1>8, <1>9, <1>10, <2>0
  <2> QED
    BY <1>5, <2>1, <2>2, Moved
<1> QED
  BY <1>3, <1>5, <1>9, <1>10, <1>11 DEF GoodsInv, GoodsKept

LEMMA CureKeeps ==
  ASSUME GoodsInv, NEW c \in Owners, CureCurse(c)
  PROVE  GoodsInv'
<1> GoodsTypes /\ HandsSuffice /\ CarriesAtMost /\ SpawnsOnce
  BY InvParts
<1> PICK shed \in SUBSET Slots : shed = {s \in Slots : paperdoll[c][s] \in Cursed}
  OBVIOUS
<1>1. /\ paperdoll' = [paperdoll EXCEPT ![c] = [s \in Slots |->
                         IF s \in shed THEN None ELSE paperdoll[c][s]]]
      /\ made' = [j \in Kinds |-> made[j] - Off(shed, c, j)]
      /\ UNCHANGED <<inventory, locker, ground, chest, spilt, clipped>>
  BY DEF CureCurse, GoodsTypes, Off
<1>2. /\ paperdoll' \in [Owners -> [Slots -> Kinds \cup {None}]]
      /\ \A d \in Owners \ {c} : paperdoll'[d] = paperdoll[d]
      /\ HandsSuffice'
      /\ \A j \in Kinds :
              /\ Cardinality(Worn(c, j)) \in Nat
              /\ Off(shed, c, j) \in Nat
              /\ Cardinality(Worn(c, j))'
                   = Cardinality(Worn(c, j)) - Off(shed, c, j)
  BY <1>1, TakenOff
<1>3. made' \in [Kinds -> Int]
      /\ \A j \in Kinds : made'[j] = made[j] - Off(shed, c, j)
  BY <1>1, <1>2, FieldTypes
<1>4. GoodsTypes'
  BY <1>1, <1>2, <1>3 DEF GoodsTypes
<1>5. \A j \in Kinds :
        /\ Has(c, j)' = inventory[c][j] + locker[c][j] + Cardinality(Worn(c, j))'
        /\ Carried(c, j)' = inventory[c][j] + Cardinality(Worn(c, j))'
        /\ Has(c, j) = inventory[c][j] + locker[c][j] + Cardinality(Worn(c, j))
        /\ Carried(c, j) = inventory[c][j] + Cardinality(Worn(c, j))
        /\ inventory[c][j] \in Nat /\ locker[c][j] \in Nat
  BY <1>1, FieldTypes DEF Has, Carried
<1>6. \A j \in Kinds : /\ Carried(c, j)' <= Carried(c, j)
                       /\ Has(c, j)' = Has(c, j) - Off(shed, c, j)
  BY <1>2, <1>5
<1>7. CarriesAtMost' /\ \A j \in Kinds : Own(j)' = Own(j) - Has(c, j) + Has(c, j)'
  <2>1. \A d \in Owners \ {c} : /\ inventory'[d] = inventory[d]
                                /\ paperdoll'[d] = paperdoll[d]
                                /\ locker'[d] = locker[d]
    BY <1>1, <1>2
  <2> QED
    BY <1>4, <1>6, <2>1, Unburdened
<1>8. (\A j \in Kinds : InChest(j, chest') = InChest(j, chest)) /\ SpawnsOnce'
       /\ \A j \in Kinds : Ground(j)' = Ground(j)
  BY <1>1, InChestSame, GroundSame
<1>9. GoodsAccounted'
  <2>1. \A j \in Kinds : /\ Own(j) \in Nat /\ Ground(j) \in Nat /\ Has(c, j) \in Nat
                         /\ InChest(j, chest) \in Nat /\ made[j] \in Int
                         /\ spilt[j] \in Int /\ clipped[j] \in Int
    BY PlacesCounted, HasType DEF GoodsTypes
  <2>2. \A j \in Kinds :
          (Own(j)' - Own(j)) + (Ground(j)' - Ground(j))
          + (InChest(j, chest') - InChest(j, chest)) + (spilt'[j] - spilt[j])
          + (clipped'[j] - clipped[j]) = made'[j] - made[j]
    <3> SUFFICES ASSUME NEW j \in Kinds
                 PROVE  (Own(j)' - Own(j)) + (Ground(j)' - Ground(j))
                        + (InChest(j, chest') - InChest(j, chest))
                        + (spilt'[j] - spilt[j]) + (clipped'[j] - clipped[j])
                          = made'[j] - made[j]
      OBVIOUS
    <3>1. Own(j)' - Own(j) = - Off(shed, c, j)
      BY <1>2, <1>6, <1>7, <2>1
    <3>2. made'[j] - made[j] = - Off(shed, c, j)
      BY <1>2, <1>3, <2>1
    <3>3. /\ Ground(j)' - Ground(j) = 0 /\ InChest(j, chest') - InChest(j, chest) = 0
          /\ spilt'[j] - spilt[j] = 0 /\ clipped'[j] - clipped[j] = 0
      BY <1>1, <1>8, <2>1
    <3> QED
      BY <1>2, <3>1, <3>2, <3>3
  <2> QED
    BY <1>4, <2>2, Accounted
<1> QED
  BY <1>2, <1>4, <1>7, <1>8, <1>9 DEF GoodsInv, GoodsKept

-----------------------------------------------------------------------------
\* Death: everything at once.

FallsAs(amt, c, k, carried, shed, parts) ==
  /\ parts = carried \cup shed
  /\ \A p \in carried : amt[p] = IF p = k THEN inventory[c][k] ELSE 0
  /\ \A p \in shed : amt[p] = IF paperdoll[c][p] = k THEN 1 ELSE 0

Heap(c, k, carried, shed) ==
  (IF k \in carried THEN inventory[c][k] ELSE 0) + Off(shed, c, k)

(* What falls of kind k: a stack, and what is worn of it, piece by piece.  *)
LEMMA FallenOfKind ==
  ASSUME GoodsTypes, NEW c \in Owners, NEW k \in Kinds,
         NEW carried \in SUBSET Kinds, NEW shed \in SUBSET Slots,
         NEW amt, NEW parts, FallsAs(amt, c, k, carried, shed, parts)
  PROVE  /\ IsFiniteSet(parts)
         /\ Total(amt, parts) = Heap(c, k, carried, shed)
<1> USE DEF FallsAs, Heap
<1> DEFINE W == shed \cap Worn(c, k)
<1>1. inventory[c][k] \in Nat
  BY DEF GoodsTypes
<1>2. \A p \in parts : amt[p] \in Nat
  BY <1>1
<1>3. IsFiniteSet(carried) /\ IsFiniteSet(shed) /\ IsFiniteSet(W)
  BY GoodsAssumption, FS_Subset
<1>4. IsFiniteSet(parts)
  BY <1>3, FS_Union
<1>5. \A p \in W : amt[p] = 1
  BY DEF Worn
<1>6. Total(amt, W) = Cardinality(W)
  <2> HIDE DEF W
  <2> QED
    BY <1>3, <1>5, TotalOnes
<1>7. k \notin W
  BY GoodsAssumption DEF Worn
<1>8. carried \cap shed = {}
  BY GoodsAssumption
<1>9. Off(shed, c, k) = Cardinality(W) /\ Cardinality(W) \in Nat
  <2>1. Off(shed, c, k) = Cardinality(W)
    BY DEF Off
  <2> QED
    BY <1>3, <2>1, FS_CardinalityType
<1>10. CASE k \in carried
  <2> DEFINE R == W \cup {k}
  <2>1. R \in SUBSET parts
    BY <1>10
  <2>2. \A p \in parts \ R : amt[p] = 0
    BY DEF Worn
  <2>3. \A p \in W \cup {k} : amt[p] \in Int
    BY <1>2, <2>1
  <2>4. amt[k] = inventory[c][k]
    BY <1>10
  <2> HIDE DEF W, R
  <2>5. Total(amt, parts) = Total(amt, R)
    BY <1>2, <1>4, <2>1, <2>2, TotalSupport
  <2>6. Total(amt, W \cup {k}) = Total(amt, W) + amt[k]
    BY <1>3, <1>7, <2>3, TotalAdd
  <2>7. Total(amt, parts) = inventory[c][k] + Off(shed, c, k)
    BY <1>1, <1>6, <1>9, <2>4, <2>5, <2>6 DEF R
  <2> QED
    BY <1>2, <1>4, <1>10, <2>7
<1>11. CASE k \notin carried
  <2>1. W \in SUBSET parts
    OBVIOUS
  <2>2. \A p \in parts \ W : amt[p] = 0
    BY <1>11 DEF Worn
  <2> HIDE DEF W
  <2>3. Total(amt, parts) = Total(amt, W)
    BY <1>2, <1>4, <2>1, <2>2, TotalSupport
  <2>4. Total(amt, parts) = Off(shed, c, k)
    BY <1>6, <1>9, <2>3
  <2> QED
    BY <1>2, <1>4, <1>9, <1>11, <2>4
<1> QED
  BY <1>10, <1>11

(* Where it lies: each piece at a free uid of its own.                     *)
LEMMA GroundStrewn ==
  ASSUME GoodsTypes, NEW k \in Kinds, NEW parts, IsFiniteSet(parts),
         NEW f, NEW piece, NEW amt,
         \A p \in parts : /\ f[p] \in Uids /\ ground[f[p]] = None
                          /\ piece[p] \in Things /\ amt[p] = OfKind(k, piece[p]),
         \A p, q \in parts : f[p] = f[q] => p = q,
         ground' \in [Uids -> Things \cup {None}],
         \A p \in parts : ground'[f[p]] = piece[p],
         \A u \in Uids : (\A p \in parts : f[p] # u) => ground'[u] = ground[u]
  PROVE  Ground(k)' = Ground(k) + Total(amt, parts)
<1> DEFINE Im == {f[p] : p \in parts}
           old == [u \in Uids |-> Lies(u, k)]
           new == [u \in Uids |-> Lies(u, k)']
           delta == [u \in Uids |-> new[u] - old[u]]
<1>1. \A u \in Uids : old[u] \in Nat
  BY LiesType
<1>2. \A u \in Uids : new[u] = IF ground'[u] = None THEN 0 ELSE OfKind(k, ground'[u])
  BY DEF Lies
<1>3. \A p \in parts : /\ amt[p] \in Nat /\ old[f[p]] = 0
                       /\ new[f[p]] = amt[p] /\ delta[f[p]] = amt[p]
  <2> SUFFICES ASSUME NEW p \in parts
               PROVE  /\ amt[p] \in Nat /\ old[f[p]] = 0
                      /\ new[f[p]] = amt[p] /\ delta[f[p]] = amt[p]
    OBVIOUS
  <2>1. amt[p] \in Nat /\ piece[p] # None
    BY OfKindType, ThingFields
  <2>2. old[f[p]] = 0
    BY DEF Lies
  <2>3. new[f[p]] = amt[p]
    BY <1>2, <2>1
  <2>4. delta[f[p]] = new[f[p]] - old[f[p]]
    OBVIOUS
  <2> HIDE DEF old, new, delta
  <2> QED
    BY <2>1, <2>2, <2>3, <2>4
<1>4. \A u \in Uids \ Im : new[u] = old[u]
  <2> SUFFICES ASSUME NEW u \in Uids \ Im PROVE new[u] = old[u]
    OBVIOUS
  <2>1. ground'[u] = ground[u]
    OBVIOUS
  <2> QED
    BY <2>1 DEF Lies
<1>5. \A u \in Uids : new[u] \in Nat
  <2> SUFFICES ASSUME NEW u \in Uids PROVE new[u] \in Nat
    OBVIOUS
  <2>1. CASE u \in Im
    <3>1. PICK p \in parts : u = f[p]
      BY <2>1
    <3>2. new[f[p]] = amt[p] /\ amt[p] \in Nat
      BY <1>3
    <3> QED
      BY <3>1, <3>2
  <2>2. CASE u \notin Im
    BY <1>1, <1>4, <2>2
  <2> QED
    BY <2>1, <2>2
<1>6. \A u \in Uids : delta[u] \in Int /\ delta[u] = new[u] - old[u]
  BY <1>1, <1>5
<1>7. \A u \in Uids \ Im : delta[u] = 0
  BY <1>1, <1>4, <1>6
<1>8. Ground(k) = Total(old, Uids) /\ Ground(k)' = Total(new, Uids)
  BY DEF Ground
<1>9. Im \in SUBSET Uids
  OBVIOUS
<1> HIDE DEF old, new, delta
<1>10. Total(delta, Im) = Total(amt, parts)
  BY <1>3, TotalImage
<1> HIDE DEF Im
<1>11. Total(delta, Uids) = Total(delta, Im)
  BY <1>6, <1>7, <1>9, UidsFinite, TotalSupport
<1>12. Total(new, Uids) = Total(old, Uids) + Total(delta, Uids)
  <2>1. \A u \in Uids : old[u] \in Int /\ delta[u] \in Int
                        /\ new[u] = old[u] + delta[u]
    BY <1>1, <1>5, <1>6
  <2> QED
    BY <2>1, UidsFinite, TotalSum
<1> QED
  BY <1>8, <1>10, <1>11, <1>12

LEMMA DropAllKeeps ==
  ASSUME GoodsInv, NEW c \in Owners, NEW to \in Owners, DropAll(c, to)
  PROVE  GoodsInv'
<1> GoodsTypes /\ HandsSuffice /\ CarriesAtMost /\ SpawnsOnce
  BY InvParts
<1> PICK carried \in SUBSET Kinds : carried = Loose(c)
  BY DEF Loose
<1> PICK shed \in SUBSET Slots : shed = Undone(c)
  BY DEF Undone
<1> DEFINE parts == Loose(c) \cup Undone(c)
<1>0. /\ parts = carried \cup shed
      /\ carried = {k \in Kinds \ Lore : inventory[c][k] > 0}
      /\ shed = {s \in Slots : paperdoll[c][s] \in Kinds \ (Lore \cup Cursed)}
  BY DEF Loose, Undone
<1>1. PICK f \in Bijection(parts, FreeUids(Cardinality(parts))) :
         ground' = [u \in Uids |->
                      IF \E p \in parts : f[p] = u
                      THEN Piece(c, to, CHOOSE p \in parts : f[p] = u)
                      ELSE ground[u]]
  BY DEF DropAll
<1> HIDE DEF parts
<1>2. /\ inventory' = [inventory EXCEPT
                         ![c] = [k \in Kinds |-> IF k \in carried THEN 0
                                                 ELSE inventory[c][k]]]
      /\ paperdoll' = [paperdoll EXCEPT
                         ![c] = [s \in Slots |-> IF s \in shed THEN None
                                                 ELSE paperdoll[c][s]]]
      /\ UNCHANGED <<locker, chest, made, spilt, clipped>>
  BY DEF DropAll, history, GoodsTypes
<1> PICK piece : piece = [p \in parts |-> Piece(c, to, p)]
  OBVIOUS
<1>3. /\ \A p \in parts : f[p] \in Uids /\ ground[f[p]] = None
      /\ \A p, q \in parts : f[p] = f[q] => p = q
  <2>1. f \in [parts -> FreeUids(Cardinality(parts))]
    BY DEF Bijection, Injection
  <2>2. \A p, q \in parts : f[p] = f[q] => p = q
    BY <2>1 DEF Bijection, Injection, IsInjective
  <2>3. FreeUids(Cardinality(parts)) \subseteq {u \in Uids : ground[u] = None}
    BY DEF FreeUids, Lying
  <2> QED
    BY <2>1, <2>2, <2>3
<1>4. \A p \in parts :
        /\ piece[p] \in Things
        /\ p \in shed => piece[p].kind = paperdoll[c][p] /\ piece[p].amount = 1
        /\ p \in carried => piece[p].kind = p /\ piece[p].amount = inventory[c][p]
  <2>1. carried \cap shed = {}
    BY GoodsAssumption
  <2>2. \A p \in shed : paperdoll[c][p] \in Kinds
    BY <1>0
  <2>3. \A p \in carried : inventory[c][p] \in Nat \ {0}
    BY <1>0 DEF GoodsTypes
  <2> QED
    BY <1>0, <2>1, <2>2, <2>3 DEF Things, Piece
<1>5. /\ \A p \in parts : ground'[f[p]] = piece[p]
      /\ \A u \in Uids : (\A p \in parts : f[p] # u) => ground'[u] = ground[u]
      /\ ground' \in [Uids -> Things \cup {None}]
  <2>1. ASSUME NEW p \in parts PROVE ground'[f[p]] = piece[p]
    <3>1. (CHOOSE q \in parts : f[q] = f[p]) = p
      BY <1>3
    <3>2. ground'[f[p]] = Piece(c, to, CHOOSE q \in parts : f[q] = f[p])
      BY <1>1, <1>3
    <3> QED
      BY <3>1, <3>2
  <2>2. \A u \in Uids : (\A p \in parts : f[p] # u) => ground'[u] = ground[u]
    BY <1>1
  <2>3. ASSUME NEW u \in Uids PROVE ground'[u] \in Things \cup {None}
    <3>1. CASE \E p \in parts : f[p] = u
      <4> PICK p \in parts : f[p] = u
        BY <3>1
      <4> QED
        BY <1>4, <2>1
    <3>2. CASE \A p \in parts : f[p] # u
      BY <2>2, <3>2 DEF GoodsTypes
    <3> QED
      BY <3>1, <3>2
  <2>4. ground' \in [Uids -> Things \cup {None}]
    BY <1>1, <2>3
  <2> QED
    BY <2>1, <2>2, <2>4
<1>6. /\ inventory' \in [Owners -> [Kinds -> Nat]]
      /\ \A d \in Owners \ {c} : inventory'[d] = inventory[d]
      /\ \A k \in Kinds : inventory'[c][k] = IF k \in carried THEN 0
                                             ELSE inventory[c][k]
  <2> DEFINE inv == [k \in Kinds |-> IF k \in carried THEN 0 ELSE inventory[c][k]]
  <2>1. inv \in [Kinds -> Nat] /\ inventory' = [inventory EXCEPT ![c] = inv]
        /\ \A k \in Kinds : inv[k] = IF k \in carried THEN 0 ELSE inventory[c][k]
    BY <1>2 DEF GoodsTypes
  <2> HIDE DEF inv
  <2> QED
    BY <2>1 DEF GoodsTypes
<1>7. /\ paperdoll' \in [Owners -> [Slots -> Kinds \cup {None}]]
      /\ \A d \in Owners \ {c} : paperdoll'[d] = paperdoll[d]
      /\ HandsSuffice'
      /\ \A j \in Kinds :
              /\ Cardinality(Worn(c, j)) \in Nat
              /\ Off(shed, c, j) \in Nat
              /\ Cardinality(Worn(c, j))' = Cardinality(Worn(c, j)) - Off(shed, c, j)
  BY <1>2, TakenOff
<1>8. GoodsTypes'
  BY <1>2, <1>5, <1>6, <1>7 DEF GoodsTypes
<1>9. \A j \in Kinds :
        /\ Has(c, j)' = inventory'[c][j] + locker[c][j] + Cardinality(Worn(c, j))'
        /\ Carried(c, j)' = inventory'[c][j] + Cardinality(Worn(c, j))'
        /\ Has(c, j) = inventory[c][j] + locker[c][j] + Cardinality(Worn(c, j))
        /\ Carried(c, j) = inventory[c][j] + Cardinality(Worn(c, j))
        /\ inventory[c][j] \in Nat /\ inventory'[c][j] \in Nat
        /\ locker[c][j] \in Nat
  BY <1>2, <1>6, FieldTypes DEF Has, Carried
<1>10. \A j \in Kinds :
         /\ Carried(c, j)' <= Carried(c, j)
         /\ Has(c, j)' = Has(c, j) - (IF j \in carried THEN inventory[c][j] ELSE 0)
                         - Off(shed, c, j)
  <2> SUFFICES ASSUME NEW j \in Kinds
               PROVE  /\ Carried(c, j)' <= Carried(c, j)
                      /\ Has(c, j)' = Has(c, j)
                            - (IF j \in carried THEN inventory[c][j] ELSE 0)
                            - Off(shed, c, j)
    OBVIOUS
  <2>1. /\ Cardinality(Worn(c, j)) \in Nat /\ Off(shed, c, j) \in Nat
        /\ Cardinality(Worn(c, j))' = Cardinality(Worn(c, j)) - Off(shed, c, j)
    BY <1>7
  <2>2. inventory'[c][j] = IF j \in carried THEN 0 ELSE inventory[c][j]
    BY <1>6
  <2> QED
    BY <1>9, <2>1, <2>2
<1>11. CarriesAtMost' /\ \A j \in Kinds : Own(j)' = Own(j) - Has(c, j) + Has(c, j)'
  <2>1. \A d \in Owners \ {c} : /\ inventory'[d] = inventory[d]
                                /\ paperdoll'[d] = paperdoll[d]
                                /\ locker'[d] = locker[d]
    BY <1>2, <1>6, <1>7
  <2>2. \A j \in Kinds : Carried(c, j)' <= Carried(c, j)
    BY <1>10
  <2> QED
    BY <1>8, <2>1, <2>2, Unburdened
<1>12. \A k \in Kinds : Ground(k)' = Ground(k)
                          + ((IF k \in carried THEN inventory[c][k] ELSE 0)
                             + Off(shed, c, k))
  <2> SUFFICES ASSUME NEW k \in Kinds
               PROVE  Ground(k)' = Ground(k)
                          + ((IF k \in carried THEN inventory[c][k] ELSE 0)
                             + Off(shed, c, k))
    OBVIOUS
  <2> PICK amt : amt = [p \in parts |-> OfKind(k, piece[p])]
    OBVIOUS
  <2>1. /\ \A p \in parts : amt[p] = OfKind(k, piece[p])
        /\ \A p \in carried : amt[p] = IF p = k THEN inventory[c][k] ELSE 0
        /\ \A p \in shed : amt[p] = IF paperdoll[c][p] = k THEN 1 ELSE 0
    <3>1. \A p \in carried : amt[p] = OfKind(k, piece[p]) /\ p \in parts
      BY <1>0
    <3>2. \A p \in shed : amt[p] = OfKind(k, piece[p]) /\ p \in parts
      BY <1>0
    <3>3. \A p \in carried : amt[p] = IF p = k THEN inventory[c][k] ELSE 0
      BY <1>4, <3>1 DEF OfKind
    <3>4. \A p \in shed : amt[p] = IF paperdoll[c][p] = k THEN 1 ELSE 0
      BY <1>4, <3>2 DEF OfKind
    <3> QED
      BY <3>3, <3>4
  <2>2. /\ IsFiniteSet(parts)
        /\ Total(amt, parts)
             = (IF k \in carried THEN inventory[c][k] ELSE 0) + Off(shed, c, k)
    <3>1. FallsAs(amt, c, k, carried, shed, parts)
      BY <1>0, <2>1 DEF FallsAs
    <3>2. IsFiniteSet(parts) /\ Total(amt, parts) = Heap(c, k, carried, shed)
      BY <3>1, FallenOfKind
    <3> QED
      BY <3>2 DEF Heap
  <2>3. /\ \A p \in parts : /\ f[p] \in Uids /\ ground[f[p]] = None
                            /\ piece[p] \in Things
                            /\ amt[p] = OfKind(k, piece[p])
    BY <1>3, <1>4, <2>1
  <2>4. Ground(k)' = Ground(k) + Total(amt, parts)
    BY <1>3, <1>5, <2>2, <2>3, GroundStrewn
  <2> QED
    BY <2>2, <2>4
<1>13. (\A j \in Kinds : InChest(j, chest') = InChest(j, chest)) /\ SpawnsOnce'
  BY <1>2, InChestSame
<1>14. GoodsAccounted'
  <2>1. \A j \in Kinds : /\ Own(j) \in Nat /\ Ground(j) \in Nat /\ Has(c, j) \in Nat
                         /\ InChest(j, chest) \in Nat /\ made[j] \in Int
                         /\ spilt[j] \in Int /\ clipped[j] \in Int
    BY PlacesCounted, HasType DEF GoodsTypes
  <2>2. ASSUME NEW j \in Kinds
        PROVE  (Own(j)' - Own(j)) + (Ground(j)' - Ground(j))
               + (InChest(j, chest') - InChest(j, chest))
               + (spilt'[j] - spilt[j]) + (clipped'[j] - clipped[j])
                 = made'[j] - made[j]
    <3> PICK n : n = (IF j \in carried THEN inventory[c][j] ELSE 0)
      OBVIOUS
    <3>0. n \in Nat /\ Off(shed, c, j) \in Nat
      BY <1>7, <1>9
    <3>1. Own(j)' - Own(j) = - (n + Off(shed, c, j))
      <4>1. Has(c, j)' = Has(c, j) - n - Off(shed, c, j)
        BY <1>10
      <4> QED
        BY <1>11, <2>1, <3>0, <4>1
    <3>2. Ground(j)' - Ground(j) = n + Off(shed, c, j)
      <4>1. Ground(j)' = Ground(j) + (n + Off(shed, c, j))
        BY <1>12
      <4> QED
        BY <2>1, <3>0, <4>1
    <3>3. /\ InChest(j, chest') - InChest(j, chest) = 0 /\ made'[j] - made[j] = 0
          /\ spilt'[j] - spilt[j] = 0 /\ clipped'[j] - clipped[j] = 0
      BY <1>2, <1>13, <2>1
    <3> QED
      BY <3>0, <3>1, <3>2, <3>3
  <2> QED
    BY <1>8, <2>2, Accounted
<1> QED
  BY <1>7, <1>8, <1>11, <1>13, <1>14 DEF GoodsInv, GoodsKept

-----------------------------------------------------------------------------
LEMMA GoodsStart == GoodsInit => GoodsInv
<1> SUFFICES ASSUME GoodsInit PROVE GoodsInv
  OBVIOUS
<1>1. GoodsTypes
  BY DEF GoodsInit, GoodsTypes
<1>2. \A c \in Owners, k \in Kinds : /\ inventory[c][k] = 0 /\ locker[c][k] = 0
                                     /\ Worn(c, k) = {}
  BY GoodsAssumption DEF GoodsInit, Worn
<1>3. Cardinality({}) = 0
  BY FS_EmptySet
<1>4. \A c \in Owners, k \in Kinds : Has(c, k) = 0
  BY <1>2, <1>3 DEF Has
<1>5. \A k \in Kinds : InAllPlaces(k) = 0
  <2> SUFFICES ASSUME NEW k \in Kinds PROVE InAllPlaces(k) = 0
    OBVIOUS
  <2> DEFINE has == [c \in Owners |-> Has(c, k)]
             lies == [u \in Uids |-> Lies(u, k)]
  <2>1. \A c \in Owners : has[c] = 0
    BY <1>4
  <2>2. \A u \in Uids : lies[u] = 0
    BY DEF GoodsInit, Lies
  <2>3. InChest(k, chest) = 0
    BY TotalEmpty DEF GoodsInit, InChest
  <2>4. InAllPlaces(k) = Total(has, Owners) + Total(lies, Uids) + InChest(k, chest)
    BY DEF InAllPlaces
  <2> HIDE DEF has, lies
  <2>5. Total(has, Owners) = 0 /\ Total(lies, Uids) = 0
    BY <2>1, <2>2, TotalZero, UidsFinite, GoodsAssumption
  <2> QED
    BY <2>3, <2>4, <2>5
<1>6. GoodsAccounted
  BY <1>5 DEF GoodsInit, GoodsAccounted
<1>7. HandsSuffice
  BY GoodsAssumption DEF GoodsInit, HandsSuffice
<1>8. CarriesAtMost
  <2> SUFFICES ASSUME NEW c \in Owners PROVE WeightOf(c) <= MaxWeight
    BY DEF CarriesAtMost
  <2> DEFINE load == [k \in Kinds |->
                        Weight[k] * (inventory[c][k] + Cardinality(Worn(c, k)))]
  <2>1. \A k \in Kinds : load[k] = 0
    BY <1>2, <1>3, Constants
  <2>2. WeightOf(c) = Total(load, Kinds)
    BY DEF WeightOf
  <2> HIDE DEF load
  <2>3. WeightOf(c) = 0
    BY <2>1, <2>2, TotalZero, GoodsAssumption
  <2> QED
    BY <2>3, Constants
<1>9. SpawnsOnce
  BY Constants DEF GoodsInit, SpawnsOnce
<1> QED
  BY <1>1, <1>6, <1>7, <1>8, <1>9 DEF GoodsInv, GoodsKept

LEMMA GoodsStep == GoodsInv /\ [GoodsNext]_goodsVars => GoodsInv'
<1> SUFFICES ASSUME GoodsInv, [GoodsNext]_goodsVars PROVE GoodsInv'
  OBVIOUS
<1>1. CASE \E c \in Owners :
       \/ \E k \in Kinds :
            \/ Chest_Take(c, k) \/ Locker_Take(c, k)
            \/ \E s \in Slots : Equip(c, k, s)
            \/ \E n \in 1..MaxItem :
                 \/ Item_Drop(c, k, n) \/ Item_Junk(c, k, n)
                 \/ Chest_Add(c, k, n) \/ Locker_Add(c, k, n)
  BY <1>1, ChestTakeKeeps, LockerTakeKeeps, EquipKeeps, DropKeeps, JunkKeeps,
     ChestAddKeeps, LockerAddKeeps
<1>2. CASE \E c \in Owners :
       \/ \E u \in Uids : Item_Get(c, u)
       \/ \E s \in Slots : Unequip(c, s)
       \/ \E to \in Owners : DropAll(c, to)
       \/ CureCurse(c)
  BY <1>2, GetKeeps, UnequipKeeps, DropAllKeeps, CureKeeps
<1>3. CASE \/ \E u \in Uids : Unprotect(u) \/ Despawn(u)
           \/ \E k \in Kinds, c \in Owners \cup {None} : NpcDrop(k, c)
           \/ \E s \in SpawnSlots : ChestSpawn(s)
           \/ ReloadChests
  BY <1>3, UnprotectKeeps, DespawnKeeps, NpcDropKeeps, ChestSpawnKeeps, ReloadKeeps
<1>4. CASE UNCHANGED goodsVars
  BY <1>4 DEF goodsVars, GoodsInv, GoodsTypes, GoodsKept, GoodsAccounted,
     InAllPlaces, Has, Lies, Worn, HandsSuffice, CarriesAtMost, WeightOf,
     SpawnsOnce
<1> QED
  BY <1>1, <1>2, <1>3, <1>4 DEF GoodsNext

(* For any characters, kinds of things, weights and limits: everything     *)
(* made and not destroyed lies in one place, nobody wears a shield with a  *)
(* two-handed weapon or becomes overweight by taking up, and a chest       *)
(* neither overflows nor spawns a thing twice.                             *)
THEOREM ThingsAreKept == GoodsSpec => []GoodsKept
<1>1. GoodsInv => GoodsKept
  BY DEF GoodsInv
<1> QED
  BY <1>1, GoodsStart, GoodsStep, PTL DEF GoodsSpec

-----------------------------------------------------------------------------
\* The rest of the types of Goods: what fits where it is.

EntryFits(e) == e.amount = 1 \/ e.amount <= MaxChest
ChestFits(s) == \A i \in DOMAIN s : EntryFits(s[i])

AmountsFit ==
  /\ \A c \in Owners, k \in Kinds : /\ inventory[c][k] <= MaxItem
                                    /\ locker[c][k] <= MaxBank
  /\ \A k \in Kinds : spilt[k] >= 0 /\ clipped[k] >= 0
  /\ ChestFits(chest)

HeldFits == \A c \in Owners, k \in Kinds : inventory[c][k] <= MaxItem

LEMMA AddedFits ==
  ASSUME GoodsTypes, AmountsFit, NEW c \in Owners, NEW k \in Kinds, NEW n \in Nat,
         AddItem(c, k, n)
  PROVE  HeldFits' /\ \A j \in Kinds : clipped'[j] >= 0
<1> DEFINE held == Least(inventory[c][k] + n, MaxItem)
<1>1. /\ inventory[c][k] \in Nat /\ MaxItem \in Nat /\ clipped \in [Kinds -> Int]
      /\ inventory \in [Owners -> [Kinds -> Nat]]
  BY Constants DEF GoodsTypes
<1>2. held \in Nat /\ held <= MaxItem /\ held <= inventory[c][k] + n
  BY <1>1 DEF Least
<1>3. /\ inventory' = [inventory EXCEPT ![c][k] = held]
      /\ clipped' = [clipped EXCEPT ![k] = @ + inventory[c][k] + n - held]
  BY DEF AddItem
<1> HIDE DEF held
<1>4. HeldFits'
  BY <1>1, <1>2, <1>3 DEF HeldFits, AmountsFit
<1>5. \A j \in Kinds : clipped'[j] >= 0
  BY <1>1, <1>2, <1>3 DEF AmountsFit
<1> QED BY <1>4, <1>5

LEMMA DeletedFits ==
  ASSUME GoodsTypes, AmountsFit, NEW c \in Owners, NEW k \in Kinds, NEW n \in Nat,
         DelItem(c, k, n)
  PROVE  HeldFits'
<1> DEFINE held == IF inventory[c][k] > n THEN inventory[c][k] - n ELSE 0
<1>1. /\ inventory[c][k] \in Nat /\ MaxItem \in Nat /\ inventory[c][k] <= MaxItem
      /\ inventory \in [Owners -> [Kinds -> Nat]]
  BY Constants DEF GoodsTypes, AmountsFit
<1>2. held \in Nat /\ held <= MaxItem
  BY <1>1
<1>3. inventory' = [inventory EXCEPT ![c][k] = held]
  BY DEF DelItem
<1> HIDE DEF held
<1> QED BY <1>1, <1>2, <1>3 DEF HeldFits, AmountsFit

LEMMA FitsAsBefore ==
  /\ AmountsFit /\ UNCHANGED inventory => HeldFits'
  /\ AmountsFit /\ UNCHANGED locker =>
       (\A c \in Owners, k \in Kinds : locker[c][k] <= MaxBank)'
  /\ AmountsFit /\ UNCHANGED spilt => (\A k \in Kinds : spilt[k] >= 0)'
  /\ AmountsFit /\ UNCHANGED clipped => (\A k \in Kinds : clipped[k] >= 0)'
  /\ AmountsFit /\ UNCHANGED chest => ChestFits(chest')
  BY DEF AmountsFit, HeldFits

LEMMA ChestsFit ==
  ASSUME NEW s \in Seq(Entries), ChestFits(s)
  PROVE  /\ \A e \in Entries : EntryFits(e) =>
              /\ ChestFits(Append(s, e)) /\ ChestFits(<<e>> \o s)
              /\ \A i \in DOMAIN s : ChestFits([s EXCEPT ![i] = e])
         /\ \A i \in DOMAIN s : ChestFits(RemoveAt(s, i))
<1>1. ASSUME NEW e \in Entries, EntryFits(e)
      PROVE  /\ ChestFits(Append(s, e)) /\ ChestFits(<<e>> \o s)
             /\ \A i \in DOMAIN s : ChestFits([s EXCEPT ![i] = e])
  <2>1. ChestFits(Append(s, e))
    <3> PICK t : t = Append(s, e)
      OBVIOUS
    <3>1. DOMAIN t = 1..Len(s) + 1 /\ DOMAIN s = 1..Len(s)
          /\ t[Len(s) + 1] = e /\ \A j \in DOMAIN s : t[j] = s[j]
      OBVIOUS
    <3>2. \A j \in DOMAIN t : j \in DOMAIN s \/ j = Len(s) + 1
      BY <3>1
    <3> QED BY <1>1, <3>1, <3>2 DEF ChestFits
  <2>2. ChestFits(<<e>> \o s)
    <3> PICK t : t = <<e>> \o s
      OBVIOUS
    <3>1. /\ DOMAIN t = 1..Len(s) + 1 /\ DOMAIN s = 1..Len(s)
          /\ t[1] = e /\ \A j \in DOMAIN s : t[j + 1] = s[j]
      OBVIOUS
    <3>2. \A j \in DOMAIN t : j = 1 \/ (j - 1 \in DOMAIN s /\ t[j] = s[j - 1])
      <4> SUFFICES ASSUME NEW j \in DOMAIN t, j # 1
                   PROVE  j - 1 \in DOMAIN s /\ t[j] = s[j - 1]
        OBVIOUS
      <4> DEFINE i == j - 1
      <4>1. i \in DOMAIN s /\ i + 1 = j
        BY <3>1
      <4> HIDE DEF i
      <4>2. t[j] = s[i]
        BY <3>1, <4>1
      <4> QED BY <4>1, <4>2 DEF i
    <3> QED BY <1>1, <3>1, <3>2 DEF ChestFits
  <2>3. ASSUME NEW i \in DOMAIN s PROVE ChestFits([s EXCEPT ![i] = e])
    <3> PICK t : t = [s EXCEPT ![i] = e]
      OBVIOUS
    <3>1. DOMAIN t = DOMAIN s /\ \A j \in DOMAIN s : t[j] = IF j = i THEN e ELSE s[j]
      OBVIOUS
    <3> QED BY <1>1, <3>1 DEF ChestFits
  <2> QED BY <2>1, <2>2, <2>3
<1>2. ASSUME NEW i \in DOMAIN s PROVE ChestFits(RemoveAt(s, i))
  <2>1. CASE Kinds = {}
    <3>1. Entries = {}
      BY <2>1 DEF Entries
    <3>2. s[i] \in Entries
      OBVIOUS
    <3> QED BY <3>1, <3>2
  <2>2. CASE Kinds # {}
    <3>1. PICK k \in Kinds : TRUE
      BY <2>2
    <3> PICK t : t = RemoveAt(s, i)
      OBVIOUS
    <3>2. /\ t \in Seq(Entries) /\ Len(t) = Len(s) - 1
          /\ \A j \in DOMAIN t : t[j] = s[IF j < i THEN j ELSE j + 1]
      BY <3>1, ChestRemove
    <3>3. DOMAIN s = 1..Len(s) /\ Len(s) \in Nat /\ DOMAIN t = 1..Len(s) - 1
      BY <3>1, <3>2, EntryAt
    <3>4. \A j \in DOMAIN t : (IF j < i THEN j ELSE j + 1) \in DOMAIN s
      BY <3>3
    <3> QED BY <3>2, <3>4 DEF ChestFits
  <2> QED BY <2>1, <2>2
<1> QED BY <1>1, <1>2

LEMMA ChestFound ==
  ASSUME GoodsTypes, AmountsFit, NEW k \in Kinds, EntryOf(k) # {}
  PROVE  /\ First(k) \in DOMAIN chest /\ chest[First(k)] \in Entries
         /\ EntryFits(chest[First(k)]) /\ ChestHas(k) = chest[First(k)].amount
         /\ ChestHas(k) \in Nat \ {0} /\ MaxChest \in Nat
  BY FirstEntry, EntryFields, Constants DEF AmountsFit, ChestFits

LEMMA ChestAddFits ==
  ASSUME GoodsTypes, AmountsFit, NEW c \in Owners, NEW k \in Kinds, NEW n \in Nat,
         Chest_Add(c, k, n)
  PROVE  HeldFits' /\ ChestFits(chest')
<1> DEFINE amount == Least(n, MaxChest - ChestHas(k))
<1>1. /\ MaxChest \in Nat /\ chest \in Seq(Entries) /\ ChestFits(chest)
      /\ ChestHas(k) \in Nat
  BY Constants, ChestHasType DEF GoodsTypes, AmountsFit
<1>2. amount > 0 /\ DelItem(c, k, amount)
  BY DEF Chest_Add
<1>3. amount \in Nat \ {0} /\ amount <= MaxChest - ChestHas(k)
  BY <1>1, <1>2 DEF Least
<1>4. CASE /\ EntryOf(k) # {}
           /\ chest' = [chest EXCEPT ![First(k)].amount = @ + amount]
  <2> DEFINE i == First(k)
             e == [chest[i] EXCEPT !.amount = @ + amount]
  <2>1. i \in DOMAIN chest /\ chest[i] \in Entries /\ ChestHas(k) = chest[i].amount
    BY <1>4, ChestFound
  <2>2. chest' = [chest EXCEPT ![i] = e]
    BY <1>4
  <2> HIDE DEF amount
  <2>3. /\ chest[i].amount + amount \in Nat \ {0}
        /\ chest[i].amount + amount <= MaxChest
    BY <1>1, <1>3, <2>1
  <2>4. e \in Entries /\ EntryFits(e)
    BY <2>1, <2>3 DEF Entries, EntryFits
  <2> HIDE DEF e, i
  <2>5. ChestFits(chest')
    BY <1>1, <2>1, <2>2, <2>4, ChestsFit
  <2> QED BY <1>2, <1>3, <2>5, DeletedFits
<1>5. CASE chest' = Append(chest, [kind |-> k, amount |-> amount, slot |-> 0])
  <2> DEFINE e == [kind |-> k, amount |-> amount, slot |-> 0]
  <2> HIDE DEF amount
  <2>1. e \in Entries /\ EntryFits(e)
    BY <1>1, <1>3 DEF Entries, EntryFits
  <2>2. chest' = Append(chest, e)
    BY <1>5
  <2> HIDE DEF e
  <2>3. ChestFits(chest')
    BY <1>1, <2>1, <2>2, ChestsFit
  <2> QED BY <1>2, <1>3, <2>3, DeletedFits
<1> QED BY <1>4, <1>5 DEF Chest_Add

LEMMA ChestTakeFits ==
  ASSUME GoodsTypes, AmountsFit, NEW c \in Owners, NEW k \in Kinds, Chest_Take(c, k)
  PROVE  HeldFits' /\ ChestFits(chest') /\ \A j \in Kinds : clipped'[j] >= 0
<1> DEFINE taken == CanHoldItem(c, k, ChestHas(k))
           i == First(k)
           e == [chest[i] EXCEPT !.amount = @ - taken, !.slot = 0]
<1>1. taken > 0 /\ AddItem(c, k, taken)
  BY DEF Chest_Take
<1>2. ChestHas(k) \in Nat /\ chest \in Seq(Entries) /\ ChestFits(chest)
  BY ChestHasType DEF GoodsTypes, AmountsFit
<1>3. taken \in Nat /\ taken <= ChestHas(k)
  BY <1>1, <1>2, CanHold
<1>4. chest' = IF taken < ChestHas(k) THEN [chest EXCEPT ![i] = e]
               ELSE RemoveAt(chest, i)
  BY DEF Chest_Take
<1> HIDE DEF taken
<1>5. EntryOf(k) # {}
  BY <1>1, <1>2, <1>3, ChestHasType
<1>6. /\ i \in DOMAIN chest /\ chest[i] \in Entries /\ EntryFits(chest[i])
      /\ ChestHas(k) = chest[i].amount /\ MaxChest \in Nat
  BY <1>5, ChestFound
<1>7. CASE taken < ChestHas(k)
  <2>1. chest[i].amount - taken \in Nat \ {0} /\ chest[i].amount - taken < chest[i].amount
    BY <1>1, <1>2, <1>3, <1>6, <1>7
  <2>2. e \in Entries /\ e.amount = chest[i].amount - taken
    BY <1>6, <2>1 DEF Entries
  <2>3. chest[i].amount \in Nat
    BY <1>2, <1>6
  <2>4. EntryFits(e)
    <3> HIDE DEF e
    <3> QED BY <1>6, <2>1, <2>2, <2>3 DEF EntryFits
  <2> HIDE DEF e, i
  <2>5. ChestFits(chest')
    BY <1>2, <1>4, <1>6, <1>7, <2>2, <2>4, ChestsFit
  <2> QED BY <1>1, <1>3, <2>5, AddedFits
<1>8. CASE ~(taken < ChestHas(k))
  <2> HIDE DEF e, i
  <2>1. ChestFits(chest')
    BY <1>2, <1>4, <1>6, <1>8, ChestsFit
  <2> QED BY <1>1, <1>3, <2>1, AddedFits
<1> QED BY <1>7, <1>8

LEMMA LockerFits ==
  ASSUME GoodsTypes, AmountsFit, NEW c \in Owners, NEW k \in Kinds, NEW v \in Nat,
         v <= MaxBank, locker' = [locker EXCEPT ![c][k] = v]
  PROVE  (\A d \in Owners, j \in Kinds : locker[d][j] <= MaxBank)'
<1> locker \in [Owners -> [Kinds -> Nat]]
  BY DEF GoodsTypes
<1> QED BY DEF AmountsFit

LEMMA GoodsFit ==
  ASSUME GoodsInv, AmountsFit, [GoodsNext]_goodsVars
  PROVE  AmountsFit'
<1>0. /\ GoodsTypes /\ chest \in Seq(Entries) /\ ChestFits(chest)
      /\ \A n \in 1..MaxItem : n \in Nat /\ n > 0
      /\ MaxBank \in Nat
  BY Constants DEF GoodsInv, GoodsTypes, AmountsFit
<1> DEFINE Lockers == (\A d \in Owners, j \in Kinds : locker[d][j] <= MaxBank)'
           Spilt == (\A k \in Kinds : spilt[k] >= 0)'
           Clipped == (\A k \in Kinds : clipped[k] >= 0)'
<1>1. ASSUME HeldFits', Lockers, Spilt, Clipped, ChestFits(chest')
      PROVE  AmountsFit'
  BY <1>1 DEF AmountsFit, HeldFits
<1> HIDE DEF Lockers, Spilt, Clipped
<1>2. /\ UNCHANGED inventory => HeldFits'
      /\ UNCHANGED locker => Lockers
      /\ UNCHANGED spilt => Spilt
      /\ UNCHANGED clipped => Clipped
      /\ UNCHANGED chest => ChestFits(chest')
  BY FitsAsBefore DEF Lockers, Spilt, Clipped
<1>3. ASSUME NEW c \in Owners, NEW k \in Kinds, Chest_Take(c, k) PROVE AmountsFit'
  <2>1. UNCHANGED <<locker, spilt>>
    BY <1>3 DEF Chest_Take, worn
  <2>2. HeldFits' /\ ChestFits(chest') /\ Clipped
    BY <1>0, <1>3, ChestTakeFits DEF Clipped
  <2> QED BY <1>1, <1>2, <2>1, <2>2
<1>4. ASSUME NEW c \in Owners, NEW k \in Kinds, Locker_Take(c, k) PROVE AmountsFit'
  <2> DEFINE taken == CanHoldItem(c, k, locker[c][k])
  <2>1. /\ taken > 0 /\ AddItem(c, k, taken) /\ UNCHANGED <<spilt, chest>>
        /\ locker' = [locker EXCEPT ![c][k] = locker[c][k] - taken]
    BY <1>4 DEF Locker_Take
  <2>2. locker[c][k] \in Nat /\ locker[c][k] <= MaxBank
    BY <1>0 DEF GoodsTypes, AmountsFit
  <2>3. taken \in Nat /\ taken <= locker[c][k]
    BY <1>0, <2>1, <2>2, CanHold
  <2> HIDE DEF taken
  <2>4. locker[c][k] - taken \in Nat /\ locker[c][k] - taken <= MaxBank
    BY <1>0, <2>2, <2>3
  <2>5. Lockers
    BY <1>0, <2>1, <2>4, LockerFits DEF Lockers
  <2>6. HeldFits' /\ Clipped
    BY <1>0, <2>1, <2>3, AddedFits DEF Clipped
  <2> QED BY <1>1, <1>2, <2>1, <2>5, <2>6
<1>5. ASSUME NEW c \in Owners, NEW k \in Kinds, NEW s \in Slots, Equip(c, k, s)
      PROVE  AmountsFit'
  <2>1. DelItem(c, k, 1) /\ UNCHANGED <<locker, chest, spilt, clipped>>
    BY <1>5 DEF Equip, history
  <2>2. HeldFits'
    BY <1>0, <2>1, DeletedFits
  <2> QED BY <1>1, <1>2, <2>1, <2>2
<1>6. ASSUME NEW c \in Owners, NEW k \in Kinds, NEW n \in 1..MaxItem, Item_Drop(c, k, n)
      PROVE  AmountsFit'
  <2>1. /\ DelItem(c, k, n) /\ UNCHANGED <<locker, chest, clipped>>
        /\ UNCHANGED spilt \/ spilt' = [spilt EXCEPT ![k] = @ + n]
    BY <1>6 DEF Item_Drop, worn
  <2>2. HeldFits'
    BY <1>0, <2>1, DeletedFits
  <2>3. Spilt
    <3>1. CASE spilt' = [spilt EXCEPT ![k] = @ + n]
      <4> spilt \in [Kinds -> Int] /\ \A j \in Kinds : spilt[j] >= 0
        BY <1>0 DEF GoodsTypes, AmountsFit
      <4> QED BY <1>0, <3>1 DEF Spilt
    <3> QED BY <1>2, <2>1, <3>1
  <2> QED BY <1>1, <1>2, <2>1, <2>2, <2>3
<1>7. ASSUME NEW c \in Owners, NEW k \in Kinds, NEW n \in 1..MaxItem, Item_Junk(c, k, n)
      PROVE  AmountsFit'
  <2>1. DelItem(c, k, n) /\ UNCHANGED <<locker, chest, clipped, spilt>>
    BY <1>7 DEF Item_Junk, worn
  <2>2. HeldFits'
    BY <1>0, <2>1, DeletedFits
  <2> QED BY <1>1, <1>2, <2>1, <2>2
<1>8. ASSUME NEW c \in Owners, NEW k \in Kinds, NEW n \in 1..MaxItem, Chest_Add(c, k, n)
      PROVE  AmountsFit'
  <2>1. UNCHANGED <<locker, clipped, spilt>>
    BY <1>8 DEF Chest_Add, worn, history
  <2>2. HeldFits' /\ ChestFits(chest')
    BY <1>0, <1>8, ChestAddFits
  <2> QED BY <1>1, <1>2, <2>1, <2>2
<1>9. ASSUME NEW c \in Owners, NEW k \in Kinds, NEW n \in 1..MaxItem, Locker_Add(c, k, n)
      PROVE  AmountsFit'
  <2> DEFINE amount == Least(n, MaxBank - locker[c][k])
  <2>1. /\ amount > 0 /\ DelItem(c, k, amount) /\ UNCHANGED <<chest, spilt, clipped>>
        /\ locker' = [locker EXCEPT ![c][k] = locker[c][k] + amount]
    BY <1>9 DEF Locker_Add, history
  <2>2. locker[c][k] \in Nat
    BY <1>0 DEF GoodsTypes
  <2>3. amount \in Nat /\ locker[c][k] + amount \in Nat /\ locker[c][k] + amount <= MaxBank
    BY <1>0, <2>1, <2>2 DEF Least
  <2> HIDE DEF amount
  <2>4. Lockers
    BY <1>0, <2>1, <2>3, LockerFits DEF Lockers
  <2>5. HeldFits'
    BY <1>0, <2>1, <2>3, DeletedFits
  <2> QED BY <1>1, <1>2, <2>1, <2>4, <2>5
<1>10. ASSUME NEW c \in Owners, NEW u \in Uids, Item_Get(c, u) PROVE AmountsFit'
  <2>1. PICK k \in Kinds, m \in Nat :
          /\ CanHoldItem(c, k, m) > 0 /\ AddItem(c, k, CanHoldItem(c, k, m))
          /\ UNCHANGED <<locker, chest, spilt>>
    <3>1. ground[u].kind \in Kinds /\ ground[u].amount \in Nat
      BY <1>0, <1>10, ThingFields DEF Item_Get, Lying, GoodsTypes
    <3> QED BY <1>10, <3>1 DEF Item_Get, worn
  <2>2. CanHoldItem(c, k, m) \in Nat
    BY <1>0, <2>1, CanHold
  <2>3. HeldFits' /\ Clipped
    BY <1>0, <2>1, <2>2, AddedFits DEF Clipped
  <2> QED BY <1>1, <1>2, <2>1, <2>3
<1>11. ASSUME NEW c \in Owners, NEW s \in Slots, Unequip(c, s) PROVE AmountsFit'
  <2>1. PICK k \in Kinds : AddItem(c, k, 1) /\ UNCHANGED <<locker, chest, spilt>>
    <3>1. paperdoll[c][s] \in Kinds
      BY <1>0, <1>11 DEF Unequip, GoodsTypes
    <3> QED BY <1>11, <3>1 DEF Unequip
  <2>2. HeldFits' /\ Clipped
    BY <1>0, <2>1, AddedFits DEF Clipped
  <2> QED BY <1>1, <1>2, <2>1, <2>2
<1>12. ASSUME NEW c \in Owners, NEW to \in Owners, DropAll(c, to) PROVE AmountsFit'
  <2>1. /\ UNCHANGED <<locker, chest, spilt, clipped>>
        /\ inventory' = [inventory EXCEPT
                           ![c] = [k \in Kinds |-> IF k \in Loose(c) THEN 0 ELSE @[k]]]
    BY <1>12 DEF DropAll, history
  <2>2. HeldFits'
    <3> MaxItem \in Nat /\ inventory \in [Owners -> [Kinds -> Nat]]
      BY <1>0, Constants DEF GoodsTypes
    <3> QED BY <2>1 DEF HeldFits, AmountsFit
  <2> QED BY <1>1, <1>2, <2>1, <2>2
<1>13. ASSUME NEW c \in Owners, CureCurse(c) PROVE AmountsFit'
  BY <1>1, <1>2, <1>13 DEF CureCurse
<1>14. ASSUME NEW u \in Uids, Unprotect(u) \/ Despawn(u) PROVE AmountsFit'
  BY <1>1, <1>2, <1>14 DEF Unprotect, Despawn, worn, history
<1>15. ASSUME NEW k \in Kinds, NEW c \in Owners \cup {None}, NpcDrop(k, c)
       PROVE  AmountsFit'
  BY <1>1, <1>2, <1>15 DEF NpcDrop, worn
<1>16. ASSUME NEW s \in SpawnSlots, ChestSpawn(s) PROVE AmountsFit'
  <2> DEFINE e == [kind |-> SpawnKind[s], amount |-> 1, slot |-> s]
  <2>1. chest' = <<e>> \o chest /\ UNCHANGED <<inventory, locker, spilt, clipped>>
    BY <1>16 DEF ChestSpawn, worn
  <2>2. e \in Entries /\ EntryFits(e)
    BY Constants DEF Entries, EntryFits
  <2> HIDE DEF e
  <2>3. ChestFits(chest')
    BY <1>0, <2>1, <2>2, ChestsFit
  <2> QED BY <1>1, <1>2, <2>1, <2>3
<1>17. CASE ReloadChests
  <2>1. chest' = <<>> /\ UNCHANGED <<inventory, locker, spilt, clipped>>
    BY <1>17 DEF ReloadChests, worn
  <2>2. ChestFits(chest')
    BY <2>1 DEF ChestFits
  <2> QED BY <1>1, <1>2, <2>1, <2>2
<1>18. CASE UNCHANGED goodsVars
  BY <1>1, <1>2, <1>18 DEF goodsVars
<1> QED
  BY <1>3, <1>4, <1>5, <1>6, <1>7, <1>8, <1>9, <1>10, <1>11, <1>12, <1>13, <1>14,
     <1>15, <1>16, <1>17, <1>18 DEF GoodsNext

LEMMA FitsAtFirst == GoodsInit => AmountsFit
<1> MaxItem \in Nat /\ MaxBank \in Nat
  BY Constants
<1> QED BY DEF GoodsInit, AmountsFit, ChestFits

LEMMA GoodsTyped == GoodsInv /\ AmountsFit => GoodsTypeOK
<1> SUFFICES ASSUME GoodsInv, AmountsFit PROVE GoodsTypeOK
  OBVIOUS
<1>1. GoodsTypes /\ GoodsAccounted
  BY DEF GoodsInv, GoodsKept
<1>2. MaxItem \in Nat /\ MaxBank \in Nat /\ MaxChest \in Nat
  BY Constants
<1>3. inventory \in [Owners -> Counts(MaxItem)] /\ locker \in [Owners -> Counts(MaxBank)]
  BY <1>1, <1>2 DEF GoodsTypes, AmountsFit, Counts
<1>4. ASSUME NEW i \in DOMAIN chest
      PROVE  /\ chest[i].kind \in Kinds /\ chest[i].amount \in {1} \cup 1..MaxChest
             /\ chest[i].slot \in SpawnSlots \cup {0}
  <2>1. chest[i] \in Entries /\ EntryFits(chest[i])
    BY <1>1 DEF GoodsTypes, AmountsFit, ChestFits
  <2>2. /\ chest[i].kind \in Kinds /\ chest[i].amount \in Nat \ {0}
        /\ chest[i].slot \in SpawnSlots \cup {0}
    BY <2>1, EntryFields
  <2> QED BY <1>2, <2>1, <2>2 DEF EntryFits
<1>5. /\ spilt \in [Kinds -> Nat] /\ clipped \in [Kinds -> Nat]
  BY <1>1 DEF GoodsTypes, AmountsFit
<1>6. made \in [Kinds -> Nat]
  <2> SUFFICES ASSUME NEW k \in Kinds PROVE made[k] \in Nat
    BY <1>1 DEF GoodsTypes
  <2>1. InAllPlaces(k) + spilt[k] + clipped[k] = made[k]
    BY <1>1 DEF GoodsAccounted
  <2>2. InAllPlaces(k) \in Nat
    <3>1. Own(k) \in Nat /\ Ground(k) \in Nat /\ InChest(k, chest) \in Nat
      BY <1>1, PlacesCounted
    <3>2. InAllPlaces(k) = Own(k) + Ground(k) + InChest(k, chest)
      BY DEF InAllPlaces, Own, Ground
    <3> QED BY <3>1, <3>2
  <2> QED BY <1>5, <2>1, <2>2
<1>7. \A u \in Uids : ground[u] = None \/ ground[u] \in Things
  BY <1>1 DEF GoodsTypes
<1> QED BY <1>1, <1>3, <1>4, <1>5, <1>6, <1>7 DEF GoodsTypes, GoodsTypeOK

(* The type invariant of Goods, for any limits: no inventory, locker or    *)
(* chest holds more of a thing than its limit, whatever is put or made     *)
(* there, and nothing is lost that was not there.                          *)
THEOREM GoodsAreTyped == GoodsSpec => []GoodsTypeOK
<1>1. GoodsInv /\ AmountsFit /\ [GoodsNext]_goodsVars => AmountsFit'
  BY GoodsFit
<1> QED
  BY <1>1, GoodsStart, GoodsStep, FitsAtFirst, GoodsTyped, PTL DEF GoodsSpec

-----------------------------------------------------------------------------
\* Errands

Items_ == {"gold", "ore", "ware"}

-----------------------------------------------------------------------------
\* Talks

(* A talk begins with somebody of the map the visitor is on.               *)
LEMMA TalkBegins ==
  ASSUME NEW kind, kind # "none", TalkTo(kind)
  PROVE  TalksToPresent'
BY DEF TalkTo, TalksToPresent, There, NoTarget

(* A warp ends it, and so does whatever a rule of a quest makes of it.     *)
LEMMA WarpEndsTalk ==
  ASSUME NEW m, Warp(m)
  PROVE  TalksToPresent'
BY DEF Warp, NoTalk, TalksToPresent

LEMMA TalkGoesOn ==
  ASSUME TalksToPresent, UNCHANGED talk
  PROVE  TalksToPresent'
BY DEF talk, TalksToPresent, There

LEMMA RuledTalk ==
  ASSUME TalksToPresent, Ruled
  PROVE  TalksToPresent'
BY WarpEndsTalk, TalkGoesOn DEF Ruled

LEMMA NextTalks ==
  TalksToPresent /\ [ErrandsNext]_errandsVars => TalksToPresent'
<1> SUFFICES ASSUME TalksToPresent, [ErrandsNext]_errandsVars
             PROVE  TalksToPresent'
  OBVIOUS
<1>1. CASE UNCHANGED errandsVars
  BY <1>1, TalkGoesOn DEF errandsVars
<1>2. CASE Bank_Open \/ Shop_Open \/ StatSkill_Open \/ Barber_Open
           \/ Citizen_Open
  BY <1>2, TalkBegins
     DEF Bank_Open, Shop_Open, StatSkill_Open, Barber_Open, Citizen_Open
<1>3. CASE \E n \in 1..MaxStack : Bank_Add(n) \/ Bank_Take(n) \/ Shop_Buy(n)
                                  \/ Shop_Sell(n)
  BY <1>3, RuledTalk DEF Bank_Add, Bank_Take, Shop_Buy, Shop_Sell
<1>4. CASE Locker_Buy \/ Shop_Create \/ Barber_Buy \/ StatSkill_Junk
  BY <1>4, RuledTalk DEF Locker_Buy, Shop_Create, Barber_Buy, StatSkill_Junk
<1>5. CASE \E s \in DOMAIN SkillReq : StatSkill_Take(s) \/ StatSkill_Remove(s)
  BY <1>5, RuledTalk DEF StatSkill_Take, StatSkill_Remove
<1>6. CASE StatSkill_Add
  BY <1>6, RuledTalk, TalkGoesOn DEF StatSkill_Add
<1>7. CASE Citizen_Accept
  BY <1>7, WarpEndsTalk, TalkGoesOn DEF Citizen_Accept
<1>8. CASE Citizen_Reply \/ Citizen_Remove \/ AskNobody \/ SongEnds
           \/ GetsHurt \/ LevelUp
  BY <1>8, TalkGoesOn
     DEF Citizen_Reply, Citizen_Remove, AskNobody, SongEnds, GetsHurt, LevelUp
<1>9. CASE Jukebox_Open
  BY <1>9 DEF Jukebox_Open, TalksToPresent, There
<1>10. CASE Jukebox_Msg \/ FindsGold
  BY <1>10, RuledTalk DEF Jukebox_Msg, FindsGold
<1>11. CASE Walks
  BY <1>11 DEF Walks, NoTalk, TalksToPresent
<1>12. CASE DiesTalking
  BY <1>12 DEF DiesTalking, TalksToPresent
<1>13. ASSUME NEW m \in Places, Travels(m)
       PROVE  TalksToPresent'
  BY <1>13, WarpEndsTalk DEF Travels
<1>14. ASSUME NEW m \in Places, Reloads(m)
       PROVE  TalksToPresent'
  <2>1. EndTalks(m) /\ mapid' = mapid /\ off' = off
    BY <1>14 DEF Reloads
  <2>2. CASE mapid = m /\ ~off /\ npc # NoTarget /\ npc[2] = m
    BY <2>1, <2>2 DEF EndTalks, NoTalk, TalksToPresent
  <2>3. CASE ~(mapid = m /\ ~off /\ npc # NoTarget /\ npc[2] = m)
    <3>1. /\ npc' = npc /\ npc_type' = npc_type
          /\ freed' = (freed \/ (npc # NoTarget /\ npc[2] = m))
      BY <2>1, <2>3 DEF EndTalks, LeaveTalks
    <3>2. npc # NoTarget /\ ~off => npc[2] # m
      BY <2>3 DEF TalksToPresent
    <3>3. QED
      BY <2>1, <3>1, <3>2 DEF TalksToPresent, There
  <2>4. QED
    BY <2>2, <2>3
<1>15. CASE \E g \in 0..MaxStack : Trades(g)
  BY <1>15 DEF Trades, TalksToPresent, There
<1>16. QED
  BY <1>1, <1>2, <1>3, <1>4, <1>5, <1>6, <1>7, <1>8, <1>9, <1>10, <1>11,
     <1>12, <1>13, <1>14, <1>15 DEF ErrandsNext

(* TalksToPresent for any maps: every Open handler, warp, step, death and  *)
(* reload of a map leaves Character::npc null or pointing to an NPC of the *)
(* map its character is on (npc.cpp 1129), unless that is on no map.       *)
THEOREM WhoIsTalkedToIsThere == ErrandsSpec => []TalksToPresent
<1>1. ErrandsInit => TalksToPresent
  BY DEF ErrandsInit, TalksToPresent
<1>2. QED
  BY <1>1, NextTalks, PTL DEF ErrandsSpec

-----------------------------------------------------------------------------
\* Gold

Bags == [Items_ -> 0..MaxStack]

GoldTypes == /\ bag \in Bags /\ goldbank \in Nat /\ due \in Int
             /\ offer \in Nat /\ bargaining \in BOOLEAN
             /\ bankmax \in Nat /\ level_ \in Nat /\ missing \in Nat

GoldInv == GoldTypes /\ GoldAccounted /\ OfferInHand

(* Character::AddItem and DelItem on an inventory.                         *)
LEMMA AddedIsBag ==
  ASSUME NEW b \in Bags, NEW i \in Items_, NEW n \in Nat
  PROVE  /\ Added(b, i, n) \in Bags
         /\ Added(b, i, n)[i] <= b[i] + n
         /\ Added(b, i, n)[i] >= b[i]
         /\ \A j \in Items_ : j # i => Added(b, i, n)[j] = b[j]
<1>1. Lower(b[i] + n, MaxStack) \in 0..MaxStack
  BY ErrandsAssumption DEF Lower, Bags
<1>2. Added(b, i, n) = [b EXCEPT ![i] = Lower(b[i] + n, MaxStack)]
  BY DEF Added
<1>3. /\ Lower(b[i] + n, MaxStack) <= b[i] + n
      /\ Lower(b[i] + n, MaxStack) >= b[i]
  BY ErrandsAssumption DEF Lower, Bags
<1>4. QED
  BY <1>1, <1>2, <1>3 DEF Bags

LEMMA LessenedIsBag ==
  ASSUME NEW b \in Bags, NEW i \in Items_, NEW n \in Nat
  PROVE  /\ Lessened(b, i, n) \in Bags
         /\ Lessened(b, i, n)[i] = IF b[i] > n THEN b[i] - n ELSE 0
         /\ \A j \in Items_ : j # i => Lessened(b, i, n)[j] = b[j]
<1>1. b[i] \in 0..MaxStack /\ MaxStack \in Nat
  BY ErrandsAssumption DEF Bags
<1>2. (IF b[i] > n THEN b[i] - n ELSE 0) \in 0..MaxStack
  BY <1>1
<1>3. Lessened(b, i, n) = [b EXCEPT ![i] = IF b[i] > n THEN b[i] - n ELSE 0]
  BY DEF Lessened
<1>4. QED
  BY <1>2, <1>3 DEF Bags

(* Whoever looks at HasItem first pays exactly the price, and not with     *)
(* what is offered in a trade.                                             *)
LEMMA PayIsExact ==
  ASSUME GoldInv, NEW price \in Nat, HasItem("gold") >= price
  PROVE  /\ Pay(price) \in Bags
         /\ Pay(price)["gold"] = bag["gold"] - price
         /\ bargaining => offer <= Pay(price)["gold"]
<1>1. "gold" \in Items_
  BY DEF Items_
<1>2. bag["gold"] \in Nat /\ offer \in Nat
  BY <1>1 DEF GoldInv, GoldTypes, Bags
<1>3. bag["gold"] >= price /\ (bargaining => bag["gold"] - offer >= price)
  BY <1>2 DEF HasItem, GoldInv, GoldTypes
<1>4. /\ Pay(price) \in Bags
      /\ Pay(price)["gold"] = IF bag["gold"] > price THEN bag["gold"] - price
                                                     ELSE 0
  BY <1>1, LessenedIsBag DEF Pay, GoldInv, GoldTypes
<1>5. QED
  BY <1>2, <1>3, <1>4

(* A step that has at most as much gold more than it accounts for, and     *)
(* leaves the offer in hand, or ends the trade.                            *)
LEMMA GoldMoved ==
  ASSUME GoldInv, bag' \in Bags, goldbank' \in Nat, due' \in Int,
         bankmax' \in Nat, level_' \in Nat, missing' \in Nat,
         bag'["gold"] + goldbank' - due' <= bag["gold"] + goldbank - due,
         \/ /\ UNCHANGED <<bargaining, offer>>
            /\ bargaining => offer <= bag'["gold"]
         \/ bargaining' = FALSE /\ offer' = 0
  PROVE  GoldInv'
<1>1. "gold" \in Items_
  BY DEF Items_
<1>2. bag["gold"] \in Int /\ bag'["gold"] \in Int
  BY <1>1 DEF GoldInv, GoldTypes, Bags
<1>3. GoldTypes'
  <2>1. bargaining \in BOOLEAN /\ offer \in Nat /\ 0 \in Nat
    BY DEF GoldInv, GoldTypes
  <2>2. bargaining' \in BOOLEAN
    BY <2>1, Zenon
  <2>3. offer' \in Nat
    BY <2>1
  <2>4. QED
    BY <2>2, <2>3 DEF GoldTypes, GoldInv
<1>4. GoldAccounted'
  BY <1>2 DEF GoldInv, GoldTypes, GoldAccounted
<1>5. OfferInHand'
  BY DEF OfferInHand
<1>6. QED
  BY <1>3, <1>4, <1>5 DEF GoldInv

LEMMA RuledOffer ==
  ASSUME Ruled
  PROVE  UNCHANGED <<bargaining, offer>> \/ (bargaining' = FALSE /\ offer' = 0)
BY DEF Ruled, Warp, talk

(* A purchase: the price leaves the purse and the account alike.           *)
LEMMA GoldSpent ==
  ASSUME GoldInv, NEW price \in Nat, HasItem("gold") >= price,
         bag' \in Bags, bag'["gold"] = Pay(price)["gold"],
         due' = due - price, goldbank' = goldbank,
         bankmax' \in Nat, level_' = level_, missing' \in Nat,
         UNCHANGED <<bargaining, offer>> \/ (bargaining' = FALSE /\ offer' = 0)
  PROVE  GoldInv'
<1>1. /\ Pay(price)["gold"] = bag["gold"] - price
      /\ bargaining => offer <= Pay(price)["gold"]
  BY PayIsExact
<1>2. "gold" \in Items_
  BY DEF Items_
<1>3. bag["gold"] \in Int /\ goldbank \in Nat /\ due \in Int /\ level_ \in Nat
  BY <1>2 DEF GoldInv, GoldTypes, Bags
<1>4. /\ bag'["gold"] + goldbank' - due' <= bag["gold"] + goldbank - due
      /\ due' \in Int
  BY <1>1, <1>3
<1>5. \/ /\ UNCHANGED <<bargaining, offer>>
         /\ bargaining => offer <= bag'["gold"]
      \/ bargaining' = FALSE /\ offer' = 0
  BY <1>1
<1>6. QED
  BY <1>3, <1>4, <1>5, GoldMoved

(* Nothing about gold changes.                                             *)
LEMMA GoldUntouched ==
  ASSUME GoldInv, UNCHANGED wallet, bankmax' \in Nat, level_' \in Nat,
         missing' \in Nat,
         UNCHANGED <<bargaining, offer>> \/ (bargaining' = FALSE /\ offer' = 0)
  PROVE  GoldInv'
<1>1. bag' = bag /\ goldbank' = goldbank /\ due' = due
  BY DEF wallet
<1>2. bag \in Bags /\ goldbank \in Nat /\ due \in Int
  BY DEF GoldInv, GoldTypes
<1>3. bag["gold"] + goldbank - due <= bag["gold"] + goldbank - due
  BY <1>2 DEF Bags, Items_
<1>4. bargaining => offer <= bag'["gold"]
  BY <1>1 DEF GoldInv, OfferInHand
<1>5. QED
  BY <1>1, <1>2, <1>3, <1>4, GoldMoved

(* The prices are numbers.                                                 *)
LEMMA Prices ==
  ASSUME GoldInv
  PROVE  /\ \A n \in 1..MaxStack : n * BuyPrice \in Nat /\ n * SellPrice \in Nat
         /\ BankUpgradeBase + bankmax * BankUpgradeStep \in Nat
         /\ BarberBase + (IF level_ > 1 THEN level_ ELSE 1) * BarberStep \in Nat
         /\ SleepBase + missing * SleepPerHP \in Nat
         /\ {SkillCost, JukeboxPrice, OreNeeded, StatPerLevel, SkillPerLevel}
              \subseteq Nat
<1>1. \A a, b \in Nat : a * b \in Nat
  OBVIOUS
<1>2. /\ {BuyPrice, SellPrice, BankUpgradeBase, BankUpgradeStep, BarberBase,
          BarberStep, SleepBase, SleepPerHP, SkillCost, JukeboxPrice,
          OreNeeded, StatPerLevel, SkillPerLevel, MaxStack} \subseteq Nat
      /\ {bankmax, level_, missing} \subseteq Nat
  BY ErrandsAssumption DEF GoldInv, GoldTypes
<1>3. \A a, b, c \in Nat : a + b * c \in Nat
  BY <1>1
<1>4. (IF level_ > 1 THEN level_ ELSE 1) \in Nat
  BY <1>2
<1>5. \A n \in 1..MaxStack : n \in Nat
  BY <1>2
<1>6. QED
  BY <1>1, <1>2, <1>3, <1>4, <1>5

LEMMA NextGold == GoldInv /\ [ErrandsNext]_errandsVars => GoldInv'
<1> SUFFICES ASSUME GoldInv, [ErrandsNext]_errandsVars PROVE GoldInv'
  OBVIOUS
<1>0. /\ bag \in Bags /\ goldbank \in Nat /\ due \in Int /\ offer \in Nat
      /\ bankmax \in Nat /\ level_ \in Nat /\ missing \in Nat
      /\ bag["gold"] \in Nat /\ MaxStack \in Nat
      /\ "gold" \in Items_ /\ "ore" \in Items_ /\ "ware" \in Items_
  BY ErrandsAssumption DEF GoldInv, GoldTypes, Bags, Items_
<1>1. CASE UNCHANGED errandsVars
  BY <1>0, <1>1, GoldUntouched DEF errandsVars, talk, person, points
<1>2. CASE Bank_Open \/ Shop_Open \/ StatSkill_Open \/ Barber_Open
           \/ Citizen_Open
  BY <1>0, <1>2, GoldUntouched
     DEF Bank_Open, Shop_Open, StatSkill_Open, Barber_Open, Citizen_Open,
         TalkTo, person, points
<1>3. ASSUME NEW n \in 1..MaxStack, Bank_Add(n)
      PROVE  GoldInv'
  <2> DEFINE amount == Deposit(n)
  <2>1. /\ ~bargaining /\ bag' = Pay(amount) /\ goldbank' = goldbank + amount
        /\ Ruled /\ due' = due /\ UNCHANGED <<person, points>>
    BY <1>3 DEF Bank_Add
  <2>2. amount \in Nat /\ amount <= HasItem("gold")
    BY <1>0, <2>1 DEF Deposit, Lower, HasItem
  <2> HIDE DEF amount
  <2>3. Pay(amount) \in Bags /\ Pay(amount)["gold"] = bag["gold"] - amount
    BY <2>2, PayIsExact DEF HasItem
  <2>4. /\ bag'["gold"] + goldbank' - due' <= bag["gold"] + goldbank - due
        /\ goldbank' \in Nat
    BY <1>0, <2>1, <2>2, <2>3
  <2>5. UNCHANGED <<bargaining, offer>> \/ (bargaining' = FALSE /\ offer' = 0)
    BY <2>1, RuledOffer
  <2>6. QED
    BY <1>0, <2>1, <2>3, <2>4, <2>5, GoldMoved DEF person, points
<1>4. ASSUME NEW n \in 1..MaxStack, Bank_Take(n)
      PROVE  GoldInv'
  <2>0. n \in Nat
    BY <1>0
  <2>1. /\ goldbank >= n /\ goldbank' = goldbank - n
        /\ bag' = Added(bag, "gold", n)
        /\ Ruled /\ due' = due /\ UNCHANGED <<person, points>>
    BY <1>4 DEF Bank_Take
  <2>2. /\ bag' \in Bags /\ bag'["gold"] <= bag["gold"] + n
        /\ bag'["gold"] >= bag["gold"]
    BY <1>0, <2>0, <2>1, AddedIsBag
  <2>3. bag'["gold"] \in Nat
    BY <1>0, <2>2 DEF Bags
  <2>4. /\ bag'["gold"] + goldbank' - due' <= bag["gold"] + goldbank - due
        /\ goldbank' \in Nat
    BY <1>0, <2>1, <2>2, <2>3
  <2>5. bargaining => offer <= bag'["gold"]
    BY <1>0, <2>2, <2>3 DEF GoldInv, OfferInHand
  <2>6. QED
    BY <1>0, <2>1, <2>2, <2>4, <2>5, RuledOffer, GoldMoved DEF person, points
<1>5. ASSUME NEW n \in 1..MaxStack, Shop_Buy(n)
      PROVE  GoldInv'
  <2> DEFINE cost == n * BuyPrice
  <2>0. n \in Nat /\ "ore" # "gold"
    BY <1>0
  <2>1. /\ HasItem("gold") >= cost /\ bag' = Added(Pay(cost), "ore", n)
        /\ due' = due - cost /\ goldbank' = goldbank
        /\ Ruled /\ UNCHANGED <<person, points>>
    BY <1>5 DEF Shop_Buy
  <2>2. cost \in Nat
    BY Prices
  <2> HIDE DEF cost
  <2>3. Pay(cost) \in Bags
    BY <2>1, <2>2, PayIsExact
  <2>4. bag' \in Bags /\ bag'["gold"] = Pay(cost)["gold"]
    BY <1>0, <2>0, <2>1, <2>3, AddedIsBag
  <2>5. QED
    BY <1>0, <2>1, <2>2, <2>4, RuledOffer, GoldSpent DEF person, points
<1>6. ASSUME NEW n \in 1..MaxStack, Shop_Sell(n)
      PROVE  GoldInv'
  <2> DEFINE owed == n * SellPrice
             rest == Lessened(bag, "ware", n)
  <2>1. /\ ~bargaining /\ bag' = Added(rest, "gold", owed)
        /\ due' = due + owed /\ goldbank' = goldbank
        /\ Ruled /\ UNCHANGED <<person, points>>
    BY <1>6 DEF Shop_Sell
  <2>2. owed \in Nat
    BY Prices
  <2> HIDE DEF owed
  <2>3. rest \in Bags /\ rest["gold"] = bag["gold"]
    BY <1>0, LessenedIsBag
  <2> HIDE DEF rest
  <2>4. bag' \in Bags /\ bag'["gold"] <= bag["gold"] + owed
    BY <1>0, <2>1, <2>2, <2>3, AddedIsBag
  <2>5. bag'["gold"] \in Nat
    BY <1>0, <2>4 DEF Bags
  <2>6. /\ bag'["gold"] + goldbank' - due' <= bag["gold"] + goldbank - due
        /\ due' \in Int
    BY <1>0, <2>1, <2>2, <2>4, <2>5
  <2>7. QED
    BY <1>0, <2>1, <2>4, <2>6, RuledOffer, GoldMoved DEF person, points
<1>7. CASE Locker_Buy
  <2> DEFINE cost == BankUpgradeBase + bankmax * BankUpgradeStep
  <2>1. /\ HasItem("gold") >= cost /\ bag' = Pay(cost) /\ due' = due - cost
        /\ goldbank' = goldbank /\ bankmax' = bankmax + 1
        /\ missing' = missing /\ Ruled /\ UNCHANGED points
    BY <1>7 DEF Locker_Buy
  <2>2. cost \in Nat
    BY Prices
  <2> HIDE DEF cost
  <2>3. Pay(cost) \in Bags
    BY <2>1, <2>2, PayIsExact
  <2>4. bankmax' \in Nat /\ level_' = level_
    BY <1>0, <2>1 DEF points
  <2>5. QED
    BY <1>0, <2>1, <2>2, <2>3, <2>4, RuledOffer, GoldSpent
<1>8. CASE Shop_Create
  <2> DEFINE rest == Lessened(bag, "ore", OreNeeded)
  <2>1. /\ ~bargaining /\ bag' = Added(rest, "ware", 1)
        /\ due' = due /\ goldbank' = goldbank
        /\ Ruled /\ UNCHANGED <<person, points>>
    BY <1>8 DEF Shop_Create
  <2>a. OreNeeded \in Nat /\ 1 \in Nat
    BY Prices
  <2>b. "gold" # "ore" /\ "gold" # "ware"
    OBVIOUS
  <2>2. rest \in Bags /\ rest["gold"] = bag["gold"]
    BY <1>0, <2>a, <2>b, LessenedIsBag
  <2> HIDE DEF rest
  <2>3. bag' \in Bags /\ bag'["gold"] = bag["gold"]
    BY <1>0, <2>1, <2>2, <2>a, <2>b, AddedIsBag
  <2>4. bag'["gold"] + goldbank' - due' <= bag["gold"] + goldbank - due
    BY <1>0, <2>1, <2>3
  <2>5. QED
    BY <1>0, <2>1, <2>3, <2>4, RuledOffer, GoldMoved DEF person, points
<1>9. CASE Barber_Buy
  <2> DEFINE price == BarberBase + (IF level_ > 1 THEN level_ ELSE 1)
                                   * BarberStep
  <2>1. /\ HasItem("gold") >= price /\ bag' = Pay(price) /\ due' = due - price
        /\ goldbank' = goldbank /\ Ruled /\ UNCHANGED <<person, points>>
    BY <1>9 DEF Barber_Buy
  <2>2. price \in Nat
    BY Prices
  <2> HIDE DEF price
  <2>3. Pay(price) \in Bags
    BY <2>1, <2>2, PayIsExact
  <2>4. QED
    BY <1>0, <2>1, <2>2, <2>3, RuledOffer, GoldSpent DEF person, points
<1>10. ASSUME NEW s \in DOMAIN SkillReq, StatSkill_Take(s)
       PROVE  GoldInv'
  <2>1. /\ HasItem("gold") >= SkillCost /\ bag' = Pay(SkillCost)
        /\ due' = due - SkillCost /\ goldbank' = goldbank /\ Ruled
        /\ UNCHANGED <<person, level_>>
    BY <1>10 DEF StatSkill_Take
  <2>2. SkillCost \in Nat
    BY Prices
  <2>3. Pay(SkillCost) \in Bags
    BY <2>1, <2>2, PayIsExact
  <2>4. QED
    BY <1>0, <2>1, <2>2, <2>3, RuledOffer, GoldSpent DEF person
<1>11. CASE \/ \E s \in DOMAIN SkillReq : StatSkill_Remove(s)
            \/ StatSkill_Add \/ StatSkill_Junk
  <2>1. UNCHANGED wallet /\ UNCHANGED person /\ level_' = level_
    BY <1>11 DEF StatSkill_Remove, StatSkill_Add, StatSkill_Junk
  <2>2. Ruled \/ UNCHANGED talk
    BY <1>11 DEF StatSkill_Remove, StatSkill_Add, StatSkill_Junk
  <2>3. UNCHANGED <<bargaining, offer>> \/ (bargaining' = FALSE /\ offer' = 0)
    BY <2>2, RuledOffer DEF talk
  <2>4. QED
    BY <1>0, <2>1, <2>3, GoldUntouched DEF person
<1>12. CASE Citizen_Accept
  <2> DEFINE cost == SleepBase + missing * SleepPerHP
  <2>1. /\ HasItem("gold") >= cost /\ bag' = Pay(cost) /\ due' = due - cost
        /\ missing' = 0 /\ goldbank' = goldbank /\ bankmax' = bankmax
        /\ UNCHANGED points /\ (Warp(Inn) \/ UNCHANGED talk)
    BY <1>12 DEF Citizen_Accept
  <2>2. cost \in Nat
    BY Prices
  <2> HIDE DEF cost
  <2>3. Pay(cost) \in Bags
    BY <2>1, <2>2, PayIsExact
  <2>4. UNCHANGED <<bargaining, offer>> \/ (bargaining' = FALSE /\ offer' = 0)
    BY <2>1 DEF Warp, talk
  <2>5. QED
    BY <1>0, <2>1, <2>2, <2>3, <2>4, GoldSpent DEF points
<1>13. CASE Citizen_Reply \/ Citizen_Remove \/ AskNobody \/ SongEnds
            \/ Jukebox_Open
  BY <1>0, <1>13, GoldUntouched
     DEF Citizen_Reply, Citizen_Remove, AskNobody, SongEnds, Jukebox_Open,
         person, points, talk
<1>14. CASE Jukebox_Msg
  <2>1. /\ HasItem("gold") >= JukeboxPrice /\ bag' = Pay(JukeboxPrice)
        /\ due' = due - JukeboxPrice /\ goldbank' = goldbank /\ Ruled
        /\ UNCHANGED <<person, points>>
    BY <1>14 DEF Jukebox_Msg
  <2>2. JukeboxPrice \in Nat
    BY Prices
  <2>3. Pay(JukeboxPrice) \in Bags
    BY <2>1, <2>2, PayIsExact
  <2>4. QED
    BY <1>0, <2>1, <2>2, <2>3, RuledOffer, GoldSpent DEF person, points
<1>15. CASE FindsGold
  <2>1. /\ due' = due + 1 /\ bag' = Added(bag, "gold", 1)
        /\ goldbank' = goldbank /\ Ruled /\ UNCHANGED <<person, points>>
    BY <1>15 DEF FindsGold
  <2>2. /\ bag' \in Bags /\ bag'["gold"] <= bag["gold"] + 1
        /\ bag'["gold"] >= bag["gold"]
    BY <1>0, <2>1, AddedIsBag
  <2>3. bag'["gold"] \in Nat
    BY <1>0, <2>2 DEF Bags
  <2>4. /\ bag'["gold"] + goldbank' - due' <= bag["gold"] + goldbank - due
        /\ due' \in Int
    BY <1>0, <2>1, <2>2, <2>3
  <2>5. bargaining => offer <= bag'["gold"]
    BY <1>0, <2>2, <2>3 DEF GoldInv, OfferInHand
  <2>6. QED
    BY <1>0, <2>1, <2>2, <2>4, <2>5, RuledOffer, GoldMoved DEF person, points
<1>16. CASE GetsHurt \/ LevelUp
  <2>1. /\ UNCHANGED wallet /\ UNCHANGED talk /\ bankmax' = bankmax
        /\ level_' \in {level_, level_ + 1} /\ missing' \in {missing, missing + 1}
    BY <1>16 DEF GetsHurt, LevelUp, person, points
  <2>2. QED
    BY <1>0, <2>1, GoldUntouched DEF talk
<1>17. CASE Walks \/ DiesTalking
  BY <1>0, <1>17, GoldUntouched DEF Walks, DiesTalking, person, points
<1>18. CASE \E m \in Places : Travels(m) \/ Reloads(m)
  BY <1>0, <1>18, GoldUntouched DEF Travels, Reloads, Warp, person, points
<1>19. ASSUME NEW g \in 0..MaxStack, Trades(g)
       PROVE  GoldInv'
  <2>1. /\ g <= bag["gold"] /\ offer' = g /\ bargaining' = TRUE
        /\ UNCHANGED <<wallet, person, points>>
    BY <1>19 DEF Trades, HasAll
  <2>2. QED
    BY <1>0, <2>1 DEF GoldInv, GoldTypes, GoldAccounted, OfferInHand, wallet,
                      person, points
<1>20. QED
  BY <1>1, <1>2, <1>3, <1>4, <1>5, <1>6, <1>7, <1>8, <1>9, <1>10, <1>11,
     <1>12, <1>13, <1>14, <1>15, <1>16, <1>17, <1>18, <1>19 DEF ErrandsNext

LEMMA GoldBegins == ErrandsInit => GoldInv
<1> SUFFICES ASSUME ErrandsInit PROVE GoldInv
  OBVIOUS
<1>1. bag \in Bags /\ bag["gold"] = 0
  BY ErrandsAssumption DEF ErrandsInit, Bags, Items_
<1>2. GoldTypes
  <2>1. bargaining \in BOOLEAN
    BY Zenon DEF ErrandsInit
  <2>2. QED
    BY <1>1, <2>1 DEF ErrandsInit, GoldTypes
<1>3. GoldAccounted /\ OfferInHand
  BY <1>1 DEF ErrandsInit, GoldAccounted, OfferInHand
<1>4. QED
  BY <1>2, <1>3 DEF GoldInv

(* Gold is carried or banked only if it was come by and not paid since,    *)
(* whatever the prices and limits: each handler takes exactly what it      *)
(* asked HasItem for (Bank.cpp, Locker.cpp, Shop.cpp, StatSkill.cpp,       *)
(* Barber.cpp, Citizen.cpp, Jukebox.cpp), and what a trade offers is never *)
(* spent on the side.                                                      *)
THEOREM GoldIsAccounted == ErrandsSpec => [](GoldAccounted /\ OfferInHand)
<1>1. GoldInv => GoldAccounted /\ OfferInHand
  BY DEF GoldInv
<1>2. QED
  BY <1>1, GoldBegins, NextGold, PTL DEF ErrandsSpec

-----------------------------------------------------------------------------
\* Points

PointsInv ==
  /\ level_ \in Nat /\ stats \in Nat /\ statpoints \in Nat
  /\ skillpoints \in Nat
  /\ skill \in [DOMAIN SkillReq -> Nat \cup {Untaught}]
  /\ PointsKept

(* What is spent on skills, when one of them becomes a natural number or   *)
(* is forgotten.                                                           *)
LEMMA SkillChanged ==
  ASSUME PointsInv, NEW s \in DOMAIN SkillReq, NEW v \in Nat \cup {Untaught},
         skill' = [skill EXCEPT ![s] = v]
  PROVE  /\ skill' \in [DOMAIN SkillReq -> Nat \cup {Untaught}]
         /\ SpentOnSkills \in Nat /\ SpentOnSkills' \in Nat
         /\ SpentOnSkills' = SpentOnSkills
                             - (IF skill[s] = Untaught THEN 0 ELSE skill[s])
                             + (IF v = Untaught THEN 0 ELSE v)
<1>1. /\ skill \in [DOMAIN SkillReq -> Nat \cup {Untaught}]
      /\ skill' \in [DOMAIN SkillReq -> Nat \cup {Untaught}]
  BY DEF PointsInv
<1>2. /\ \A t \in DOMAIN SkillReq : Spent[t] \in Nat /\ Spent'[t] \in Nat
      /\ \A t \in DOMAIN SkillReq \ {s} : Spent'[t] = Spent[t]
      /\ Spent[s] = (IF skill[s] = Untaught THEN 0 ELSE skill[s])
      /\ Spent'[s] = (IF v = Untaught THEN 0 ELSE v)
  BY <1>1 DEF Spent, Knows, Untaught
<1>3. IsFiniteSet(DOMAIN SkillReq)
  BY ErrandsAssumption
<1>4. Total(Spent, DOMAIN SkillReq) \in Nat
      /\ Total(Spent', DOMAIN SkillReq) \in Nat
  BY <1>2, <1>3, TotalNat
<1>5. Total(Spent', DOMAIN SkillReq)
        = Total(Spent, DOMAIN SkillReq) - Spent[s] + Spent'[s]
  BY <1>2, <1>3, TotalChange
<1>6. SpentOnSkills = Total(Spent, DOMAIN SkillReq)
      /\ SpentOnSkills' = Total(Spent', DOMAIN SkillReq)
  BY DEF SpentOnSkills
<1> QED
  BY <1>1, <1>2, <1>4, <1>5, <1>6

LEMMA NothingSpent ==
  ASSUME skill = [t \in DOMAIN SkillReq |-> Untaught]
  PROVE  SpentOnSkills = 0
<1>1. \A t \in DOMAIN SkillReq : Spent[t] = 0
  BY DEF Spent, Knows
<1> QED
  BY <1>1, ErrandsAssumption, TotalZero DEF SpentOnSkills

LEMMA SpentIsNat ==
  ASSUME PointsInv
  PROVE  SpentOnSkills \in Nat
<1>1. \A t \in DOMAIN SkillReq : Spent[t] \in Nat
  BY DEF PointsInv, Spent, Knows
<1> QED
  BY <1>1, ErrandsAssumption, TotalNat DEF SpentOnSkills

LEMMA PointsUntouched ==
  ASSUME PointsInv, UNCHANGED points
  PROVE  PointsInv'
<1>1. SpentOnSkills' = SpentOnSkills
  BY DEF points, SpentOnSkills, Spent, Knows
<1> QED
  BY <1>1 DEF points, PointsInv, PointsKept

LEMMA NextPoints == PointsInv /\ [ErrandsNext]_errandsVars => PointsInv'
<1> SUFFICES ASSUME PointsInv, [ErrandsNext]_errandsVars
             PROVE  PointsInv'
  OBVIOUS
<1>a. StatPerLevel \in Nat /\ SkillPerLevel \in Nat
  BY ErrandsAssumption
<1>b. SpentOnSkills \in Nat
  BY SpentIsNat
<1>c. /\ level_ \in Nat /\ stats \in Nat /\ statpoints \in Nat
      /\ skillpoints \in Nat
      /\ skill \in [DOMAIN SkillReq -> Nat \cup {Untaught}]
      /\ stats + statpoints = level_ * StatPerLevel
      /\ SpentOnSkills + skillpoints <= level_ * SkillPerLevel
  BY DEF PointsInv, PointsKept
<1>1. ASSUME NEW s \in DOMAIN SkillReq, StatSkill_Take(s)
      PROVE  PointsInv'
  <2>1. /\ skill' = [skill EXCEPT ![s] = 0] /\ skill[s] = Untaught
        /\ UNCHANGED <<level_, statpoints, stats, skillpoints>>
    BY <1>1 DEF StatSkill_Take, Knows
  <2>2. /\ skill' \in [DOMAIN SkillReq -> Nat \cup {Untaught}]
        /\ SpentOnSkills' = SpentOnSkills - 0 + 0
    BY <2>1, SkillChanged DEF Untaught
  <2> QED
    BY <1>b, <1>c, <2>1, <2>2 DEF PointsInv, PointsKept
<1>2. ASSUME NEW s \in DOMAIN SkillReq, StatSkill_Remove(s)
      PROVE  PointsInv'
  <2>1. /\ skill' = [skill EXCEPT ![s] = Untaught]
        /\ UNCHANGED <<level_, statpoints, stats, skillpoints>>
    BY <1>2 DEF StatSkill_Remove
  <2>2. /\ skill' \in [DOMAIN SkillReq -> Nat \cup {Untaught}]
        /\ SpentOnSkills' \in Nat
        /\ SpentOnSkills' = SpentOnSkills
                            - (IF skill[s] = Untaught THEN 0 ELSE skill[s]) + 0
    BY <2>1, SkillChanged
  <2>a. SpentOnSkills' <= SpentOnSkills
    BY <1>b, <1>c, <2>2
  <2>3. level_ * SkillPerLevel \in Nat
    BY <1>a, <1>c
  <2> QED
    BY <1>b, <1>c, <2>1, <2>2, <2>3, <2>a DEF PointsInv, PointsKept
<1>3. CASE StatSkill_Add
  <2>1. CASE /\ statpoints > 0 /\ stats' = stats + 1
             /\ statpoints' = statpoints - 1
             /\ UNCHANGED <<skill, skillpoints>> /\ level_' = level_
    <3>1. SpentOnSkills' = SpentOnSkills
      BY <2>1 DEF SpentOnSkills, Spent, Knows
    <3> QED
      BY <1>c, <2>1, <3>1 DEF PointsInv, PointsKept
  <2>2. ASSUME NEW s \in DOMAIN SkillReq, skillpoints > 0, Knows(s),
               skill' = [skill EXCEPT ![s] = @ + 1],
               skillpoints' = skillpoints - 1,
               UNCHANGED <<stats, statpoints>>, level_' = level_
        PROVE  PointsInv'
    <3>1. skill[s] \in Nat /\ skill' = [skill EXCEPT ![s] = skill[s] + 1]
          /\ skill[s] # Untaught /\ skill[s] + 1 \in Nat
          /\ skill[s] + 1 # Untaught
      BY <1>c, <2>2 DEF Knows, Untaught
    <3>2. /\ skill' \in [DOMAIN SkillReq -> Nat \cup {Untaught}]
          /\ SpentOnSkills' = SpentOnSkills - skill[s] + (skill[s] + 1)
      BY <3>1, SkillChanged
    <3>3. SpentOnSkills' = SpentOnSkills + 1
      BY <1>b, <3>1, <3>2
    <3>4. level_ * SkillPerLevel \in Nat
      BY <1>a, <1>c
    <3>5. /\ skillpoints' \in Nat
          /\ SpentOnSkills' + skillpoints' = SpentOnSkills + skillpoints
      BY <1>b, <1>c, <2>2, <3>3
    <3> QED
      BY <1>c, <2>2, <3>2, <3>5 DEF PointsInv, PointsKept
  <2> QED
    BY <1>3, <2>1, <2>2 DEF StatSkill_Add, person
<1>4. CASE StatSkill_Junk
  <2>1. /\ skill' = [t \in DOMAIN SkillReq |-> Untaught]
        /\ stats' = 0 /\ statpoints' = level_ * StatPerLevel
        /\ skillpoints' = level_ * SkillPerLevel /\ level_' = level_
    BY <1>4 DEF StatSkill_Junk
  <2>2. SpentOnSkills' = 0
    <3>1. \A t \in DOMAIN SkillReq : Spent'[t] = 0
      BY <2>1 DEF Spent, Knows
    <3> QED
      BY <3>1, ErrandsAssumption, TotalZero DEF SpentOnSkills
  <2>3. level_ * StatPerLevel \in Nat /\ level_ * SkillPerLevel \in Nat
    BY <1>a, <1>c
  <2> QED
    BY <1>c, <2>1, <2>2, <2>3 DEF PointsInv, PointsKept
<1>5. CASE LevelUp
  <2>1. /\ level_' = level_ + 1 /\ statpoints' = statpoints + StatPerLevel
        /\ skillpoints' = skillpoints + SkillPerLevel
        /\ UNCHANGED <<stats, skill>>
    BY <1>5 DEF LevelUp
  <2>2. SpentOnSkills' = SpentOnSkills
    BY <2>1 DEF SpentOnSkills, Spent, Knows
  <2>3. /\ (level_ + 1) * StatPerLevel = level_ * StatPerLevel + StatPerLevel
        /\ (level_ + 1) * SkillPerLevel = level_ * SkillPerLevel + SkillPerLevel
        /\ level_ * StatPerLevel \in Nat /\ level_ * SkillPerLevel \in Nat
    BY <1>a, <1>c
  <2>4. stats' + statpoints' = level_' * StatPerLevel
    BY <1>a, <1>c, <2>1, <2>3
  <2>5. SpentOnSkills' + skillpoints' <= level_' * SkillPerLevel
    BY <1>a, <1>b, <1>c, <2>1, <2>2, <2>3
  <2> QED
    BY <1>a, <1>c, <2>1, <2>4, <2>5 DEF PointsInv, PointsKept
<1>6. CASE UNCHANGED points
  BY <1>6, PointsUntouched
<1>7. CASE ErrandsNext
  <2>1. CASE Bank_Open \/ Shop_Open \/ StatSkill_Open \/ Barber_Open
             \/ Citizen_Open
    BY <1>6, <2>1
       DEF Bank_Open, Shop_Open, StatSkill_Open, Barber_Open, Citizen_Open,
           TalkTo
  <2>2. CASE \E n \in 1..MaxStack : Bank_Add(n) \/ Bank_Take(n) \/ Shop_Buy(n)
                                    \/ Shop_Sell(n)
    BY <1>6, <2>2 DEF Bank_Add, Bank_Take, Shop_Buy, Shop_Sell
  <2>3. CASE Locker_Buy \/ Shop_Create \/ Barber_Buy \/ Citizen_Accept
             \/ Citizen_Reply \/ Citizen_Remove \/ AskNobody \/ Jukebox_Open
             \/ Jukebox_Msg \/ SongEnds
    BY <1>6, <2>3
       DEF Locker_Buy, Shop_Create, Barber_Buy, Citizen_Accept, Citizen_Reply,
           Citizen_Remove, AskNobody, Jukebox_Open, Jukebox_Msg, SongEnds
  <2>4. CASE Walks \/ DiesTalking \/ FindsGold \/ GetsHurt
    BY <1>6, <2>4 DEF Walks, DiesTalking, FindsGold, GetsHurt
  <2>5. CASE \/ \E m \in Places : Travels(m) \/ Reloads(m)
             \/ \E g \in 0..MaxStack : Trades(g)
    BY <1>6, <2>5 DEF Travels, Reloads, Trades
  <2> QED
    BY <1>1, <1>2, <1>3, <1>4, <1>5, <1>7, <2>1, <2>2, <2>3, <2>4, <2>5
       DEF ErrandsNext
<1> QED
  BY <1>6, <1>7 DEF errandsVars

LEMMA PointsBegin == ErrandsInit => PointsInv
<1> SUFFICES ASSUME ErrandsInit PROVE PointsInv
  OBVIOUS
<1>1. SpentOnSkills = 0
  BY NothingSpent DEF ErrandsInit
<1>2. StatPerLevel \in Nat /\ SkillPerLevel \in Nat
  BY ErrandsAssumption
<1> QED
  BY <1>1, <1>2 DEF ErrandsInit, PointsInv, PointsKept

(* Neither gold nor points come from nowhere, for any prices, limits and   *)
(* skills: a point is put in a skill or a statistic only when it is taken  *)
(* from those left, a level brings as many as Reset gives back             *)
(* (StatSkill.cpp, Character::Reset), and gold is accounted for as above.  *)
THEOREM NothingIsHadForFree == ErrandsSpec => []NothingForFree
<1>1. PointsInv => PointsKept
  BY DEF PointsInv
<1>2. ErrandsSpec => []PointsKept
  BY <1>1, PointsBegin, NextPoints, PTL DEF ErrandsSpec
<1> QED
  BY <1>2, GoldIsAccounted, PTL DEF NothingForFree

-----------------------------------------------------------------------------
\* The rest of the types: who is talked to and where, and what is limited.

Staffed == UNION {People[m] : m \in Places}

TalkTypes ==
  /\ npc \in AllNpcs \cup {NoTarget} /\ npc_type \in Staffed \cup {"none"}
  /\ freed \in BOOLEAN /\ mapid \in Places /\ off \in BOOLEAN
  /\ bargaining \in BOOLEAN /\ offer \in 0..MaxStack

LEMMA NpcsAre ==
  /\ \A m \in Places : \A k \in People[m] : /\ <<k, m>> \in AllNpcs
                                            /\ k \in Staffed
  /\ \A n \in AllNpcs : n[2] \in Places
<1>1. ASSUME NEW m \in Places, NEW k \in People[m]
      PROVE  <<k, m>> \in AllNpcs /\ k \in Staffed
  <2>1. <<k, m>> \in People[m] \X {m}
    OBVIOUS
  <2> QED BY <2>1 DEF AllNpcs, Staffed
<1>2. ASSUME NEW n \in AllNpcs
      PROVE  n[2] \in Places
  <2>1. PICK m \in Places : n \in People[m] \X {m}
    BY DEF AllNpcs
  <2> QED BY <2>1
<1> QED BY <1>1, <1>2

LEMMA TalkKept ==
  ASSUME TalkTypes, UNCHANGED talk
  PROVE  TalkTypes'
BY DEF TalkTypes, talk

LEMMA WarpTypes ==
  ASSUME NEW m \in Places, Warp(m)
  PROVE  TalkTypes'
<1>1. /\ npc' = NoTarget /\ npc_type' = "none" /\ mapid' = m /\ offer' = 0
      /\ freed' = FALSE /\ off' = FALSE /\ bargaining' = FALSE
  BY DEF Warp, NoTalk
<1>2. freed' \in BOOLEAN /\ off' \in BOOLEAN /\ bargaining' \in BOOLEAN
  BY <1>1, Zenon
<1>3. 0 \in 0..MaxStack
  BY ErrandsAssumption
<1> QED BY <1>1, <1>2, <1>3 DEF TalkTypes

LEMMA RuledTypes ==
  ASSUME TalkTypes, Ruled
  PROVE  TalkTypes'
BY TalkKept, WarpTypes DEF Ruled

LEMMA TalkToTypes ==
  ASSUME TalkTypes, NEW kind, TalkTo(kind)
  PROVE  TalkTypes'
<1>1. /\ kind \in People[mapid] /\ mapid \in Places
      /\ npc' = <<kind, mapid>> /\ npc_type' = kind /\ freed' = FALSE
      /\ UNCHANGED <<mapid, off, bargaining, offer>>
  BY DEF TalkTo, TalkTypes
<1>2. freed' \in BOOLEAN
  BY <1>1, Zenon
<1>3. npc' \in AllNpcs /\ npc_type' \in Staffed
  BY <1>1, NpcsAre
<1> QED BY <1>1, <1>2, <1>3 DEF TalkTypes

LEMMA NextTalkTypes == TalkTypes /\ [ErrandsNext]_errandsVars => TalkTypes'
<1> SUFFICES ASSUME TalkTypes, [ErrandsNext]_errandsVars PROVE TalkTypes'
  OBVIOUS
<1>0. Inn \in Places /\ 0 \in 0..MaxStack
  BY ErrandsAssumption DEF Places
<1>1. CASE UNCHANGED talk
  BY <1>1, TalkKept
<1>2. CASE Bank_Open \/ Shop_Open \/ StatSkill_Open \/ Barber_Open
           \/ Citizen_Open
  BY <1>2, TalkToTypes
     DEF Bank_Open, Shop_Open, StatSkill_Open, Barber_Open, Citizen_Open
<1>3. CASE Ruled
  BY <1>3, RuledTypes
<1>4. CASE Citizen_Accept
  BY <1>0, <1>1, <1>4, WarpTypes DEF Citizen_Accept
<1>5. CASE Jukebox_Open
  BY <1>5 DEF Jukebox_Open, TalkTypes
<1>6. CASE Walks
  <2>1. /\ npc' = NoTarget /\ npc_type' = "none" /\ freed' = FALSE
        /\ bargaining' = FALSE /\ offer' = 0 /\ UNCHANGED <<mapid, off>>
    BY <1>6 DEF Walks, NoTalk
  <2>2. freed' \in BOOLEAN /\ bargaining' \in BOOLEAN
    BY <2>1, Zenon
  <2> QED BY <1>0, <2>1, <2>2 DEF TalkTypes
<1>7. CASE DiesTalking
  <2>1. /\ mapid' = Inn /\ off' = TRUE
        /\ UNCHANGED <<npc, npc_type, freed, bargaining, offer>>
    BY <1>7 DEF DiesTalking
  <2>2. off' \in BOOLEAN
    BY <2>1, Zenon
  <2> QED BY <1>0, <2>1, <2>2 DEF TalkTypes
<1>8. ASSUME NEW m \in Places, Travels(m) \/ Reloads(m)
      PROVE  TalkTypes'
  <2>1. CASE Travels(m)
    BY <2>1, WarpTypes DEF Travels
  <2>2. CASE Reloads(m)
    <3>1. EndTalks(m) /\ UNCHANGED <<mapid, off, bargaining, offer>>
      BY <2>2 DEF Reloads
    <3>2. NoTalk \/ LeaveTalks(m)
      BY <3>1 DEF EndTalks
    <3>3. freed' \in BOOLEAN
      BY <3>2, Zenon DEF NoTalk, LeaveTalks
    <3> QED BY <3>1, <3>2, <3>3 DEF NoTalk, LeaveTalks, TalkTypes
  <2> QED BY <1>8, <2>1, <2>2
<1>9. ASSUME NEW g \in 0..MaxStack, Trades(g)
      PROVE  TalkTypes'
  <2>1. /\ bargaining' = TRUE /\ offer' = g
        /\ UNCHANGED <<npc, npc_type, freed, mapid, off>>
    BY <1>9 DEF Trades
  <2>2. bargaining' \in BOOLEAN
    BY <2>1, Zenon
  <2> QED BY <2>1, <2>2 DEF TalkTypes
<1>10. CASE UNCHANGED errandsVars
  BY <1>1, <1>10 DEF errandsVars
<1>11. CASE ErrandsNext
  <2>1. CASE \E n \in 1..MaxStack : Bank_Add(n) \/ Bank_Take(n) \/ Shop_Buy(n)
                                    \/ Shop_Sell(n)
    BY <1>3, <2>1 DEF Bank_Add, Bank_Take, Shop_Buy, Shop_Sell
  <2>2. CASE Locker_Buy \/ Shop_Create \/ Barber_Buy \/ StatSkill_Junk
             \/ Jukebox_Msg \/ FindsGold
    BY <1>3, <2>2
       DEF Locker_Buy, Shop_Create, Barber_Buy, StatSkill_Junk, Jukebox_Msg,
           FindsGold
  <2>3. CASE \E s \in DOMAIN SkillReq : StatSkill_Take(s) \/ StatSkill_Remove(s)
    BY <1>3, <2>3 DEF StatSkill_Take, StatSkill_Remove
  <2>4. CASE StatSkill_Add \/ Citizen_Reply \/ Citizen_Remove \/ AskNobody
             \/ SongEnds \/ GetsHurt \/ LevelUp
    BY <1>1, <1>3, <2>4
       DEF StatSkill_Add, Citizen_Reply, Citizen_Remove, AskNobody, SongEnds,
           GetsHurt, LevelUp
  <2> QED
    BY <1>2, <1>4, <1>5, <1>6, <1>7, <1>8, <1>9, <1>11, <2>1, <2>2, <2>3, <2>4
       DEF ErrandsNext
<1> QED BY <1>10, <1>11

-----------------------------------------------------------------------------
\* What a visitor has and may have at most.

PersonTypes ==
  /\ goldbank <= MaxBankGold /\ bankmax \in 0..MaxBankUpgrades
  /\ home \in Places \cup {"none"} /\ level_ \in 0..MaxLevel
  /\ skill \in [DOMAIN SkillReq -> Untaught..MaxSkillLevel]
  /\ crashed \in BOOLEAN

LEMMA NextPersonTypes ==
  PersonTypes /\ GoldInv /\ TalkTypes /\ [ErrandsNext]_errandsVars => PersonTypes'
<1> SUFFICES ASSUME PersonTypes, GoldInv, TalkTypes, [ErrandsNext]_errandsVars
             PROVE  PersonTypes'
  OBVIOUS
<1>0. /\ MaxSkillLevel \in Nat /\ MaxLevel \in Nat /\ MaxBankUpgrades \in Nat
      /\ MaxBankGold \in Nat /\ MaxStack \in Nat /\ goldbank \in Nat
      /\ level_ \in Nat /\ bankmax \in Nat
  BY ErrandsAssumption DEF GoldInv, GoldTypes
<1>1. CASE UNCHANGED <<goldbank, bankmax, home, level_, skill, crashed>>
  BY <1>1 DEF PersonTypes
<1>2. ASSUME NEW n \in 1..MaxStack, Bank_Add(n) \/ Bank_Take(n)
      PROVE  PersonTypes'
  <2>1. goldbank' <= MaxBankGold
    BY <1>0, <1>2 DEF Bank_Add, Bank_Take, PersonTypes
  <2>2. UNCHANGED <<person, points, crashed>>
    BY <1>2 DEF Bank_Add, Bank_Take, Still
  <2> QED BY <2>1, <2>2 DEF PersonTypes, person, points
<1>3. CASE Locker_Buy
  <2>1. bankmax < MaxBankUpgrades /\ bankmax' = bankmax + 1
        /\ UNCHANGED <<goldbank, home, level_, skill, crashed>>
    BY <1>3 DEF Locker_Buy, Still, points
  <2> QED BY <1>0, <2>1 DEF PersonTypes
<1>4. CASE Citizen_Reply \/ Citizen_Remove
  <2>1. home' \in Places \cup {"none"}
    BY <1>4, NpcsAre DEF Citizen_Reply, Citizen_Remove, Asks, There, TalkTypes
  <2>2. UNCHANGED <<goldbank, bankmax, level_, skill, crashed>>
    BY <1>4 DEF Citizen_Reply, Citizen_Remove, Still, wallet, points
  <2> QED BY <2>1, <2>2 DEF PersonTypes
<1>5. CASE Citizen_Accept \/ AskNobody
  <2>1. UNCHANGED <<goldbank, bankmax, home, level_, skill>>
    BY <1>5 DEF Citizen_Accept, AskNobody, wallet, person, points
  <2>2. crashed' \in {crashed, TRUE}
    BY <1>5 DEF Citizen_Accept, AskNobody
  <2>3. crashed \in BOOLEAN
    BY DEF PersonTypes
  <2>4. crashed' \in BOOLEAN
    BY <2>2, <2>3, Zenon
  <2> QED BY <2>1, <2>4 DEF PersonTypes
<1>6. ASSUME NEW s \in DOMAIN SkillReq,
             NEW v \in Untaught..MaxSkillLevel,
             skill' = [skill EXCEPT ![s] = v],
             UNCHANGED <<goldbank, bankmax, home, level_, crashed>>
      PROVE  PersonTypes'
  BY <1>6 DEF PersonTypes
<1>7. ASSUME NEW s \in DOMAIN SkillReq,
             StatSkill_Take(s) \/ StatSkill_Remove(s)
      PROVE  PersonTypes'
  <2>1. 0 \in Untaught..MaxSkillLevel /\ Untaught \in Untaught..MaxSkillLevel
    BY <1>0 DEF Untaught
  <2>2. skill' = [skill EXCEPT ![s] = 0] \/ skill' = [skill EXCEPT ![s] = Untaught]
    BY <1>7 DEF StatSkill_Take, StatSkill_Remove
  <2>3. UNCHANGED <<goldbank, bankmax, home, level_, crashed>>
    BY <1>7 DEF StatSkill_Take, StatSkill_Remove, Still, wallet, person
  <2> QED BY <1>6, <2>1, <2>2, <2>3
<1>8. CASE StatSkill_Add
  <2>1. UNCHANGED <<goldbank, bankmax, home, level_, crashed>>
    BY <1>8 DEF StatSkill_Add, Still, wallet, person
  <2>2. CASE UNCHANGED skill
    BY <1>1, <2>1, <2>2
  <2>3. ASSUME NEW s \in DOMAIN SkillReq, skill[s] < MaxSkillLevel,
               skill' = [skill EXCEPT ![s] = @ + 1]
        PROVE  PersonTypes'
    <3>1. skill[s] \in Untaught..MaxSkillLevel
      BY DEF PersonTypes
    <3>2. skill[s] + 1 \in Untaught..MaxSkillLevel
      BY <1>0, <2>3, <3>1 DEF Untaught
    <3>3. skill' = [skill EXCEPT ![s] = skill[s] + 1]
      BY <2>3
    <3> QED BY <1>6, <2>1, <3>2, <3>3
  <2> QED BY <1>8, <2>2, <2>3 DEF StatSkill_Add
<1>9. CASE StatSkill_Junk
  <2>1. skill' = [s \in DOMAIN SkillReq |-> Untaught]
        /\ UNCHANGED <<goldbank, bankmax, home, level_, crashed>>
    BY <1>9 DEF StatSkill_Junk, Still, wallet, person
  <2>2. Untaught \in Untaught..MaxSkillLevel
    BY <1>0 DEF Untaught
  <2> QED BY <2>1, <2>2 DEF PersonTypes
<1>10. CASE LevelUp
  <2>1. level_ < MaxLevel /\ level_' = level_ + 1
        /\ UNCHANGED <<goldbank, bankmax, home, skill, crashed>>
    BY <1>10 DEF LevelUp, Still, wallet, person
  <2> QED BY <1>0, <2>1 DEF PersonTypes
<1>11. CASE UNCHANGED errandsVars
  BY <1>1, <1>11 DEF errandsVars, wallet, person, points
<1>12. CASE ErrandsNext
  <2>1. CASE Bank_Open \/ Shop_Open \/ StatSkill_Open \/ Barber_Open
             \/ Citizen_Open
    BY <1>1, <2>1
       DEF Bank_Open, Shop_Open, StatSkill_Open, Barber_Open, Citizen_Open,
           TalkTo, Still, wallet, person, points
  <2>2. CASE \E n \in 1..MaxStack : Shop_Buy(n) \/ Shop_Sell(n)
    BY <1>1, <2>2 DEF Shop_Buy, Shop_Sell, Still, person, points
  <2>3. CASE Shop_Create \/ Barber_Buy \/ Jukebox_Open \/ Jukebox_Msg \/ SongEnds
    BY <1>1, <2>3
       DEF Shop_Create, Barber_Buy, Jukebox_Open, Jukebox_Msg, SongEnds, Still,
           wallet, person, points
  <2>4. CASE Walks \/ DiesTalking \/ FindsGold \/ GetsHurt
    BY <1>1, <2>4
       DEF Walks, DiesTalking, FindsGold, GetsHurt, Still, wallet, person, points
  <2>5. CASE \/ \E m \in Places : Travels(m) \/ Reloads(m)
             \/ \E g \in 0..MaxStack : Trades(g)
    BY <1>1, <2>5 DEF Travels, Reloads, Trades, Still, wallet, person, points
  <2> QED
    BY <1>2, <1>3, <1>4, <1>5, <1>7, <1>8, <1>9, <1>10, <1>12, <2>1, <2>2,
       <2>3, <2>4, <2>5 DEF ErrandsNext
<1> QED BY <1>11, <1>12

(* The type invariant of Errands, for any maps, prices and limits: bank,   *)
(* locker, levels and skills stay within the limits that Bank_Add,         *)
(* Locker_Buy, StatSkill_Add and the level up look at.                     *)
THEOREM ErrandsTyped == ErrandsSpec => []ErrandsTypeOK
<1> DEFINE All == GoldInv /\ PointsInv /\ TalkTypes /\ PersonTypes
<1>1. ErrandsInit => TalkTypes /\ PersonTypes
  <2> SUFFICES ASSUME ErrandsInit PROVE TalkTypes /\ PersonTypes
    OBVIOUS
  <2>1. /\ freed \in BOOLEAN /\ off \in BOOLEAN /\ bargaining \in BOOLEAN
        /\ crashed \in BOOLEAN
    BY Zenon DEF ErrandsInit
  <2>2. /\ Inn \in Places /\ 0 \in 0..MaxStack /\ 0 \in 0..MaxLevel
        /\ 0 \in 0..MaxBankUpgrades /\ 0 <= MaxBankGold
        /\ Untaught \in Untaught..MaxSkillLevel
    BY ErrandsAssumption DEF Places, Untaught
  <2>3. TalkTypes
    BY <2>1, <2>2 DEF ErrandsInit, TalkTypes
  <2>4. PersonTypes
    BY <2>1, <2>2 DEF ErrandsInit, PersonTypes
  <2> QED BY <2>3, <2>4
<1>2. GoldInv /\ PointsInv /\ TalkTypes /\ PersonTypes => ErrandsTypeOK
  <2> SUFFICES ASSUME GoldInv, PointsInv, TalkTypes, PersonTypes
               PROVE  ErrandsTypeOK
    OBVIOUS
  <2>1. bag \in [{"gold", "ore", "ware"} -> 0..MaxStack]
    BY DEF GoldInv, GoldTypes, Bags, Items_
  <2>2. goldbank \in 0..MaxBankGold /\ statpoints >= 0 /\ skillpoints >= 0
    BY ErrandsAssumption DEF GoldInv, GoldTypes, PointsInv, PersonTypes
  <2> QED BY <2>1, <2>2 DEF ErrandsTypeOK, TalkTypes, PersonTypes, Staffed
<1>3. ErrandsSpec => [](GoldInv /\ PointsInv /\ TalkTypes /\ PersonTypes)
  BY <1>1, GoldBegins, PointsBegin, NextGold, NextPoints, NextTalkTypes,
     NextPersonTypes, PTL DEF ErrandsSpec
<1> QED BY <1>2, <1>3, PTL

-----------------------------------------------------------------------------
\* All of the world: each part by itself is a behaviour of its component, so
\* that what is proved of the component is true of the part.

(* Only the part that a behaviour is about moves.                          *)
LEMMA PartsMove ==
  [Next]_vars => /\ [MonstersNext]_monsterVars /\ [ViewNext]_viewVars
                 /\ [GoodsNext]_goodsVars /\ [ErrandsNext]_errandsVars
<1> SUFFICES ASSUME [Next]_vars
             PROVE  /\ [MonstersNext]_monsterVars /\ [ViewNext]_viewVars
                    /\ [GoodsNext]_goodsVars /\ [ErrandsNext]_errandsVars
  OBVIOUS
<1>1. CASE UNCHANGED vars
  BY <1>1 DEF vars
<1>2. CASE Next
  <2>1. Resting(part)
    BY <1>2 DEF Next
  <2>2. \/ part = "monsters" /\ MonstersNext
        \/ part = "view" /\ ViewNext
        \/ part = "goods" /\ GoodsNext
        \/ part = "errands" /\ ErrandsNext
    BY <1>2 DEF Next
  <2> QED BY <2>1, <2>2 DEF Resting
<1> QED BY <1>1, <1>2

(* The type invariants of all that happens on a map, for any constants.    *)
THEOREM WorldIsTyped == Spec => []TypeOK
<1>1. Init => MonstersInit /\ ViewInit /\ GoodsInit /\ ErrandsInit
  BY DEF Init
<1>2. Spec => MonstersSpec /\ ViewSpec /\ GoodsSpec /\ ErrandsSpec
  BY <1>1, PartsMove, PTL DEF Spec, MonstersSpec, ViewSpec, GoodsSpec, ErrandsSpec
<1>3. MonstersTypeOK /\ ViewTypeOK /\ GoodsTypeOK /\ ErrandsTypeOK => TypeOK
  BY DEF TypeOK
<1> QED
  BY <1>2, <1>3, MonstersAreTyped, ViewsAreTyped, GoodsAreTyped, ErrandsTyped, PTL

=============================================================================
