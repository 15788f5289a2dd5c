------------------------------ MODULE Errands ------------------------------
(***************************************************************************)
(* What a player does with the people of a map: bank and locker, shop,     *)
(* skill master, barber, inn, and the jukebox (handlers/Bank.cpp,          *)
(* Locker.cpp, Shop.cpp, StatSkill.cpp, Barber.cpp, Citizen.cpp,           *)
(* Jukebox.cpp).  An Open handler remembers the NPC in character->npc and  *)
(* what it is in npc_type; later handlers look at npc_type, and some of    *)
(* them at the NPC.  Meanwhile the visitor walks, dies, is warped, trades, *)
(* and the map is reloaded, which deletes its NPCs.                        *)
(*                                                                         *)
(* One visitor: players share nothing here but the protection of the       *)
(* jukebox.  Three things are carried: gold, and ore of which ware is      *)
(* made.  An item that is taken or given away may meet a rule of a quest,  *)
(* which may warp.  Hair, songs and prices shown are left out.             *)
(***************************************************************************)
EXTENDS Integers, Totals

CONSTANTS
  People,              \* map -> kinds of NPC on it
  Inn,                 \* the map one sleeps and respawns on
  MaxStack, MaxBankGold, MaxBankUpgrades, BankUpgradeBase, BankUpgradeStep,
  BuyPrice, SellPrice, OreNeeded,
  SkillReq,            \* skill -> the skill it needs, or "none"
  SkillCost, MaxSkillLevel, StatPerLevel, SkillPerLevel, MaxLevel,
  SleepBase, SleepPerHP, BarberBase, BarberStep, JukeboxPrice,
  SubscribeAnytime, UnsubscribeAnywhere,   \* of CitizenSubscribe..., Citizen...
  MaxDue, MaxMissing           \* bounds

ASSUME ErrandsAssumption ==
  /\ Inn \in DOMAIN People /\ IsFiniteSet(DOMAIN SkillReq)
  /\ \A n \in {MaxStack, MaxBankGold, MaxBankUpgrades, BankUpgradeBase,
               BankUpgradeStep, OreNeeded, SkillCost, MaxSkillLevel,
               StatPerLevel, SkillPerLevel, MaxLevel, SleepBase, SleepPerHP,
               BarberBase, BarberStep, JukeboxPrice} : n \in Nat
  /\ BuyPrice \in Nat \ {0} /\ SellPrice \in Nat \ {0}

VARIABLES
  npc, npc_type,     \* of the visitor: an NPC or Nobody; its kind
  freed,             \* the NPC that npc points to was deleted
  mapid, off,        \* of the visitor: map; dead and on no map yet
  bag, goldbank, bankmax, home, missing,
  bargaining, offer, \* an open trade, and the gold offered in it
  level_, statpoints, stats, skillpoints, skill,
  jukebox_open, jukebox_protect,
  due,               \* history: gold come by, less what was paid for things
  crashed

talk == <<npc, npc_type, freed, mapid, off, jukebox_open, bargaining, offer>>
wallet == <<bag, goldbank, due>>
person == <<bankmax, home, missing>>
points == <<level_, statpoints, stats, skillpoints, skill>>
errandsVars == <<talk, wallet, person, points, jukebox_protect, crashed>>

Places == DOMAIN People
NoTarget == <<"nobody">>
AllNpcs == UNION {People[m] \X {m} : m \in Places}
There == npc # NoTarget /\ ~freed
Untaught == -1

ErrandsTypeOK ==
  /\ npc \in AllNpcs \cup {NoTarget}
  /\ npc_type \in (UNION {People[m] : m \in Places}) \cup {"none"}
  /\ freed \in BOOLEAN /\ mapid \in Places /\ off \in BOOLEAN
  /\ bag \in [{"gold", "ore", "ware"} -> 0..MaxStack]
  /\ goldbank \in 0..MaxBankGold /\ bankmax \in 0..MaxBankUpgrades
  /\ home \in Places \cup {"none"}
  /\ bargaining \in BOOLEAN /\ offer \in 0..MaxStack
  /\ level_ \in 0..MaxLevel /\ statpoints >= 0 /\ skillpoints >= 0
  /\ skill \in [DOMAIN SkillReq -> Untaught..MaxSkillLevel]
  /\ crashed \in BOOLEAN

ErrandsInit ==
  /\ npc = NoTarget /\ npc_type = "none" /\ freed = FALSE
  /\ mapid = Inn /\ off = FALSE
  /\ bag = [i \in {"gold", "ore", "ware"} |-> 0] /\ goldbank = 0
  /\ bankmax = 0 /\ home = "none" /\ missing = 0
  /\ bargaining = FALSE /\ offer = 0
  /\ level_ = 0 /\ statpoints = 0 /\ stats = 0 /\ skillpoints = 0
  /\ skill = [s \in DOMAIN SkillReq |-> Untaught]
  /\ jukebox_open = FALSE /\ jukebox_protect = FALSE
  /\ due = 0 /\ crashed = FALSE

-----------------------------------------------------------------------------
\* Character::HasItem, AddItem and DelItem

HasAll(item) == bag[item]
HasItem(item) == IF item = "gold" /\ bargaining THEN bag[item] - offer
                                               ELSE bag[item]

Lower(a, b) == IF a < b THEN a ELSE b
\* A mutant of Added: the stack may grow past what an inventory holds.
AddedUncut(inv, item, n) == [inv EXCEPT ![item] = @ + n]
Added(inv, item, n) == [inv EXCEPT ![item] = Lower(@ + n, MaxStack)]
Lessened(inv, item, n) == [inv EXCEPT ![item] = IF @ > n THEN @ - n ELSE 0]

\* Gold for a thing, and the rest of the inventory afterwards.
Pay(price) == Lessened(bag, "gold", price)

NoTalk == npc' = NoTarget /\ npc_type' = "none" /\ freed' = FALSE

\* Character::Warp closes all talks.
Warp(m) ==
  /\ mapid' = m /\ off' = FALSE /\ NoTalk
  /\ jukebox_open' = FALSE /\ bargaining' = FALSE /\ offer' = 0

\* CalculateStats looks at the rules of quests.
Ruled == UNCHANGED talk \/ \E m \in Places : Warp(m)

Does == ~crashed
At(kind) == Does /\ npc_type = kind
Asks(kind) == At(kind) /\ There
Still == UNCHANGED <<jukebox_protect, crashed>>

-----------------------------------------------------------------------------

TalkTo(kind) ==
  /\ Does /\ kind \in People[mapid] /\ ~off
  /\ npc' = <<kind, mapid>> /\ npc_type' = kind /\ freed' = FALSE
  /\ UNCHANGED <<mapid, off, jukebox_open, bargaining, offer>>
  /\ Still /\ UNCHANGED <<wallet, person, points>>

Bank_Open == TalkTo("bank")
Shop_Open == TalkTo("shop")
StatSkill_Open == TalkTo("skills")
Barber_Open == TalkTo("barber")
Citizen_Open == TalkTo("inn")

Deposit(amount) == Lower(amount, HasItem("gold"))
Bank_Add(asked) ==
  /\ At("bank") /\ ~bargaining
  /\ LET amount == Deposit(asked) IN
     /\ goldbank + amount <= MaxBankGold
     /\ bag' = Pay(amount) /\ goldbank' = goldbank + amount
  /\ Ruled /\ Still /\ UNCHANGED <<due, person, points>>

\* What does not fit in the inventory is gone.
Bank_Take(amount) ==
  /\ At("bank") /\ goldbank >= amount
  /\ goldbank' = goldbank - amount
  /\ bag' = Added(bag, "gold", amount)
  /\ Ruled /\ Still /\ UNCHANGED <<due, person, points>>

Locker_Buy ==
  LET cost == BankUpgradeBase + bankmax * BankUpgradeStep IN
  /\ At("bank") /\ ~bargaining
  /\ bankmax < MaxBankUpgrades /\ HasItem("gold") >= cost
  /\ bankmax' = bankmax + 1 /\ bag' = Pay(cost) /\ due' = due - cost
  /\ Ruled /\ Still /\ UNCHANGED <<goldbank, home, missing, points>>

Shop_Create ==
  /\ Asks("shop") /\ ~bargaining /\ HasItem("ore") >= OreNeeded
  /\ bag' = Added(Lessened(bag, "ore", OreNeeded), "ware", 1)
  /\ Ruled /\ Still /\ UNCHANGED <<goldbank, due, person, points>>

Shop_Buy(amount) ==
  LET cost == amount * BuyPrice IN
  /\ Asks("shop") /\ ~bargaining /\ cost <= MaxStack /\ HasItem("gold") >= cost
  /\ bag' = Added(Pay(cost), "ore", amount) /\ due' = due - cost
  /\ Ruled /\ Still /\ UNCHANGED <<goldbank, person, points>>

Shop_Sell(amount) ==
  LET owed == amount * SellPrice IN
  /\ Asks("shop") /\ ~bargaining /\ owed <= MaxStack - HasItem("gold")
  /\ due + owed <= MaxDue
  /\ HasItem("ware") >= amount
  /\ bag' = Added(Lessened(bag, "ware", amount), "gold", owed)
  /\ due' = due + owed
  /\ Ruled /\ Still /\ UNCHANGED <<goldbank, person, points>>

Knows(s) == skill[s] # Untaught
StatSkill_Take(s) ==
  /\ Asks("skills") /\ ~Knows(s) /\ HasItem("gold") >= SkillCost
  /\ SkillReq[s] # "none" => Knows(SkillReq[s])
  /\ bag' = Pay(SkillCost) /\ due' = due - SkillCost
  /\ skill' = [skill EXCEPT ![s] = 0]
  /\ Ruled /\ Still
  /\ UNCHANGED <<goldbank, person, level_, statpoints, stats, skillpoints>>

\* DelSpell: the points spent on it are gone.
StatSkill_Remove(s) ==
  /\ At("skills") /\ skill' = [skill EXCEPT ![s] = Untaught]
  /\ Ruled /\ Still
  /\ UNCHANGED <<wallet, person, level_, statpoints, stats, skillpoints>>

\* Anywhere.
StatSkill_Add ==
  /\ Does
  /\ \/ /\ statpoints > 0 /\ stats' = stats + 1 /\ statpoints' = statpoints - 1
        /\ Ruled /\ UNCHANGED <<skill, skillpoints>>
     \/ \E s \in DOMAIN SkillReq :
          /\ skillpoints > 0 /\ Knows(s) /\ skill[s] < MaxSkillLevel
          /\ skill' = [skill EXCEPT ![s] = @ + 1]
          /\ skillpoints' = skillpoints - 1
          /\ UNCHANGED <<talk, stats, statpoints>>
  /\ Still /\ UNCHANGED <<wallet, person, level_>>

\* Character::Reset gives the points back, and takes what was made of them.
StatSkill_Junk ==
  /\ At("skills") /\ stats' = 0 /\ skill' = [s \in DOMAIN SkillReq |-> Untaught]
  /\ statpoints' = level_ * StatPerLevel
  /\ skillpoints' = level_ * SkillPerLevel
  /\ Ruled /\ Still /\ UNCHANGED <<wallet, person, level_>>

Barber_Buy ==
  LET price == BarberBase + (IF level_ > 1 THEN level_ ELSE 1) * BarberStep IN
  /\ At("barber") /\ ~bargaining /\ HasItem("gold") >= price
  /\ bag' = Pay(price) /\ due' = due - price
  /\ Ruled /\ Still /\ UNCHANGED <<goldbank, person, points>>

\* A rule met when the gold is taken closes the talk, and then the NPC asked
\* for its town is a null pointer.
Citizen_Accept ==
  LET cost == SleepBase + missing * SleepPerHP IN
  /\ Asks("inn") /\ HasItem("gold") >= cost
  /\ bag' = Pay(cost) /\ due' = due - cost /\ missing' = 0
  /\ \/ Warp(Inn) /\ UNCHANGED crashed
     \/ cost > 0 /\ crashed' = TRUE /\ UNCHANGED talk
  /\ UNCHANGED <<jukebox_protect, goldbank, bankmax, home, points>>

Citizen_Reply ==
  /\ Asks("inn") /\ (home = "none" \/ SubscribeAnytime)
  /\ home' = npc[2]
  /\ Still /\ UNCHANGED <<talk, wallet, bankmax, missing, points>>

Citizen_Remove ==
  /\ Asks("inn") /\ (home = npc[2] \/ UnsubscribeAnywhere)
  /\ home' = "none"
  /\ Still /\ UNCHANGED <<talk, wallet, bankmax, missing, points>>

\* What reads an NPC that is gone: any outcome, and the worst of them here.
AskNobody ==
  /\ Does /\ npc_type \in {"shop", "skills", "inn"} /\ ~There
  /\ crashed' = TRUE
  /\ UNCHANGED <<talk, wallet, person, points, jukebox_protect>>

Jukebox_Open ==
  /\ Does /\ ~off /\ jukebox_open' = TRUE
  /\ UNCHANGED <<npc, npc_type, freed, mapid, off, bargaining, offer>>
  /\ Still /\ UNCHANGED <<wallet, person, points>>

Jukebox_Msg ==
  /\ Does /\ ~bargaining /\ jukebox_open /\ ~jukebox_protect
  /\ HasItem("gold") >= JukeboxPrice
  /\ bag' = Pay(JukeboxPrice) /\ due' = due - JukeboxPrice
  /\ jukebox_protect' = TRUE
  /\ Ruled /\ UNCHANGED <<crashed, goldbank, person, points>>

SongEnds == /\ Does /\ jukebox_protect /\ jukebox_protect' = FALSE
            /\ UNCHANGED <<talk, wallet, person, points, crashed>>

-----------------------------------------------------------------------------
\* What happens besides.

\* Walk_Player: a step ends every talk.
Walks ==
  /\ Does /\ ~off /\ NoTalk /\ jukebox_open' = FALSE
  /\ bargaining' = FALSE /\ offer' = 0
  /\ Still /\ UNCHANGED <<mapid, wallet, person, points, off>>

Travels(m) == Does /\ (off => m = Inn) /\ Warp(m)
              /\ Still /\ UNCHANGED <<wallet, person, points>>

\* DeathRespawn: on no map until Internal_Warp, the talk still open.
DiesTalking ==
  /\ Does /\ ~off /\ off' = TRUE /\ mapid' = Inn
  /\ UNCHANGED <<npc, npc_type, freed, jukebox_open, bargaining, offer>>
  /\ Still /\ UNCHANGED <<wallet, person, points>>

\* Map::Reload: ~NPC ends the talks of those the map lists.
LeaveTalks(m) == freed' = (freed \/ (npc # NoTarget /\ npc[2] = m))
                 /\ UNCHANGED <<npc, npc_type>>
EndTalks(m) == IF mapid = m /\ ~off /\ npc # NoTarget /\ npc[2] = m
               THEN NoTalk ELSE LeaveTalks(m)
Reloads(m) ==
  /\ Does /\ EndTalks(m)
  /\ Still /\ UNCHANGED <<mapid, off, jukebox_open, bargaining, offer, wallet,
                         person, points>>

Trades(gold) ==
  /\ Does /\ ~off /\ bargaining' = TRUE
  /\ gold <= HasAll("gold") /\ offer' = gold
  /\ UNCHANGED <<npc, npc_type, freed, mapid, off, jukebox_open>>
  /\ Still /\ UNCHANGED <<wallet, person, points>>

FindsGold ==
  /\ Does /\ due < MaxDue /\ due' = due + 1
  /\ bag' = Added(bag, "gold", 1)
  /\ Ruled /\ Still /\ UNCHANGED <<goldbank, person, points>>

GetsHurt == Does /\ missing < MaxMissing /\ missing' = missing + 1
            /\ Still /\ UNCHANGED <<talk, wallet, bankmax, home, points>>

LevelUp ==
  /\ Does /\ level_ < MaxLevel /\ level_' = level_ + 1
  /\ statpoints' = statpoints + StatPerLevel
  /\ skillpoints' = skillpoints + SkillPerLevel
  /\ Still /\ UNCHANGED <<talk, wallet, person, stats, skill>>

ErrandsNext ==
  \/ Bank_Open \/ Shop_Open \/ StatSkill_Open \/ Barber_Open \/ Citizen_Open
  \/ \E n \in 1..MaxStack : \/ Bank_Add(n) \/ Bank_Take(n)
                           \/ Shop_Buy(n) \/ Shop_Sell(n)
  \/ Locker_Buy \/ Shop_Create \/ Barber_Buy
  \/ \E s \in DOMAIN SkillReq : StatSkill_Take(s) \/ StatSkill_Remove(s)
  \/ StatSkill_Add \/ StatSkill_Junk
  \/ Citizen_Accept \/ Citizen_Reply \/ Citizen_Remove \/ AskNobody
  \/ Jukebox_Open \/ Jukebox_Msg \/ SongEnds
  \/ Walks \/ DiesTalking \/ FindsGold \/ GetsHurt \/ LevelUp
  \/ \E m \in Places : Travels(m) \/ Reloads(m)
  \/ \E g \in 0..MaxStack : Trades(g)

ErrandsSpec == ErrandsInit /\ [][ErrandsNext]_errandsVars

-----------------------------------------------------------------------------
\* Whoever one talks to is there, on the same map, and is what npc_type says
\* (handlers/Shop.cpp:36, npc.cpp:1129), but for those who died and are on no
\* map yet.
TalksToPresent ==
  /\ npc_type = "none" <=> npc = NoTarget
  /\ npc # NoTarget /\ ~off => /\ There /\ npc[2] = mapid
                             /\ npc[1] = npc_type

\* Gold is carried or banked only if it was come by and not paid for
\* something since: whoever it is bought from, nothing is had for less than
\* its price (handlers/Bank.cpp:59, character.cpp:773).
GoldAccounted == bag["gold"] + goldbank <= due

\* Whatever is bought during a trade, the gold offered in it is still there
\* (handlers/StatSkill.cpp:79, Citizen.cpp:65: they do not look for a trade).
OfferInHand == bargaining => offer <= bag["gold"]

\* Points come with levels only: what was spent and what is left add up.
Spent == [s \in DOMAIN SkillReq |-> IF Knows(s) THEN skill[s] ELSE 0]
SpentOnSkills == Total(Spent, DOMAIN SkillReq)
PointsKept == /\ stats + statpoints = level_ * StatPerLevel
              /\ SpentOnSkills + skillpoints <= level_ * SkillPerLevel

\* Neither gold nor points come from nowhere, whoever is dealt with in
\* whatever order, and what was offered in a trade is not spent elsewhere.
NothingForFree == GoldAccounted /\ OfferInHand /\ PointsKept
===========================================================================
