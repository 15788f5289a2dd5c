----------------------------- MODULE MCCommunity -----------------------------
(***************************************************************************)
(* Parties, weddings, arenas, guilds, quests and the timer, for TLC.  They *)
(* share no state these modules tell apart, so each is explored by itself: *)
(* part says which one a behaviour is about, and the others stay where     *)
(* they began.                                                             *)
(***************************************************************************)
EXTENDS Party, Wedding, Arena, Guild, Quest, Spells

VARIABLE part

vars == <<part, partyVars, weddingVars, arenaVars, guildVars, questVars,
          spellsVars>>

TypeOK == /\ part = "party" => PartyTypeOK
          /\ part = "wedding" => WeddingTypeOK
          /\ part = "arena" => ArenaTypeOK
          /\ part = "guild" => GuildTypeOK
          /\ part = "quest" => QuestTypeOK
          /\ part = "timer" => SpellsTypeOK

Init == /\ PartyInit /\ WeddingInit /\ ArenaInit
        /\ GuildInit /\ QuestInit /\ SpellsInit
        /\ part \in {"party", "wedding", "arena", "guild", "quest", "timer"}
        /\ part # "timer" => timers = {1}

Resting(p) == /\ p # "party" => UNCHANGED partyVars
              /\ p # "wedding" => UNCHANGED weddingVars
              /\ p # "arena" => UNCHANGED arenaVars
              /\ p # "guild" => UNCHANGED guildVars
              /\ p # "quest" => UNCHANGED questVars
              /\ p # "timer" => UNCHANGED spellsVars

Next == /\ UNCHANGED part
        /\ \/ part = "party" /\ PartyNext
           \/ part = "wedding" /\ WeddingNext
           \/ part = "arena" /\ ArenaNext
           \/ part = "guild" /\ GuildNext
           \/ part = "quest" /\ QuestNext
           \/ part = "timer" /\ SpellsNext
        /\ Resting(part)

\* WeddingFairness and SpellsFairness, each where its part is explored.
Fairness ==
  /\ WF_weddingVars(part = "wedding" /\ Wedding_Tick)
  /\ WF_spellsVars(part = "timer" /\ (Ticks \/ Callback))
  /\ \A e \in Addresses :
       SF_spellsVars(/\ part = "timer" /\ Fire(e)
                     /\ UNCHANGED <<body, chanting, doors, evacuation>>)

Spec == Init /\ [][Next]_vars /\ Fairness

-----------------------------------------------------------------------------
\* Instances

SongLengths == [s \in 1..12 |-> IF s \in {1, 4, 6} THEN 2 ELSE 1]

Book_ == [bolt |-> [type |-> "damage", target |-> "normal",
                    restrict |-> "any", tp |-> 1, hp |-> 0]]
Never == -1

Do(op, to, q, f) == [cond |-> "none", op |-> op, to |-> to, quest |-> q,
                     fact |-> f]
On_(w, n, d) == [when |-> w, about |-> "ring", need |-> n, op |-> d.op,
                 to |-> d.to, quest |-> d.quest, fact |-> d.fact]
If(c, w, d) == [cond |-> c, op |-> d.op, to |-> d.to, quest |-> d.quest,
                fact |-> d.fact, when |-> w, about |-> "ring"]

\* Quest 0 starts quest 1, and each leads the other on.
Script ==
  [q \in Quests |->
     IF q = 0
     THEN [begin |-> <<Do("startquest", "begin", 1, "")>>,
           loot |-> <<If("if", "has", Do("take", "", 0, "ring")),
                      If("else", "has", Do("give", "", 0, "ring")),
                      Do("setstate", "rest", 0, "")>>,
           rest |-> <<>>]
     ELSE [begin |-> <<>>, loot |-> <<>>]]
Reactions ==
  [q \in Quests |->
     IF q = 0
     THEN [begin |-> <<On_("killed", 2, Do("setstate", "loot", 0, "")),
                       On_("talked", 0, Do("resetquest", "", 1, ""))>>,
           loot |-> <<>>,
           rest |-> <<On_("talked", 0, Do("reset", "", 0, "")),
                      On_("killed", 1, Do("resetdaily", "", 0, ""))>>]
     ELSE [begin |-> <<On_("has", 0, Do("setstate", "loot", 0, "")),
                       On_("killed", 2, Do("setqueststate", "lost", 0, ""))>>,
           loot |-> <<On_("has", 0, Do("setstate", "begin", 0, ""))>>]]
===============================================================================
