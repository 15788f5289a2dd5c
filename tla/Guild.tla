--------------------------------- MODULE Guild ---------------------------------
(***************************************************************************)
(* Guilds.  Who belongs to a guild is kept in three places: the guild's    *)
(* list of members, the pointer and rank of each loaded character, and the *)
(* row of each character in the database, which is written when the        *)
(* character leaves the game.  The guild object lives as long as some      *)
(* character points to it and is read back from the rows.                  *)
(*                                                                         *)
(* Characters are loaded by a worker while the server loop goes on         *)
(* handling packets ("loading"), and wait in the menu of their account     *)
(* before they enter the game.  Where on the map players stand, gold, the  *)
(* bank and the guild's texts are left out.                                *)
(***************************************************************************)
EXTENDS Naturals, FiniteSets

CONSTANTS Folk, Tags, NoTag,
          LastRank,        \* 9; 0 is the founder's
          CreateMembers,   \* config GuildCreateMembers
          KickRank, RecruitRank, DisbandRank, PromoteRank, DemoteRank,
          PromoteSameRank, MultipleFounders,
          MaxDealings      \* bound: dealings with the guild's officials

ASSUME GuildAssumption ==
  /\ NoTag \notin Tags /\ LastRank \in Nat \ {0} /\ CreateMembers \in Nat \ {0}
  /\ {KickRank, RecruitRank, DisbandRank, PromoteRank, DemoteRank,
      PromoteSameRank} \subseteq Nat
  /\ MultipleFounders \in BOOLEAN /\ MaxDealings \in Nat

Ranks == 0..LastRank
NotIn == LastRank + 1
NoOneIn == [c \in Folk |-> NotIn]

VARIABLES
  where,         \* of a character: "off", "loading", "menu", "game"
  guilds,        \* [ptr, rank: of the characters' objects, row: in the
                 \*  database, list: members of the guilds in memory,
                 \*  exists: rows of `guilds`]
  creations,     \* Character::guild_create of each leader
  create_cache,  \* the leader of the creation a tag leads to
  guild_invite, guild_join,
  raced,         \* history: a member was removed while being loaded
  dealings

guildVars == <<where, guilds, creations, create_cache, guild_invite,
               guild_join, raced, dealings>>
founding == <<creations, create_cache, guild_invite>>

NoCreation == [tag |-> NoTag, members |-> {}]
Rows == [guild : Tags \cup {NoTag}, rank : Ranks]

GuildTypeOK ==
  /\ where \in [Folk -> {"off", "loading", "menu", "game"}]
  /\ guilds \in [ptr : [Folk -> Tags \cup {NoTag}], rank : [Folk -> Ranks],
                 row : [Folk -> Rows], list : [Tags -> [Folk -> 0..NotIn]],
                 exists : SUBSET Tags]
  /\ creations \in [Folk -> [tag : Tags \cup {NoTag}, members : SUBSET Folk]]
  /\ create_cache \in [Tags -> Folk \cup {NoTag}]
  /\ guild_invite \in [Folk -> Tags \cup {NoTag}]
  /\ guild_join \in [Folk -> Tags \cup {NoTag}]
  /\ raced \in BOOLEAN /\ dealings \in 0..MaxDealings

GuildInit ==
  /\ where = [c \in Folk |-> "off"]
  /\ guilds = [ptr |-> [c \in Folk |-> NoTag], rank |-> [c \in Folk |-> 0],
               row |-> [c \in Folk |-> [guild |-> NoTag, rank |-> 0]],
               list |-> [g \in Tags |-> NoOneIn], exists |-> {}]
  /\ creations = [c \in Folk |-> NoCreation]
  /\ create_cache = [g \in Tags |-> NoTag]
  /\ guild_invite = [c \in Folk |-> NoTag]
  /\ guild_join = [c \in Folk |-> NoTag]
  /\ raced = FALSE /\ dealings = 0

InGame(c) == where[c] = "game"
Held(G)   == {G.ptr[c] : c \in Folk} \ {NoTag}

-----------------------------------------------------------------------------
(* What becomes of the guilds that nobody points to after a change from    *)
(* the state before: one without members leaves the database too.          *)
Settle(G) ==
  LET freed == Held(guilds) \ Held(G)
      empty == {g \in freed : G.list[g] = NoOneIn}
  IN  [G EXCEPT !.list = [g \in Tags |-> IF g \in freed THEN NoOneIn
                                         ELSE G.list[g]],
                !.exists = @ \ empty,
                !.row = [c \in Folk |-> IF G.row[c].guild \in empty
                                        THEN [guild |-> NoTag, rank |-> 0]
                                        ELSE G.row[c]]]

(* A guild that is not in memory is read from the rows.                    *)
GetGuild(G, g) ==
  IF g \in Held(G) THEN G
  ELSE [G EXCEPT !.list[g] = [c \in Folk |-> IF G.row[c].guild = g
                                             THEN G.row[c].rank ELSE NotIn]]

AddMember(G, g, c, r) ==
  [G EXCEPT !.ptr[c] = g, !.rank[c] = r, !.list[g][c] = r]

(* A member is taken off the list and, by its name, from its object and,   *)
(* unless it is in the game, from its row: whatever guild these mean.  The *)
(* mutant looks for the object among the players in the game only.         *)
DelMemberOf(G, g, c, objects) ==
  [G EXCEPT
     !.list[g][c] = NotIn,
     !.ptr[c]  = IF where[c] \in objects THEN NoTag ELSE @,
     !.rank[c] = IF where[c] \in objects THEN 0 ELSE @,
     !.row[c]  = IF InGame(c) THEN @ ELSE [guild |-> NoTag, rank |-> 0]]

DelMemberInGame(G, g, c) == DelMemberOf(G, g, c, {"game"})
DelMember(G, g, c)       == DelMemberOf(G, g, c, {"menu", "game"})

(* ~Guild_Create: the tag's entry goes, whosever creation it leads to by   *)
(* now.                                                                    *)
CancelCreate(cache, create) ==
  [g \in Tags |-> IF g = create.tag THEN NoTag ELSE cache[g]]

-----------------------------------------------------------------------------
(* Founding: the leader asks, and players near it are invited; what it     *)
(* asked for before is dropped, after the new entry is made.               *)
Guild_Request(c, g) ==
  /\ InGame(c) /\ guilds.ptr[c] = NoTag
  /\ g \notin guilds.exists
  /\ creations' = [creations EXCEPT ![c] = [tag |-> g, members |-> {c}]]
  /\ create_cache' = CancelCreate([create_cache EXCEPT ![g] = c],
                                  creations[c])
  /\ \E near \in SUBSET {d \in Folk \ {c} : InGame(d)
                                            /\ guilds.ptr[d] = NoTag} :
       guild_invite' = [d \in Folk |-> IF d \in near THEN g
                                       ELSE guild_invite[d]]
  /\ UNCHANGED <<where, guilds, guild_join, raced>>

Guild_Accept(c) ==
  LET g == guild_invite[c]
  IN  /\ InGame(c) /\ g # NoTag
      /\ creations' = IF create_cache[g] = NoTag THEN creations
                      ELSE [creations EXCEPT
                              ![create_cache[g]].members = @ \cup {c}]
      /\ guild_invite' = [guild_invite EXCEPT ![c] = NoTag]
      /\ UNCHANGED <<where, guilds, create_cache, guild_join, raced>>

(* Those who accepted and are in the game become members, whatever guild   *)
(* they have joined since.                                                 *)
Guild_Create(c, g) ==
  LET present == {d \in creations[c].members : InGame(d)}
      G == GetGuild([guilds EXCEPT !.exists = @ \cup {g}], g)
      RankOf(d) == IF d = c THEN 0 ELSE LastRank
  IN  /\ InGame(c) /\ guilds.ptr[c] = NoTag
      /\ create_cache[g] = c
      /\ Cardinality(creations[c].members) >= CreateMembers
      /\ guilds' = Settle([G EXCEPT
           !.ptr = [d \in Folk |-> IF d \in present THEN g ELSE G.ptr[d]],
           !.rank = [d \in Folk |-> IF d \in present THEN RankOf(d)
                                    ELSE G.rank[d]],
           !.list[g] = [d \in Folk |-> IF d \in present THEN RankOf(d)
                                       ELSE G.list[g][d]]])
      /\ creations' = [creations EXCEPT ![c] = NoCreation]
      /\ create_cache' = [create_cache EXCEPT ![g] = NoTag]
      /\ UNCHANGED <<where, guild_invite, guild_join, raced>>

(* Joining: a player asks a recruiter, who may accept it any time later.   *)
Guild_Player(c, r) ==
  /\ InGame(c) /\ guilds.ptr[c] = NoTag
  /\ InGame(r) /\ guilds.ptr[r] # NoTag /\ guilds.rank[r] <= RecruitRank
  /\ guild_join' = [guild_join EXCEPT ![c] = guilds.ptr[r]]
  /\ UNCHANGED <<where, guilds, founding, raced>>

Guild_Use(r, c) ==
  /\ InGame(r) /\ guilds.ptr[r] # NoTag /\ guilds.rank[r] <= RecruitRank
  /\ InGame(c) /\ guilds.ptr[c] = NoTag
  /\ guild_join[c] = guilds.ptr[r]
  /\ guilds' = AddMember(guilds, guilds.ptr[r], c, LastRank)
  /\ UNCHANGED <<where, founding, guild_join, raced>>

WarpedAway(c) == /\ InGame(c)
             /\ guild_join' = [guild_join EXCEPT ![c] = NoTag]
             /\ guild_invite' = [guild_invite EXCEPT ![c] = NoTag]
             /\ UNCHANGED <<where, guilds, creations, create_cache, raced>>

(* Removing d from guild g.                                                *)
Removed(g, d) ==
  /\ guilds' = Settle(DelMember(guilds, g, d))
  /\ raced' = (where[d] = "loading")
  /\ UNCHANGED <<where, founding, guild_join>>

Guild_Remove(c) == /\ InGame(c) /\ guilds.ptr[c] # NoTag
                   /\ Removed(guilds.ptr[c], c)

Guild_Kick(c, d) ==
  LET g == guilds.ptr[c]
  IN  /\ InGame(c) /\ g # NoTag /\ guilds.rank[c] <= KickRank
      /\ guilds.list[g][d] \in Ranks /\ guilds.list[g][d] > guilds.rank[c]
      /\ Removed(g, d)

Guild_Junk(c) ==
  LET g == guilds.ptr[c]
      on(d) == guilds.list[g][d] # NotIn
      all == {d \in Folk : on(d)}
      loaded == {d \in all : where[d] \in {"menu", "game"}}
  IN  /\ InGame(c) /\ g # NoTag /\ guilds.rank[c] <= DisbandRank
      /\ guilds' = Settle([guilds EXCEPT
           !.list[g] = NoOneIn,
           !.ptr = [d \in Folk |-> IF d \in loaded THEN NoTag ELSE @[d]],
           !.rank = [d \in Folk |-> IF d \in loaded THEN 0 ELSE @[d]],
           !.row = [d \in Folk |-> IF d \in all /\ ~InGame(d)
                                   THEN [guild |-> NoTag, rank |-> 0]
                                   ELSE @[d]]])
      /\ raced' = \E d \in all : where[d] = "loading"
      /\ UNCHANGED <<where, founding, guild_join>>

(* Ranking: the rights by the ranker's object, the target by the list.     *)
MayRank(mine, old, new) ==
  /\ old # 0
  /\ IF new = 0 THEN mine = 0 /\ MultipleFounders
     ELSE /\ mine <= IF new <= old THEN PromoteRank ELSE DemoteRank
          /\ mine = 0 \/ mine < old
          /\ new > mine \/ (mine <= PromoteSameRank /\ mine <= new)

Guild_Rank(c, d, r) ==
  LET g == guilds.ptr[c]
  IN  /\ InGame(c) /\ g # NoTag
      /\ guilds.list[g][d] \in Ranks
      /\ MayRank(guilds.rank[c], guilds.list[g][d], r)
      /\ guilds' = [guilds EXCEPT
           !.list[g][d] = r,
           !.rank[d] = IF where[d] \in {"menu", "game"} THEN r ELSE @,
           !.row[d].rank = IF InGame(d) THEN @ ELSE r]
      /\ UNCHANGED <<where, founding, guild_join, raced>>

-----------------------------------------------------------------------------
(* A worker reads the row of c and gets its guild; then the loop learns of *)
(* the player.                                                             *)
LoadGuild(c) ==
  LET g == guilds.row[c].guild
      G == IF g \in guilds.exists THEN GetGuild(guilds, g) ELSE guilds
  IN  /\ where[c] = "off"
      /\ where' = [where EXCEPT ![c] = "loading"]
      /\ guilds' = IF g \in guilds.exists
                   THEN [G EXCEPT !.ptr[c] = g, !.rank[c] = guilds.row[c].rank]
                   ELSE G
      /\ UNCHANGED <<founding, guild_join, raced>>

Loaded(c) == /\ where[c] \in {"loading", "menu"}
             /\ where' = [where EXCEPT ![c] = IF where[c] = "loading"
                                              THEN "menu" ELSE "game"]
             /\ UNCHANGED <<guilds, founding, guild_join, raced>>

(* The object of c goes; from the game it is saved first.                  *)
Unload(c) ==
  LET G == IF InGame(c)
           THEN [guilds EXCEPT !.row[c] = [guild |-> guilds.ptr[c],
                                           rank |-> guilds.rank[c]]]
           ELSE guilds
  IN  /\ where[c] \in {"menu", "game"}
      /\ where' = [where EXCEPT ![c] = "off"]
      /\ guilds' = Settle([G EXCEPT !.ptr[c] = NoTag, !.rank[c] = 0])
      /\ creations' = [creations EXCEPT ![c] = NoCreation]
      /\ create_cache' = CancelCreate(create_cache, creations[c])
      /\ guild_invite' = [guild_invite EXCEPT ![c] = NoTag]
      /\ guild_join' = [guild_join EXCEPT ![c] = NoTag]
      /\ UNCHANGED raced

AtOfficial(c) ==
  \/ \E g \in Tags : Guild_Request(c, g) \/ Guild_Create(c, g)
  \/ \E d \in Folk : \/ Guild_Player(c, d) \/ Guild_Kick(c, d)
                     \/ \E r \in Ranks : Guild_Rank(c, d, r)
  \/ Guild_Remove(c) \/ Guild_Junk(c)

Elsewhere(c) ==
  \/ Guild_Accept(c) \/ \E d \in Folk : Guild_Use(c, d)
  \/ WarpedAway(c) \/ LoadGuild(c) \/ Loaded(c) \/ Unload(c)

GuildNext ==
  /\ ~raced
  /\ \E c \in Folk :
       \/ /\ dealings < MaxDealings /\ dealings' = dealings + 1
          /\ AtOfficial(c)
       \/ Elsewhere(c) /\ UNCHANGED dealings

GuildSpec == GuildInit /\ [][GuildNext]_guildVars

-----------------------------------------------------------------------------
(* Whoever a character's object says is in a guild is on that guild's      *)
(* list, and the guild exists (Guild::AddMember, DelMember, ~Guild): being *)
(* removed reaches a character wherever it is, and no guild is deleted     *)
(* under its members.  It holds until a member is removed while a worker   *)
(* has read its row and the loop does not know of it yet.                  *)
MembersListed ==
  ~raced => \A c \in Folk :
    guilds.ptr[c] # NoTag => /\ guilds.list[guilds.ptr[c]][c] # NotIn
                             /\ guilds.ptr[c] \in guilds.exists
================================================================================
