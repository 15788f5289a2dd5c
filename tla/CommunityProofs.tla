--------------------------- MODULE CommunityProofs ---------------------------
(***************************************************************************)
(* Parties, arenas, guilds and weddings, for any number of players; the    *)
(* quests of one of them, for any script.                                  *)
(*                                                                         *)
(* Parties: whatever is asked, taken up and left, the list of a party's    *)
(* members and the players' pointers agree.  The handlers work on one      *)
(* value, the record Parties, and so do the lemmas: Good says of such a    *)
(* value what MembersAgree says of the state, and each of Disband, Leave,  *)
(* Create, Join and Taken keeps it.                                        *)
(*                                                                         *)
(* Arenas: the count of the occupants, for any spawn tiles and any number  *)
(* of reloads.  Guilds: whoever points to a guild is on its list.          *)
(* Weddings: a marriage is made by two vows, whatever the lengths of the   *)
(* states of the ceremony.                                                 *)
(*                                                                         *)
(* Quests: every call on the stack that counted itself in is counted out,  *)
(* by an end, a return or an exception, so that recursive_depth is never   *)
(* above the number of the loops that are running.  Most functions of the  *)
(* interpreter are given the objects, the quests, the stack and the depth  *)
(* they go on from; QuestState says of four such values what QuestInv says *)
(* of the state, and there is a lemma for each function.                   *)
(***************************************************************************)
EXTENDS MCCommunity, SpellsProofs, FunctionTheorems, WellFoundedInduction

\* Parties

Records_ == [members : [PartyIds -> SUBSET Players],
             leader  : [PartyIds -> Players \cup {Nobody}],
             party   : [Players -> PartyIds \cup {NoParty}]]

\* A party has a leader among its members, and two of them at least.
Whole(P, p) == P.members[p] # {} => /\ P.leader[p] \in P.members[p]
                                    /\ Cardinality(P.members[p]) >= 2

Good(P) ==
  /\ \A c \in Players : P.party[c] # NoParty => c \in P.members[P.party[c]]
  /\ \A p \in PartyIds : /\ \A c \in P.members[p] : P.party[c] = p
                         /\ Whole(P, p)

\* Nobody but the players of S is brought into a party.
OnlyInto(P, Q, S) ==
  \A c \in Players \ S : Q.party[c] \in {P.party[c], NoParty}

-----------------------------------------------------------------------------
(* The identifiers of parties are positive, so that none is NoParty.       *)
LEMMA IdsPositive == NoParty \notin PartyIds
BY DEF NoParty, PartyIds

(* Subsets of the players are finite sets.                                 *)
LEMMA GroupsFinite ==
  ASSUME NEW S \in SUBSET Players
  PROVE  IsFiniteSet(S) /\ Cardinality(S) \in Nat
BY PartyAssumption, FS_Subset, FS_CardinalityType

(* Two different players are two members.                                  *)
LEMMA TwoAreTwo ==
  ASSUME NEW a \in Players, NEW b \in Players, a # b
  PROVE  Cardinality({a, b}) = 2
<1>1. IsFiniteSet({a}) /\ Cardinality({a}) = 1
  BY FS_Singleton
<1>2. {a} \cup {b} = {a, b}
  OBVIOUS
<1>3. QED
  BY <1>1, <1>2, FS_AddElement

(* Party::~Party: a party that is let go leaves the others as they were.   *)
LEMMA DisbandTyped ==
  ASSUME NEW P \in Records_, NEW p \in PartyIds
  PROVE  /\ Disband(P, p) \in Records_ /\ OnlyInto(P, Disband(P, p), {})
BY DEF Records_, Disband, OnlyInto

LEMMA DisbandKeeps ==
  ASSUME NEW P \in Records_, Good(P), NEW p \in PartyIds
  PROVE  /\ Good(Disband(P, p))
         /\ \A c \in P.members[p] : Disband(P, p).party[c] = NoParty
<1> DEFINE Q == Disband(P, p)
<1>1. /\ \A c \in Players : Q.party[c] = IF c \in P.members[p] THEN NoParty
                                                               ELSE P.party[c]
      /\ \A q \in PartyIds \ {p} : /\ Q.members[q] = P.members[q]
                                   /\ Q.leader[q] = P.leader[q]
      /\ Q.members[p] = {}
      /\ \A q \in PartyIds : P.members[q] \subseteq Players
  BY DEF Disband, Records_
<1>2. \A c \in P.members[p] : Q.party[c] = NoParty
  BY <1>1
<1>3. ASSUME NEW c \in Players, Q.party[c] # NoParty
      PROVE  c \in Q.members[Q.party[c]]
  <2>1. /\ c \notin P.members[p] /\ Q.party[c] = P.party[c]
        /\ P.party[c] \in PartyIds
    BY <1>1, <1>3 DEF Records_
  <2>2. c \in P.members[P.party[c]]
    BY <2>1, <1>3 DEF Good
  <2>3. QED
    BY <1>1, <2>1, <2>2
<1>4. ASSUME NEW q \in PartyIds
      PROVE  (\A c \in Q.members[q] : Q.party[c] = q) /\ Whole(Q, q)
  <2>1. CASE q = p
    BY <2>1, <1>1 DEF Whole
  <2>2. CASE q # p
    <3>1. \A c \in P.members[q] : P.party[c] = q
      BY DEF Good
    <3>2. \A c \in P.members[p] : P.party[c] = p
      BY DEF Good
    <3>3. \A c \in Q.members[q] : Q.party[c] = q
      BY <1>1, <2>2, <3>1, <3>2
    <3>4. Whole(P, q)
      BY DEF Good
    <3>5. Whole(Q, q)
      BY <1>1, <2>2, <3>4 DEF Whole
    <3>6. QED
      BY <3>3, <3>5
  <2>3. QED
    BY <2>1, <2>2
<1>5. QED
  BY <1>2, <1>3, <1>4 DEF Good

(* Party::Leave for a member: the party goes on if it still has two        *)
(* members, and its leader, and ends otherwise.                            *)
LEMMA LeaveTyped ==
  ASSUME NEW P \in Records_, NEW p \in PartyIds, NEW c \in Players
  PROVE  /\ Leave(P, p, c) \in Records_ /\ OnlyInto(P, Leave(P, p, c), {})
<1>1. Without(P, p, c) \in Records_ /\ OnlyInto(P, Without(P, p, c), {})
  BY DEF Records_, OnlyInto, Without
<1>2. QED
  BY <1>1, DisbandTyped DEF Leave

LEMMA LeaveKeeps ==
  ASSUME NEW P \in Records_, Good(P), NEW p \in PartyIds,
         NEW c \in P.members[p]
  PROVE  Good(Leave(P, p, c)) /\ Leave(P, p, c).party[c] = NoParty
<1> DEFINE Q == Without(P, p, c)
<1>0. P.members[p] \in SUBSET Players
  BY DEF Records_
<1>1. CASE ~(Cardinality(P.members[p]) > 2 /\ c # P.leader[p])
  <2>1. Leave(P, p, c) = Disband(P, p)
    BY <1>1 DEF Leave
  <2>2. QED
    BY <2>1, DisbandKeeps
<1>2. CASE Cardinality(P.members[p]) > 2 /\ c # P.leader[p]
  <2>1. Leave(P, p, c) = Q
    BY <1>2 DEF Leave
  <2>2. /\ \A d \in Players : Q.party[d] = IF d = c THEN NoParty
                                                     ELSE P.party[d]
        /\ \A q \in PartyIds : Q.members[q] = IF q = p THEN P.members[p] \ {c}
                                                         ELSE P.members[q]
        /\ Q.leader = P.leader
        /\ \A q \in PartyIds : P.members[q] \subseteq Players
    BY <1>0 DEF Records_, Without
  <2>3. ASSUME NEW d \in Players, Q.party[d] # NoParty
        PROVE  d \in Q.members[Q.party[d]]
    <3>1. d # c /\ Q.party[d] = P.party[d] /\ P.party[d] \in PartyIds
      BY <2>2, <2>3 DEF Records_
    <3>2. d \in P.members[P.party[d]]
      BY <3>1, <2>3 DEF Good
    <3>3. QED
      BY <2>2, <3>1, <3>2
  <2>4. ASSUME NEW q \in PartyIds
        PROVE  (\A d \in Q.members[q] : Q.party[d] = q) /\ Whole(Q, q)
    <3>1. (\A d \in P.members[q] : P.party[d] = q) /\ Whole(P, q)
      BY DEF Good
    <3>2. P.party[c] = p
      BY DEF Good
    <3>3. \A d \in Q.members[q] : Q.party[d] = q
      BY <2>2, <3>1, <3>2
    <3>4. CASE q = p
      <4>1. Cardinality(Q.members[p]) = Cardinality(P.members[p]) - 1
        BY <2>2, <1>0, GroupsFinite, FS_RemoveElement
      <4>2. Cardinality(Q.members[p]) >= 2
        BY <4>1, <1>2, <1>0, GroupsFinite
      <4>3. P.leader[p] \in Q.members[p]
        BY <3>1, <3>4, <1>2, <2>2 DEF Whole
      <4>4. QED
        BY <3>3, <3>4, <4>2, <4>3, <2>2 DEF Whole
    <3>5. CASE q # p
      BY <3>1, <3>3, <3>5, <2>2 DEF Whole
    <3>6. QED
      BY <3>4, <3>5
  <2>5. Good(Q)
    BY <2>3, <2>4 DEF Good
  <2>6. Q.party[c] = NoParty
    BY <1>0, <2>2
  <2>7. QED
    BY <2>1, <2>5, <2>6
<1>3. QED
  BY <1>1, <1>2

(* A party that is made finds an identifier: the leaders of as many        *)
(* parties as there are players would be different players, and the one    *)
(* who makes it leads none.                                                *)
LEMMA SomePartyFree ==
  ASSUME NEW P \in Records_, Good(P), NEW l \in Players, P.party[l] = NoParty
  PROVE  \E x \in PartyIds : P.members[x] = {}
<1> SUFFICES ASSUME \A x \in PartyIds : P.members[x] # {}
             PROVE  FALSE
  OBVIOUS
<1> DEFINE f == [x \in PartyIds |-> P.leader[x]]
           T == Players \ {l}
<1>1. ASSUME NEW x \in PartyIds
      PROVE  f[x] \in Players /\ P.party[f[x]] = x
  <2>1. P.leader[x] \in P.members[x] /\ P.members[x] \subseteq Players
    BY DEF Good, Whole, Records_
  <2>2. QED
    BY <2>1 DEF Good
<1>2. f \in [PartyIds -> T]
  <2>1. \A x \in PartyIds : f[x] \in T
    BY <1>1, IdsPositive
  <2>2. QED
    BY <2>1
<1>3. /\ IsFiniteSet(T) /\ IsFiniteSet(Players)
      /\ Cardinality(T) = Cardinality(Players) - 1
      /\ Cardinality(Players) \in Nat
  BY PartyAssumption, FS_RemoveElement, FS_CardinalityType
<1>4. IsFiniteSet(PartyIds) /\ Cardinality(PartyIds) = Cardinality(Players)
  <2>1. IsFiniteSet(PartyIds)
    BY <1>3, FS_Interval DEF PartyIds
  <2>2. Cardinality(PartyIds) = IF 1 > Cardinality(Players) THEN 0
                                ELSE Cardinality(Players) - 1 + 1
    BY <1>3, FS_Interval DEF PartyIds
  <2>3. QED
    BY <1>3, <2>1, <2>2
<1>5. Cardinality(T) < Cardinality(PartyIds)
  BY <1>3, <1>4
<1> HIDE DEF f, T
<1>6. \E x, y \in PartyIds : x # y /\ f[x] = f[y]
  BY <1>2, <1>3, <1>4, <1>5, FS_PigeonHole
<1>7. QED
  BY <1>1, <1>6

(* Party::Party: two players without a party become one.                   *)
LEMMA CreateKeeps ==
  ASSUME NEW P \in Records_, Good(P), NEW l \in Players, NEW o \in Players,
         l # o, P.party[l] = NoParty, P.party[o] = NoParty
  PROVE  /\ Create(P, l, o) \in Records_ /\ Good(Create(P, l, o))
         /\ OnlyInto(P, Create(P, l, o), {l, o})
<1> DEFINE n == CHOOSE x \in PartyIds : P.members[x] = {}
           Q == Create(P, l, o)
<1>1. n \in PartyIds /\ P.members[n] = {}
  BY SomePartyFree
<1> HIDE DEF n
<1>2. Q = [members |-> [P.members EXCEPT ![n] = {l, o}],
           leader  |-> [P.leader EXCEPT ![n] = l],
           party   |-> [P.party EXCEPT ![l] = n, ![o] = n]]
  BY DEF Create, n
<1>3. Q \in Records_ /\ OnlyInto(P, Q, {l, o})
  BY <1>1, <1>2 DEF Records_, OnlyInto
<1>4. /\ \A c \in Players : Q.party[c] = IF c \in {l, o} THEN n ELSE P.party[c]
      /\ \A q \in PartyIds : /\ Q.members[q] = IF q = n THEN {l, o}
                                               ELSE P.members[q]
                             /\ Q.leader[q] = IF q = n THEN l ELSE P.leader[q]
      /\ \A q \in PartyIds : P.members[q] \subseteq Players
  BY <1>1, <1>2 DEF Records_
<1>5. ASSUME NEW c \in Players, Q.party[c] # NoParty
      PROVE  c \in Q.members[Q.party[c]]
  <2>1. CASE c \in {l, o}
    BY <2>1, <1>1, <1>4
  <2>2. CASE c \notin {l, o}
    <3>1. /\ Q.party[c] = P.party[c] /\ P.party[c] \in PartyIds
          /\ c \in P.members[P.party[c]]
      BY <2>2, <1>4, <1>5 DEF Records_, Good
    <3>2. P.party[c] # n
      BY <3>1, <1>1
    <3>3. QED
      BY <3>1, <3>2, <1>4
  <2>3. QED
    BY <2>1, <2>2
<1>6. ASSUME NEW q \in PartyIds
      PROVE  (\A c \in Q.members[q] : Q.party[c] = q) /\ Whole(Q, q)
  <2>1. CASE q = n
    BY <2>1, <1>4, TwoAreTwo DEF Whole
  <2>2. CASE q # n
    <3>1. (\A c \in P.members[q] : P.party[c] = q) /\ Whole(P, q)
      BY DEF Good
    <3>2. l \notin P.members[q] /\ o \notin P.members[q]
      BY <3>1, IdsPositive
    <3>3. \A c \in Q.members[q] : Q.party[c] = q
      BY <2>2, <3>1, <3>2, <1>4
    <3>4. Whole(Q, q)
      BY <2>2, <3>1, <1>4 DEF Whole
    <3>5. QED
      BY <3>3, <3>4
  <2>3. QED
    BY <2>1, <2>2
<1>7. QED
  BY <1>3, <1>5, <1>6 DEF Good

(* Party::Join: one player more in a party that goes on.                   *)
LEMMA JoinKeeps ==
  ASSUME NEW P \in Records_, Good(P), NEW p \in PartyIds, P.members[p] # {},
         NEW c \in Players, P.party[c] = NoParty
  PROVE  /\ Join(P, p, c) \in Records_ /\ Good(Join(P, p, c))
         /\ OnlyInto(P, Join(P, p, c), {c})
<1> DEFINE Q == Join(P, p, c)
<1>1. Q \in Records_ /\ OnlyInto(P, Q, {c})
  BY DEF Join, Records_, OnlyInto
<1>2. /\ \A d \in Players : Q.party[d] = IF d = c THEN p ELSE P.party[d]
      /\ \A q \in PartyIds : Q.members[q] = IF q = p THEN P.members[p] \cup {c}
                                            ELSE P.members[q]
      /\ Q.leader = P.leader
      /\ \A q \in PartyIds : P.members[q] \in SUBSET Players
  BY DEF Join, Records_
<1>3. ASSUME NEW d \in Players, Q.party[d] # NoParty
      PROVE  d \in Q.members[Q.party[d]]
  <2>1. CASE d = c
    BY <2>1, <1>2
  <2>2. CASE d # c
    <3>1. /\ Q.party[d] = P.party[d] /\ P.party[d] \in PartyIds
          /\ d \in P.members[P.party[d]]
      BY <2>2, <1>2, <1>3 DEF Records_, Good
    <3>2. QED
      BY <3>1, <1>2
  <2>3. QED
    BY <2>1, <2>2
<1>4. ASSUME NEW q \in PartyIds
      PROVE  (\A d \in Q.members[q] : Q.party[d] = q) /\ Whole(Q, q)
  <2>1. (\A d \in P.members[q] : P.party[d] = q) /\ Whole(P, q)
    BY DEF Good
  <2>2. c \notin P.members[q]
    BY <2>1, IdsPositive
  <2>3. \A d \in Q.members[q] : Q.party[d] = q
    BY <1>2, <2>1, <2>2
  <2>4. CASE q = p
    <3>1. /\ Cardinality(Q.members[p]) = Cardinality(P.members[p]) + 1
          /\ Cardinality(P.members[p]) \in Nat
      BY <2>2, <2>4, <1>2, GroupsFinite, FS_AddElement
    <3>2. P.leader[p] \in P.members[p] /\ Cardinality(P.members[p]) >= 2
      BY <2>1, <2>4 DEF Whole
    <3>3. QED
      BY <2>3, <2>4, <3>1, <3>2, <1>2 DEF Whole
  <2>5. CASE q # p
    BY <2>1, <2>3, <2>5, <1>2 DEF Whole
  <2>6. QED
    BY <2>4, <2>5
<1>5. QED
  BY <1>1, <1>3, <1>4 DEF Good

(* Character::Logout and what taking up a request begins with.             *)
LEMMA LeaveOwnKeeps ==
  ASSUME NEW P \in Records_, Good(P), NEW c \in Players
  PROVE  /\ LeaveOwn(P, c) \in Records_ /\ Good(LeaveOwn(P, c))
         /\ OnlyInto(P, LeaveOwn(P, c), {})
         /\ LeaveOwn(P, c).party[c] = NoParty
<1>1. CASE P.party[c] = NoParty
  BY <1>1 DEF LeaveOwn, OnlyInto
<1>2. CASE P.party[c] # NoParty
  <2>1. P.party[c] \in PartyIds /\ c \in P.members[P.party[c]]
    BY <1>2 DEF Records_, Good
  <2>2. QED
    BY <1>2, <2>1, LeaveTyped, LeaveKeeps DEF LeaveOwn
<1>3. QED
  BY <1>1, <1>2

(* Handlers::Party_Accept: whoever is taken ends up in the host's party,   *)
(* also if that was the one it has just left and ended.                    *)
LEMMA TakenKeeps ==
  ASSUME NEW P \in Records_, Good(P), NEW h \in Players, NEW c \in Players,
         h # c
  PROVE  /\ Taken(P, h, c) \in Records_ /\ Good(Taken(P, h, c))
         /\ OnlyInto(P, Taken(P, h, c), {h, c})
<1> DEFINE Q == LeaveOwn(P, c)
<1>1. /\ Q \in Records_ /\ Good(Q) /\ OnlyInto(P, Q, {})
      /\ Q.party[c] = NoParty
  BY LeaveOwnKeeps
<1> HIDE DEF Q
<1>2. CASE Q.party[h] = NoParty
  <2>1. Taken(P, h, c) = Create(Q, h, c)
    BY <1>2 DEF Taken, Q
  <2>2. /\ Create(Q, h, c) \in Records_ /\ Good(Create(Q, h, c))
        /\ OnlyInto(Q, Create(Q, h, c), {h, c})
    BY <1>1, <1>2, CreateKeeps
  <2>3. QED
    BY <1>1, <2>1, <2>2 DEF OnlyInto
<1>3. CASE Q.party[h] # NoParty
  <2>1. Taken(P, h, c) = Join(Q, Q.party[h], c)
    BY <1>3 DEF Taken, Q
  <2>2. Q.party[h] \in PartyIds /\ h \in Q.members[Q.party[h]]
    BY <1>1, <1>3 DEF Records_, Good
  <2>3. /\ Join(Q, Q.party[h], c) \in Records_
        /\ Good(Join(Q, Q.party[h], c))
        /\ OnlyInto(Q, Join(Q, Q.party[h], c), {c})
    BY <1>1, <2>2, JoinKeeps
  <2>4. QED
    BY <1>1, <2>1, <2>3 DEF OnlyInto
<1>4. QED
  BY <1>2, <1>3

-----------------------------------------------------------------------------
(* What is true of every state: the two records agree until a leader has   *)
(* reached into another party, only players in the game are in one, and    *)
(* nobody's request is to itself, so that taking it up is about two.       *)
MembersOnline == \A c \in Players : party[c] # NoParty => online[c]

PartyInv == /\ PartyTypeOK
            /\ \A c \in Players : asks[c] # Nobody => asks[c].to # c
            /\ ~strayed => Good(Parties) /\ MembersOnline

(* The state is one of the values the lemmas are about.                    *)
LEMMA StateIsRecord ==
  ASSUME PartyTypeOK
  PROVE  Parties \in Records_
BY DEF PartyTypeOK, Parties, Records_

(* An action that becomes a typed value has typed lists and pointers, and  *)
(* what is good of the value is good of the state.                         *)
LEMMA BecomesTyped ==
  ASSUME NEW Q \in Records_, Become(Q)
  PROVE  /\ members' \in [PartyIds -> SUBSET Players]
         /\ leader' \in [PartyIds -> Players \cup {Nobody}]
         /\ party' \in [Players -> PartyIds \cup {NoParty}]
BY DEF Records_, Become

LEMMA BecomesGood ==
  ASSUME NEW Q, Become(Q), Good(Q)
  PROVE  Good(Parties)'
BY DEF Become, Parties, Good, Whole

(* Nobody in a party goes offline with a change that brings in only        *)
(* players of S, who are in the game.                                      *)
LEMMA BecomesOnline ==
  ASSUME MembersOnline, NEW S, NEW Q \in Records_, Become(Q),
         OnlyInto(Parties, Q, S), \A c \in S : online[c], online' = online
  PROVE  MembersOnline'
<1> SUFFICES ASSUME NEW c \in Players, party'[c] # NoParty
             PROVE  online[c]
  BY DEF MembersOnline
<1>1. CASE c \in S
  BY <1>1
<1>2. CASE c \notin S
  <2>1. party'[c] \in {party[c], NoParty}
    BY <1>2 DEF OnlyInto, Become, Parties
  <2>2. QED
    BY <2>1 DEF MembersOnline
<1>3. QED
  BY <1>1, <1>2

(* Cancelling requests makes no new ones.                                  *)
LEMMA CancelledTyped ==
  ASSUME PartyTypeOK, NEW S
  PROVE  /\ Cancelled(S) \in [Players -> Requests \cup {Nobody}]
         /\ \A d \in Players : Cancelled(S)[d] \in {asks[d], Nobody}
BY DEF PartyTypeOK, Cancelled

(* A leader who removes a player that is not in the party either changes   *)
(* nothing, or ends the party, or takes the player's pointer to another.   *)
LEMMA RemoveStranger ==
  ASSUME NEW P \in Records_, Good(P), NEW p \in PartyIds, NEW v \in Players,
         v \notin P.members[p], Leave(P, p, v).party[v] = P.party[v]
  PROVE  Good(Leave(P, p, v))
<1>1. CASE Leave(P, p, v) = Disband(P, p)
  BY <1>1, DisbandKeeps
<1>2. CASE Leave(P, p, v) = Without(P, p, v)
  <2> DEFINE Q == Without(P, p, v)
  <2>1. /\ Q.leader = P.leader
        /\ \A d \in Players : Q.party[d] = P.party[d]
        /\ \A q \in PartyIds : Q.members[q] = P.members[q]
        /\ \A q \in PartyIds : P.members[q] \subseteq Players
    BY <1>2 DEF Without, Records_
  <2>2. \A d \in Players : P.party[d] \in PartyIds \cup {NoParty}
    BY DEF Records_
  <2> HIDE DEF Q
  <2>3. Good(Q)
    BY <2>1, <2>2 DEF Good, Whole
  <2>4. QED
    BY <1>2, <2>3 DEF Q
<1>3. QED
  BY <1>1, <1>2 DEF Leave

LEMMA InitPartyInv == PartyInit => PartyInv
<1> SUFFICES ASSUME PartyInit PROVE PartyInv
  OBVIOUS
<1>1. PartyTypeOK
  BY DEF PartyInit, PartyTypeOK, Requests
<1>2. \A c \in Players : asks[c] = Nobody
  BY DEF PartyInit
<1>3. Good(Parties)
  BY DEF PartyInit, Good, Whole, Parties
<1>4. MembersOnline
  BY DEF PartyInit, MembersOnline
<1>5. QED
  BY <1>1, <1>2, <1>3, <1>4 DEF PartyInv

LEMMA NextPartyInv == PartyInv /\ [PartyNext]_partyVars => PartyInv'
<1> SUFFICES ASSUME PartyInv, [PartyNext]_partyVars PROVE PartyInv'
  OBVIOUS
<1> USE DEF PartyInv
<1>0. Parties \in Records_
  BY StateIsRecord
<1>1. CASE UNCHANGED partyVars
  BY <1>1 DEF partyVars, PartyTypeOK, Good, Whole, Parties, MembersOnline
<1>2. ASSUME ~strayed, NEW c \in Players, PartyLogin(c)
      PROVE  PartyInv'
  <2>1. PartyTypeOK'
    BY <1>2 DEF PartyLogin, PartyTypeOK
  <2>2. Good(Parties)'
    BY <1>2 DEF PartyLogin, Parties, Good, Whole
  <2>3. MembersOnline'
    BY <1>2 DEF PartyLogin, MembersOnline, PartyTypeOK
  <2>4. QED
    BY <1>2, <2>1, <2>2, <2>3 DEF PartyLogin
<1>3. ASSUME ~strayed, NEW c \in Players, PartyLogout(c)
      PROVE  PartyInv'
  <2> DEFINE Q == LeaveOwn(Parties, c)
  <2>1. /\ Q \in Records_ /\ Good(Q) /\ OnlyInto(Parties, Q, {})
        /\ Q.party[c] = NoParty
    BY <1>0, <1>3, LeaveOwnKeeps
  <2>2. Become(Q) /\ online' = [online EXCEPT ![c] = FALSE]
        /\ asks' = [Cancelled({c}) EXCEPT ![c] = Nobody]
        /\ strayed' = strayed
    BY <1>3 DEF PartyLogout
  <2> HIDE DEF Q
  <2>3. /\ asks' \in [Players -> Requests \cup {Nobody}]
        /\ \A d \in Players : asks'[d] # Nobody => asks'[d].to # d
    BY <2>2, CancelledTyped
  <2>4. PartyTypeOK'
    BY <2>1, <2>2, <2>3, BecomesTyped DEF PartyTypeOK
  <2>5. Good(Parties)'
    BY <2>1, <2>2, BecomesGood
  <2>6. MembersOnline'
    <3> SUFFICES ASSUME NEW d \in Players, party'[d] # NoParty
                 PROVE  online'[d]
      BY DEF MembersOnline
    <3>1. party'[d] \in {party[d], NoParty} /\ d # c
      BY <2>1, <2>2 DEF OnlyInto, Become, Parties
    <3>2. QED
      BY <1>3, <2>2, <3>1 DEF MembersOnline, PartyTypeOK
  <2>7. QED
    BY <2>3, <2>4, <2>5, <2>6
<1>4. ASSUME ~strayed, NEW c \in Players, NEW v \in Players,
             NEW join \in BOOLEAN, Party_Request(c, v, join)
      PROVE  PartyInv'
  <2>1. /\ asks' \in [Players -> Requests \cup {Nobody}]
        /\ \A d \in Players : asks'[d] # Nobody => asks'[d].to # d
    <3>1. /\ asks' = [Cancelled({v}) EXCEPT ![c] = [to |-> v, join |-> join]]
          /\ c # v
      BY <1>4 DEF Party_Request
    <3>2. [to |-> v, join |-> join] \in Requests
      BY DEF Requests
    <3>3. QED
      BY <3>1, <3>2, CancelledTyped
  <2>2. PartyTypeOK'
    BY <1>4, <2>1 DEF Party_Request, PartyTypeOK
  <2>3. Good(Parties)'
    BY <1>4 DEF Party_Request, Parties, Good, Whole
  <2>4. MembersOnline'
    BY <1>4 DEF Party_Request, MembersOnline
  <2>5. QED
    BY <1>4, <2>1, <2>2, <2>3, <2>4 DEF Party_Request
<1>5. ASSUME ~strayed, NEW c \in Players, NEW i \in Players, Party_Accept(c, i)
      PROVE  PartyInv'
  <2> DEFINE Q == IF asks[i].join THEN Taken(Parties, c, i)
                                  ELSE Taken(Parties, i, c)
  <2>1. /\ online[c] /\ online[i] /\ asks[i] # Nobody /\ asks[i].to = c
        /\ Become(Q) /\ asks' = [asks EXCEPT ![i] = Nobody]
        /\ online' = online /\ strayed' = strayed
    BY <1>5 DEF Party_Accept
  <2>2. c # i
    BY <2>1
  <2>3. Q \in Records_ /\ Good(Q) /\ OnlyInto(Parties, Q, {c, i})
    <3>1. {c, i} = {i, c}
      OBVIOUS
    <3>2. QED
      BY <1>0, <1>5, <2>2, <3>1, TakenKeeps
  <2> HIDE DEF Q
  <2>4. /\ asks' \in [Players -> Requests \cup {Nobody}]
        /\ \A d \in Players : asks'[d] # Nobody => asks'[d].to # d
    BY <2>1 DEF PartyTypeOK
  <2>5. PartyTypeOK'
    BY <2>1, <2>3, <2>4, BecomesTyped DEF PartyTypeOK
  <2>6. Good(Parties)'
    BY <2>1, <2>3, BecomesGood
  <2>7. MembersOnline'
    BY <1>5, <2>1, <2>3, BecomesOnline
  <2>8. QED
    BY <2>4, <2>5, <2>6, <2>7
<1>6. ASSUME ~strayed, NEW c \in Players, NEW v \in Players, Packet_Remove(c, v)
      PROVE  PartyInv'
  <2> DEFINE p == party[c]
             Q == Leave(Parties, p, v)
  <2>1. /\ p # NoParty /\ Become(Q) /\ online' = online /\ asks' = asks
        /\ strayed' = (v \notin members[p] /\ party'[v] # party[v])
    BY <1>6 DEF Packet_Remove
  <2>2. p \in PartyIds
    BY <2>1 DEF PartyTypeOK
  <2>3. Q \in Records_ /\ OnlyInto(Parties, Q, {})
    BY <1>0, <2>2, LeaveTyped
  <2>4. ~strayed' => Good(Q)
    <3>1. CASE v \in members[p]
      <4>1. v \in Parties.members[p]
        BY <3>1 DEF Parties
      <4>2. QED
        BY <1>0, <1>6, <2>2, <4>1, LeaveKeeps
    <3>2. CASE v \notin members[p]
      <4>1. SUFFICES ASSUME ~strayed' PROVE Good(Q)
        OBVIOUS
      <4>2. v \notin Parties.members[p] /\ Q.party[v] = Parties.party[v]
        BY <2>1, <3>2, <4>1 DEF Parties, Become
      <4>3. QED
        BY <1>0, <1>6, <2>2, <4>2, RemoveStranger
    <3>3. QED
      BY <3>1, <3>2
  <2> HIDE DEF p, Q
  <2>5. PartyTypeOK'
    BY <2>1, <2>3, BecomesTyped DEF PartyTypeOK
  <2>6. ~strayed' => Good(Parties)'
    BY <2>1, <2>4, BecomesGood
  <2>7. MembersOnline'
    BY <1>6, <2>1, <2>3, BecomesOnline
  <2>8. QED
    BY <2>1, <2>5, <2>6, <2>7
<1>7. QED
  BY <1>1, <1>2, <1>3, <1>4, <1>5, <1>6 DEF PartyNext

(* The invariant of the parties.                                           *)
LEMMA PartyInvariant == PartySpec => []PartyInv
BY InitPartyInv, NextPartyInv, PTL DEF PartySpec

(* What the handlers keep of requests, pointers and lists is always of the *)
(* types of party.hpp and character.hpp: a member list holds players, and  *)
(* a pointer is null or to a party.                                        *)
THEOREM PartyTypes == PartySpec => []PartyTypeOK
BY PartyInvariant, PTL DEF PartyInv

(* MembersAgree for every number of players: as long as no leader removes  *)
(* a player of another party, Party::Join and Party::Leave and the logout  *)
(* keep the list of members and the pointers of the players the same, only *)
(* players in the game are members, every party has its leader among them, *)
(* and none is left with one.                                              *)
THEOREM PartyMembersAgree == PartySpec => []MembersAgree
<1>1. PartyInv => MembersAgree
  <2> SUFFICES ASSUME PartyInv, ~strayed PROVE MembersAgree
    BY DEF MembersAgree
  <2>1. \A p \in PartyIds : members[p] \subseteq Players
    BY DEF PartyInv, PartyTypeOK
  <2>2. /\ \A c \in Players : party[c] # NoParty => c \in members[party[c]]
        /\ \A p \in PartyIds : /\ \A c \in members[p] : party[c] = p
                               /\ members[p] # {} =>
                                    /\ leader[p] \in members[p]
                                    /\ Cardinality(members[p]) >= 2
    BY DEF PartyInv, Good, Whole, Parties
  <2>3. \A p \in PartyIds : \A c \in members[p] : online[c]
    BY <2>1, <2>2, IdsPositive DEF PartyInv, MembersOnline
  <2>4. QED
    BY <2>2, <2>3 DEF MembersAgree
<1>2. QED
  BY <1>1, PartyInvariant, PTL

-----------------------------------------------------------------------------
\* Arenas

Dead == {c \in Fighters : spot[c] = "dead"}

ArenaTypes ==
  /\ arena \in [Fighters -> Nat] /\ DOMAIN spot = Fighters
  /\ generation \in Nat \ {0} /\ enabled \in BOOLEAN /\ freed \in BOOLEAN

(* No pointer is ahead of the arena: a new one has no occupants but those  *)
(* it is given.                                                            *)
NotAhead == \A c \in Fighters : arena[c] <= generation

ArenaInv == ArenaTypes /\ NotAhead /\ OccupantsCounted

-----------------------------------------------------------------------------
\* Counting

(* Some leave a set and others, who are not in what is left, join it.      *)
LEMMA LeaveAndJoin ==
  ASSUME NEW A, NEW B, NEW N, IsFiniteSet(A), IsFiniteSet(N),
         (A \ B) \cap N = {}
  PROVE  Cardinality((A \ B) \cup N)
           = Cardinality(A) - Cardinality(B \cap A) + Cardinality(N)
<1>1. /\ IsFiniteSet(A \ B)
      /\ Cardinality(A \ B) = Cardinality(A) - Cardinality(A \cap B)
  BY FS_Difference
<1>2. A \cap B = B \cap A
  OBVIOUS
<1>3. Cardinality((A \ B) \cup N) = Cardinality(A \ B) + Cardinality(N)
                                   - Cardinality((A \ B) \cap N)
  BY <1>1, FS_Union
<1>4. Cardinality((A \ B) \cap N) = 0
  BY FS_EmptySet
<1>5. /\ Cardinality(A \ B) \in Nat /\ Cardinality(N) \in Nat
      /\ Cardinality(A) \in Nat /\ Cardinality(B \cap A) \in Nat
  <2>1. IsFiniteSet(B \cap A)
    BY FS_Subset, B \cap A \subseteq A
  <2>2. Cardinality(B \cap A) \in Nat
    BY <2>1, FS_CardinalityType
  <2>3. Cardinality(A) \in Nat /\ Cardinality(N) \in Nat
    BY FS_CardinalityType
  <2>4. Cardinality(A \ B) \in Nat
    BY <1>1, FS_CardinalityType
  <2> QED  BY <2>2, <2>3, <2>4
<1>6. /\ Cardinality(A \ B) = Cardinality(A) - Cardinality(B \cap A)
      /\ Cardinality((A \ B) \cup N) = Cardinality(A \ B) + Cardinality(N) - 0
  BY <1>1, <1>2, <1>3, <1>4
<1> QED  BY <1>5, <1>6

LEMMA FightersFinite ==
  ASSUME NEW S \in SUBSET Fighters
  PROVE  IsFiniteSet(S) /\ Cardinality(S) \in Nat
BY ArenaAssumption, FS_Subset, FS_CardinalityType DEF ArenaAssumption

-----------------------------------------------------------------------------
\* The steps

(* Whoever is warped leaves the arena, whoever is let in is in it, as long *)
(* as no stale pointer is followed.                                        *)
LEMMA WarpedCounts ==
  ASSUME ArenaInv, ~freed,
         NEW S \in SUBSET Fighters, NEW next \in SUBSET S,
         next # {} => enabled, Warped(S, next),
         UNCHANGED <<generation, enabled>>
  PROVE  /\ arena' \in [Fighters -> Nat] /\ freed' \in BOOLEAN /\ NotAhead'
         /\ ~freed' => /\ Current' = (Current \ S) \cup next
                       /\ occupants' = Cardinality(Current')
<1>1. /\ arena \in [Fighters -> Nat] /\ generation \in Nat \ {0}
      /\ \A c \in Fighters : arena[c] <= generation
      /\ occupants = Cardinality(Current)
  BY DEF ArenaInv, ArenaTypes, NotAhead, OccupantsCounted
<1>2. /\ arena' \in [Fighters -> Nat]
      /\ \A c \in Fighters : arena'[c] = IF c \in next THEN generation
                                         ELSE IF c \in S THEN 0 ELSE arena[c]
      /\ freed' = Gone(S)
  BY <1>1 DEF Warped
<1>3. freed' \in BOOLEAN /\ NotAhead'
  BY <1>1, <1>2 DEF Gone, NotAhead
<1>4. ASSUME ~freed'
      PROVE  /\ Current' = (Current \ S) \cup next
             /\ occupants' = Cardinality(Current')
  <2>1. Current' = (Current \ S) \cup next
    BY <1>1, <1>2 DEF Current, Inside
  <2>2. /\ IsFiniteSet(Current) /\ IsFiniteSet(next)
        /\ (Current \ S) \cap next = {}
    BY FightersFinite DEF Current, Inside
  <2>3. occupants' = Cardinality(Current) - Cardinality(S \cap Current)
                     + Cardinality(next)
    BY <1>1 DEF Warped
  <2> QED  BY <2>1, <2>2, <2>3, LeaveAndJoin
<1> QED  BY <1>2, <1>3, <1>4

(* A new group: it stays on the map.                                       *)
LEMMA SpawnStep ==
  ASSUME ArenaInv, ~freed, NEW force \in BOOLEAN,
         Spawn(force)
  PROVE  ArenaInv'
<1>1. PICK next \in SUBSET OnMap :
        /\ Warped(next, next) /\ enabled
        /\ spot' = [c \in Fighters |-> IF c \in next THEN "floor" ELSE spot[c]]
        /\ UNCHANGED <<generation, enabled>>
  BY DEF Spawn
<1>2. next \in SUBSET Fighters /\ next \in SUBSET next
  BY DEF OnMap
<1>3. /\ arena' \in [Fighters -> Nat] /\ freed' \in BOOLEAN /\ NotAhead'
      /\ ~freed' => /\ Current' = (Current \ next) \cup next
                    /\ occupants' = Cardinality(Current')
  BY <1>1, <1>2, WarpedCounts
<1>4. ~freed' => Current' \subseteq OnMap' \cup Dead'
  BY <1>1, <1>3
     DEF ArenaInv, OccupantsCounted, OnMap, Dead, Current, Inside
<1> QED  BY <1>1, <1>3, <1>4
         DEF ArenaInv, ArenaTypes, OccupantsCounted, Dead

(* A hit: who is hit goes out, and the winner with the last of them.       *)
LEMMA AttackStep ==
  ASSUME ArenaInv, ~freed,
         NEW c \in Fighters, NEW d \in Fighters, Arena_Attack(c, d)
  PROVE  ArenaInv'
<1>1. CASE Gone({c})
  BY <1>1 DEF Arena_Attack, ArenaInv, ArenaTypes, NotAhead, OccupantsCounted
<1>2. CASE ~Gone({c})
  <2> DEFINE S == Attack(c, d)
  <2>1. /\ Warped(S, {}) /\ S \in SUBSET Fighters
        /\ spot' = [x \in Fighters |-> IF x \in S THEN "floor" ELSE spot[x]]
        /\ UNCHANGED <<generation, enabled>>
    BY <1>2 DEF Arena_Attack, Attack
  <2> HIDE DEF S
  <2>2. /\ arena' \in [Fighters -> Nat] /\ freed' \in BOOLEAN /\ NotAhead'
        /\ ~freed' => /\ Current' = (Current \ S) \cup {}
                      /\ occupants' = Cardinality(Current')
    BY <2>1, WarpedCounts
  <2>3. ~freed' => Current' \subseteq OnMap' \cup Dead'
    BY <2>1, <2>2
       DEF ArenaInv, OccupantsCounted, OnMap, Dead, Current, Inside
  <2> QED  BY <2>1, <2>2, <2>3
           DEF ArenaInv, ArenaTypes, OccupantsCounted, Dead
<1> QED  BY <1>1, <1>2

(* Warping and leaving the game.                                           *)
LEMMA WarpStep ==
  ASSUME ArenaInv, ~freed, NEW c \in Fighters,
         NEW to \in {"out", "floor", "off"},
         Warped({c}, {}), spot' = [spot EXCEPT ![c] = to],
         UNCHANGED <<generation, enabled>>
  PROVE  ArenaInv'
<1>1. /\ arena' \in [Fighters -> Nat] /\ freed' \in BOOLEAN /\ NotAhead'
      /\ ~freed' => /\ Current' = (Current \ {c}) \cup {}
                    /\ occupants' = Cardinality(Current')
  BY WarpedCounts
<1>2. ~freed' => Current' \subseteq OnMap' \cup Dead'
  BY <1>1
     DEF ArenaInv, ArenaTypes, OccupantsCounted, OnMap, Dead, Current, Inside
<1> QED  BY <1>1, <1>2 DEF ArenaInv, ArenaTypes, OccupantsCounted, Dead

(* Walking, dying, coming into the game: nobody's pointer changes.         *)
LEMMA SpotStep ==
  ASSUME ArenaInv, ~freed, NEW c \in Fighters,
         NEW to \in {"floor", "dead", "out"} \cup SpawnTiles,
         spot' = [spot EXCEPT ![c] = to],
         to = "out" => c \notin OnMap \cup Dead,
         UNCHANGED <<arena, generation, enabled, occupants, freed>>
  PROVE  ArenaInv'
<1>1. Current' = Current
  BY DEF Current, Inside
<1>2. Current' \subseteq OnMap' \cup Dead'
  BY <1>1
     DEF ArenaInv, ArenaTypes, OccupantsCounted, OnMap, Dead, Current, Inside
<1> QED  BY <1>1, <1>2
         DEF ArenaInv, ArenaTypes, NotAhead, OccupantsCounted, Dead

(* A reload makes an arena nobody points to, but for those it takes over.  *)
LEMMA LoadStep ==
  ASSUME ArenaInv, ~freed, NEW on \in BOOLEAN,
         LoadArena(on)
  PROVE  ArenaInv'
<1> DEFINE kept == OnMap \cap Current
<1>1. /\ arena \in [Fighters -> Nat] /\ generation \in Nat \ {0}
      /\ \A c \in Fighters : arena[c] <= generation
      /\ kept \subseteq Fighters
  BY DEF ArenaInv, ArenaTypes, NotAhead, OnMap
<1>2. /\ generation' = generation + 1 /\ enabled' = on /\ UNCHANGED freed
      /\ occupants' = IF on THEN Cardinality(kept) ELSE 0
      /\ arena' = [c \in Fighters |-> IF c \in kept
                     THEN IF on THEN generation + 1 ELSE 0 ELSE arena[c]]
      /\ DOMAIN spot' = Fighters
      /\ on => spot' = spot
  BY DEF LoadArena, ArenaInv, ArenaTypes
<1> HIDE DEF kept
<1>3. Current' = IF on THEN kept ELSE {}
  BY <1>1, <1>2 DEF Current, Inside
<1>4. occupants' = Cardinality(Current')
  BY <1>2, <1>3, FS_EmptySet
<1>5. Current' \subseteq OnMap'
  BY <1>2, <1>3 DEF OnMap, kept
<1>6. ArenaTypes' /\ NotAhead'
  BY <1>1, <1>2 DEF ArenaInv, ArenaTypes, NotAhead
<1> QED  BY <1>4, <1>5, <1>6 DEF ArenaInv, OccupantsCounted

LEMMA ReloadStep ==
  ASSUME ArenaInv, ~freed, NEW on \in BOOLEAN, ReloadMap(on)
  PROVE  ArenaInv'
<1>1. /\ generation' = generation + 1 /\ enabled' = on /\ occupants' = 0
      /\ UNCHANGED <<spot, arena, freed>>
  BY DEF ReloadMap
<1>2. Current' = {}
  BY <1>1 DEF Current, Inside, ArenaInv, ArenaTypes, NotAhead
<1>3. occupants' = Cardinality(Current')
  BY <1>1, <1>2, FS_EmptySet
<1>4. ArenaTypes' /\ NotAhead'
  BY <1>1 DEF ArenaInv, ArenaTypes, NotAhead
<1> QED  BY <1>2, <1>3, <1>4 DEF ArenaInv, OccupantsCounted

LEMMA NextArena ==
  ASSUME ArenaInv, [ArenaNext]_arenaVars
  PROVE  ArenaInv'
<1>1. CASE UNCHANGED arenaVars
  BY <1>1 DEF arenaVars, ArenaInv, ArenaTypes, NotAhead, OccupantsCounted,
              Current, Inside, OnMap
<1>2. CASE ArenaNext
  <2>1. ~freed
    BY <1>2 DEF ArenaNext
  <2>2. ASSUME NEW c \in Fighters,
               \/ \E tile \in {"floor"} \cup SpawnTiles : WalkTo(c, tile)
               \/ DeathRespawn(c) \/ ArenaLogin(c)
        PROVE  ArenaInv'
    <3>1. PICK to \in {"floor", "dead", "out"} \cup SpawnTiles :
            /\ spot' = [spot EXCEPT ![c] = to]
            /\ to = "out" => spot[c] = "off"
            /\ UNCHANGED <<arena, generation, enabled, occupants, freed>>
      BY <2>2, ArenaAssumption
         DEF WalkTo, DeathRespawn, ArenaLogin, ArenaAssumption
    <3>2. to = "out" => c \notin OnMap \cup Dead
      BY <3>1, ArenaAssumption DEF OnMap, Dead, ArenaAssumption
    <3> QED  BY <2>1, <3>1, <3>2, SpotStep
  <2>3. ASSUME NEW c \in Fighters,
               \/ \E to \in {"out", "floor"} : WarpTo(c, to)
               \/ ArenaLogout(c)
        PROVE  ArenaInv'
    BY <2>1, <2>3, WarpStep DEF WarpTo, ArenaLogout
  <2> QED  BY <1>2, <2>1, <2>2, <2>3, SpawnStep, AttackStep, LoadStep,
              ReloadStep DEF ArenaNext
<1> QED  BY <1>1, <1>2

-----------------------------------------------------------------------------
(* Nobody has been let in yet.                                             *)
LEMMA ArenaBegins == ArenaInit => ArenaInv
<1> SUFFICES ASSUME ArenaInit PROVE ArenaInv
  OBVIOUS
<1>1. Current = {}
  BY DEF ArenaInit, Current, Inside
<1>2. occupants = Cardinality(Current)
  BY <1>1, FS_EmptySet DEF ArenaInit
<1>3. ArenaTypes
  <2>1. enabled \in BOOLEAN /\ freed \in BOOLEAN
    BY DEF ArenaInit
  <2>2. /\ arena \in [Fighters -> Nat] /\ DOMAIN spot = Fighters
        /\ generation \in Nat \ {0}
    BY DEF ArenaInit
  <2> QED  BY <2>1, <2>2 DEF ArenaTypes
<1>4. NotAhead
  BY DEF ArenaInit, NotAhead
<1> QED  BY <1>1, <1>2, <1>3, <1>4 DEF ArenaInv, OccupantsCounted

(* The count of occupants is exact until a pointer that a reload left      *)
(* behind is followed (Arena::Spawn, Attack, Character::Warp, Logout,      *)
(* Map::LoadArena).                                                        *)
THEOREM OccupantsAreCounted == ArenaSpec => []OccupantsCounted
<1>1. ArenaInv => OccupantsCounted
  BY DEF ArenaInv
<1> QED  BY <1>1, ArenaBegins, NextArena, PTL DEF ArenaSpec

-----------------------------------------------------------------------------
\* What the variables of arenas hold.

Spots == {"off", "out", "dead", "floor"} \cup SpawnTiles
ArenaPlaces == spot \in [Fighters -> Spots] /\ generation \in 1..MaxReloads + 1
               /\ occupants \in 0..Cardinality(Fighters)

(* Nobody is counted twice, even when a pointer that is stale is followed. *)
LEMMA WarpedFew ==
  ASSUME ArenaInv, ~freed, ArenaPlaces, NEW S \in SUBSET Fighters,
         NEW next \in SUBSET S, Warped(S, next)
  PROVE  occupants' \in 0..Cardinality(Fighters)
<1>1. occupants = Cardinality(Current) /\ Current \in SUBSET Fighters
  BY DEF ArenaInv, OccupantsCounted, Current, Inside
<1>2. occupants' = Cardinality(Current) - Cardinality(S \cap Current)
                   + Cardinality(next)
  BY <1>1 DEF Warped
<1>3. IsFiniteSet(Current) /\ IsFiniteSet(next) /\ (Current \ S) \cap next = {}
  BY <1>1, FightersFinite
<1>4. Cardinality((Current \ S) \cup next) = occupants'
  BY <1>2, <1>3, LeaveAndJoin
<1>5. (Current \ S) \cup next \in SUBSET Fighters /\ IsFiniteSet(Fighters)
  BY <1>1, ArenaAssumption
<1>6. /\ Cardinality((Current \ S) \cup next) <= Cardinality(Fighters)
      /\ Cardinality(Fighters) \in Nat
      /\ Cardinality((Current \ S) \cup next) \in Nat
  <2>1. Cardinality((Current \ S) \cup next) <= Cardinality(Fighters)
    BY <1>5, FS_Subset
  <2> QED
    BY <1>5, <2>1, FightersFinite
<1> QED
  BY <1>4, <1>6

LEMMA PlacesStep ==
  ASSUME ArenaInv, ArenaPlaces, [ArenaNext]_arenaVars
  PROVE  ArenaPlaces'
<1>1. CASE UNCHANGED arenaVars
  BY <1>1 DEF arenaVars, ArenaPlaces
<1>2. CASE ArenaNext
  <2>1. ~freed /\ spot \in [Fighters -> Spots] /\ generation \in 1..MaxReloads + 1
        /\ occupants \in 0..Cardinality(Fighters) /\ MaxReloads \in Nat
        /\ Cardinality(Fighters) \in Nat
    BY <1>2, ArenaAssumption, FightersFinite DEF ArenaNext, ArenaPlaces
  <2>2. ASSUME NEW force \in BOOLEAN, Spawn(force) PROVE ArenaPlaces'
    <3>1. PICK next \in SUBSET OnMap :
            /\ Warped(next, next)
            /\ spot' = [c \in Fighters |-> IF c \in next THEN "floor" ELSE spot[c]]
            /\ UNCHANGED generation
      BY <2>2 DEF Spawn
    <3>2. next \in SUBSET Fighters
      BY DEF OnMap
    <3>3. occupants' \in 0..Cardinality(Fighters)
      BY <2>1, <3>1, <3>2, WarpedFew
    <3>4. spot' \in [Fighters -> Spots]
      BY <2>1, <3>1 DEF Spots
    <3> QED
      BY <2>1, <3>1, <3>3, <3>4 DEF ArenaPlaces
  <2>3. ASSUME NEW on \in BOOLEAN, LoadArena(on) \/ ReloadMap(on)
        PROVE  ArenaPlaces'
    <3>1. generation' \in 1..MaxReloads + 1
      BY <2>1, <2>3 DEF LoadArena, ReloadMap
    <3>2. CASE LoadArena(on)
      <4>1. OnMap \cap Current \in SUBSET Fighters
        BY DEF OnMap
      <4>2. Cardinality(OnMap \cap Current) \in 0..Cardinality(Fighters)
        BY <2>1, <4>1, FightersFinite, FS_Subset, ArenaAssumption
      <4>3. occupants' \in 0..Cardinality(Fighters)
        BY <2>1, <3>2, <4>2 DEF LoadArena
      <4>4. spot' \in [Fighters -> Spots]
        BY <2>1, <3>2 DEF LoadArena, Spots
      <4> QED
        BY <3>1, <4>3, <4>4 DEF ArenaPlaces
    <3>3. CASE ReloadMap(on)
      BY <2>1, <3>1, <3>3 DEF ReloadMap, ArenaPlaces
    <3> QED
      BY <2>3, <3>2, <3>3
  <2>4. ASSUME NEW c \in Fighters, NEW d \in Fighters, Arena_Attack(c, d)
        PROVE  ArenaPlaces'
    <3>1. CASE Gone({c})
      BY <2>1, <2>4, <3>1 DEF Arena_Attack, ArenaPlaces
    <3>2. CASE ~Gone({c})
      <4>1. /\ Warped(Attack(c, d), {}) /\ generation' = generation
            /\ spot' = [x \in Fighters |-> IF x \in Attack(c, d) THEN "floor"
                                           ELSE spot[x]]
        BY <2>4, <3>2 DEF Arena_Attack
      <4>2. Attack(c, d) \in SUBSET Fighters /\ {} \in SUBSET Attack(c, d)
        BY DEF Attack
      <4>3. occupants' \in 0..Cardinality(Fighters)
        BY <2>1, <4>1, <4>2, WarpedFew
      <4>4. spot' \in [Fighters -> Spots]
        BY <2>1, <4>1 DEF Spots
      <4> QED
        BY <2>1, <4>1, <4>3, <4>4 DEF ArenaPlaces
    <3> QED
      BY <3>1, <3>2
  <2>5. ASSUME NEW c \in Fighters,
               \/ \E tile \in {"floor"} \cup SpawnTiles : WalkTo(c, tile)
               \/ DeathRespawn(c) \/ ArenaLogin(c)
        PROVE  ArenaPlaces'
    <3>1. PICK to \in Spots : spot' = [spot EXCEPT ![c] = to]
      BY <2>5 DEF WalkTo, DeathRespawn, ArenaLogin, Spots
    <3>2. UNCHANGED <<generation, occupants>>
      BY <2>5 DEF WalkTo, DeathRespawn, ArenaLogin
    <3> QED
      BY <2>1, <3>1, <3>2 DEF ArenaPlaces
  <2>6. ASSUME NEW c \in Fighters,
               \/ \E to \in {"out", "floor"} : WarpTo(c, to)
               \/ ArenaLogout(c)
        PROVE  ArenaPlaces'
    <3>1. PICK to \in Spots : spot' = [spot EXCEPT ![c] = to]
      BY <2>6 DEF WarpTo, ArenaLogout, Spots
    <3>2. Warped({c}, {}) /\ generation' = generation
      BY <2>6 DEF WarpTo, ArenaLogout
    <3>3. occupants' \in 0..Cardinality(Fighters)
      BY <2>1, <3>2, WarpedFew
    <3> QED
      BY <2>1, <3>1, <3>2, <3>3 DEF ArenaPlaces
  <2> QED
    BY <1>2, <2>2, <2>3, <2>4, <2>5, <2>6 DEF ArenaNext
<1> QED
  BY <1>1, <1>2

LEMMA PlacesBegin == ArenaInit => ArenaPlaces
<1> SUFFICES ASSUME ArenaInit PROVE ArenaPlaces
  OBVIOUS
<1>1. Cardinality(Fighters) \in Nat /\ MaxReloads \in Nat
  BY FightersFinite, ArenaAssumption
<1> QED
  BY <1>1 DEF ArenaInit, ArenaPlaces, Spots

(* A stale pointer makes no count negative, nor larger than all fighters   *)
(* together (Arena::occupants, Map::arena), for any spawn tiles.           *)
THEOREM ArenasAreTyped == ArenaSpec => []ArenaTypeOK
<1>1. ArenaInv /\ ArenaPlaces => ArenaTypeOK
  <2> SUFFICES ASSUME ArenaInv, ArenaPlaces PROVE ArenaTypeOK
    OBVIOUS
  <2>1. \A c \in Fighters : arena[c] \in 0..MaxReloads + 1
    BY ArenaAssumption DEF ArenaInv, ArenaTypes, NotAhead, ArenaPlaces
  <2> QED
    BY <2>1 DEF ArenaInv, ArenaTypes, ArenaPlaces, ArenaTypeOK, Spots
<1> QED
  BY <1>1, ArenaBegins, NextArena, PlacesBegin, PlacesStep, PTL DEF ArenaSpec

-----------------------------------------------------------------------------
\* Guilds

Listed(G, c, g) == G.list[g][c] # NotIn

\* Members on the list of their guild: those whose object points to it, and
\* those whose row will make them, for the guilds of H: the ones in memory.
EnrolledIn(G, at, H) ==
  \A c \in Folk :
    /\ G.ptr[c] # NoTag => Listed(G, c, G.ptr[c]) /\ G.ptr[c] \in G.exists
    /\ at[c] = "off" => G.ptr[c] = NoTag
    /\ at[c] # "game" /\ G.row[c].guild \in G.exists \cap H
         => Listed(G, c, G.row[c].guild)

Enrolled(G, at) == EnrolledIn(G, at, Held(G))

GuildRecords ==
  [ptr : [Folk -> Tags \cup {NoTag}], rank : [Folk -> Ranks],
   row : [Folk -> Rows], list : [Tags -> [Folk -> 0..NotIn]],
   exists : SUBSET Tags]

Wheres == {"off", "loading", "menu", "game"}

GuildTyped ==
  /\ where \in [Folk -> Wheres] /\ guilds \in GuildRecords
  /\ creations \in [Folk -> [tag : Tags \cup {NoTag}, members : SUBSET Folk]]
  /\ guild_invite \in [Folk -> Tags \cup {NoTag}]
  /\ guild_join \in [Folk -> Tags \cup {NoTag}]

GuildInv == ~raced => GuildTyped /\ Enrolled(guilds, where)

(* No rank is the mark of those who are not on a list.                     *)
LEMMA RanksAreListed ==
  /\ 0 \in Ranks /\ LastRank \in Ranks /\ NotIn \in 0..NotIn
  /\ \A r \in Ranks : r # NotIn /\ r \in 0..NotIn
BY GuildAssumption DEF Ranks, NotIn

LEMMA NoOneIsIn ==
  /\ NoOneIn \in [Folk -> 0..NotIn]
  /\ \A c \in Folk : NoOneIn[c] = NotIn
BY RanksAreListed DEF NoOneIn

LEMMA NoRow == [guild |-> NoTag, rank |-> 0] \in Rows
BY RanksAreListed DEF Rows

LEMMA FewerHeld ==
  ASSUME NEW G, NEW at, NEW H, EnrolledIn(G, at, H), Held(G) \subseteq H
  PROVE  Enrolled(G, at)
BY DEF EnrolledIn, Enrolled

(* Guilds that nobody points to any more may be forgotten and deleted.     *)
LEMMA SettleKeeps ==
  ASSUME guilds \in GuildRecords, NEW G \in GuildRecords, NEW at,
         Enrolled(G, at)
  PROVE  Settle(G) \in GuildRecords /\ Enrolled(Settle(G), at)
<1> DEFINE gone == Held(guilds) \ Held(G)
           empty == {g \in gone : G.list[g] = NoOneIn}
           S == Settle(G)
<1>1. /\ S.ptr = G.ptr /\ S.rank = G.rank /\ S.exists = G.exists \ empty
      /\ S.list = [g \in Tags |-> IF g \in gone THEN NoOneIn ELSE G.list[g]]
      /\ S.row = [c \in Folk |-> IF G.row[c].guild \in empty
                                 THEN [guild |-> NoTag, rank |-> 0]
                                 ELSE G.row[c]]
      /\ S \in [ptr : {S.ptr}, rank : {S.rank}, row : {S.row},
                list : {S.list}, exists : {S.exists}]
  BY DEF Settle, GuildRecords
<1>2. S \in GuildRecords
  <2>1. S.row \in [Folk -> Rows]
    BY <1>1, NoRow DEF GuildRecords
  <2>2. S.list \in [Tags -> [Folk -> 0..NotIn]]
    BY <1>1, NoOneIsIn DEF GuildRecords
  <2>3. S.ptr \in [Folk -> Tags \cup {NoTag}] /\ S.rank \in [Folk -> Ranks]
        /\ S.exists \in SUBSET Tags
    BY <1>1 DEF GuildRecords
  <2> HIDE DEF S
  <2> QED
    BY <1>1, <2>1, <2>2, <2>3 DEF GuildRecords
<1>3. Held(S) = Held(G)
  BY <1>1 DEF Held
<1>4. gone \cap Held(G) = {} /\ empty \subseteq gone
      /\ NoTag \notin Tags
  BY GuildAssumption
<1>5. /\ G.ptr \in [Folk -> Tags \cup {NoTag}] /\ G.exists \subseteq Tags
      /\ \A c \in Folk : G.ptr[c] # NoTag => G.ptr[c] \in Held(G)
  BY DEF GuildRecords, Held
<1> HIDE DEF S, gone, empty
<1>6. EnrolledIn(S, at, Held(G))
  <2> SUFFICES ASSUME NEW c \in Folk
      PROVE  /\ S.ptr[c] # NoTag
                  => Listed(S, c, S.ptr[c]) /\ S.ptr[c] \in S.exists
             /\ at[c] = "off" => S.ptr[c] = NoTag
             /\ at[c] # "game" /\ S.row[c].guild \in S.exists \cap Held(G)
                  => Listed(S, c, S.row[c].guild)
    BY DEF EnrolledIn
  <2>1. /\ G.ptr[c] # NoTag => Listed(G, c, G.ptr[c]) /\ G.ptr[c] \in G.exists
        /\ at[c] = "off" => G.ptr[c] = NoTag
        /\ at[c] # "game" /\ G.row[c].guild \in G.exists \cap Held(G)
             => Listed(G, c, G.row[c].guild)
    BY DEF EnrolledIn, Enrolled
  <2>2. \A g \in Tags \ gone : Listed(G, c, g) => Listed(S, c, g)
    BY <1>1 DEF Listed
  <2>3. S.row[c].guild \in S.exists => S.row[c].guild = G.row[c].guild
    BY <1>1, <1>4, <1>5
  <2> QED
    BY <1>1, <1>4, <1>5, <2>1, <2>2, <2>3
<1> QED
  BY <1>2, <1>3, <1>6, FewerHeld DEF S

(* A guild that is read from the rows lists all who will point to it.      *)
LEMMA GetKeeps ==
  ASSUME NEW G \in GuildRecords, NEW at, Enrolled(G, at), NEW g \in Tags
  PROVE  /\ GetGuild(G, g) \in GuildRecords
         /\ EnrolledIn(GetGuild(G, g), at, Held(G) \cup {g})
         /\ GetGuild(G, g).ptr = G.ptr /\ GetGuild(G, g).row = G.row
         /\ GetGuild(G, g).exists = G.exists /\ GetGuild(G, g).rank = G.rank
<1>1. CASE g \in Held(G)
  BY <1>1 DEF GetGuild, Enrolled, EnrolledIn
<1>2. CASE g \notin Held(G)
  <2> DEFINE S == GetGuild(G, g)
             rows == [c \in Folk |-> IF G.row[c].guild = g
                                     THEN G.row[c].rank ELSE NotIn]
  <2>1. /\ S.ptr = G.ptr /\ S.rank = G.rank /\ S.exists = G.exists
        /\ S.row = G.row /\ S.list = [G.list EXCEPT ![g] = rows]
        /\ S \in [ptr : {S.ptr}, rank : {S.rank}, row : {S.row},
                  list : {S.list}, exists : {S.exists}]
    BY <1>2 DEF GetGuild, GuildRecords
  <2>2. \A c \in Folk : G.row[c].rank \in Ranks
    BY DEF GuildRecords, Rows
  <2>3. rows \in [Folk -> 0..NotIn]
    BY <2>2, RanksAreListed
  <2>4. S.list \in [Tags -> [Folk -> 0..NotIn]]
    BY <2>1, <2>3 DEF GuildRecords
  <2>5. \A c \in Folk : G.ptr[c] # g
    BY <1>2, GuildAssumption DEF Held
  <2>6. \A c \in Folk : G.row[c].guild = g => S.list[g][c] # NotIn
    BY <2>1, <2>2, RanksAreListed DEF GuildRecords
  <2>7. \A h \in Tags \ {g} : S.list[h] = G.list[h]
    BY <2>1
  <2>8. /\ G.ptr \in [Folk -> Tags \cup {NoTag}] /\ G.exists \subseteq Tags
    BY DEF GuildRecords
  <2>9. S \in GuildRecords
    <3> HIDE DEF S
    <3> QED BY <2>1, <2>4 DEF GuildRecords
  <2> HIDE DEF S
  <2>10. EnrolledIn(S, at, Held(G) \cup {g})
    BY <2>1, <2>5, <2>6, <2>7, <2>8 DEF Enrolled, EnrolledIn, Listed
  <2> QED
    BY <2>1, <2>9, <2>10 DEF S
<1> QED
  BY <1>1, <1>2

(* Somebody becomes a member, and is put on the list.                      *)
LEMMA AddKeeps ==
  ASSUME NEW G \in GuildRecords, NEW at, NEW H, EnrolledIn(G, at, H),
         NEW g \in H, g \in G.exists, Held(G) \subseteq H,
         NEW c \in Folk, at[c] # "off", NEW r \in Ranks
  PROVE  AddMember(G, g, c, r) \in GuildRecords
         /\ Enrolled(AddMember(G, g, c, r), at)
<1> DEFINE S == AddMember(G, g, c, r)
<1>0. g \in Tags
  BY DEF GuildRecords
<1>1. /\ S.ptr = [G.ptr EXCEPT ![c] = g] /\ S.rank = [G.rank EXCEPT ![c] = r]
      /\ S.exists = G.exists /\ S.row = G.row
      /\ S.list = [G.list EXCEPT ![g] = [G.list[g] EXCEPT ![c] = r]]
      /\ S \in [ptr : {S.ptr}, rank : {S.rank}, row : {S.row},
                list : {S.list}, exists : {S.exists}]
  BY <1>0 DEF AddMember, GuildRecords
<1>2. r # NotIn /\ r \in 0..NotIn
  BY RanksAreListed
<1>3. S.ptr \in [Folk -> Tags \cup {NoTag}] /\ S.rank \in [Folk -> Ranks]
      /\ S.list \in [Tags -> [Folk -> 0..NotIn]]
  BY <1>0, <1>1, <1>2 DEF GuildRecords
<1> HIDE DEF S
<1>4. S \in GuildRecords
  BY <1>1, <1>3 DEF GuildRecords
<1>5. \A h \in Tags, d \in Folk : Listed(G, d, h) => Listed(S, d, h)
  BY <1>0, <1>1, <1>2 DEF Listed, GuildRecords
<1>6. Listed(S, c, g)
  BY <1>0, <1>1, <1>2 DEF Listed, GuildRecords
<1>7. EnrolledIn(S, at, H)
  <2> SUFFICES ASSUME NEW d \in Folk
      PROVE  /\ S.ptr[d] # NoTag
                  => Listed(S, d, S.ptr[d]) /\ S.ptr[d] \in S.exists
             /\ at[d] = "off" => S.ptr[d] = NoTag
             /\ at[d] # "game" /\ S.row[d].guild \in S.exists \cap H
                  => Listed(S, d, S.row[d].guild)
    BY DEF EnrolledIn
  <2>1. /\ G.ptr[d] # NoTag => Listed(G, d, G.ptr[d]) /\ G.ptr[d] \in G.exists
        /\ at[d] = "off" => G.ptr[d] = NoTag
        /\ at[d] # "game" /\ G.row[d].guild \in G.exists \cap H
             => Listed(G, d, G.row[d].guild)
    BY DEF EnrolledIn
  <2>2. G.exists \subseteq Tags /\ DOMAIN G.ptr = Folk
    BY DEF GuildRecords
  <2>3. S.ptr[d] = (IF d = c THEN g ELSE G.ptr[d])
    BY <1>1, <2>2
  <2> QED
    BY <1>1, <1>5, <1>6, <2>1, <2>2, <2>3
<1>8. Held(S) \subseteq Held(G) \cup {g}
  BY <1>1 DEF Held, GuildRecords
<1> QED
  BY <1>4, <1>7, <1>8, FewerHeld DEF S

(* Somebody who is not being loaded is taken off a list, out of its object *)
(* if there is one and out of its row if it is not in the game.            *)
LEMMA DelKeeps ==
  ASSUME where \in [Folk -> Wheres], NEW G \in GuildRecords,
         Enrolled(G, where), NEW g \in Tags, NEW c \in Folk,
         where[c] # "loading"
  PROVE  DelMember(G, g, c) \in GuildRecords
         /\ Enrolled(DelMember(G, g, c), where)
<1> DEFINE S == DelMember(G, g, c)
           NoneRow == [guild |-> NoTag, rank |-> 0]
<1>a. where[c] \in {"menu", "game"} \/ where[c] = "off"
  BY DEF Wheres
<1>b. where[c] = "off" => G.ptr[c] = NoTag
  BY DEF Enrolled, EnrolledIn
<1>1. /\ S.ptr = [G.ptr EXCEPT ![c] = IF where[c] \in {"menu", "game"}
                                      THEN NoTag ELSE @]
      /\ S.rank = [G.rank EXCEPT ![c] = IF where[c] \in {"menu", "game"}
                                        THEN 0 ELSE @]
      /\ S.exists = G.exists
      /\ S.row = [G.row EXCEPT ![c] = IF InGame(c) THEN @ ELSE NoneRow]
      /\ S.list = [G.list EXCEPT ![g] = [G.list[g] EXCEPT ![c] = NotIn]]
      /\ S \in [ptr : {S.ptr}, rank : {S.rank}, row : {S.row},
                list : {S.list}, exists : {S.exists}]
  BY DEF DelMember, DelMemberOf, GuildRecords
<1>2. /\ S.ptr \in [Folk -> Tags \cup {NoTag}] /\ S.rank \in [Folk -> Ranks]
      /\ S.row \in [Folk -> Rows] /\ S.list \in [Tags -> [Folk -> 0..NotIn]]
  BY <1>1, RanksAreListed, NoRow DEF GuildRecords
<1>3. /\ S.ptr[c] = NoTag /\ (where[c] # "game" => S.row[c].guild = NoTag)
  BY <1>a, <1>b, <1>1 DEF GuildRecords, InGame
<1>4. \A d \in Folk \ {c} :
        S.ptr[d] = G.ptr[d] /\ S.row[d] = G.row[d]
        /\ \A h \in Tags : Listed(G, d, h) => Listed(S, d, h)
  BY <1>1 DEF Listed, GuildRecords
<1> HIDE DEF S
<1>5. S \in GuildRecords
  BY <1>1, <1>2 DEF GuildRecords
<1>6. Held(S) \subseteq Held(G)
  BY <1>3, <1>4 DEF Held
<1>7. EnrolledIn(S, where, Held(G))
  <2> SUFFICES ASSUME NEW d \in Folk
      PROVE  /\ S.ptr[d] # NoTag
                  => Listed(S, d, S.ptr[d]) /\ S.ptr[d] \in S.exists
             /\ where[d] = "off" => S.ptr[d] = NoTag
             /\ where[d] # "game" /\ S.row[d].guild \in S.exists \cap Held(G)
                  => Listed(S, d, S.row[d].guild)
    BY DEF EnrolledIn
  <2>1. /\ G.ptr[d] # NoTag => Listed(G, d, G.ptr[d]) /\ G.ptr[d] \in G.exists
        /\ where[d] = "off" => G.ptr[d] = NoTag
        /\ where[d] # "game" /\ G.row[d].guild \in G.exists \cap Held(G)
             => Listed(G, d, G.row[d].guild)
    BY DEF EnrolledIn, Enrolled
  <2>2. G.exists \subseteq Tags /\ NoTag \notin Held(G)
    BY DEF GuildRecords, Held
  <2> QED
    BY <1>1, <1>3, <1>4, <2>1, <2>2
<1> QED
  BY <1>5, <1>6, <1>7, FewerHeld DEF S

(* Founding: those who have accepted become members of a new guild.        *)
LEMMA CreateGuildKeeps ==
  ASSUME GuildTyped, Enrolled(guilds, where),
         NEW c \in Folk, NEW g \in Tags, Guild_Create(c, g)
  PROVE  guilds' \in GuildRecords /\ Enrolled(guilds', where)
<1> DEFINE B == [guilds EXCEPT !.exists = @ \cup {g}]
           G == GetGuild(B, g)
           present == {d \in creations[c].members : InGame(d)}
           RankOf(d) == IF d = c THEN 0 ELSE LastRank
           S == [G EXCEPT
                   !.ptr = [d \in Folk |-> IF d \in present THEN g
                                           ELSE G.ptr[d]],
                   !.rank = [d \in Folk |-> IF d \in present THEN RankOf(d)
                                            ELSE G.rank[d]],
                   !.list[g] = [d \in Folk |-> IF d \in present THEN RankOf(d)
                                               ELSE G.list[g][d]]]
<1>1. guilds \in GuildRecords
  BY DEF GuildTyped
<1>2. guilds' = Settle(S)
  BY DEF Guild_Create
<1>3. /\ B.ptr = guilds.ptr /\ B.rank = guilds.rank /\ B.row = guilds.row
      /\ B.list = guilds.list /\ B.exists = guilds.exists \cup {g}
      /\ B \in GuildRecords
  BY <1>1 DEF GuildRecords
<1>4. Enrolled(B, where)
  <2>1. Held(B) = Held(guilds)
    BY <1>3 DEF Held
  <2>2. Held(guilds) \subseteq guilds.exists
    BY <1>1 DEF Held, Enrolled, EnrolledIn, GuildRecords
  <2> HIDE DEF B
  <2> QED
    BY <1>3, <2>1, <2>2 DEF Enrolled, EnrolledIn, Listed
<1> HIDE DEF B
<1>5. /\ G \in GuildRecords /\ EnrolledIn(G, where, Held(B) \cup {g})
      /\ G.ptr = B.ptr /\ G.exists = B.exists
  BY <1>3, <1>4, GetKeeps
<1> HIDE DEF G
<1>6. /\ 0 \in 0..NotIn /\ LastRank \in 0..NotIn /\ 0 # NotIn
      /\ LastRank # NotIn /\ 0 \in Ranks /\ LastRank \in Ranks
  BY RanksAreListed
<1>7. /\ S.exists = G.exists /\ S.row = G.row
      /\ S.ptr = [d \in Folk |-> IF d \in present THEN g ELSE G.ptr[d]]
      /\ S.rank = [d \in Folk |-> IF d \in present THEN RankOf(d)
                                  ELSE G.rank[d]]
      /\ S.list = [G.list EXCEPT ![g] =
                     [d \in Folk |-> IF d \in present THEN RankOf(d)
                                     ELSE G.list[g][d]]]
      /\ S \in [ptr : {S.ptr}, rank : {S.rank}, row : {S.row},
                list : {S.list}, exists : {S.exists}]
  BY <1>5 DEF GuildRecords
<1>8. /\ S.ptr \in [Folk -> Tags \cup {NoTag}] /\ S.rank \in [Folk -> Ranks]
      /\ S.list \in [Tags -> [Folk -> 0..NotIn]]
  <2>1. S.ptr \in [Folk -> Tags \cup {NoTag}]
    BY <1>5, <1>7 DEF GuildRecords
  <2>2. S.rank \in [Folk -> Ranks]
    BY <1>5, <1>6, <1>7 DEF GuildRecords
  <2>3. S.list \in [Tags -> [Folk -> 0..NotIn]]
    BY <1>5, <1>6, <1>7 DEF GuildRecords
  <2> HIDE DEF S
  <2> QED
    BY <2>1, <2>2, <2>3
<1>9. \A d \in Folk : /\ d \in present => Listed(S, d, g)
                      /\ \A h \in Tags : Listed(G, d, h) => Listed(S, d, h)
  BY <1>5, <1>6, <1>7 DEF Listed, GuildRecords
<1>10. \A d \in Folk : where[d] = "off" => d \notin present
  BY DEF InGame
<1> HIDE DEF S, present
<1>11. S \in GuildRecords
  BY <1>5, <1>7, <1>8 DEF GuildRecords
<1>12. EnrolledIn(S, where, Held(B) \cup {g})
  <2> SUFFICES ASSUME NEW d \in Folk
      PROVE  /\ S.ptr[d] # NoTag
                  => Listed(S, d, S.ptr[d]) /\ S.ptr[d] \in S.exists
             /\ where[d] = "off" => S.ptr[d] = NoTag
             /\ where[d] # "game"
                  /\ S.row[d].guild \in S.exists \cap (Held(B) \cup {g})
                    => Listed(S, d, S.row[d].guild)
    BY DEF EnrolledIn
  <2>1. /\ G.ptr[d] # NoTag => Listed(G, d, G.ptr[d]) /\ G.ptr[d] \in G.exists
        /\ where[d] = "off" => G.ptr[d] = NoTag
        /\ where[d] # "game"
             /\ G.row[d].guild \in G.exists \cap (Held(B) \cup {g})
               => Listed(G, d, G.row[d].guild)
    BY <1>5 DEF EnrolledIn
  <2>2. G.exists \subseteq Tags /\ g \in G.exists
    BY <1>3, <1>5 DEF GuildRecords
  <2>3. S.ptr[d] = (IF d \in present THEN g ELSE G.ptr[d])
    BY <1>7
  <2> QED
    BY <1>7, <1>9, <1>10, <2>1, <2>2, <2>3
<1>13. Held(S) \subseteq Held(B) \cup {g}
  BY <1>5, <1>7 DEF Held
<1>14. Enrolled(S, where)
  BY <1>12, <1>13, FewerHeld
<1> QED
  BY <1>1, <1>2, <1>11, <1>14, SettleKeeps

(* Disbanding: all on the list, and in memory or out of the game.          *)
LEMMA JunkKeeps ==
  ASSUME GuildTyped, Enrolled(guilds, where), NEW c \in Folk,
         Guild_Junk(c), ~raced'
  PROVE  guilds' \in GuildRecords /\ Enrolled(guilds', where)
<1> DEFINE g == guilds.ptr[c]
           on(d) == guilds.list[g][d] # NotIn
           all == {d \in Folk : on(d)}
           loaded == {d \in all : where[d] \in {"menu", "game"}}
           S == [guilds EXCEPT
                   !.list[g] = NoOneIn,
                   !.ptr = [d \in Folk |-> IF d \in loaded THEN NoTag
                                           ELSE @[d]],
                   !.rank = [d \in Folk |-> IF d \in loaded THEN 0 ELSE @[d]],
                   !.row = [d \in Folk |-> IF d \in all /\ ~InGame(d)
                                           THEN [guild |-> NoTag, rank |-> 0]
                                           ELSE @[d]]]
<1>1. guilds' = Settle(S) /\ g # NoTag /\ (raced' = \E d \in all : where[d] = "loading")
  BY DEF Guild_Junk
<1>2. guilds \in GuildRecords /\ g \in Tags
  BY <1>1 DEF GuildTyped, GuildRecords
<1>3. /\ S.exists = guilds.exists
      /\ S.list = [guilds.list EXCEPT ![g] = NoOneIn]
      /\ S.ptr = [d \in Folk |-> IF d \in loaded THEN NoTag
                                 ELSE guilds.ptr[d]]
      /\ S.rank = [d \in Folk |-> IF d \in loaded THEN 0 ELSE guilds.rank[d]]
      /\ S.row = [d \in Folk |-> IF d \in all /\ ~InGame(d)
                                 THEN [guild |-> NoTag, rank |-> 0]
                                 ELSE guilds.row[d]]
      /\ S \in [ptr : {S.ptr}, rank : {S.rank}, row : {S.row},
                list : {S.list}, exists : {S.exists}]
  BY <1>2 DEF GuildRecords
<1>4. \A d \in Folk : /\ d \in all <=> Listed(guilds, d, g)
                      /\ d \in loaded <=> d \in all
                                          /\ where[d] \in {"menu", "game"}
  BY DEF Listed
<1>5. \A d \in all : where[d] \in {"menu", "game", "off"}
  BY <1>1 DEF GuildTyped, Wheres
<1> HIDE DEF S, g, all, loaded
<1>6. S \in GuildRecords
  <2>1. S.ptr \in [Folk -> Tags \cup {NoTag}]
    BY <1>2, <1>3 DEF GuildRecords
  <2>2. S.rank \in [Folk -> Ranks]
    BY <1>2, <1>3, RanksAreListed DEF GuildRecords
  <2>3. S.list \in [Tags -> [Folk -> 0..NotIn]]
    BY <1>2, <1>3, NoOneIsIn DEF GuildRecords
  <2>4. S.row \in [Folk -> Rows]
    BY <1>2, <1>3, NoRow DEF GuildRecords
  <2> QED
    BY <1>2, <1>3, <2>1, <2>2, <2>3, <2>4 DEF GuildRecords
<1>7. Held(S) \subseteq Held(guilds)
  BY <1>2, <1>3 DEF Held
<1>8. \A d \in Folk, h \in Tags \ {g} :
        Listed(guilds, d, h) => Listed(S, d, h)
  BY <1>2, <1>3 DEF Listed, GuildRecords
<1>9. EnrolledIn(S, where, Held(guilds) \ {g})
  <2> SUFFICES ASSUME NEW d \in Folk
      PROVE  /\ S.ptr[d] # NoTag
                  => Listed(S, d, S.ptr[d]) /\ S.ptr[d] \in S.exists
             /\ where[d] = "off" => S.ptr[d] = NoTag
             /\ where[d] # "game"
                  /\ S.row[d].guild \in S.exists \cap (Held(guilds) \ {g})
                    => Listed(S, d, S.row[d].guild)
    BY DEF EnrolledIn
  <2>1. /\ guilds.ptr[d] # NoTag => /\ Listed(guilds, d, guilds.ptr[d])
                                    /\ guilds.ptr[d] \in guilds.exists
        /\ where[d] = "off" => guilds.ptr[d] = NoTag
        /\ where[d] # "game"
             /\ guilds.row[d].guild \in guilds.exists \cap Held(guilds)
               => Listed(guilds, d, guilds.row[d].guild)
    BY DEF Enrolled, EnrolledIn
  <2>2. guilds.exists \subseteq Tags /\ NoTag \notin Held(guilds)
    BY <1>2 DEF GuildRecords, Held
  <2>3. S.ptr[d] = (IF d \in loaded THEN NoTag ELSE guilds.ptr[d])
    BY <1>3
  <2>4. S.ptr[d] # g
    BY <1>1, <1>2, <1>4, <1>5, <2>1, <2>3, GuildAssumption DEF g
  <2>5. S.row[d].guild \in {NoTag, guilds.row[d].guild}
    BY <1>3
  <2> QED
    BY <1>3, <1>8, <2>1, <2>2, <2>3, <2>4, <2>5
<1>10. Held(S) \subseteq Held(guilds) \ {g}
  <2>1. \A d \in Folk : S.ptr[d] # g
    <3> SUFFICES ASSUME NEW d \in Folk PROVE S.ptr[d] # g
      OBVIOUS
    <3>1. guilds.ptr[d] # NoTag => Listed(guilds, d, guilds.ptr[d])
      BY DEF Enrolled, EnrolledIn
    <3>2. where[d] = "off" => guilds.ptr[d] = NoTag
      BY DEF Enrolled, EnrolledIn
    <3> QED
      BY <1>1, <1>2, <1>3, <1>4, <1>5, <3>1, <3>2, GuildAssumption DEF g
  <2> QED
    BY <1>7, <2>1 DEF Held
<1>11. Enrolled(S, where)
  BY <1>9, <1>10, FewerHeld
<1> QED
  BY <1>1, <1>2, <1>6, <1>11, SettleKeeps DEF S

LEMMA RemovedKeeps ==
  ASSUME GuildTyped, Enrolled(guilds, where),
         NEW g \in Tags, NEW d \in Folk, Removed(g, d), ~raced'
  PROVE  guilds' \in GuildRecords /\ Enrolled(guilds', where)
<1>1. guilds' = Settle(DelMember(guilds, g, d)) /\ where[d] # "loading"
  BY DEF Removed
<1>2. guilds \in GuildRecords /\ where \in [Folk -> Wheres]
  BY DEF GuildTyped
<1>3. /\ DelMember(guilds, g, d) \in GuildRecords
      /\ Enrolled(DelMember(guilds, g, d), where)
  BY <1>1, <1>2, DelKeeps
<1> QED
  BY <1>1, <1>2, <1>3, SettleKeeps

(* Ranks: whoever is on a list stays on it.                                *)
LEMMA RankKeeps ==
  ASSUME GuildTyped, Enrolled(guilds, where), NEW c \in Folk, NEW d \in Folk,
         NEW r \in Ranks, Guild_Rank(c, d, r)
  PROVE  guilds' \in GuildRecords /\ Enrolled(guilds', where)
<1> DEFINE g == guilds.ptr[c]
           S == guilds'
<1>1. guilds \in GuildRecords /\ g \in Tags
  BY DEF GuildTyped, GuildRecords, Guild_Rank
<1>2. /\ S.exists = guilds.exists /\ S.ptr = guilds.ptr
      /\ S.list = [guilds.list EXCEPT ![g] = [guilds.list[g] EXCEPT ![d] = r]]
      /\ S.rank = [guilds.rank EXCEPT ![d] =
                     IF where[d] \in {"menu", "game"} THEN r ELSE @]
      /\ S.row = [guilds.row EXCEPT ![d] =
                    [guilds.row[d] EXCEPT !.rank =
                       IF InGame(d) THEN @ ELSE r]]
      /\ S \in [ptr : {S.ptr}, rank : {S.rank}, row : {S.row},
                list : {S.list}, exists : {S.exists}]
  BY <1>1 DEF Guild_Rank, GuildRecords
<1> HIDE DEF S, g
<1>r. \A row \in Rows : [row EXCEPT !.rank = r] \in Rows
                         /\ [row EXCEPT !.rank = @] \in Rows
  BY DEF Rows
<1>3. r # NotIn /\ r \in 0..NotIn
  BY RanksAreListed
<1>4. S \in GuildRecords
  <2>1. S.rank \in [Folk -> Ranks]
    BY <1>1, <1>2 DEF GuildRecords
  <2>2. S.list \in [Tags -> [Folk -> 0..NotIn]]
    BY <1>1, <1>2, <1>3 DEF GuildRecords
  <2>3. S.row \in [Folk -> Rows]
    <3>1. guilds.row \in [Folk -> Rows] /\ guilds.row[d] \in Rows
      BY <1>1 DEF GuildRecords
    <3>2. [guilds.row[d] EXCEPT !.rank = IF InGame(d) THEN @ ELSE r] \in Rows
      BY <1>r, <3>1
    <3> QED
      BY <1>2, <3>1, <3>2
  <2> QED
    BY <1>1, <1>2, <2>1, <2>2, <2>3 DEF GuildRecords
<1>5. \A h \in Tags, x \in Folk : Listed(guilds, x, h) => Listed(S, x, h)
  BY <1>1, <1>2, <1>3 DEF Listed, GuildRecords
<1>6. \A x \in Folk : S.row[x].guild = guilds.row[x].guild
  BY <1>1, <1>2 DEF GuildRecords, Rows
<1>7. Held(S) = Held(guilds)
  BY <1>2 DEF Held
<1>8. guilds.exists \subseteq Tags
      /\ \A x \in Folk : guilds.ptr[x] # NoTag => guilds.ptr[x] \in Tags
  BY <1>1 DEF GuildRecords
<1>9. EnrolledIn(S, where, Held(guilds))
  BY <1>2, <1>5, <1>6, <1>8 DEF Enrolled, EnrolledIn
<1>10. Enrolled(S, where)
  BY <1>7, <1>9 DEF Enrolled
<1> QED
  BY <1>4, <1>10 DEF S

(* A row is read, and its guild if it is not in memory.                    *)
LEMMA LoadKeeps ==
  ASSUME GuildTyped, Enrolled(guilds, where), NEW c \in Folk, LoadGuild(c)
  PROVE  guilds' \in GuildRecords /\ Enrolled(guilds', where')
<1> DEFINE g == guilds.row[c].guild
<1>1. guilds \in GuildRecords /\ where \in [Folk -> Wheres]
      /\ where[c] = "off" /\ where' = [where EXCEPT ![c] = "loading"]
  BY DEF GuildTyped, LoadGuild
<1>2. \A d \in Folk : /\ where'[d] # "off" => d = c \/ where[d] # "off"
                      /\ where'[d] = "off" => where[d] = "off"
                      /\ where'[d] # "game" => where[d] # "game"
  BY <1>1
<1>3. ASSUME NEW G, NEW H, EnrolledIn(G, where, H)
      PROVE  EnrolledIn(G, where', H)
  BY <1>2, <1>3 DEF EnrolledIn
<1>4. CASE g \notin guilds.exists
  <2>1. guilds' = guilds
    BY <1>4 DEF LoadGuild
  <2> QED
    BY <1>1, <1>3, <2>1 DEF Enrolled
<1>5. CASE g \in guilds.exists
  <2> DEFINE G == GetGuild(guilds, g)
             S == guilds'
  <2>1. S = [G EXCEPT !.ptr[c] = g, !.rank[c] = guilds.row[c].rank]
    BY <1>5 DEF LoadGuild
  <2>2. g \in Tags /\ guilds.row[c].rank \in Ranks
    BY <1>1, <1>5 DEF GuildRecords, Rows
  <2>3. /\ G \in GuildRecords /\ EnrolledIn(G, where, Held(guilds) \cup {g})
        /\ G.ptr = guilds.ptr /\ G.row = guilds.row
        /\ G.exists = guilds.exists
    BY <1>1, <2>2, GetKeeps
  <2> HIDE DEF G
  <2>4. /\ S.ptr = [G.ptr EXCEPT ![c] = g] /\ S.list = G.list
        /\ S.rank = [G.rank EXCEPT ![c] = guilds.row[c].rank]
        /\ S.row = G.row /\ S.exists = G.exists
        /\ S \in [ptr : {S.ptr}, rank : {S.rank}, row : {S.row},
                  list : {S.list}, exists : {S.exists}]
    BY <2>1, <2>3 DEF GuildRecords
  <2> HIDE DEF S
  <2>5. S \in GuildRecords
    BY <2>2, <2>3, <2>4 DEF GuildRecords
  <2>6. Listed(G, c, g)
    BY <1>1, <1>5, <2>3 DEF EnrolledIn
  <2>7. EnrolledIn(S, where', Held(guilds) \cup {g})
    <3> SUFFICES ASSUME NEW d \in Folk
        PROVE  /\ S.ptr[d] # NoTag
                    => Listed(S, d, S.ptr[d]) /\ S.ptr[d] \in S.exists
               /\ where'[d] = "off" => S.ptr[d] = NoTag
               /\ where'[d] # "game"
                    /\ S.row[d].guild \in S.exists \cap (Held(guilds) \cup {g})
                      => Listed(S, d, S.row[d].guild)
      BY DEF EnrolledIn
    <3>1. EnrolledIn(G, where', Held(guilds) \cup {g})
      BY <1>3, <2>3
    <3>2. S.ptr[d] = (IF d = c THEN g ELSE G.ptr[d])
      BY <2>3, <2>4 DEF GuildRecords
    <3>3. d = c => where'[d] # "off"
      BY <1>1
    <3>4. \A h : Listed(S, d, h) <=> Listed(G, d, h)
      BY <2>4 DEF Listed
    <3>5. /\ G.ptr[d] # NoTag => Listed(G, d, G.ptr[d]) /\ G.ptr[d] \in G.exists
          /\ where'[d] = "off" => G.ptr[d] = NoTag
          /\ where'[d] # "game"
               /\ G.row[d].guild \in G.exists \cap (Held(guilds) \cup {g})
                 => Listed(G, d, G.row[d].guild)
      BY <3>1 DEF EnrolledIn
    <3> HIDE DEF g
    <3> QED
      BY <1>5, <2>3, <2>4, <2>6, <3>2, <3>3, <3>4, <3>5
  <2>8. Held(S) \subseteq Held(guilds) \cup {g}
    BY <2>3, <2>4 DEF Held, GuildRecords
  <2>9. Enrolled(S, where')
    BY <2>7, <2>8, FewerHeld
  <2> QED
    BY <2>5, <2>9 DEF S
<1> QED
  BY <1>4, <1>5

(* A character leaves; from the game its row is written.                   *)
LEMMA UnloadKeeps ==
  ASSUME GuildTyped, Enrolled(guilds, where), NEW c \in Folk, Unload(c)
  PROVE  guilds' \in GuildRecords /\ Enrolled(guilds', where')
<1> DEFINE G == IF InGame(c)
                THEN [guilds EXCEPT !.row[c] = [guild |-> guilds.ptr[c],
                                                rank |-> guilds.rank[c]]]
                ELSE guilds
           S == [G EXCEPT !.ptr[c] = NoTag, !.rank[c] = 0]
<1>1. guilds \in GuildRecords /\ where \in [Folk -> Wheres]
      /\ where' = [where EXCEPT ![c] = "off"] /\ guilds' = Settle(S)
  BY DEF GuildTyped, Unload
<1>2. [guild |-> guilds.ptr[c], rank |-> guilds.rank[c]] \in Rows
  BY <1>1 DEF GuildRecords, Rows
<1>3. /\ G.exists = guilds.exists /\ G.list = guilds.list
      /\ G.ptr = guilds.ptr /\ G.rank = guilds.rank
      /\ G.row = [guilds.row EXCEPT ![c] =
                    IF InGame(c) THEN [guild |-> guilds.ptr[c],
                                       rank |-> guilds.rank[c]] ELSE @]
      /\ G \in GuildRecords
  BY <1>1, <1>2 DEF GuildRecords
<1> HIDE DEF G
<1>4. /\ S.ptr = [guilds.ptr EXCEPT ![c] = NoTag] /\ S.list = guilds.list
      /\ S.rank = [guilds.rank EXCEPT ![c] = 0]
      /\ S.row = G.row /\ S.exists = guilds.exists
      /\ S \in [ptr : {S.ptr}, rank : {S.rank}, row : {S.row},
                list : {S.list}, exists : {S.exists}]
  BY <1>3 DEF GuildRecords
<1> HIDE DEF S
<1>5. S \in GuildRecords
  <2>1. S.rank \in [Folk -> Ranks]
    BY <1>1, <1>4, RanksAreListed DEF GuildRecords
  <2>2. S.ptr \in [Folk -> Tags \cup {NoTag}]
    BY <1>1, <1>4 DEF GuildRecords
  <2> QED
    BY <1>1, <1>3, <1>4, <2>1, <2>2 DEF GuildRecords
<1>6. EnrolledIn(S, where', Held(guilds))
  <2> SUFFICES ASSUME NEW d \in Folk
      PROVE  /\ S.ptr[d] # NoTag
                  => Listed(S, d, S.ptr[d]) /\ S.ptr[d] \in S.exists
             /\ where'[d] = "off" => S.ptr[d] = NoTag
             /\ where'[d] # "game"
                  /\ S.row[d].guild \in S.exists \cap Held(guilds)
                    => Listed(S, d, S.row[d].guild)
    BY DEF EnrolledIn
  <2>1. /\ guilds.ptr[d] # NoTag => /\ Listed(guilds, d, guilds.ptr[d])
                                    /\ guilds.ptr[d] \in guilds.exists
        /\ where[d] = "off" => guilds.ptr[d] = NoTag
        /\ where[d] # "game"
             /\ guilds.row[d].guild \in guilds.exists \cap Held(guilds)
               => Listed(guilds, d, guilds.row[d].guild)
    BY DEF Enrolled, EnrolledIn
  <2>2. \A h : Listed(S, d, h) <=> Listed(guilds, d, h)
    BY <1>4 DEF Listed
  <2>3. CASE d # c
    <3>1. S.ptr[d] = guilds.ptr[d] /\ S.row[d] = guilds.row[d]
          /\ where'[d] = where[d]
      BY <1>1, <1>3, <1>4, <2>3 DEF GuildRecords
    <3> QED
      BY <1>4, <2>1, <2>2, <3>1
  <2>4. CASE d = c
    <3>1. S.ptr[d] = NoTag
      BY <1>1, <1>4, <2>4 DEF GuildRecords
    <3>2. S.row[d].guild = IF InGame(d) THEN guilds.ptr[d]
                                        ELSE guilds.row[d].guild
      BY <1>1, <1>3, <1>4, <2>4 DEF GuildRecords
    <3>3. NoTag \notin Held(guilds)
      BY DEF Held
    <3> QED
      BY <1>4, <2>1, <2>2, <3>1, <3>2, <3>3 DEF InGame
  <2> QED
    BY <2>3, <2>4
<1>7. Held(S) \subseteq Held(guilds)
  BY <1>1, <1>4 DEF Held, GuildRecords
<1>8. Enrolled(S, where')
  BY <1>6, <1>7, FewerHeld
<1> QED
  BY <1>1, <1>5, <1>8, SettleKeeps

LEMMA NextGuild == GuildInv /\ [GuildNext]_guildVars => GuildInv'
<1> SUFFICES ASSUME GuildInv, [GuildNext]_guildVars PROVE GuildInv'
  OBVIOUS
<1>1. CASE UNCHANGED guildVars
  BY <1>1 DEF guildVars, GuildInv, GuildTyped, Enrolled, EnrolledIn, Held,
              Listed
<1>2. CASE GuildNext
  <2>1. /\ GuildTyped /\ Enrolled(guilds, where)
        /\ guilds \in GuildRecords /\ where \in [Folk -> Wheres]
    BY <1>2 DEF GuildNext, GuildInv, GuildTyped
  <2>2. PICK c \in Folk : AtOfficial(c) \/ Elsewhere(c)
    BY <1>2 DEF GuildNext
  <2>3. /\ \A d \in Folk : creations[d] \in [tag : Tags \cup {NoTag},
                                             members : SUBSET Folk]
        /\ \A d \in Folk : guild_invite[d] \in Tags \cup {NoTag}
        /\ \A d \in Folk : guild_join[d] \in Tags \cup {NoTag}
        /\ \A d \in Folk : guilds.ptr[d] \in Tags \cup {NoTag}
    BY <2>1 DEF GuildTyped, GuildRecords
  <2>4. /\ \A d \in Folk : guilds.ptr[d] # NoTag => guilds.ptr[d] \in Held(guilds)
                                            /\ guilds.ptr[d] \in guilds.exists
    BY <2>1 DEF Held, Enrolled, EnrolledIn
  <2>5. ASSUME where' \in [Folk -> Wheres],
               ~raced' => guilds' \in GuildRecords /\ Enrolled(guilds', where'),
               creations' \in [Folk -> [tag : Tags \cup {NoTag},
                                        members : SUBSET Folk]],
               guild_invite' \in [Folk -> Tags \cup {NoTag}],
               guild_join' \in [Folk -> Tags \cup {NoTag}]
        PROVE  GuildInv'
    BY <2>5 DEF GuildInv, GuildTyped
  <2>6. /\ creations \in [Folk -> [tag : Tags \cup {NoTag},
                                   members : SUBSET Folk]]
        /\ guild_invite \in [Folk -> Tags \cup {NoTag}]
        /\ guild_join \in [Folk -> Tags \cup {NoTag}]
    BY <2>1 DEF GuildTyped
  <2>7. ASSUME NEW g \in Tags, Guild_Request(c, g) PROVE GuildInv'
    <3>1. UNCHANGED <<where, guilds, guild_join, raced>>
      BY <2>7 DEF Guild_Request
    <3>2. creations' \in [Folk -> [tag : Tags \cup {NoTag},
                                   members : SUBSET Folk]]
      BY <2>6, <2>7 DEF Guild_Request
    <3>3. guild_invite' \in [Folk -> Tags \cup {NoTag}]
      BY <2>3, <2>7 DEF Guild_Request
    <3> QED
      BY <2>1, <2>5, <2>6, <3>1, <3>2, <3>3
  <2>8. ASSUME NEW g \in Tags, Guild_Create(c, g) PROVE GuildInv'
    <3>1. guilds' \in GuildRecords /\ Enrolled(guilds', where)
      BY <2>1, <2>8, CreateGuildKeeps
    <3>2. UNCHANGED <<where, guild_invite, guild_join, raced>>
          /\ creations' = [creations EXCEPT ![c] = NoCreation]
      BY <2>8 DEF Guild_Create
    <3>3. creations' \in [Folk -> [tag : Tags \cup {NoTag},
                                   members : SUBSET Folk]]
      BY <2>6, <3>2 DEF NoCreation
    <3> QED
      BY <2>1, <2>5, <2>6, <3>1, <3>2, <3>3
  <2>9. ASSUME NEW d \in Folk, Guild_Player(c, d) PROVE GuildInv'
    <3>1. /\ UNCHANGED <<where, guilds, founding, raced>>
          /\ guild_join' = [guild_join EXCEPT ![c] = guilds.ptr[d]]
      BY <2>9 DEF Guild_Player
    <3> QED
      BY <2>1, <2>3, <2>5, <2>6, <3>1 DEF founding
  <2>10. ASSUME NEW d \in Folk, Guild_Kick(c, d) PROVE GuildInv'
    <3>1. /\ Removed(guilds.ptr[c], d) /\ guilds.ptr[c] \in Tags
      BY <2>3, <2>10 DEF Guild_Kick
    <3>2. UNCHANGED <<where, founding, guild_join>>
      BY <3>1 DEF Removed
    <3>3. ~raced' => guilds' \in GuildRecords /\ Enrolled(guilds', where)
      BY <2>1, <3>1, RemovedKeeps
    <3> QED
      BY <2>1, <2>5, <2>6, <3>2, <3>3 DEF founding
  <2>11. CASE Guild_Remove(c)
    <3>1. /\ Removed(guilds.ptr[c], c) /\ guilds.ptr[c] \in Tags
      BY <2>3, <2>11 DEF Guild_Remove
    <3>2. UNCHANGED <<where, founding, guild_join>>
      BY <3>1 DEF Removed
    <3>3. ~raced' => guilds' \in GuildRecords /\ Enrolled(guilds', where)
      BY <2>1, <3>1, RemovedKeeps
    <3> QED
      BY <2>1, <2>5, <2>6, <3>2, <3>3 DEF founding
  <2>12. CASE Guild_Junk(c)
    <3>1. UNCHANGED <<where, founding, guild_join>>
      BY <2>12 DEF Guild_Junk
    <3>2. ~raced' => guilds' \in GuildRecords /\ Enrolled(guilds', where)
      BY <2>1, <2>12, JunkKeeps
    <3> QED
      BY <2>1, <2>5, <2>6, <3>1, <3>2 DEF founding
  <2>13. ASSUME NEW d \in Folk, NEW r \in Ranks, Guild_Rank(c, d, r)
         PROVE  GuildInv'
    <3>1. UNCHANGED <<where, founding, guild_join>>
      BY <2>13 DEF Guild_Rank
    <3>2. guilds' \in GuildRecords /\ Enrolled(guilds', where)
      BY <2>1, <2>13, RankKeeps
    <3> QED
      BY <2>1, <2>5, <2>6, <3>1, <3>2 DEF founding
  <2>14. CASE Guild_Accept(c)
    <3>1. UNCHANGED <<where, guilds, guild_join>>
      BY <2>14 DEF Guild_Accept
    <3>2. guild_invite' \in [Folk -> Tags \cup {NoTag}]
      BY <2>6, <2>14 DEF Guild_Accept
    <3>3. creations' \in [Folk -> [tag : Tags \cup {NoTag},
                                   members : SUBSET Folk]]
      <4> DEFINE l == create_cache[guild_invite[c]]
      <4>1. CASE creations' = creations
        BY <2>6, <4>1
      <4>2. CASE creations' = [creations EXCEPT ![l].members = @ \cup {c}]
        BY <2>6, <4>2
      <4> QED
        BY <2>14, <4>1, <4>2 DEF Guild_Accept
    <3> QED
      BY <2>1, <2>5, <2>6, <3>1, <3>2, <3>3
  <2>15. ASSUME NEW d \in Folk, Guild_Use(c, d) PROVE GuildInv'
    <3>1. /\ guilds' = AddMember(guilds, guilds.ptr[c], d, LastRank)
          /\ guilds.ptr[c] # NoTag /\ where[d] # "off"
          /\ UNCHANGED <<where, founding, guild_join>>
      BY <2>15 DEF Guild_Use, InGame
    <3>2. LastRank \in Ranks /\ EnrolledIn(guilds, where, Held(guilds))
      BY <2>1, RanksAreListed DEF Enrolled
    <3>3. guilds' \in GuildRecords /\ Enrolled(guilds', where)
      BY <2>1, <2>4, <3>1, <3>2, AddKeeps
    <3> QED
      BY <2>1, <2>5, <2>6, <3>1, <3>3 DEF founding
  <2>16. CASE WarpedAway(c)
    <3>1. /\ UNCHANGED <<where, guilds, creations>>
          /\ guild_join' = [guild_join EXCEPT ![c] = NoTag]
          /\ guild_invite' = [guild_invite EXCEPT ![c] = NoTag]
      BY <2>16 DEF WarpedAway
    <3> QED
      BY <2>1, <2>5, <2>6, <3>1
  <2>17. CASE LoadGuild(c)
    <3>1. guilds' \in GuildRecords /\ Enrolled(guilds', where')
      BY <2>1, <2>17, LoadKeeps
    <3>2. where' \in [Folk -> Wheres]
      BY <2>1, <2>17 DEF LoadGuild, Wheres
    <3>3. UNCHANGED <<founding, guild_join>>
      BY <2>17 DEF LoadGuild
    <3> QED
      BY <2>5, <2>6, <3>1, <3>2, <3>3 DEF founding
  <2>18. CASE Loaded(c)
    <3>1. UNCHANGED <<guilds, founding, guild_join>>
      BY <2>18 DEF Loaded
    <3>2. /\ where' \in [Folk -> Wheres]
          /\ \A d \in Folk : /\ where'[d] = "off" => where[d] = "off"
                             /\ where'[d] # "game" => where[d] # "game"
      BY <2>1, <2>18 DEF Loaded, Wheres
    <3>3. Enrolled(guilds, where')
      BY <2>1, <3>2 DEF Enrolled, EnrolledIn
    <3> QED
      BY <2>1, <2>5, <2>6, <3>1, <3>2, <3>3 DEF founding
  <2>19. CASE Unload(c)
    <3>1. guilds' \in GuildRecords /\ Enrolled(guilds', where')
      BY <2>1, <2>19, UnloadKeeps
    <3>2. where' \in [Folk -> Wheres]
      BY <2>1, <2>19 DEF Unload, Wheres
    <3>3. /\ creations' = [creations EXCEPT ![c] = NoCreation]
          /\ guild_join' = [guild_join EXCEPT ![c] = NoTag]
          /\ guild_invite' = [guild_invite EXCEPT ![c] = NoTag]
      BY <2>19 DEF Unload
    <3>4. creations' \in [Folk -> [tag : Tags \cup {NoTag},
                                   members : SUBSET Folk]]
      BY <2>6, <3>3 DEF NoCreation
    <3> QED
      BY <2>5, <2>6, <3>1, <3>2, <3>3, <3>4
  <2> QED
    BY <2>2, <2>7, <2>8, <2>9, <2>10, <2>11, <2>12, <2>13, <2>14, <2>15,
       <2>16, <2>17, <2>18, <2>19 DEF AtOfficial, Elsewhere
<1> QED
  BY <1>1, <1>2

(* No guild, and nobody in one.                                            *)
LEMMA GuildBegins == GuildInit => GuildInv
<1> SUFFICES ASSUME GuildInit PROVE GuildInv
  OBVIOUS
<1>1. /\ guilds.ptr = [c \in Folk |-> NoTag]
      /\ guilds.row = [c \in Folk |-> [guild |-> NoTag, rank |-> 0]]
      /\ guilds.exists = {}
  BY DEF GuildInit
<1>2. guilds \in GuildRecords
  BY RanksAreListed, NoOneIsIn, NoRow DEF GuildInit, GuildRecords
<1>3. GuildTyped
  BY <1>2 DEF GuildInit, GuildTyped, Wheres, NoCreation
<1>4. Enrolled(guilds, where)
  BY <1>1 DEF Enrolled, EnrolledIn
<1> QED
  BY <1>3, <1>4 DEF GuildInv

(* Whoever points to a guild is on its list, and the guild exists, for any *)
(* characters, tags and ranks: being removed, disbanded or ranked reaches  *)
(* a character in the menu and in the game (Guild::DelMember, Disband), a  *)
(* row becomes a pointer to a guild whose list has it (GuildManager::      *)
(* GetGuild), and ~Guild deletes no guild under its members, until a       *)
(* member is removed while a worker is loading it.                         *)
THEOREM MembersAreListed == GuildSpec => []MembersListed
<1>1. GuildInv => MembersListed
  BY DEF GuildInv, Enrolled, EnrolledIn, Listed, MembersListed
<1> QED
  BY <1>1, GuildBegins, NextGuild, PTL DEF GuildSpec

-----------------------------------------------------------------------------
\* What the variables of guilds hold, also when a member was removed while it
\* was being loaded.

GuildTypes ==
  /\ GuildTyped /\ create_cache \in [Tags -> Folk \cup {NoTag}]
  /\ raced \in BOOLEAN /\ dealings \in 0..MaxDealings

LEMMA SettleTyped ==
  ASSUME NEW G \in GuildRecords
  PROVE  Settle(G) \in GuildRecords
<1> DEFINE gone == Held(guilds) \ Held(G)
           empty == {g \in gone : G.list[g] = NoOneIn}
           S == Settle(G)
<1>1. /\ S.ptr = G.ptr /\ S.rank = G.rank /\ S.exists = G.exists \ empty
      /\ S.list = [g \in Tags |-> IF g \in gone THEN NoOneIn ELSE G.list[g]]
      /\ S.row = [c \in Folk |-> IF G.row[c].guild \in empty
                                 THEN [guild |-> NoTag, rank |-> 0]
                                 ELSE G.row[c]]
      /\ S \in [ptr : {S.ptr}, rank : {S.rank}, row : {S.row},
                list : {S.list}, exists : {S.exists}]
  BY DEF Settle, GuildRecords
<1>2. S.row \in [Folk -> Rows]
  BY <1>1, NoRow DEF GuildRecords
<1>3. S.list \in [Tags -> [Folk -> 0..NotIn]]
  BY <1>1, NoOneIsIn DEF GuildRecords
<1>4. S.ptr \in [Folk -> Tags \cup {NoTag}] /\ S.rank \in [Folk -> Ranks]
      /\ S.exists \in SUBSET Tags
  BY <1>1 DEF GuildRecords
<1> HIDE DEF S
<1>5. S \in GuildRecords
  BY <1>1, <1>2, <1>3, <1>4 DEF GuildRecords
<1> QED
  BY <1>5 DEF S

LEMMA RemovedTyped ==
  ASSUME guilds \in GuildRecords, NEW g \in Tags, NEW c \in Folk, Removed(g, c)
  PROVE  guilds' \in GuildRecords
<1> DEFINE S == DelMember(guilds, g, c)
           NoneRow == [guild |-> NoTag, rank |-> 0]
<1>1. /\ S.ptr = [guilds.ptr EXCEPT ![c] = IF where[c] \in {"menu", "game"}
                                           THEN NoTag ELSE @]
      /\ S.rank = [guilds.rank EXCEPT ![c] = IF where[c] \in {"menu", "game"}
                                             THEN 0 ELSE @]
      /\ S.exists = guilds.exists
      /\ S.row = [guilds.row EXCEPT ![c] = IF InGame(c) THEN @ ELSE NoneRow]
      /\ S.list = [guilds.list EXCEPT ![g] = [guilds.list[g] EXCEPT ![c] = NotIn]]
      /\ S \in [ptr : {S.ptr}, rank : {S.rank}, row : {S.row},
                list : {S.list}, exists : {S.exists}]
  BY DEF DelMember, DelMemberOf, GuildRecords
<1>2. /\ S.ptr \in [Folk -> Tags \cup {NoTag}] /\ S.rank \in [Folk -> Ranks]
      /\ S.row \in [Folk -> Rows] /\ S.list \in [Tags -> [Folk -> 0..NotIn]]
      /\ S.exists \in SUBSET Tags
  BY <1>1, RanksAreListed, NoRow DEF GuildRecords
<1>3. guilds' = Settle(S)
  BY DEF Removed
<1> HIDE DEF S
<1>4. S \in GuildRecords
  BY <1>1, <1>2 DEF GuildRecords
<1> QED
  BY <1>3, <1>4, SettleTyped

LEMMA JunkedTyped ==
  ASSUME guilds \in GuildRecords, NEW c \in Folk, Guild_Junk(c)
  PROVE  guilds' \in GuildRecords
<1> DEFINE g == guilds.ptr[c]
           on(d) == guilds.list[g][d] # NotIn
           all == {d \in Folk : on(d)}
           loaded == {d \in all : where[d] \in {"menu", "game"}}
           S == [guilds EXCEPT
                   !.list[g] = NoOneIn,
                   !.ptr = [d \in Folk |-> IF d \in loaded THEN NoTag
                                           ELSE @[d]],
                   !.rank = [d \in Folk |-> IF d \in loaded THEN 0 ELSE @[d]],
                   !.row = [d \in Folk |-> IF d \in all /\ ~InGame(d)
                                           THEN [guild |-> NoTag, rank |-> 0]
                                           ELSE @[d]]]
<1>1. guilds' = Settle(S) /\ g # NoTag
  BY DEF Guild_Junk
<1>2. g \in Tags
  BY <1>1 DEF GuildRecords
<1>3. /\ S.exists = guilds.exists
      /\ S.list = [guilds.list EXCEPT ![g] = NoOneIn]
      /\ S.ptr = [d \in Folk |-> IF d \in loaded THEN NoTag
                                 ELSE guilds.ptr[d]]
      /\ S.rank = [d \in Folk |-> IF d \in loaded THEN 0 ELSE guilds.rank[d]]
      /\ S.row = [d \in Folk |-> IF d \in all /\ ~InGame(d)
                                 THEN [guild |-> NoTag, rank |-> 0]
                                 ELSE guilds.row[d]]
      /\ S \in [ptr : {S.ptr}, rank : {S.rank}, row : {S.row},
                list : {S.list}, exists : {S.exists}]
  BY <1>2 DEF GuildRecords
<1> HIDE DEF S, g, all, loaded
<1>4. S \in GuildRecords
  <2>1. S.ptr \in [Folk -> Tags \cup {NoTag}]
    BY <1>3 DEF GuildRecords
  <2>2. S.rank \in [Folk -> Ranks]
    BY <1>3, RanksAreListed DEF GuildRecords
  <2>3. S.list \in [Tags -> [Folk -> 0..NotIn]]
    BY <1>2, <1>3, NoOneIsIn DEF GuildRecords
  <2>4. S.row \in [Folk -> Rows]
    BY <1>3, NoRow DEF GuildRecords
  <2> QED
    BY <1>3, <2>1, <2>2, <2>3, <2>4 DEF GuildRecords
<1> QED
  BY <1>1, <1>4, SettleTyped DEF S

\* Only what removes members can find one that is being loaded.
LEMMA RacedTyped ==
  ASSUME GuildTyped, ~raced, [GuildNext]_guildVars, raced'
  PROVE  GuildTyped'
<1>1. GuildNext
  BY DEF guildVars
<1>2. PICK c \in Folk : AtOfficial(c) \/ Elsewhere(c)
  BY <1>1 DEF GuildNext
<1>3. guilds \in GuildRecords /\ guilds.ptr \in [Folk -> Tags \cup {NoTag}]
  BY DEF GuildTyped, GuildRecords
<1>4. \/ \E g \in Tags, d \in Folk : Removed(g, d)
      \/ Guild_Junk(c)
  <2>1. CASE Guild_Remove(c)
    BY <1>3, <2>1 DEF Guild_Remove
  <2>2. ASSUME NEW d \in Folk, Guild_Kick(c, d)
        PROVE  \E g \in Tags : Removed(g, d)
    BY <1>3, <2>2 DEF Guild_Kick
  <2>3. \/ Guild_Remove(c) \/ Guild_Junk(c) \/ \E d \in Folk : Guild_Kick(c, d)
    BY <1>2 DEF AtOfficial, Elsewhere, Guild_Request, Guild_Create, Guild_Player,
                Guild_Rank, Guild_Accept, Guild_Use, WarpedAway, LoadGuild, Loaded, Unload
  <2> QED
    BY <2>1, <2>2, <2>3
<1>5. guilds' \in GuildRecords
  BY <1>3, <1>4, RemovedTyped, JunkedTyped
<1>6. UNCHANGED <<where, founding, guild_join>>
  BY <1>4 DEF Removed, Guild_Junk
<1> QED
  BY <1>5, <1>6 DEF GuildTyped, founding

\* A tag leads to whoever asked for it last, or to nobody.
LEMMA CacheTyped ==
  ASSUME create_cache \in [Tags -> Folk \cup {NoTag}], [GuildNext]_guildVars
  PROVE  create_cache' \in [Tags -> Folk \cup {NoTag}]
<1>1. \A create : \A cache \in [Tags -> Folk \cup {NoTag}] :
        CancelCreate(cache, create) \in [Tags -> Folk \cup {NoTag}]
  BY DEF CancelCreate
<1>2. CASE GuildNext
  <2>1. PICK c \in Folk : AtOfficial(c) \/ Elsewhere(c)
    BY <1>2 DEF GuildNext
  <2>2. ASSUME NEW g \in Tags, Guild_Request(c, g)
        PROVE  create_cache' \in [Tags -> Folk \cup {NoTag}]
    <3>1. [create_cache EXCEPT ![g] = c] \in [Tags -> Folk \cup {NoTag}]
      OBVIOUS
    <3> QED
      BY <1>1, <2>2, <3>1 DEF Guild_Request
  <2>3. ASSUME NEW g \in Tags, Guild_Create(c, g)
        PROVE  create_cache' \in [Tags -> Folk \cup {NoTag}]
    BY <2>3 DEF Guild_Create
  <2>4. CASE Unload(c)
    BY <1>1, <2>4 DEF Unload
  <2>5. \/ UNCHANGED create_cache
        \/ \E g \in Tags : Guild_Request(c, g) \/ Guild_Create(c, g)
        \/ Unload(c)
    BY <2>1 DEF AtOfficial, Elsewhere, Guild_Player, Guild_Kick, Guild_Rank,
                Guild_Remove, Guild_Junk, Removed, Guild_Accept, Guild_Use, WarpedAway,
                LoadGuild, Loaded, founding
  <2> QED
    BY <2>2, <2>3, <2>4, <2>5
<1>3. CASE UNCHANGED guildVars
  BY <1>3 DEF guildVars
<1> QED
  BY <1>2, <1>3

\* A member was removed meanwhile, or not.
LEMMA RacedBoolean ==
  ASSUME raced \in BOOLEAN, [GuildNext]_guildVars
  PROVE  raced' \in BOOLEAN
<1>1. CASE GuildNext
  <2>1. PICK c \in Folk : AtOfficial(c) \/ Elsewhere(c)
    BY <1>1 DEF GuildNext
  <2>2. CASE Guild_Junk(c)
    BY <2>2 DEF Guild_Junk
  <2>3. CASE Guild_Remove(c) \/ \E d \in Folk : Guild_Kick(c, d)
    BY <2>3 DEF Guild_Remove, Guild_Kick, Removed
  <2>4. CASE UNCHANGED raced
    BY <2>4
  <2> QED
    BY <2>1, <2>2, <2>3, <2>4
       DEF AtOfficial, Elsewhere, Guild_Request, Guild_Create, Guild_Player,
           Guild_Rank, Guild_Accept, Guild_Use, WarpedAway, LoadGuild, Loaded, Unload
<1>2. CASE UNCHANGED guildVars
  BY <1>2 DEF guildVars
<1> QED
  BY <1>1, <1>2

LEMMA GuildTypesKept ==
  ASSUME GuildInv, GuildTypes, [GuildNext]_guildVars, GuildInv'
  PROVE  GuildTypes'
<1>1. GuildTyped'
  <2>1. CASE UNCHANGED guildVars
    BY <2>1 DEF guildVars, GuildTypes, GuildTyped
  <2>2. CASE GuildNext /\ raced'
    BY <2>2, RacedTyped DEF GuildNext, GuildTypes
  <2>3. CASE GuildNext /\ ~raced'
    BY <2>3 DEF GuildInv
  <2> QED
    BY <2>1, <2>2, <2>3
<1>2. create_cache' \in [Tags -> Folk \cup {NoTag}] /\ raced' \in BOOLEAN
  BY CacheTyped, RacedBoolean DEF GuildTypes
<1>3. dealings' \in 0..MaxDealings
  <2>1. dealings \in 0..MaxDealings /\ MaxDealings \in Nat
    BY GuildAssumption DEF GuildTypes
  <2>2. dealings' = dealings \/ (dealings < MaxDealings /\ dealings' = dealings + 1)
    BY DEF GuildNext, guildVars
  <2> QED
    BY <2>1, <2>2
<1> QED
  BY <1>1, <1>2, <1>3 DEF GuildTypes

LEMMA GuildTypesBegin == GuildInit => GuildTypes
<1> SUFFICES ASSUME GuildInit PROVE GuildTypes
  OBVIOUS
<1>1. GuildTyped
  BY GuildBegins DEF GuildInv, GuildInit
<1>2. dealings \in 0..MaxDealings
  BY GuildAssumption DEF GuildInit
<1> QED
  BY <1>1, <1>2 DEF GuildInit, GuildTypes

(* A tag of guild_create leads to a player or to nobody, and objects, rows *)
(* and lists hold guilds and ranks, whoever is removed while it is loaded  *)
(* (GuildManager::create_cache, Guild::DelMember).                         *)
THEOREM GuildsAreTyped == GuildSpec => []GuildTypeOK
<1>1. GuildTypes => GuildTypeOK
  BY DEF GuildTypes, GuildTyped, GuildRecords, Wheres, GuildTypeOK
<1> QED
  BY <1>1, GuildBegins, NextGuild, GuildTypesBegin, GuildTypesKept, PTL DEF GuildSpec

-----------------------------------------------------------------------------
\* Quests

Contexts == [quest : Quests, name : Labels \cup {NoLabel},
             state : Labels \cup {NoLabel}, finished : BOOLEAN,
             kills : Nat, daily : BOOLEAN, since : Nat]
Functions_ == Loops \cup {"CheckQuestRules", "KilledNPC", "erase", "return",
                          "Login"}
QuestCalls == [fn : Functions_, ctx : Ids \cup {0}, state : Labels \cup {NoLabel},
          i : Nat, changed : BOOLEAN, last : BOOLEAN]

Looping(stk) == {j \in DOMAIN stk : stk[j].fn \in Loops}
Count(stk) == Cardinality(Looping(stk))

\* A context counts the kills of its state, which its quest has.
ContextFine(ctx) ==
  /\ ctx \in Contexts
  /\ ctx.state # NoLabel => ctx.state \in States(ctx.quest)
  /\ ctx.kills <= ctx.since

\* Whoever is on the stack or among the quests has been given a state.
CallFine(C, call) ==
  /\ call \in QuestCalls
  /\ call.ctx # 0 => C[call.ctx].name # NoLabel
  /\ call.fn \in Loops => /\ call.ctx # 0
                          /\ call.state \in States(C[call.ctx].quest)
EntryFine(C, q, o) ==
  /\ o \in Ids \cup {0, -1}
  /\ o > 0 => C[o].quest = q /\ C[o].name # NoLabel

Stacked(C, stk) == /\ stk \in Seq(QuestCalls)
                   /\ \A j \in 1..Len(stk) : CallFine(C, stk[j])
Counted(stk, depth) == /\ depth \in Int /\ depth <= max_recursion
                       /\ depth <= Count(stk)
KeptFine(C, Q) == /\ C \in [Ids -> Contexts] /\ \A o \in Ids : ContextFine(C[o])
              /\ Q \in [Quests -> Ids \cup {0, -1}]
              /\ \A q \in Quests : EntryFine(C, q, Q[q])

QuestState(C, Q, stk, depth) ==
  KeptFine(C, Q) /\ Stacked(C, stk) /\ Counted(stk, depth)

SavedFine(saved) == /\ DOMAIN saved \subseteq Quests
                    /\ \A q \in DOMAIN saved : /\ saved[q] \in Saved
                                               /\ saved[q].kills <= saved[q].since

QuestInv == /\ QuestState(contexts, quests, stack, recursive_depth)
            /\ SavedFine(quests_inactive)
            /\ facts \subseteq Facts /\ events \in 0..MaxEvents

-----------------------------------------------------------------------------
\* The stack

LEMMA QuestNumbers == /\ LastQuest \in Nat /\ 0 \in Quests
                      /\ \A q \in Quests : q \in Nat /\ q + 1 \in Ids
                      /\ \A o \in Ids : o \in Nat /\ o > 0
                      /\ max_recursion \in Nat /\ NoLabel \notin Labels
BY QuestAssumption DEF Quests, Ids

LEMMA LoopingFinite ==
  ASSUME NEW stk \in Seq(QuestCalls)
  PROVE  IsFiniteSet(Looping(stk)) /\ Count(stk) \in Nat
<1>1. Looping(stk) \subseteq 1..Len(stk)
  BY DEF Looping
<1>2. IsFiniteSet(1..Len(stk))
  BY FS_Interval
<1> QED BY <1>1, <1>2, FS_Subset, FS_CardinalityType DEF Count

\* One call more on the stack: counted if it is a loop.
LEMMA CountPush ==
  ASSUME NEW stk \in Seq(QuestCalls), NEW call \in QuestCalls
  PROVE  /\ <<call>> \o stk \in Seq(QuestCalls)
         /\ Count(<<call>> \o stk) =
              IF call.fn \in Loops THEN Count(stk) + 1 ELSE Count(stk)
<1> DEFINE n == Len(stk)
           new == <<call>> \o stk
           Old == {j + 1 : j \in Looping(stk)}
<1>1. /\ n \in Nat /\ new \in Seq(QuestCalls) /\ DOMAIN new = 1..n+1
      /\ new[1] = call /\ DOMAIN stk = 1..n
      /\ \A j \in 1..n : new[j + 1] = stk[j]
  OBVIOUS
<1>2. Looping(new) = IF call.fn \in Loops THEN Old \cup {1} ELSE Old
  <2> HIDE DEF new, n
  <2>1. \A j \in Looping(stk) : j \in 1..n /\ stk[j].fn \in Loops
    BY <1>1 DEF Looping
  <2>2. Old \subseteq Looping(new)
    <3> SUFFICES ASSUME NEW j \in Looping(stk) PROVE j + 1 \in Looping(new)
      OBVIOUS
    <3>1. j \in 1..n /\ j + 1 \in 1..n+1 /\ new[j + 1] = stk[j] /\ stk[j].fn \in Loops
      BY <1>1, <2>1
    <3> QED BY <1>1, <3>1 DEF Looping
  <2>3. \A k \in Looping(new) : k = 1 \/ k \in Old
    <3> SUFFICES ASSUME NEW k \in Looping(new), k # 1 PROVE k \in Old
      OBVIOUS
    <3>1. k \in 1..n+1 /\ new[k].fn \in Loops
      BY <1>1 DEF Looping
    <3>2. k - 1 \in 1..n /\ k = (k - 1) + 1
      BY <1>1, <3>1
    <3>3. new[k] = stk[k - 1]
      <4> PICK j \in 1..n : j = k - 1
        BY <3>2
      <4> QED BY <1>1, <3>2
    <3>4. k - 1 \in Looping(stk)
      BY <1>1, <3>1, <3>2, <3>3 DEF Looping
    <3> QED BY <3>2, <3>4
  <2>4. 1 \in Looping(new) <=> call.fn \in Loops
    <3> 1 \in 1..n+1
      BY <1>1
    <3> QED BY <1>1 DEF Looping
  <2>5. 1 \notin Old
    <3> SUFFICES ASSUME NEW j \in Looping(stk), j + 1 = 1 PROVE FALSE
      OBVIOUS
    <3> QED BY <1>1, <2>1
  <2> HIDE DEF Old
  <2>6. CASE call.fn \in Loops
    BY <2>2, <2>3, <2>4, <2>6
  <2>7. CASE call.fn \notin Loops
    <3>1. Looping(new) \subseteq Old
      BY <2>3, <2>4, <2>7
    <3> QED BY <2>2, <2>7, <3>1
  <2> QED BY <2>6, <2>7
<1>3. IsFiniteSet(Old) /\ Cardinality(Old) = Count(stk)
  <2> DEFINE shift == [j \in Looping(stk) |-> j + 1]
  <2>1. \A j \in Looping(stk) : j \in Nat
    BY <1>1 DEF Looping
  <2>2. shift \in Bijection(Looping(stk), Old)
    <3>1. shift \in [Looping(stk) -> Old]
      OBVIOUS
    <3>2. \A j, k \in Looping(stk) : shift[j] = shift[k] => j = k
      BY <2>1
    <3>3. \A k \in Old : \E j \in Looping(stk) : shift[j] = k
      OBVIOUS
    <3> HIDE DEF shift, Old
    <3> QED BY <3>1, <3>2, <3>3, Fun_IsBij
  <2>3. IsFiniteSet(Looping(stk))
    BY LoopingFinite
  <2> HIDE DEF shift, Old
  <2>4. ExistsBijection(Looping(stk), Old)
    BY <2>2 DEF ExistsBijection
  <2> QED BY <2>3, <2>4, FS_Bijection DEF Count
<1>4. 1 \notin Old
  <2>1. \A j \in Looping(stk) : j \in Nat /\ j > 0
    BY <1>1 DEF Looping
  <2> QED BY <2>1
<1>5. Cardinality(Old \cup {1}) = Count(stk) + 1
  <2> HIDE DEF Old
  <2> QED BY <1>3, <1>4, FS_AddElement
<1> HIDE DEF Old, new
<1>6. CASE call.fn \in Loops
  BY <1>1, <1>2, <1>5, <1>6 DEF Count, new
<1>7. CASE call.fn \notin Loops
  BY <1>1, <1>2, <1>3, <1>7 DEF Count, new
<1> QED BY <1>6, <1>7

LEMMA StackOf ==
  ASSUME NEW stk \in Seq(QuestCalls), stk # <<>>
  PROVE  /\ stk[1] \in QuestCalls /\ Tail(stk) \in Seq(QuestCalls)
         /\ Len(stk) \in Nat \ {0} /\ Len(Tail(stk)) = Len(stk) - 1
         /\ stk = <<stk[1]>> \o Tail(stk)
         /\ \A j \in 1..Len(Tail(stk)) : j + 1 \in 1..Len(stk) /\ Tail(stk)[j] = stk[j + 1]
OBVIOUS

LEMMA CountTail ==
  ASSUME NEW stk \in Seq(QuestCalls), stk # <<>>
  PROVE  Count(stk) = IF stk[1].fn \in Loops THEN Count(Tail(stk)) + 1
                      ELSE Count(Tail(stk))
<1> DEFINE top == stk[1]
           rest == Tail(stk)
<1>1. top \in QuestCalls /\ rest \in Seq(QuestCalls) /\ stk = <<top>> \o rest
  BY StackOf
<1> HIDE DEF top, rest
<1>2. Count(<<top>> \o rest) = IF top.fn \in Loops THEN Count(rest) + 1
                               ELSE Count(rest)
  BY <1>1, CountPush
<1>3. Count(stk) = Count(<<top>> \o rest)
  BY <1>1
<1> QED BY <1>2, <1>3 DEF top, rest

LEMMA CountNone == Count(<<>>) = 0
<1>1. Looping(<<>>) = {}
  BY DEF Looping
<1> QED BY <1>1, FS_EmptySet DEF Count

LEMMA CountedPush ==
  ASSUME NEW stk \in Seq(QuestCalls), NEW call \in QuestCalls, NEW depth, Counted(stk, depth)
  PROVE  /\ call.fn \notin Loops => Counted(<<call>> \o stk, depth)
         /\ call.fn \in Loops /\ ~TooDeep(depth) =>
              Counted(<<call>> \o stk, depth + 1)
         /\ Counted(<<call>> \o stk, depth)
<1> DEFINE new == <<call>> \o stk
<1>1. Count(new) = IF call.fn \in Loops THEN Count(stk) + 1 ELSE Count(stk)
  BY CountPush
<1>2. Count(stk) \in Nat /\ max_recursion \in Nat
  BY LoopingFinite, QuestNumbers
<1> HIDE DEF new
<1>3. Count(new) \in Nat /\ Count(new) >= Count(stk)
  BY <1>1, <1>2
<1>4. Counted(new, depth)
  BY <1>2, <1>3 DEF Counted
<1>5. call.fn \in Loops /\ ~TooDeep(depth) => Counted(new, depth + 1)
  BY <1>1, <1>2 DEF Counted, TooDeep
<1> QED BY <1>4, <1>5 DEF new

LEMMA CountedPop ==
  ASSUME NEW stk \in Seq(QuestCalls), stk # <<>>, NEW depth, Counted(stk, depth)
  PROVE  /\ stk[1].fn \notin Loops => Counted(Tail(stk), depth)
         /\ Counted(Tail(stk), depth - 1)
<1>1. Count(stk) = IF stk[1].fn \in Loops THEN Count(Tail(stk)) + 1
                   ELSE Count(Tail(stk))
  BY CountTail
<1>2. Count(stk) \in Nat /\ max_recursion \in Nat /\ Count(Tail(stk)) \in Nat
  <2> Tail(stk) \in Seq(QuestCalls)
    BY StackOf
  <2> QED BY LoopingFinite, QuestNumbers
<1> DEFINE old == Count(stk)
           new == Count(Tail(stk))
<1>3. old \in Nat /\ new \in Nat /\ (stk[1].fn \notin Loops => new = old)
      /\ old <= new + 1
  BY <1>1, <1>2
<1>4. depth \in Int /\ depth <= max_recursion /\ depth <= old
  BY DEF Counted
<1> HIDE DEF old, new
<1>5. (stk[1].fn \notin Loops => depth <= new) /\ depth - 1 <= new
      /\ depth - 1 <= max_recursion /\ depth - 1 \in Int
  BY <1>2, <1>3, <1>4
<1> QED BY <1>4, <1>5 DEF Counted, old, new

\* The head of the stack goes on.
LEMMA CountedHead ==
  ASSUME NEW stk \in Seq(QuestCalls), stk # <<>>, NEW top \in QuestCalls,
         top.fn = stk[1].fn, NEW depth, Counted(stk, depth)
  PROVE  /\ <<top>> \o Tail(stk) \in Seq(QuestCalls)
         /\ Counted(<<top>> \o Tail(stk), depth)
<1> DEFINE new == <<top>> \o Tail(stk)
<1>1. Tail(stk) \in Seq(QuestCalls)
  BY StackOf
<1>2. new \in Seq(QuestCalls)
      /\ Count(new) = IF top.fn \in Loops THEN Count(Tail(stk)) + 1
                      ELSE Count(Tail(stk))
  BY <1>1, CountPush
<1>3. Count(stk) = IF stk[1].fn \in Loops THEN Count(Tail(stk)) + 1
                   ELSE Count(Tail(stk))
  BY CountTail
<1> HIDE DEF new
<1>4. Count(new) = Count(stk)
  BY <1>2, <1>3
<1> QED BY <1>2, <1>4 DEF Counted, new

\* An exception counts all the loops out.
LEMMA CountedOut ==
  ASSUME NEW stk \in Seq(QuestCalls), NEW depth, Counted(stk, depth)
  PROVE  Counted(<<>>, Left(stk, depth))
<1>1. Left(stk, depth) = depth - Count(stk)
  BY DEF Left, Count, Looping
<1>2. Count(stk) \in Nat /\ max_recursion \in Nat /\ Count(<<>>) = 0
  BY LoopingFinite, QuestNumbers, CountNone
<1> QED BY <1>1, <1>2 DEF Counted

-----------------------------------------------------------------------------
\* Stacks whose calls are in order

LEMMA OfCalls ==
  ASSUME NEW stk \in Seq(QuestCalls)
  PROVE  \A j \in 1..Len(stk) : stk[j] \in QuestCalls /\ stk[j].ctx \in Ids \cup {0}
<1>1. \A j \in 1..Len(stk) : stk[j] \in QuestCalls
  OBVIOUS
<1>2. \A call \in QuestCalls : call.ctx \in Ids \cup {0}
  BY DEF QuestCalls
<1> QED BY <1>1, <1>2

LEMMA StackedPush ==
  ASSUME NEW C, NEW stk, Stacked(C, stk), NEW call, CallFine(C, call)
  PROVE  Stacked(C, <<call>> \o stk)
<1> DEFINE n == Len(stk)
           new == <<call>> \o stk
<1>1. stk \in Seq(QuestCalls) /\ call \in QuestCalls
  BY DEF Stacked, CallFine
<1>2. /\ n \in Nat /\ new \in Seq(QuestCalls) /\ Len(new) = n+1
      /\ new[1] = call /\ \A j \in 1..n : new[j + 1] = stk[j]
  BY <1>1
<1>3. ASSUME NEW j \in 1..n+1
      PROVE  CallFine(C, new[j])
  <2>1. CASE j = 1
    BY <1>2, <2>1
  <2>2. CASE j # 1
    <3>1. PICK k \in 1..n : j = k + 1
      <4> j - 1 \in 1..n /\ j = (j - 1) + 1
        BY <1>2, <2>2
      <4> QED OBVIOUS
    <3>2. new[j] = stk[k]
      BY <1>2, <3>1
    <3> HIDE DEF new
    <3> QED BY <3>2 DEF Stacked
  <2> QED BY <2>1, <2>2
<1> HIDE DEF new
<1>4. \A j \in 1..Len(new) : CallFine(C, new[j])
  BY <1>2, <1>3
<1> QED BY <1>2, <1>4 DEF Stacked, new

LEMMA StackedPop ==
  ASSUME NEW C, NEW stk, Stacked(C, stk), stk # <<>>
  PROVE  Stacked(C, Tail(stk)) /\ CallFine(C, stk[1]) /\ stk[1] \in QuestCalls
<1>1. /\ stk[1] \in QuestCalls /\ Tail(stk) \in Seq(QuestCalls) /\ Len(stk) \in Nat \ {0}
      /\ \A j \in 1..Len(Tail(stk)) : j + 1 \in 1..Len(stk) /\ Tail(stk)[j] = stk[j + 1]
  BY StackOf DEF Stacked
<1>2. CallFine(C, stk[1])
  <2> 1 \in 1..Len(stk)
    BY <1>1
  <2> QED BY DEF Stacked
<1>3. \A j \in 1..Len(Tail(stk)) : CallFine(C, Tail(stk)[j])
  <2> SUFFICES ASSUME NEW j \in 1..Len(Tail(stk)) PROVE CallFine(C, Tail(stk)[j])
    OBVIOUS
  <2>1. j + 1 \in 1..Len(stk) /\ Tail(stk)[j] = stk[j + 1]
    BY <1>1
  <2> QED BY <2>1 DEF Stacked
<1> QED BY <1>1, <1>2, <1>3 DEF Stacked

LEMMA StackedHead ==
  ASSUME NEW C, NEW stk, Stacked(C, stk), stk # <<>>, NEW top, CallFine(C, top)
  PROVE  Stacked(C, <<top>> \o Tail(stk))
BY StackedPop, StackedPush

LEMMA StackedNone == \A C : Stacked(C, <<>>)
BY DEF Stacked

\* Other contexts will do, if they keep the quests and have a state as well.
LEMMA StackedMoved ==
  ASSUME NEW C, NEW D, NEW stk, Stacked(C, stk),
         \A j \in 1..Len(stk) : stk[j].ctx # 0 =>
           /\ D[stk[j].ctx].quest = C[stk[j].ctx].quest
           /\ C[stk[j].ctx].name # NoLabel => D[stk[j].ctx].name # NoLabel
  PROVE  Stacked(D, stk)
BY DEF Stacked, CallFine

-----------------------------------------------------------------------------
\* Contexts

LEMMA NobodyFine == ContextFine(Nobody_) /\ Nobody_ \in Contexts
BY QuestNumbers DEF ContextFine, Nobody_, Contexts

LEMMA NamedFine ==
  ASSUME NEW ctx, ContextFine(ctx), NEW s \in Labels
  PROVE  /\ ContextFine(Named(ctx, s)) /\ Named(ctx, s).quest = ctx.quest
         /\ Named(ctx, s).name = s /\ s # NoLabel
         /\ s \in States(ctx.quest) => Named(ctx, s).state = s
<1>1. ctx \in Contexts /\ ctx.quest \in Quests /\ s # NoLabel
  BY QuestNumbers DEF ContextFine, Contexts
<1>2. CASE s \in States(ctx.quest)
  <2>1. Named(ctx, s) = [ctx EXCEPT !.name = s, !.state = s, !.finished = (s = "end"),
                                    !.kills = 0, !.since = 0]
    BY <1>1, <1>2 DEF Named, BeginState, Contexts
  <2> DEFINE end == (s = "end")
  <2>2. end \in BOOLEAN
    OBVIOUS
  <2>3. Named(ctx, s) = [quest |-> ctx.quest, name |-> s, state |-> s,
                         finished |-> end, kills |-> 0, daily |-> ctx.daily,
                         since |-> 0]
    <3> HIDE DEF end
    <3> QED BY <1>1, <2>1 DEF Contexts, end
  <2>4. ctx.daily \in BOOLEAN
    BY <1>1 DEF Contexts
  <2> HIDE DEF end
  <2>5. Named(ctx, s) \in Contexts
    BY <1>1, <2>2, <2>3, <2>4 DEF Contexts
  <2> QED BY <1>1, <1>2, <2>3, <2>5 DEF ContextFine
<1>3. CASE s \notin States(ctx.quest) /\ s \in {"end", "done"}
  <2>1. Named(ctx, s) = [ctx EXCEPT !.name = s, !.state = NoLabel, !.finished = TRUE]
    BY <1>3 DEF Named
  <2> QED BY <1>1, <1>3, <2>1 DEF ContextFine, Contexts
<1>4. CASE s \notin States(ctx.quest) /\ s \notin {"end", "done"}
  <2>1. Named(ctx, s) = [ctx EXCEPT !.name = s]
    BY <1>4 DEF Named
  <2> QED BY <1>1, <1>4, <2>1 DEF ContextFine, Contexts
<1> QED BY <1>2, <1>3, <1>4

\* One context changes, but not its quest.
LEMMA HeldChanged ==
  ASSUME NEW C, NEW Q, NEW stk, KeptFine(C, Q), Stacked(C, stk), NEW o, NEW ctx,
         o \in Ids => ContextFine(ctx) /\ ctx.quest = C[o].quest
                      /\ (C[o].name # NoLabel => ctx.name # NoLabel)
  PROVE  LET D == [C EXCEPT ![o] = ctx] IN KeptFine(D, Q) /\ Stacked(D, stk)
<1> DEFINE D == [C EXCEPT ![o] = ctx]
<1>1. C \in [Ids -> Contexts] /\ Q \in [Quests -> Ids \cup {0, -1}]
  BY DEF KeptFine
<1>2. \A x \in Ids : D[x] = IF x = o THEN ctx ELSE C[x]
  BY <1>1
<1>3. D \in [Ids -> Contexts]
  BY <1>1 DEF ContextFine
<1> HIDE DEF D
<1>4. \A x \in Ids : /\ ContextFine(D[x]) /\ D[x].quest = C[x].quest
                     /\ C[x].name # NoLabel => D[x].name # NoLabel
  BY <1>2 DEF KeptFine
<1>5. \A q \in Quests : EntryFine(D, q, Q[q])
  <2> SUFFICES ASSUME NEW q \in Quests PROVE EntryFine(D, q, Q[q])
    OBVIOUS
  <2>1. EntryFine(C, q, Q[q]) /\ (Q[q] > 0 => Q[q] \in Ids)
    <3> Q[q] \in Ids \cup {0, -1}
      BY <1>1
    <3> QED BY DEF KeptFine
  <2> QED BY <1>4, <2>1 DEF EntryFine
<1>6. Stacked(D, stk)
  <2>1. \A j \in 1..Len(stk) : stk[j].ctx # 0 => stk[j].ctx \in Ids
    <3> stk \in Seq(QuestCalls)
      BY DEF Stacked
    <3> QED BY OfCalls
  <2> QED BY <1>4, <2>1, StackedMoved
<1> QED BY <1>1, <1>3, <1>4, <1>5, <1>6 DEF KeptFine, D

-----------------------------------------------------------------------------
\* What the handlers are built from.

LEMMA UpdateFine ==
  ASSUME NEW C, NEW Q, NEW stk, NEW depth, QuestState(C, Q, stk, depth),
         Update(C, Q, stk, depth)
  PROVE  QuestState(contexts, quests, stack, recursive_depth)'
<1>1. /\ contexts' = Kept(C, Q, stk) /\ quests' = Q
      /\ stack' = stk /\ recursive_depth' = depth
  BY DEF Update
<1>2. KeptFine(C, Q) /\ Stacked(C, stk) /\ Counted(stk, depth)
  BY DEF QuestState
<1> DEFINE D == Kept(C, Q, stk)
<1>3. C \in [Ids -> Contexts] /\ Q \in [Quests -> Ids \cup {0, -1}]
      /\ stk \in Seq(QuestCalls)
  BY <1>2 DEF KeptFine, Stacked
<1>4. D \in [Ids -> Contexts] /\ \A x \in Ids : D[x] \in {C[x], Nobody_}
  BY <1>3, NobodyFine DEF Kept
<1>5. \A q \in Quests : Q[q] \in Ids => D[Q[q]] = C[Q[q]]
  BY DEF Kept
<1>6. \A j \in 1..Len(stk) : stk[j].ctx \in Ids => D[stk[j].ctx] = C[stk[j].ctx]
  <2> DOMAIN stk = 1..Len(stk)
    BY <1>3
  <2> QED BY DEF Kept
<1> HIDE DEF D
<1>7. KeptFine(D, Q)
  <2>1. \A x \in Ids : ContextFine(D[x])
    BY <1>2, <1>4, NobodyFine DEF KeptFine
  <2>2. \A q \in Quests : EntryFine(D, q, Q[q])
    <3> SUFFICES ASSUME NEW q \in Quests PROVE EntryFine(D, q, Q[q])
      OBVIOUS
    <3>1. EntryFine(C, q, Q[q]) /\ (Q[q] > 0 => Q[q] \in Ids)
      <4> Q[q] \in Ids \cup {0, -1}
        BY <1>3
      <4> QED BY <1>2 DEF KeptFine
    <3> QED BY <1>5, <3>1 DEF EntryFine
  <2> QED BY <1>3, <1>4, <2>1, <2>2 DEF KeptFine
<1>8. Stacked(D, stk)
  <2>1. \A j \in 1..Len(stk) : stk[j].ctx # 0 => stk[j].ctx \in Ids
    BY <1>3, OfCalls
  <2> QED BY <1>2, <1>6, <2>1, StackedMoved
<1>9. QuestState(D, Q, stk, depth)
  BY <1>2, <1>7, <1>8 DEF QuestState
<1> QED BY <1>1, <1>9 DEF D

LEMMA ThrowFine ==
  ASSUME NEW C, NEW Q, NEW stk, NEW depth, QuestState(C, Q, stk, depth),
         Throw(C, Q, stk, depth)
  PROVE  QuestState(contexts, quests, stack, recursive_depth)'
<1>1. KeptFine(C, Q) /\ stk \in Seq(QuestCalls) /\ Counted(stk, depth)
  BY DEF QuestState, Stacked
<1>2. QuestState(C, Q, <<>>, Left(stk, depth))
  BY <1>1, CountedOut, StackedNone DEF QuestState
<1>3. Update(C, Q, <<>>, Left(stk, depth))
  BY DEF Throw
<1> QED BY <1>2, <1>3, UpdateFine

\* A loop is entered for a context that has been given a state.
LEMMA EnterFine ==
  ASSUME NEW fn \in Loops, NEW C, NEW Q, NEW o \in Ids, NEW stk, NEW depth,
         QuestState(C, Q, stk, depth), C[o].name # NoLabel,
         Enter(fn, C, Q, o, stk, depth)
  PROVE  QuestState(contexts, quests, stack, recursive_depth)'
<1>1. CASE C[o].state = NoLabel
  BY <1>1, UpdateFine, ThrowFine DEF Enter
<1>2. CASE C[o].state # NoLabel /\ TooDeep(depth)
  BY <1>2, ThrowFine DEF Enter
<1>3. CASE C[o].state # NoLabel /\ ~TooDeep(depth)
  <2> DEFINE call == Call(fn, o, C[o].state)
  <2>1. Update(C, Q, <<call>> \o stk, depth + 1)
    BY <1>3 DEF Enter
  <2>2. ContextFine(C[o])
    BY DEF QuestState, KeptFine
  <2>3. /\ call.fn = fn /\ call.ctx = o /\ call.state = C[o].state
        /\ call \in QuestCalls
    BY <2>2, QuestNumbers DEF Call, QuestCalls, Functions_, ContextFine, Contexts
  <2> HIDE DEF call
  <2>4. CallFine(C, call)
    BY <1>3, <2>2, <2>3, QuestNumbers DEF CallFine, ContextFine
  <2>5. stk \in Seq(QuestCalls) /\ Counted(stk, depth)
    BY DEF QuestState, Stacked
  <2>6. Stacked(C, <<call>> \o stk) /\ Counted(<<call>> \o stk, depth + 1)
    BY <1>3, <2>3, <2>4, <2>5, StackedPush, CountedPush DEF QuestState
  <2>7. QuestState(C, Q, <<call>> \o stk, depth + 1)
    BY <2>6 DEF QuestState
  <2> QED BY <2>1, <2>7, UpdateFine
<1> QED BY <1>1, <1>2, <1>3

LEMMA LabelsAre == {"begin", "end", "done"} \subseteq Labels
BY QuestAssumption

LEMMA NamedStateFine ==
  ASSUME NEW C \in [Ids -> Contexts], NEW Q, NEW o \in Ids, NEW s \in Labels,
         NEW stk, NEW depth, ContextFine(C[o]),
         QuestState([C EXCEPT ![o] = Named(C[o], s)], Q, stk, depth),
         SetState(C, Q, o, s, stk, depth)
  PROVE  QuestState(contexts, quests, stack, recursive_depth)'
<1> DEFINE D == [C EXCEPT ![o] = Named(C[o], s)]
<1>1. D[o] = Named(C[o], s)
  OBVIOUS
<1>2. D[o].name = s /\ s # NoLabel
  BY <1>1, NamedFine
<1> HIDE DEF D
<1>3. \/ Throw(D, Q, stk, depth) \/ Update(D, Q, stk, depth)
      \/ Enter("DoActions", D, Q, o, stk, depth)
  BY DEF SetState, D
<1>4. QuestState(D, Q, stk, depth)
  BY DEF D
<1> QED BY <1>2, <1>3, <1>4, ThrowFine, UpdateFine, EnterFine DEF Loops

LEMMA SetStateFine ==
  ASSUME NEW C, NEW Q, NEW o \in Ids, NEW s \in Labels, NEW stk, NEW depth,
         QuestState(C, Q, stk, depth), SetState(C, Q, o, s, stk, depth)
  PROVE  QuestState(contexts, quests, stack, recursive_depth)'
<1> DEFINE ctx == Named(C[o], s)
<1>1. C \in [Ids -> Contexts] /\ ContextFine(C[o]) /\ KeptFine(C, Q)
      /\ Stacked(C, stk) /\ Counted(stk, depth)
  BY DEF QuestState, KeptFine
<1>2. ContextFine(ctx) /\ ctx.quest = C[o].quest /\ ctx.name # NoLabel
  BY <1>1, NamedFine
<1> HIDE DEF ctx
<1>3. KeptFine([C EXCEPT ![o] = ctx], Q) /\ Stacked([C EXCEPT ![o] = ctx], stk)
  BY <1>1, <1>2, HeldChanged
<1>4. QuestState([C EXCEPT ![o] = ctx], Q, stk, depth)
  BY <1>1, <1>3 DEF QuestState
<1> QED BY <1>1, <1>4, NamedStateFine DEF ctx

\* A new context is one that neither a quest nor a call refers to.
LEMMA StartFine ==
  ASSUME NEW q \in Quests, NEW s \in Labels, NEW stk, NEW depth,
         QuestState(contexts, quests, stk, depth), Start(q, s, stk, depth)
  PROVE  QuestState(contexts, quests, stack, recursive_depth)'
<1> DEFINE o == CHOOSE x \in Unused : TRUE
           new == [Nobody_ EXCEPT !.quest = q]
           C == [contexts EXCEPT ![o] = new]
           Q == [quests EXCEPT ![q] = o]
           ctx == Named(C[o], s)
           D == [C EXCEPT ![o] = ctx]
<1>1. Unused # {} /\ SetState(C, Q, o, s, stk, depth)
  BY DEF Start
<1>2. o \in Ids /\ contexts[o] = Nobody_
  <2> o \in Unused
    BY <1>1
  <2> QED BY DEF Unused
<1> HIDE DEF o
<1>3. /\ contexts \in [Ids -> Contexts] /\ quests \in [Quests -> Ids \cup {0, -1}]
      /\ \A x \in Ids : ContextFine(contexts[x])
      /\ \A p \in Quests : EntryFine(contexts, p, quests[p])
      /\ Stacked(contexts, stk) /\ Counted(stk, depth) /\ stk \in Seq(QuestCalls)
  BY DEF QuestState, KeptFine, Stacked
<1>4. new \in Contexts /\ new.quest = q /\ ContextFine(new)
  <2>1. Nobody_ \in Contexts
    BY NobodyFine
  <2>2. /\ new \in Contexts /\ new.quest = q /\ new.state = Nobody_.state
        /\ new.kills = Nobody_.kills /\ new.since = Nobody_.since
    BY <2>1 DEF Contexts
  <2>3. Nobody_.state = NoLabel /\ Nobody_.kills = 0 /\ Nobody_.since = 0
    BY DEF Nobody_
  <2> HIDE DEF new
  <2> QED BY <2>2, <2>3 DEF ContextFine
<1> HIDE DEF new
<1>5. C \in [Ids -> Contexts] /\ C[o] = new
  BY <1>2, <1>3, <1>4
<1>6. ContextFine(ctx) /\ ctx.quest = q /\ ctx.name # NoLabel /\ ctx \in Contexts
  <2>1. ContextFine(ctx) /\ ctx.quest = q /\ ctx.name # NoLabel
    <3> HIDE DEF C
    <3> QED BY <1>4, <1>5, NamedFine
  <2> QED BY <2>1 DEF ContextFine
<1> HIDE DEF ctx
<1>7. /\ D \in [Ids -> Contexts] /\ D[o] = ctx
      /\ \A x \in Ids : x # o => D[x] = contexts[x]
  BY <1>2, <1>3, <1>5, <1>6
<1>8. Q \in [Quests -> Ids \cup {0, -1}] /\ Q[q] = o
      /\ \A p \in Quests : p # q => Q[p] = quests[p]
  BY <1>2, <1>3
<1> HIDE DEF D, Q, C
<1>9. \A p \in Quests : EntryFine(D, p, Q[p])
  <2> SUFFICES ASSUME NEW p \in Quests PROVE EntryFine(D, p, Q[p])
    OBVIOUS
  <2>1. CASE p = q
    BY <1>2, <1>6, <1>7, <1>8, <2>1 DEF EntryFine
  <2>2. CASE p # q
    <3>1. EntryFine(contexts, p, quests[p]) /\ Q[p] = quests[p]
      BY <1>3, <1>8, <2>2
    <3>2. quests[p] # o
      <4> contexts[o].name = NoLabel /\ o > 0
        BY <1>2, QuestNumbers DEF Nobody_
      <4> QED BY <3>1 DEF EntryFine
    <3>3. quests[p] > 0 => quests[p] \in Ids
      BY <3>1 DEF EntryFine
    <3> QED BY <1>7, <3>1, <3>2, <3>3 DEF EntryFine
  <2> QED BY <2>1, <2>2
<1>10. \A x \in Ids : ContextFine(D[x])
  BY <1>3, <1>6, <1>7
<1>11. Stacked(D, stk)
  <2>1. ASSUME NEW j \in 1..Len(stk), stk[j].ctx # 0
        PROVE  D[stk[j].ctx] = contexts[stk[j].ctx]
    <3>1. stk[j].ctx \in Ids /\ contexts[stk[j].ctx].name # NoLabel
      BY <1>3, <2>1, OfCalls DEF Stacked, CallFine
    <3>2. stk[j].ctx # o
      BY <1>2, <3>1 DEF Nobody_
    <3> QED BY <1>7, <3>1, <3>2
  <2> QED BY <1>3, <2>1, StackedMoved
<1>12. QuestState(D, Q, stk, depth)
  BY <1>3, <1>7, <1>8, <1>9, <1>10, <1>11 DEF QuestState, KeptFine
<1> QED BY <1>1, <1>2, <1>4, <1>5, <1>12, NamedStateFine DEF D, ctx

LEMMA EmptiedFine ==
  ASSUME NEW C, NEW Q, NEW stk, NEW depth, QuestState(C, Q, stk, depth), NEW q
  PROVE  QuestState(C, [Q EXCEPT ![q] = -1], stk, depth)
<1>1. Q \in [Quests -> Ids \cup {0, -1}] /\ \A p \in Quests : EntryFine(C, p, Q[p])
  BY DEF QuestState, KeptFine
<1>2. /\ [Q EXCEPT ![q] = -1] \in [Quests -> Ids \cup {0, -1}]
      /\ \A p \in Quests : [Q EXCEPT ![q] = -1][p] \in {Q[p], -1}
  BY <1>1
<1>3. \A p \in Quests : EntryFine(C, p, -1)
  BY DEF EntryFine
<1>4. \A p \in Quests : EntryFine(C, p, [Q EXCEPT ![q] = -1][p])
  BY <1>1, <1>2, <1>3
<1> QED BY <1>2, <1>4 DEF QuestState, KeptFine

LEMMA CallsAre ==
  ASSUME NEW call \in QuestCalls
  PROVE  /\ [call EXCEPT !.changed = TRUE] \in QuestCalls
         /\ [call EXCEPT !.changed = TRUE].fn = call.fn
         /\ [call EXCEPT !.changed = TRUE].ctx = call.ctx
         /\ [call EXCEPT !.changed = TRUE].state = call.state
         /\ [call EXCEPT !.changed = FALSE] \in QuestCalls
         /\ [call EXCEPT !.changed = FALSE].fn = call.fn
         /\ [call EXCEPT !.changed = FALSE].ctx = call.ctx
         /\ [call EXCEPT !.changed = FALSE].state = call.state
BY DEF QuestCalls

\* The top of the stack goes on in the same function and state.
LEMMA TopFine ==
  ASSUME NEW C, NEW Q, NEW stk, NEW depth, QuestState(C, Q, stk, depth),
         stk # <<>>, NEW top \in QuestCalls, top.fn = stk[1].fn,
         top.ctx = stk[1].ctx, top.state = stk[1].state
  PROVE  /\ QuestState(C, Q, <<top>> \o Tail(stk), depth)
         /\ <<top>> \o Tail(stk) # <<>>
<1>1. Stacked(C, stk) /\ Counted(stk, depth) /\ stk \in Seq(QuestCalls)
  BY DEF QuestState, Stacked
<1>2. CallFine(C, top)
  BY <1>1, StackedPop DEF CallFine
<1>3. Stacked(C, <<top>> \o Tail(stk))
  BY <1>1, <1>2, StackedHead
<1>4. Counted(<<top>> \o Tail(stk), depth)
  BY <1>1, CountedHead
<1>5. <<top>> \o Tail(stk) # <<>>
  <2> Tail(stk) \in Seq(QuestCalls)
    BY <1>1, StackOf
  <2> QED OBVIOUS
<1> QED BY <1>3, <1>4, <1>5 DEF QuestState

LEMMA HeardFine ==
  ASSUME NEW C, NEW Q, NEW stk, NEW depth, QuestState(C, Q, stk, depth),
         stk # <<>>
  PROVE  QuestState(C, Q, Heard(stk), depth) /\ Heard(stk) # <<>>
<1>1. stk[1] \in QuestCalls
  BY StackOf DEF QuestState, Stacked
<1> DEFINE top == [stk[1] EXCEPT !.changed = TRUE]
<1>2. /\ top \in QuestCalls /\ top.fn = stk[1].fn /\ top.ctx = stk[1].ctx
      /\ top.state = stk[1].state
  BY <1>1, CallsAre
<1> HIDE DEF top
<1>3. QuestState(C, Q, <<top>> \o Tail(stk), depth) /\ <<top>> \o Tail(stk) # <<>>
  BY <1>2, TopFine
<1> QED BY <1>3 DEF Heard, top

\* A call that is no loop is made: it refers to nobody, or to one with a state.
LEMMA CalledFine ==
  ASSUME NEW C, NEW Q, NEW stk, NEW depth, QuestState(C, Q, stk, depth),
         NEW fn \in Functions_ \ Loops, NEW o \in Ids \cup {0},
         o # 0 => C[o].name # NoLabel
  PROVE  /\ QuestState(C, Q, <<Call(fn, o, NoLabel)>> \o stk, depth)
         /\ <<Call(fn, o, NoLabel)>> \o stk # <<>>
<1> DEFINE call == Call(fn, o, NoLabel)
<1>1. call \in QuestCalls /\ call.fn = fn /\ call.ctx = o
  BY DEF Call, QuestCalls
<1> HIDE DEF call
<1>2. CallFine(C, call)
  BY <1>1 DEF CallFine
<1>3. Stacked(C, stk) /\ Counted(stk, depth) /\ stk \in Seq(QuestCalls)
  BY DEF QuestState, Stacked
<1>4. Stacked(C, <<call>> \o stk) /\ Counted(<<call>> \o stk, depth)
  BY <1>1, <1>2, <1>3, StackedPush, CountedPush
<1>5. <<call>> \o stk # <<>>
  BY <1>3
<1> QED BY <1>4, <1>5 DEF QuestState, call

-----------------------------------------------------------------------------
\* What an action or a rule does.

LEMMA DoActionFine ==
  ASSUME NEW a, Fits(a), NEW o \in Ids, contexts[o].name # NoLabel, NEW stk,
         stk # <<>>, QuestState(contexts, quests, stk, recursive_depth),
         facts \subseteq Facts, DoAction(a, o, stk)
  PROVE  QuestState(contexts, quests, stack, recursive_depth)' /\ facts' \subseteq Facts
<1> DEFINE depth == recursive_depth
<1>1. QuestState(contexts, quests, Heard(stk), depth)
  BY HeardFine
<1>2. QuestState(contexts, quests, Below(a, o, stk), depth)
  BY <1>1 DEF Below
<1>3. \A p \in Quests : quests[p] > 0 => quests[p] \in Ids
  BY DEF QuestState, KeptFine, EntryFine
<1>4. "done" \in Labels
  BY LabelsAre
<1>5. \A p \in Quests : quests[p] \in Int
  BY QuestNumbers DEF QuestState, KeptFine
<1>6. CASE SetsState(a, o, stk)
  <2>1. SetState(contexts, quests, o, a.to, Heard(stk), depth) /\ a.to \in Labels
        /\ UNCHANGED facts
    BY <1>6 DEF SetsState, Fits
  <2> QED BY <1>1, <2>1, SetStateFine
<1>7. CASE Resets(a, o, stk)
  <2>1. UNCHANGED facts
    BY <1>7 DEF Resets
  <2>2. CASE contexts[o].daily
    <3> SetState(contexts, quests, o, "done", Heard(stk), depth)
      BY <1>7, <2>2 DEF Resets
    <3> QED BY <1>1, <1>4, <2>1, SetStateFine
  <2>3. CASE ~contexts[o].daily
    <3> Update(contexts, [quests EXCEPT ![contexts[o].quest] = -1], Heard(stk), depth)
      BY <1>7, <2>3 DEF Resets
    <3> QED BY <1>1, <2>1, EmptiedFine, UpdateFine
  <2> QED BY <2>2, <2>3
<1>8. CASE ResetsDaily(a, o, stk)
  <2> DEFINE ctx == [contexts[o] EXCEPT !.daily = TRUE]
             C == [contexts EXCEPT ![o] = ctx]
  <2>1. UNCHANGED facts /\ SetState(C, quests, o, "done", Heard(stk), depth)
    <3> contexts \in [Ids -> Contexts]
      BY DEF QuestState, KeptFine
    <3> C = [contexts EXCEPT ![o].daily = TRUE]
      OBVIOUS
    <3> QED BY <1>8 DEF ResetsDaily
  <2>2. ContextFine(ctx) /\ ctx.quest = contexts[o].quest /\ ctx.name = contexts[o].name
    <3> ContextFine(contexts[o])
      BY DEF QuestState, KeptFine
    <3> QED BY DEF ContextFine, Contexts
  <2> HIDE DEF ctx
  <2>3. KeptFine(C, quests) /\ Stacked(C, Heard(stk))
    BY <1>1, <2>2, HeldChanged DEF QuestState
  <2>4. QuestState(C, quests, Heard(stk), depth)
    BY <1>1, <2>3 DEF QuestState
  <2> HIDE DEF C
  <2> QED BY <1>4, <2>1, <2>4, SetStateFine
<1>9. CASE StartsQuest(a, stk)
  <2>1. a.quest \in Quests /\ a.to \in Labels /\ UNCHANGED facts
    BY <1>9 DEF StartsQuest, Fits
  <2>2. CASE quests[a.quest] <= 0
    <3> Start(a.quest, a.to, stk, depth)
      BY <1>9, <2>2 DEF StartsQuest
    <3> QED BY <2>1, StartFine
  <2>3. CASE ~(quests[a.quest] <= 0) /\ contexts[quests[a.quest]].name = "done"
    <3>1. SetState(contexts, quests, quests[a.quest], a.to, stk, depth)
      BY <1>9, <2>3 DEF StartsQuest
    <3>2. quests[a.quest] \in Ids
      BY <1>3, <1>5, <2>1, <2>3
    <3> QED BY <2>1, <3>1, <3>2, SetStateFine
  <2>4. CASE ~(quests[a.quest] <= 0) /\ contexts[quests[a.quest]].name # "done"
    <3> Update(contexts, quests, stk, depth)
      BY <1>9, <2>4 DEF StartsQuest
    <3> QED BY <2>1, UpdateFine
  <2> QED BY <2>2, <2>3, <2>4
<1>10. CASE ResetsQuest(a, o, stk)
  <2>1. a.quest \in Quests /\ UNCHANGED facts
    BY <1>10 DEF ResetsQuest, Fits
  <2>2. CASE quests[a.quest] <= 0
    <3> Update(contexts, quests, Below(a, o, stk), depth)
      BY <1>10, <2>2 DEF ResetsQuest
    <3> QED BY <1>2, <2>1, UpdateFine
  <2>3. CASE ~(quests[a.quest] <= 0) /\ contexts[o].daily
    <3> Update(contexts, [quests EXCEPT ![a.quest] = -1], Below(a, o, stk), depth)
      BY <1>10, <2>3 DEF ResetsQuest
    <3> QED BY <1>2, <2>1, EmptiedFine, UpdateFine
  <2>4. CASE ~(quests[a.quest] <= 0) /\ ~contexts[o].daily
    <3>1. SetState(contexts, quests, quests[a.quest], "done", Below(a, o, stk), depth)
      BY <1>10, <2>4 DEF ResetsQuest
    <3>2. quests[a.quest] \in Ids
      BY <1>3, <1>5, <2>1, <2>4
    <3> QED BY <1>2, <1>4, <2>1, <3>1, <3>2, SetStateFine
  <2> QED BY <2>2, <2>3, <2>4
<1>11. CASE SetsQuestState(a, o, stk)
  <2>1. a.quest \in Quests /\ a.to \in Labels /\ UNCHANGED facts
    BY <1>11 DEF SetsQuestState, Fits
  <2>2. CASE quests[a.quest] <= 0
    <3> Update(contexts, quests, stk, depth)
      BY <1>11, <2>2 DEF SetsQuestState
    <3> QED BY <2>1, UpdateFine
  <2>3. CASE ~(quests[a.quest] <= 0)
    <3>1. SetState(contexts, quests, quests[a.quest], a.to, Below(a, o, stk), depth)
      BY <1>11, <2>3 DEF SetsQuestState
    <3>2. quests[a.quest] \in Ids
      BY <1>3, <1>5, <2>1, <2>3
    <3> QED BY <1>2, <2>1, <3>1, <3>2, SetStateFine
  <2> QED BY <2>2, <2>3
<1>12. CASE Gives(a, stk)
  <2>1. facts' \subseteq Facts
    BY <1>12 DEF Gives, Fits
  <2>2. Update(contexts, quests, <<Call("CheckQuestRules", 0, NoLabel)>> \o stk, depth)
    BY <1>12 DEF Gives
  <2>3. "CheckQuestRules" \in Functions_ \ Loops
    BY DEF Functions_, Loops
  <2>4. QuestState(contexts, quests, <<Call("CheckQuestRules", 0, NoLabel)>> \o stk, depth)
    BY <2>3, CalledFine
  <2> QED BY <2>1, <2>2, <2>4, UpdateFine
<1> QED BY <1>6, <1>7, <1>8, <1>9, <1>10, <1>11, <1>12 DEF DoAction

-----------------------------------------------------------------------------
\* The steps of the innermost call

\* A set of naturals that is not empty has a first element.
LEMMA FirstOf ==
  ASSUME NEW L \in Nat, NEW W \in SUBSET (1..L), W # {}
  PROVE  (CHOOSE j \in W : \A k \in W : j <= k) \in W
<1> DEFINE Under(i) == {j \in W : j < i}
           T == {U \in SUBSET W : \E i \in W : U = Under(i)}
<1>1. IsFiniteSet(W)
  <2>1. IsFiniteSet(1..L)
    BY FS_Interval
  <2> QED BY <2>1, FS_Subset
<1>2. PICK U \in T : \A V \in T : ~ (<<V, U>> \in StrictSubsetOrdering(W))
  <2>1. T \subseteq SUBSET W
    OBVIOUS
  <2>2. T # {}
    <3> PICK i \in W : TRUE
      OBVIOUS
    <3> Under(i) \in T
      OBVIOUS
    <3> QED OBVIOUS
  <2>3. IsWellFoundedOn(StrictSubsetOrdering(W), SUBSET W)
    BY <1>1, FS_FiniteSubsetsOfFinite, FS_StrictSubsetOrderingWellFounded
  <2> HIDE DEF T
  <2> QED BY <2>1, <2>2, <2>3, WFMin
<1>3. PICK i \in W : U = Under(i)
  OBVIOUS
<1>4. ASSUME NEW j \in W, j < i
      PROVE  FALSE
  <2>1. Under(j) \in T
    OBVIOUS
  <2>2. Under(j) \subseteq U /\ j \in U /\ j \notin Under(j)
    <3>1. W \subseteq Nat /\ \A k \in W : k < j => k < i
      <4> W \subseteq Nat
        OBVIOUS
      <4> QED BY <1>3, <1>4
    <3>2. ~ (j < j)
      BY <3>1
    <3>3. Under(j) \subseteq Under(i)
      BY <3>1
    <3>4. j \in Under(i) /\ j \notin Under(j)
      BY <3>2, <1>4
    <3> HIDE DEF Under
    <3> QED BY <3>3, <3>4, <1>3
  <2> <<Under(j), U>> \in StrictSubsetOrdering(W)
    BY <2>1, <2>2 DEF StrictSubsetOrdering
  <2> QED BY <1>2, <2>1
<1>5. \A j \in W : i <= j
  BY <1>4
<1> QED BY <1>5

\* What a state of a quest declares is as it should be.
LEMMA Declared ==
  ASSUME NEW q \in Quests, NEW s \in States(q)
  PROVE  Scripted(Actions[q][s]) /\ Scripted(Rules[q][s])
BY QuestAssumption

LEMMA InnermostFine ==
  ASSUME QuestInv, stack # <<>>
  PROVE  /\ Top \in QuestCalls /\ CallFine(contexts, Top)
         /\ QuestState(contexts, quests, stack, recursive_depth)
         /\ KeptFine(contexts, quests)
         /\ Stacked(contexts, Rest) /\ Counted(Rest, recursive_depth - 1)
         /\ Top.fn \notin Loops => QuestState(contexts, quests, Rest, recursive_depth)
         /\ QuestState(contexts, quests, Rest, recursive_depth - 1)
         /\ recursive_depth \in Int
         /\ Top.i \in Nat /\ Rest \in Seq(QuestCalls)
<1>1. /\ QuestState(contexts, quests, stack, recursive_depth)
      /\ KeptFine(contexts, quests) /\ Stacked(contexts, stack)
      /\ Counted(stack, recursive_depth) /\ stack \in Seq(QuestCalls)
  BY DEF QuestInv, QuestState, Stacked
<1>2. /\ Top \in QuestCalls /\ CallFine(contexts, Top) /\ Stacked(contexts, Rest)
      /\ Counted(Rest, recursive_depth - 1) /\ Rest \in Seq(QuestCalls)
      /\ Top.fn \notin Loops => Counted(Rest, recursive_depth)
  BY <1>1, StackedPop, CountedPop, StackOf DEF Top, Rest
<1>3. Top.i \in Nat /\ recursive_depth \in Int
  BY <1>1, <1>2 DEF QuestCalls, Counted
<1> QED BY <1>1, <1>2, <1>3 DEF QuestState

\* The top call takes its next step.
LEMMA NextFine ==
  ASSUME QuestInv, stack # <<>>
  PROVE  /\ QuestState(contexts, quests, <<Next_>> \o Rest, recursive_depth)
         /\ <<Next_>> \o Rest # <<>>
<1>1. Top \in QuestCalls /\ QuestState(contexts, quests, stack, recursive_depth)
  BY InnermostFine
<1>2. /\ Next_ \in QuestCalls /\ Next_.fn = Top.fn /\ Next_.ctx = Top.ctx
      /\ Next_.state = Top.state
  BY <1>1 DEF Next_, QuestCalls
<1> QED BY <1>1, <1>2, TopFine DEF Top, Rest

LEMMA LoopOf ==
  ASSUME QuestInv, stack # <<>>, Top.fn \in Loops
  PROVE  /\ Top.ctx \in Ids /\ contexts[Top.ctx].name # NoLabel
         /\ contexts[Top.ctx].quest \in Quests
         /\ Scripted(Actions[contexts[Top.ctx].quest][Top.state])
         /\ Scripted(Rules[contexts[Top.ctx].quest][Top.state])
<1>1. Top \in QuestCalls /\ CallFine(contexts, Top) /\ KeptFine(contexts, quests)
  BY InnermostFine
<1>2. Top.ctx \in Ids \cup {0}
  BY <1>1 DEF QuestCalls
<1>3. /\ Top.ctx \in Ids /\ contexts[Top.ctx].name # NoLabel
      /\ Top.state \in States(contexts[Top.ctx].quest)
  BY <1>1, <1>2 DEF CallFine
<1>4. contexts[Top.ctx].quest \in Quests
  BY <1>1, <1>3 DEF KeptFine, Contexts
<1> QED BY <1>3, <1>4, Declared

\* One entry of a list of actions or rules.
LEMMA EntryOfList ==
  ASSUME NEW list, Scripted(list), NEW i \in Nat, i # Len(list), i <= Len(list)
  PROVE  Fits(list[i + 1])
<1>1. Len(list) \in Nat /\ \A j \in 1..Len(list) : Fits(list[j])
  BY DEF Scripted
<1>2. i + 1 \in 1..Len(list)
  BY <1>1
<1> QED BY <1>1, <1>2

LEMMA DoActionsFine ==
  ASSUME QuestInv, DoActions
  PROVE  QuestInv'
<1> DEFINE o == Top.ctx
           list == Actions[contexts[o].quest][Top.state]
           a == list[Top.i + 1]
           skip == a.cond \in {"elseif", "else"} /\ Top.last
           tests == a.cond \in {"if", "elseif"} /\ ~skip
           run == ~skip /\ (tests => Holds(a))
           top == [Next_ EXCEPT !.last = IF tests THEN Holds(a) ELSE @]
<1>1. /\ stack # <<>> /\ Top.fn = "DoActions" /\ UNCHANGED <<quests_inactive, events>>
  BY DEF DoActions
<1>2. /\ Top \in QuestCalls /\ QuestState(contexts, quests, stack, recursive_depth)
      /\ QuestState(contexts, quests, Rest, recursive_depth - 1)
      /\ facts \subseteq Facts /\ Top.i \in Nat /\ recursive_depth \in Int
  BY <1>1, InnermostFine DEF QuestInv
<1>3. /\ o \in Ids /\ contexts[o].name # NoLabel /\ Scripted(list)
      /\ Top.fn \in Loops
  BY <1>1, LoopOf DEF Loops
<1>4. SUFFICES /\ QuestState(contexts, quests, stack, recursive_depth)'
               /\ facts' \subseteq Facts
  BY <1>1 DEF QuestInv
<1>5. CASE /\ Top.changed
           /\ Update(contexts, quests, <<[Top EXCEPT !.changed = FALSE]>> \o Rest,
                     recursive_depth - 1)
           /\ UNCHANGED facts
  <2> DEFINE head == [Top EXCEPT !.changed = FALSE]
  <2>1. /\ head \in QuestCalls /\ head.fn = Top.fn /\ head.ctx = Top.ctx
        /\ head.state = Top.state
    BY <1>2, CallsAre
  <2> HIDE DEF head
  <2>2. QuestState(contexts, quests, <<head>> \o Rest, recursive_depth)
    BY <1>1, <1>2, <2>1, TopFine DEF Top, Rest
  <2>3. recursive_depth - 1 \in Int /\ Counted(<<head>> \o Rest, recursive_depth - 1)
    <3>1. /\ <<head>> \o Rest \in Seq(QuestCalls)
          /\ Counted(<<head>> \o Rest, recursive_depth)
      BY <2>2 DEF QuestState, Stacked
    <3>2. Count(<<head>> \o Rest) \in Nat /\ max_recursion \in Nat
      BY <3>1, LoopingFinite, QuestNumbers
    <3> DEFINE n == Count(<<head>> \o Rest)
    <3>3. recursive_depth <= n /\ recursive_depth <= max_recursion
      BY <3>1 DEF Counted
    <3> HIDE DEF n
    <3>4. recursive_depth - 1 <= n /\ recursive_depth - 1 <= max_recursion
      BY <1>2, <3>2, <3>3 DEF n
    <3> QED BY <1>2, <3>4 DEF Counted, n
  <2>4. QuestState(contexts, quests, <<head>> \o Rest, recursive_depth - 1)
    BY <2>2, <2>3 DEF QuestState
  <2> QED BY <1>2, <1>5, <2>4, UpdateFine DEF head
<1>6. CASE /\ ~Top.changed /\ Top.i = Len(list)
           /\ Enter("CheckRules", contexts, quests, o, Rest, recursive_depth - 1)
           /\ UNCHANGED facts
  <2> "CheckRules" \in Loops
    BY DEF Loops
  <2> QED BY <1>2, <1>3, <1>6, EnterFine
<1>7. CASE /\ ~Top.changed /\ Top.i < Len(list)
           /\ IF run THEN DoAction(a, o, <<top>> \o Rest)
              ELSE /\ Update(contexts, quests, <<top>> \o Rest, recursive_depth)
                   /\ UNCHANGED facts
  <2>1. /\ top \in QuestCalls /\ top.fn = Top.fn /\ top.ctx = Top.ctx
        /\ top.state = Top.state
    <3>1. /\ Next_ \in QuestCalls /\ Next_.fn = Top.fn /\ Next_.ctx = Top.ctx
          /\ Next_.state = Top.state
      BY <1>2 DEF Next_, QuestCalls
    <3> DEFINE v == IF tests THEN Holds(a) ELSE Next_.last
    <3>2. v \in BOOLEAN
      <4> Holds(a) \in BOOLEAN
        BY DEF Holds
      <4> Next_.last \in BOOLEAN
        BY <3>1 DEF QuestCalls
      <4> HIDE DEF a, tests
      <4> QED OBVIOUS
    <3>3. top = [Next_ EXCEPT !.last = v]
      BY <3>1 DEF QuestCalls
    <3> HIDE DEF v, top
    <3> QED BY <3>1, <3>2, <3>3 DEF QuestCalls
  <2>2. Fits(a)
    <3>1. Len(list) \in Nat
      BY <1>3 DEF Scripted
    <3>2. Top.i < Len(list)
      BY <1>7
    <3> DEFINE n == Len(list)
               t == Top.i
    <3>3. t \in Nat /\ n \in Nat /\ t < n
      BY <1>2, <3>1, <3>2
    <3> HIDE DEF n, t, list
    <3>4. t # n /\ t <= n
      BY <3>3
    <3>5. Top.i # Len(list) /\ Top.i <= Len(list)
      BY <3>4 DEF n, t
    <3> QED BY <1>2, <1>3, <3>5, EntryOfList
  <2> HIDE DEF top, a
  <2>3. /\ QuestState(contexts, quests, <<top>> \o Rest, recursive_depth)
        /\ <<top>> \o Rest # <<>>
    BY <1>1, <1>2, <2>1, TopFine DEF Top, Rest
  <2>4. CASE DoAction(a, o, <<top>> \o Rest)
    BY <1>2, <1>3, <2>2, <2>3, <2>4, DoActionFine
  <2>5. CASE Update(contexts, quests, <<top>> \o Rest, recursive_depth)
             /\ UNCHANGED facts
    BY <1>2, <2>3, <2>5, UpdateFine
  <2> QED BY <1>7, <2>4, <2>5
<1> QED BY <1>5, <1>6, <1>7 DEF DoActions

LEMMA CheckRulesFine ==
  ASSUME QuestInv, CheckRules
  PROVE  QuestInv'
<1> DEFINE o == Top.ctx
           list == Rules[contexts[o].quest][Top.state]
           r == list[Top.i + 1]
<1>1. /\ stack # <<>> /\ Top.fn = "CheckRules" /\ UNCHANGED <<quests_inactive, events>>
  BY DEF CheckRules
<1>2. /\ QuestState(contexts, quests, stack, recursive_depth)
      /\ QuestState(contexts, quests, Rest, recursive_depth - 1)
      /\ facts \subseteq Facts /\ Top.i \in Nat
      /\ QuestState(contexts, quests, <<Next_>> \o Rest, recursive_depth)
      /\ <<Next_>> \o Rest # <<>>
  BY <1>1, InnermostFine, NextFine DEF QuestInv
<1>3. /\ o \in Ids /\ contexts[o].name # NoLabel /\ Scripted(list)
      /\ Top.fn \in Loops
  BY <1>1, LoopOf DEF Loops
<1>4. SUFFICES /\ QuestState(contexts, quests, stack, recursive_depth)'
               /\ facts' \subseteq Facts
  BY <1>1 DEF QuestInv
<1>5. CASE Top.changed \/ Top.i >= Len(list)
  <2> Update(contexts, quests, Rest, recursive_depth - 1) /\ UNCHANGED facts
    BY <1>5 DEF CheckRules
  <2> QED BY <1>2, UpdateFine
<1>6. CASE ~(Top.changed \/ Top.i >= Len(list)) /\ Holds(r)
  <2>1. DoAction(r, o, <<Next_>> \o Rest)
    BY <1>6 DEF CheckRules
  <2>2. Fits(r)
    <3>1. Len(list) \in Nat
      BY <1>3 DEF Scripted
    <3>2. PICK n \in Nat, i \in Nat : n = Len(list) /\ i = Top.i
      BY <1>2, <3>1
    <3>3. ~(i >= n)
      BY <1>6, <3>2
    <3>4. i # n /\ i <= n
      BY <3>3
    <3>5. Top.i # Len(list) /\ Top.i <= Len(list)
      BY <3>2, <3>4
    <3> HIDE DEF list
    <3> QED BY <1>2, <1>3, <3>5, EntryOfList
  <2> HIDE DEF r
  <2> QED BY <1>2, <1>3, <2>1, <2>2, DoActionFine
<1>7. CASE ~(Top.changed \/ Top.i >= Len(list)) /\ ~Holds(r)
  <2> Update(contexts, quests, <<Next_>> \o Rest, recursive_depth) /\ UNCHANGED facts
    BY <1>7 DEF CheckRules
  <2> QED BY <1>2, UpdateFine
<1> QED BY <1>5, <1>6, <1>7

LEMMA CheckQuestRulesFine ==
  ASSUME QuestInv, CheckQuestRules
  PROVE  QuestInv'
<1> DEFINE o == quests[Top.i]
<1>1. /\ stack # <<>> /\ Top.fn = "CheckQuestRules"
      /\ UNCHANGED <<quests_inactive, facts, events>>
  BY DEF CheckQuestRules
<1>2. /\ Top.fn \notin Loops
      /\ QuestState(contexts, quests, Rest, recursive_depth)
      /\ QuestState(contexts, quests, <<Next_>> \o Rest, recursive_depth)
  BY <1>1, InnermostFine, NextFine DEF Loops
<1>3. SUFFICES QuestState(contexts, quests, stack, recursive_depth)'
  BY <1>1 DEF QuestInv
<1>4. CASE Top.i \notin Quests
  <2> Update(contexts, quests, Rest, recursive_depth)
    BY <1>4 DEF CheckQuestRules
  <2> QED BY <1>2, UpdateFine
<1>5. CASE Top.i \in Quests /\ o <= 0
  <2> Update(contexts, quests, <<Next_>> \o Rest, recursive_depth)
    BY <1>5 DEF CheckQuestRules
  <2> QED BY <1>2, UpdateFine
<1>6. CASE Top.i \in Quests /\ ~(o <= 0)
  <2>1. Enter("CheckRules", contexts, quests, o, <<Next_>> \o Rest, recursive_depth)
    BY <1>6 DEF CheckQuestRules
  <2>2. o \in Ids /\ contexts[o].name # NoLabel
    <3>1. o \in Ids \cup {0, -1} /\ EntryFine(contexts, Top.i, o)
      BY <1>2, <1>6 DEF QuestState, KeptFine
    <3>2. o \in Int
      BY <3>1, QuestNumbers
    <3>3. o > 0
      BY <1>6, <3>2
    <3> QED BY <3>1, <3>3 DEF EntryFine
  <2>3. "CheckRules" \in Loops
    BY DEF Loops
  <2> HIDE DEF o
  <2> QED BY <1>2, <2>1, <2>2, <2>3, EnterFine
<1> QED BY <1>4, <1>5, <1>6

\* A quest that runs, and the state it is in.
LEMMA RunningOf ==
  ASSUME QuestInv, NEW q \in Quests, ~(quests[q] <= 0)
  PROVE  /\ quests[q] \in Ids /\ quests[q] > 0
         /\ contexts[quests[q]].name # NoLabel
         /\ contexts[quests[q]].quest = q /\ ContextFine(contexts[quests[q]])
         /\ contexts[quests[q]] \in Contexts
         /\ contexts[quests[q]].state # NoLabel =>
              Scripted(Rules[q][contexts[quests[q]].state])
<1> DEFINE o == quests[q]
<1>1. /\ o \in Ids \cup {0, -1} /\ EntryFine(contexts, q, o)
      /\ \A x \in Ids : ContextFine(contexts[x])
  BY DEF QuestInv, QuestState, KeptFine
<1>2. o > 0
  <2> o \in Int
    BY <1>1, QuestNumbers
  <2> QED OBVIOUS
<1>3. o \in Ids /\ contexts[o].name # NoLabel /\ contexts[o].quest = q
  BY <1>1, <1>2 DEF EntryFine
<1>4. ContextFine(contexts[o]) /\ contexts[o] \in Contexts
  BY <1>1, <1>3 DEF ContextFine
<1>5. contexts[o].state # NoLabel => Scripted(Rules[q][contexts[o].state])
  <2> contexts[o].state # NoLabel => contexts[o].state \in States(q)
    BY <1>3, <1>4 DEF ContextFine
  <2> QED BY Declared
<1> QED BY <1>2, <1>3, <1>4, <1>5

\* The first of some rules.
LEMMA FirstFits ==
  ASSUME NEW list, Scripted(list), NEW met \in SUBSET (DOMAIN list), met # {}
  PROVE  Fits(list[CHOOSE j \in met : \A k \in met : j <= k])
<1>1. Len(list) \in Nat /\ met \in SUBSET (1..Len(list))
      /\ \A j \in 1..Len(list) : Fits(list[j])
  BY DEF Scripted
<1> DEFINE first == CHOOSE j \in met : \A k \in met : j <= k
<1>2. first \in met
  BY <1>1, FirstOf
<1> HIDE DEF first
<1>3. first \in 1..Len(list)
  BY <1>1, <1>2
<1> QED BY <1>1, <1>3 DEF first

LEMMA KilledNPCFine ==
  ASSUME QuestInv, KilledNPC
  PROVE  QuestInv'
<1> DEFINE o == quests[Top.i]
           ctx == contexts[o]
           list == IF o <= 0 \/ ctx.state = NoLabel THEN <<>>
                   ELSE Rules[ctx.quest][ctx.state]
           asked == {j \in DOMAIN list : list[j].when = "killed"}
           met == {j \in asked : ctx.kills + 1 >= list[j].need}
           first == CHOOSE j \in met : \A k \in met : j <= k
           C == IF asked = {} THEN contexts
                ELSE [contexts EXCEPT ![o].kills = @ + 1, ![o].since = @ + 1]
<1>1. /\ stack # <<>> /\ Top.fn = "KilledNPC" /\ UNCHANGED <<quests_inactive, events>>
  BY DEF KilledNPC
<1>2. /\ Top.fn \notin Loops /\ facts \subseteq Facts
      /\ QuestState(contexts, quests, Rest, recursive_depth)
      /\ QuestState(contexts, quests, <<Next_>> \o Rest, recursive_depth)
      /\ <<Next_>> \o Rest # <<>>
  BY <1>1, InnermostFine, NextFine DEF Loops, QuestInv
<1>3. SUFFICES /\ QuestState(contexts, quests, stack, recursive_depth)'
               /\ facts' \subseteq Facts
  BY <1>1 DEF QuestInv
<1>4. CASE Top.i \notin Quests
  <2> Update(contexts, quests, Rest, recursive_depth) /\ UNCHANGED facts
    BY <1>4 DEF KilledNPC
  <2> QED BY <1>2, UpdateFine
<1>5. CASE Top.i \in Quests /\ met = {}
  <2>1. Update(C, quests, <<Next_>> \o Rest, recursive_depth) /\ UNCHANGED facts
    BY <1>5 DEF KilledNPC
  <2>2. CASE asked = {}
    <3> C = contexts
      BY <2>2
    <3> HIDE DEF C
    <3> QED BY <1>2, <2>1, UpdateFine
  <2>3. CASE asked # {}
    <3>1. ~(o <= 0)
      BY <2>3
    <3>2. o \in Ids /\ ctx \in Contexts /\ ContextFine(ctx)
      BY <1>5, <3>1, RunningOf
    <3> DEFINE more == [ctx EXCEPT !.kills = ctx.kills + 1, !.since = ctx.since + 1]
    <3>3. C = [contexts EXCEPT ![o] = more]
      <4>1. C = [contexts EXCEPT ![o].kills = @ + 1, ![o].since = @ + 1]
        BY <2>3
      <4>2. contexts \in [Ids -> Contexts]
        BY <1>2 DEF QuestState, KeptFine
      <4> HIDE DEF C, asked, list
      <4> QED BY <3>2, <4>1, <4>2 DEF Contexts
    <3>4. /\ more \in Contexts /\ more.quest = ctx.quest /\ more.name = ctx.name
          /\ more.state = ctx.state /\ more.kills = ctx.kills + 1
          /\ more.since = ctx.since + 1
      <4>1. ctx \in Contexts
        BY <3>2
      <4> HIDE DEF ctx
      <4>2. ctx.kills + 1 \in Nat /\ ctx.since + 1 \in Nat
        BY <4>1 DEF Contexts
      <4> DEFINE k == ctx.kills + 1
                 s == ctx.since + 1
      <4>3. k \in Nat /\ s \in Nat
        BY <4>2
      <4> HIDE DEF k, s
      <4>4. more = [ctx EXCEPT !.kills = k, !.since = s]
        BY DEF k, s
      <4> HIDE DEF more
      <4>5. /\ more \in Contexts /\ more.quest = ctx.quest /\ more.name = ctx.name
            /\ more.state = ctx.state /\ more.kills = k /\ more.since = s
        BY <4>1, <4>3, <4>4 DEF Contexts
      <4> QED BY <4>5 DEF k, s
    <3>5. ContextFine(more)
      <4>1. ctx.kills \in Nat /\ ctx.since \in Nat /\ ctx.kills <= ctx.since
        BY <3>2 DEF ContextFine, Contexts
      <4>2. ctx.kills + 1 <= ctx.since + 1
        BY <4>1
      <4> HIDE DEF more, ctx
      <4> QED BY <3>2, <3>4, <4>2 DEF ContextFine
    <3> HIDE DEF more, C
    <3>6. KeptFine(C, quests) /\ Stacked(C, <<Next_>> \o Rest)
      BY <1>2, <3>3, <3>4, <3>5, HeldChanged DEF QuestState
    <3>7. QuestState(C, quests, <<Next_>> \o Rest, recursive_depth)
      BY <1>2, <3>6 DEF QuestState
    <3> QED BY <1>2, <2>1, <3>7, UpdateFine
  <2> QED BY <2>2, <2>3
<1>6. CASE Top.i \in Quests /\ met # {}
  <2> DEFINE stk == <<Call("erase", o, NoLabel)>> \o (<<Next_>> \o Rest)
  <2>1. DoAction(list[first], o, stk)
    BY <1>6 DEF KilledNPC
  <2>2. ~(o <= 0 \/ ctx.state = NoLabel)
    BY <1>6
  <2>3. /\ o \in Ids /\ contexts[o].name # NoLabel /\ ctx.quest = Top.i
        /\ Scripted(Rules[Top.i][ctx.state])
    BY <1>6, <2>2, RunningOf
  <2>4. list = Rules[Top.i][ctx.state]
    BY <2>2, <2>3
  <2>5. met \in SUBSET (DOMAIN list)
    OBVIOUS
  <2>6. Fits(list[first])
    <3> HIDE DEF met, list
    <3> QED BY <1>6, <2>3, <2>4, <2>5, FirstFits
  <2>8. QuestState(contexts, quests, stk, recursive_depth) /\ stk # <<>>
    <3> "erase" \in Functions_ \ Loops
      BY DEF Functions_, Loops
    <3> HIDE DEF o
    <3> QED BY <1>2, <2>3, CalledFine DEF o
  <2> HIDE DEF stk, o, first, list
  <2>9. contexts[o].name # NoLabel /\ o \in Ids
    BY <2>3
  <2> QED BY <1>2, <2>1, <2>6, <2>8, <2>9, DoActionFine
<1> QED BY <1>4, <1>5, <1>6

LEMMA EraseProgressFine ==
  ASSUME QuestInv, EraseProgress
  PROVE  QuestInv'
<1> DEFINE o == Top.ctx
           ctx == [contexts[o] EXCEPT !.kills = 0]
           C == [contexts EXCEPT ![o] = ctx]
<1>1. /\ stack # <<>> /\ Top.fn = "erase"
      /\ UNCHANGED <<quests_inactive, facts, events>>
      /\ Update([contexts EXCEPT ![o].kills = 0], quests, Rest, recursive_depth)
  BY DEF EraseProgress
<1>2. /\ Top.fn \notin Loops
      /\ QuestState(contexts, quests, Rest, recursive_depth)
  BY <1>1, InnermostFine DEF Loops
<1>3. contexts \in [Ids -> Contexts] /\ \A x \in Ids : ContextFine(contexts[x])
  BY <1>2 DEF QuestState, KeptFine
<1>4. [contexts EXCEPT ![o].kills = 0] = C
  BY <1>3
<1>5. o \in Ids => ContextFine(ctx) /\ ctx.quest = contexts[o].quest
                   /\ ctx.name = contexts[o].name
  <2> SUFFICES ASSUME o \in Ids
               PROVE  /\ ContextFine(ctx) /\ ctx.quest = contexts[o].quest
                      /\ ctx.name = contexts[o].name
    OBVIOUS
  <2>1. contexts[o] \in Contexts /\ ContextFine(contexts[o])
    BY <1>3
  <2>2. /\ ctx \in Contexts /\ ctx.quest = contexts[o].quest
        /\ ctx.name = contexts[o].name /\ ctx.state = contexts[o].state
        /\ ctx.kills = 0 /\ ctx.since = contexts[o].since /\ ctx.since \in Nat
    <3> HIDE DEF o
    <3> QED BY <2>1 DEF Contexts
  <2> HIDE DEF ctx, o
  <2> QED BY <2>1, <2>2 DEF ContextFine
<1> HIDE DEF ctx
<1>6. KeptFine(C, quests) /\ Stacked(C, Rest)
  BY <1>2, <1>5, HeldChanged DEF QuestState
<1>7. QuestState(C, quests, Rest, recursive_depth)
  BY <1>2, <1>6 DEF QuestState
<1> HIDE DEF C
<1>8. QuestState(contexts, quests, stack, recursive_depth)'
  BY <1>1, <1>4, <1>7, UpdateFine
<1> QED BY <1>1, <1>8 DEF QuestInv

LEMMA ReturnFine ==
  ASSUME QuestInv, Return
  PROVE  QuestInv'
<1>1. /\ stack # <<>> /\ Top.fn = "return"
      /\ UNCHANGED <<quests_inactive, facts, events>>
      /\ Update(contexts, quests, Rest, recursive_depth)
  BY DEF Return
<1>2. QuestState(contexts, quests, Rest, recursive_depth)
  BY <1>1, InnermostFine DEF Loops
<1>3. QuestState(contexts, quests, stack, recursive_depth)'
  BY <1>1, <1>2, UpdateFine
<1> QED BY <1>1, <1>3 DEF QuestInv

LEMMA LoginFine ==
  ASSUME QuestInv, Login
  PROVE  QuestInv'
<1>1. /\ stack # <<>> /\ Top.fn = "Login"
      /\ UNCHANGED <<quests_inactive, facts, events>>
      /\ \/ Start(0, "begin", Rest, recursive_depth)
         \/ Update(contexts, quests, Rest, recursive_depth)
  BY DEF Login
<1>2. QuestState(contexts, quests, Rest, recursive_depth)
  BY <1>1, InnermostFine DEF Loops
<1>3. QuestState(contexts, quests, stack, recursive_depth)'
  BY <1>1, <1>2, UpdateFine, StartFine, LabelsAre, QuestNumbers
<1> QED BY <1>1, <1>3 DEF QuestInv

-----------------------------------------------------------------------------
\* What happens to the character

LEMMA AtRestFine ==
  ASSUME QuestInv, Happens
  PROVE  /\ QuestState(contexts, quests, <<>>, recursive_depth)
         /\ events' \in 0..MaxEvents
<1>1. stack = <<>>
  BY DEF Happens
<1>2. events' \in 0..MaxEvents
  BY QuestAssumption DEF Happens, QuestInv
<1> QED BY <1>1, <1>2 DEF QuestInv

LEMMA Quest_UseFine ==
  ASSUME QuestInv, NEW q \in Quests, Quest_Use(q)
  PROVE  QuestInv'
<1> DEFINE o == quests[q]
<1>1. Happens /\ UNCHANGED <<quests_inactive, facts>>
  BY DEF Quest_Use
<1>2. /\ QuestState(contexts, quests, <<>>, recursive_depth)
      /\ events' \in 0..MaxEvents
  BY <1>1, AtRestFine
<1>3. "begin" \in Labels
  BY LabelsAre
<1>4. CASE Start(q, "begin", <<>>, recursive_depth)
  <2> QuestState(contexts, quests, stack, recursive_depth)'
    BY <1>2, <1>3, <1>4, StartFine
  <2> QED BY <1>1, <1>2 DEF QuestInv
<1>5. CASE /\ o > 0 /\ contexts[o].name = "done"
           /\ SetState(contexts, quests, o, "begin", <<>>, recursive_depth)
  <2>1. o \in Ids
    BY <1>2, <1>5 DEF QuestState, KeptFine, EntryFine
  <2> QuestState(contexts, quests, stack, recursive_depth)'
    BY <1>2, <1>3, <1>5, <2>1, SetStateFine
  <2> QED BY <1>1, <1>2 DEF QuestInv
<1> QED BY <1>4, <1>5 DEF Quest_Use

LEMMA Quest_AcceptFine ==
  ASSUME QuestInv, NEW q \in Quests, Quest_Accept(q)
  PROVE  QuestInv'
<1> DEFINE o == quests[q]
           ctx == contexts[o]
           list == Rules[q][ctx.state]
           met == {j \in DOMAIN list : list[j].when = "talked"}
           first == CHOOSE j \in met : \A k \in met : j <= k
           stk == <<Call("return", o, NoLabel)>>
<1>1. /\ Happens /\ UNCHANGED quests_inactive
      /\ o > 0 /\ ctx.state # NoLabel /\ met # {}
      /\ DoAction(list[first], o, stk)
  BY DEF Quest_Accept
<1>2. /\ QuestState(contexts, quests, <<>>, recursive_depth)
      /\ events' \in 0..MaxEvents /\ facts \subseteq Facts
  BY <1>1, AtRestFine DEF QuestInv
<1>3. ~(o <= 0)
  <2>1. o \in Int
    BY QuestNumbers DEF QuestInv, QuestState, KeptFine
  <2>2. o > 0
    BY <1>1
  <2> HIDE DEF o
  <2> QED BY <2>1, <2>2
<1>4. o \in Ids /\ contexts[o].name # NoLabel /\ Scripted(list)
  BY <1>1, <1>3, RunningOf
<1>5. Fits(list[first])
  <2>1. met \in SUBSET (DOMAIN list)
    OBVIOUS
  <2> HIDE DEF met, list
  <2> QED BY <1>1, <1>4, <2>1, FirstFits
<1>6. QuestState(contexts, quests, stk, recursive_depth) /\ stk # <<>>
  <2>1. "return" \in Functions_ \ Loops
    BY DEF Functions_, Loops
  <2> DEFINE call == <<Call("return", o, NoLabel)>> \o <<>>
  <2>2. QuestState(contexts, quests, call, recursive_depth) /\ call # <<>>
    <3> HIDE DEF o
    <3> QED BY <1>2, <1>4, <2>1, CalledFine
  <2>3. call = stk
    OBVIOUS
  <2> HIDE DEF call, stk
  <2> QED BY <2>2, <2>3
<1> HIDE DEF stk, o, first, list, met
<1>7. QuestState(contexts, quests, stack, recursive_depth)' /\ facts' \subseteq Facts
  BY <1>1, <1>2, <1>4, <1>5, <1>6, DoActionFine
<1> QED BY <1>1, <1>2, <1>7 DEF QuestInv

LEMMA CalledFromRest ==
  ASSUME NEW C, NEW Q, QuestState(C, Q, <<>>, recursive_depth),
         NEW fn \in {"KilledNPC", "CheckQuestRules", "Login"}
  PROVE  QuestState(C, Q, <<Call(fn, 0, NoLabel)>>, recursive_depth)
<1>1. fn \in Functions_ \ Loops
  BY DEF Functions_, Loops
<1> DEFINE call == <<Call(fn, 0, NoLabel)>> \o <<>>
<1>2. QuestState(C, Q, call, recursive_depth)
  BY <1>1, CalledFine
<1>3. call = <<Call(fn, 0, NoLabel)>>
  OBVIOUS
<1> HIDE DEF call
<1> QED BY <1>2, <1>3

LEMMA KillsFine ==
  ASSUME QuestInv, Kills
  PROVE  QuestInv'
<1>1. /\ Happens /\ UNCHANGED <<quests_inactive, facts>>
      /\ Update(contexts, quests, <<Call("KilledNPC", 0, NoLabel)>>, recursive_depth)
  BY DEF Kills
<1>2. QuestState(contexts, quests, <<>>, recursive_depth) /\ events' \in 0..MaxEvents
  BY <1>1, AtRestFine
<1>3. QuestState(contexts, quests, <<Call("KilledNPC", 0, NoLabel)>>, recursive_depth)
  BY <1>2, CalledFromRest
<1>4. QuestState(contexts, quests, stack, recursive_depth)'
  BY <1>1, <1>3, UpdateFine
<1> QED BY <1>1, <1>2, <1>4 DEF QuestInv

LEMMA ChangesFine ==
  ASSUME QuestInv, NEW f \in Facts, Changes(f)
  PROVE  QuestInv'
<1> DEFINE stk == <<Call("CheckQuestRules", 0, NoLabel)>>
<1>1. /\ Happens /\ UNCHANGED quests_inactive /\ facts' \subseteq facts \cup {f}
      /\ Update(contexts, quests, stk, recursive_depth)
  BY DEF Changes
<1>2. QuestState(contexts, quests, <<>>, recursive_depth) /\ events' \in 0..MaxEvents
  BY <1>1, AtRestFine
<1>3. QuestState(contexts, quests, stk, recursive_depth)
  BY <1>2, CalledFromRest
<1> HIDE DEF stk
<1>4. QuestState(contexts, quests, stack, recursive_depth)'
  BY <1>1, <1>3, UpdateFine
<1>5. facts' \subseteq Facts
  BY <1>1 DEF QuestInv
<1> QED BY <1>1, <1>2, <1>4, <1>5 DEF QuestInv

-----------------------------------------------------------------------------
\* Saving and resuming

\* What is saved of a quest has counted no more than its state has.
LEMMA SaveFine ==
  ASSUME QuestInv, NEW q \in Running
  PROVE  LET s == Save(contexts[quests[q]])
         IN  q \in Quests /\ s \in Saved /\ s.kills <= s.since
<1>1. q \in Quests /\ ~(quests[q] <= 0)
  <2> q \in Quests /\ quests[q] \in Int
    BY QuestNumbers DEF Running, QuestInv, QuestState, KeptFine
  <2> QED BY DEF Running
<1> DEFINE ctx == contexts[quests[q]]
<1>2. ctx \in Contexts /\ ctx.name # NoLabel /\ ctx.kills <= ctx.since
  BY <1>1, RunningOf DEF ContextFine
<1> HIDE DEF ctx
<1>3. /\ ctx.name \in Labels /\ ctx.kills \in Nat /\ ctx.daily \in BOOLEAN
      /\ ctx.since \in Nat
  BY <1>2 DEF Contexts
<1>4. Save(ctx).kills = ctx.kills /\ Save(ctx).since = ctx.since /\ Save(ctx) \in Saved
  BY <1>3 DEF Save, Saved
<1> QED BY <1>1, <1>2, <1>4 DEF ctx

\* A quest is resumed in the state that was saved, if it is known.
LEMMA ResumeFine ==
  ASSUME NEW q \in Quests, NEW s \in Saved, s.kills <= s.since
  PROVE  LET ctx == Resume(q, s)
         IN  /\ ContextFine(ctx) /\ ctx \in Contexts
             /\ ctx.quest = q /\ ctx.name # NoLabel
<1> DEFINE new == [Nobody_ EXCEPT !.quest = q]
           named == Named(new, s.name)
           ctx == [named EXCEPT !.kills = s.kills, !.daily = s.daily, !.since = s.since]
<1>1. /\ s.name \in Labels /\ s.kills \in Nat /\ s.daily \in BOOLEAN /\ s.since \in Nat
  BY DEF Saved
<1>2. new \in Contexts /\ new.quest = q /\ ContextFine(new)
  <2>1. Nobody_ \in Contexts
    BY NobodyFine
  <2>2. /\ new \in Contexts /\ new.quest = q /\ new.state = Nobody_.state
        /\ new.kills = Nobody_.kills /\ new.since = Nobody_.since
    BY <2>1 DEF Contexts
  <2>3. Nobody_.state = NoLabel /\ Nobody_.kills = 0 /\ Nobody_.since = 0
    BY DEF Nobody_
  <2> HIDE DEF new
  <2> QED BY <2>2, <2>3 DEF ContextFine
<1> HIDE DEF new
<1>3. ContextFine(named) /\ named.quest = q /\ named.name # NoLabel
  BY <1>1, <1>2, NamedFine
<1> HIDE DEF named
<1> DEFINE k == s.kills
           d == s.daily
           n == s.since
<1>4. k \in Nat /\ d \in BOOLEAN /\ n \in Nat /\ k <= n /\ named \in Contexts
  BY <1>1, <1>3 DEF ContextFine
<1>5. ctx = [named EXCEPT !.kills = k, !.daily = d, !.since = n]
  OBVIOUS
<1> HIDE DEF ctx, k, d, n
<1>6. /\ ctx \in Contexts /\ ctx.quest = named.quest /\ ctx.name = named.name
      /\ ctx.state = named.state /\ ctx.kills = k /\ ctx.since = n
  BY <1>4, <1>5 DEF Contexts
<1>7. ContextFine(ctx) /\ ctx \in Contexts /\ ctx.quest = q /\ ctx.name # NoLabel
  BY <1>3, <1>4, <1>6 DEF ContextFine
<1>8. ctx = Resume(q, s)
  BY DEF ctx, k, d, n, named, new, Resume
<1> QED BY <1>7, <1>8

LEMMA ResumedFine ==
  ASSUME QuestInv, NEW saved, SavedFine(saved), stack = <<>>,
         NEW fn \in {"CheckQuestRules", "Login"},
         Resumed(saved, <<Call(fn, 0, NoLabel)>>)
  PROVE  QuestState(contexts, quests, stack, recursive_depth)'
<1> DEFINE good == {q \in DOMAIN saved : Known(q, saved[q].name)}
           C == [o \in Ids |-> IF o - 1 \in good THEN Resume(o - 1, saved[o - 1])
                               ELSE Nobody_]
           Q == [q \in Quests |-> IF q \in good THEN q + 1 ELSE 0]
           stk == <<Call(fn, 0, NoLabel)>>
<1>1. Update(C, Q, stk, recursive_depth)
  BY DEF Resumed
<1>2. /\ good \subseteq Quests
      /\ \A q \in good : saved[q] \in Saved /\ saved[q].kills <= saved[q].since
  BY DEF SavedFine
<1> HIDE DEF good
<1>3. \A o \in Ids : /\ C[o] \in Contexts /\ ContextFine(C[o])
                     /\ o - 1 \in good => /\ C[o].quest = o - 1
                                          /\ C[o].name # NoLabel
  <2> SUFFICES ASSUME NEW o \in Ids
               PROVE  /\ C[o] \in Contexts /\ ContextFine(C[o])
                      /\ o - 1 \in good => /\ C[o].quest = o - 1
                                           /\ C[o].name # NoLabel
    OBVIOUS
  <2>1. CASE o - 1 \in good
    <3> DEFINE q == o - 1
    <3>1. q \in Quests /\ saved[q] \in Saved /\ saved[q].kills <= saved[q].since
      BY <1>2, <2>1
    <3>2. C[o] = Resume(q, saved[q])
      BY <2>1
    <3> HIDE DEF q, C
    <3>3. /\ C[o] \in Contexts /\ ContextFine(C[o]) /\ C[o].quest = q
          /\ C[o].name # NoLabel
      BY <3>1, <3>2, ResumeFine
    <3> QED BY <3>3 DEF q
  <2>2. CASE o - 1 \notin good
    <3> C[o] = Nobody_
      BY <2>2
    <3> HIDE DEF C
    <3> QED BY <2>2, NobodyFine
  <2> QED BY <2>1, <2>2
<1>4. C \in [Ids -> Contexts]
  <2>1. DOMAIN C = Ids /\ C = [o \in Ids |-> C[o]]
    OBVIOUS
  <2> HIDE DEF C
  <2> QED BY <1>3, <2>1
<1>5. Q \in [Quests -> Ids \cup {0, -1}]
  BY QuestNumbers
<1>6. \A q \in Quests : EntryFine(C, q, Q[q])
  <2> SUFFICES ASSUME NEW q \in Quests
               PROVE  EntryFine(C, q, Q[q])
    OBVIOUS
  <2>1. CASE q \in good
    <3>1. Q[q] = q + 1 /\ q + 1 \in Ids /\ (q + 1) - 1 = q
      BY <2>1, QuestNumbers
    <3> HIDE DEF C, Q
    <3>2. C[q + 1].quest = q /\ C[q + 1].name # NoLabel
      BY <1>3, <2>1, <3>1
    <3> QED BY <3>1, <3>2 DEF EntryFine
  <2>2. CASE q \notin good
    <3> Q[q] = 0
      BY <2>2
    <3> HIDE DEF Q
    <3> QED BY DEF EntryFine
  <2> QED BY <2>1, <2>2
<1> HIDE DEF C, Q
<1>7. QuestState(C, Q, <<>>, recursive_depth)
  BY <1>3, <1>4, <1>5, <1>6, StackedNone DEF QuestInv, QuestState, KeptFine
<1>8. QuestState(C, Q, stk, recursive_depth)
  BY <1>7, CalledFromRest
<1> HIDE DEF stk
<1> QED BY <1>1, <1>8, UpdateFine

LEMMA RelogFine ==
  ASSUME QuestInv, Relog
  PROVE  QuestInv'
<1> DEFINE kept == {q \in DOMAIN quests_inactive : quests[q] = 0}
           saved == [q \in Running \cup kept |->
                       IF q \in Running THEN Save(contexts[quests[q]])
                       ELSE quests_inactive[q]]
           unknown == {p \in DOMAIN saved : ~Known(p, saved[p].name)}
<1>1. /\ Happens /\ Resumed(saved, <<Call("Login", 0, NoLabel)>>)
      /\ quests_inactive' = [q \in unknown |-> saved[q]] /\ UNCHANGED facts
  BY DEF Relog
<1>2. SavedFine(saved)
  <2>1. DOMAIN saved = Running \cup kept /\ kept \subseteq DOMAIN quests_inactive
    OBVIOUS
  <2>2. Running \subseteq Quests
    BY DEF Running
  <2>3. SavedFine(quests_inactive)
    BY DEF QuestInv
  <2>4. \A q \in Running : /\ saved[q] \in Saved
                           /\ saved[q].kills <= saved[q].since
    <3> SUFFICES ASSUME NEW q \in Running
                 PROVE  saved[q] \in Saved /\ saved[q].kills <= saved[q].since
      OBVIOUS
    <3>1. saved[q] = Save(contexts[quests[q]])
      OBVIOUS
    <3> HIDE DEF saved
    <3> QED BY <3>1, SaveFine
  <2>5. \A q \in kept \ Running : saved[q] = quests_inactive[q]
    OBVIOUS
  <2> HIDE DEF saved, kept
  <2> QED BY <2>1, <2>2, <2>3, <2>4, <2>5 DEF SavedFine
<1>3. SavedFine(quests_inactive')
  <2>1. unknown \subseteq DOMAIN saved
    OBVIOUS
  <2> HIDE DEF saved, unknown
  <2> QED BY <1>1, <1>2, <2>1 DEF SavedFine
<1> HIDE DEF saved
<1>4. QuestState(contexts, quests, stack, recursive_depth)'
  <2> stack = <<>>
    BY <1>1 DEF Happens
  <2> QED BY <1>1, <1>2, ResumedFine
<1>5. events' \in 0..MaxEvents
  BY <1>1, AtRestFine
<1>6. SavedFine(quests_inactive)'
  BY <1>3 DEF SavedFine
<1> QED BY <1>1, <1>4, <1>5, <1>6 DEF QuestInv

LEMMA ReloadQuestsFine ==
  ASSUME QuestInv, ReloadQuests
  PROVE  QuestInv'
<1> DEFINE backup == [q \in DOMAIN quests_inactive \cup Running |->
                        IF q \in DOMAIN quests_inactive THEN quests_inactive[q]
                        ELSE Save(contexts[quests[q]])]
<1>1. /\ Happens /\ Resumed(backup, <<Call("CheckQuestRules", 0, NoLabel)>>)
      /\ quests_inactive' = backup /\ UNCHANGED facts
  BY DEF ReloadQuests
<1>2. SavedFine(backup)
  <2>1. DOMAIN backup = DOMAIN quests_inactive \cup Running
    OBVIOUS
  <2>2. Running \subseteq Quests
    BY DEF Running
  <2>3. SavedFine(quests_inactive)
    BY DEF QuestInv
  <2>4. \A q \in DOMAIN quests_inactive : backup[q] = quests_inactive[q]
    OBVIOUS
  <2>5. \A q \in Running \ DOMAIN quests_inactive :
          backup[q] \in Saved /\ backup[q].kills <= backup[q].since
    <3> SUFFICES ASSUME NEW q \in Running \ DOMAIN quests_inactive
                 PROVE  backup[q] \in Saved /\ backup[q].kills <= backup[q].since
      OBVIOUS
    <3>1. backup[q] = Save(contexts[quests[q]])
      OBVIOUS
    <3> HIDE DEF backup
    <3> QED BY <3>1, SaveFine
  <2> HIDE DEF backup
  <2> QED BY <2>1, <2>2, <2>3, <2>4, <2>5 DEF SavedFine
<1> HIDE DEF backup
<1>3. QuestState(contexts, quests, stack, recursive_depth)'
  <2> stack = <<>>
    BY <1>1 DEF Happens
  <2> QED BY <1>1, <1>2, ResumedFine
<1>4. events' \in 0..MaxEvents
  BY <1>1, AtRestFine
<1>5. SavedFine(quests_inactive)'
  BY <1>1, <1>2 DEF SavedFine
<1> QED BY <1>1, <1>3, <1>4, <1>5 DEF QuestInv

-----------------------------------------------------------------------------
\* The theorem

LEMMA QuestsBegin == QuestInit => QuestInv
<1> SUFFICES ASSUME QuestInit PROVE QuestInv
  OBVIOUS
<1> DEFINE C == [o \in Ids |-> Nobody_]
           Q == [q \in Quests |-> 0]
<1>1. KeptFine(C, Q)
  <2>1. C \in [Ids -> Contexts] /\ \A o \in Ids : ContextFine(C[o])
    BY NobodyFine
  <2>2. Q \in [Quests -> Ids \cup {0, -1}] /\ \A q \in Quests : EntryFine(C, q, Q[q])
    BY DEF EntryFine
  <2> HIDE DEF C, Q
  <2> QED BY <2>1, <2>2 DEF KeptFine
<1>2. recursive_depth = 0 /\ contexts = C /\ quests = Q
      /\ stack = <<Call("Login", 0, NoLabel)>>
  BY DEF QuestInit
<1> HIDE DEF C, Q
<1>3. Counted(<<>>, recursive_depth)
  BY <1>2, CountNone, QuestNumbers DEF Counted
<1>4. QuestState(contexts, quests, <<>>, recursive_depth)
  BY <1>1, <1>2, <1>3, StackedNone DEF QuestState
<1>5. QuestState(contexts, quests, stack, recursive_depth)
  BY <1>2, <1>4, CalledFromRest
<1>6. SavedFine(quests_inactive)
  BY DEF QuestInit, SavedFine
<1>7. facts \subseteq Facts /\ events \in 0..MaxEvents
  BY QuestAssumption DEF QuestInit
<1> QED BY <1>5, <1>6, <1>7 DEF QuestInv

LEMMA QuestStep == QuestInv /\ [QuestNext]_questVars => QuestInv'
<1> SUFFICES ASSUME QuestInv, [QuestNext]_questVars PROVE QuestInv'
  OBVIOUS
<1>1. CASE UNCHANGED questVars
  BY <1>1 DEF questVars, QuestInv, QuestState, KeptFine, Stacked, Counted, Count, Looping,
              EntryFine, CallFine, SavedFine
<1>2. CASE DoActions
  BY <1>2, DoActionsFine
<1>3. CASE CheckRules
  BY <1>3, CheckRulesFine
<1>4. CASE CheckQuestRules
  BY <1>4, CheckQuestRulesFine
<1>5. CASE KilledNPC
  BY <1>5, KilledNPCFine
<1>6. CASE EraseProgress
  BY <1>6, EraseProgressFine
<1>7. CASE Return
  BY <1>7, ReturnFine
<1>8. CASE Login
  BY <1>8, LoginFine
<1>9. CASE \E q \in Quests : Quest_Use(q) \/ Quest_Accept(q)
  BY <1>9, Quest_UseFine, Quest_AcceptFine
<1>10. CASE \E f \in Facts : Changes(f)
  BY <1>10, ChangesFine
<1>11. CASE Kills \/ Relog \/ ReloadQuests
  BY <1>11, KillsFine, RelogFine, ReloadQuestsFine
<1> QED BY <1>1, <1>2, <1>3, <1>4, <1>5, <1>6, <1>7, <1>8, <1>9, <1>10, <1>11
        DEF QuestNext

\* The kills a quest has counted were made in its state, and with no quest code
\* running none is counted (Quest_Context::BeginState, Context::SetState,
\* DoActions and CheckRules): calls that leave count themselves out, through
\* returns and exceptions, and what is saved and resumed keeps its counts.
THEOREM QuestsAreSound == QuestSpec => []QuestsSound
<1>1. QuestInv => QuestsSound
  <2> SUFFICES ASSUME QuestInv PROVE KillsOfThisState /\ NothingCounted
    BY DEF QuestsSound
  <2>1. KillsOfThisState
    BY DEF QuestInv, QuestState, KeptFine, ContextFine, KillsOfThisState
  <2>2. NothingCounted
    <3> SUFFICES ASSUME stack = <<>> PROVE recursive_depth <= 0
      BY DEF NothingCounted
    <3>1. Counted(<<>>, recursive_depth)
      BY DEF QuestInv, QuestState
    <3> QED BY <3>1, CountNone DEF Counted
  <2> QED BY <2>1, <2>2
<1> QED BY <1>1, QuestsBegin, QuestStep, PTL DEF QuestSpec

\* Contexts, calls and what is saved keep their types, and recursive_depth its
\* limit: a context that is entered has one of the states its quest declares, and
\* an entry of Character::quests is a context of that quest (Context::SetState,
\* Character::Login, World::ReloadQuests).
THEOREM QuestTypes == QuestSpec => []QuestTypeOK
<1>1. QuestInv => QuestTypeOK
  <2> SUFFICES ASSUME QuestInv PROVE QuestTypeOK
    OBVIOUS
  <2>1. \A o \in Ids : ContextFine(contexts[o])
    BY DEF QuestInv, QuestState, KeptFine
  <2>2. \A o \in Ids : /\ contexts[o].quest \in Quests
                       /\ contexts[o].name \in Labels \cup {NoLabel}
                       /\ contexts[o].state \in States(contexts[o].quest)
                                                  \cup {NoLabel}
                       /\ contexts[o].kills \in Nat
    BY <2>1 DEF ContextFine, Contexts
  <2>3. /\ quests \in [Quests -> Ids \cup {0, -1}]
        /\ \A q \in Running : contexts[quests[q]].quest = q
    BY DEF QuestInv, QuestState, KeptFine, EntryFine, Running
  <2>4. /\ \A q \in DOMAIN quests_inactive : quests_inactive[q] \in Saved
        /\ DOMAIN quests_inactive \subseteq Quests
    BY DEF QuestInv, SavedFine
  <2>5. \A j \in DOMAIN stack : stack[j].ctx \in Ids \cup {0}
    <3>1. stack \in Seq(QuestCalls)
      BY DEF QuestInv, QuestState, Stacked
    <3>2. \A j \in DOMAIN stack : stack[j] \in QuestCalls
      BY <3>1
    <3> QED BY <3>2 DEF QuestCalls
  <2>6. recursive_depth \in Int /\ recursive_depth <= max_recursion
    BY DEF QuestInv, QuestState, Counted
  <2> QED BY <2>2, <2>3, <2>4, <2>5, <2>6 DEF QuestTypeOK, QuestInv
<1> QED BY <1>1, QuestsBegin, QuestStep, PTL DEF QuestSpec

-----------------------------------------------------------------------------
\* Weddings

(* The vows a state of the ceremony has behind it: the first from state 5, *)
(* both from state 7; from state 8 on nobody is asked anything.            *)
VowsInv ==
  /\ partner \in [Guests -> Names]
  /\ state \in 0..12
  /\ state # 0 => {partner1, partner2} \subseteq Guests
  /\ state \in {5, 6, 7} => partner1 \in vows
  /\ state = 7 => partner2 \in vows

(* A married couple: what MarriedByVows asks of a step.                    *)
Couples ==
  \A c \in Guests :
    c \in Online /\ partner'[c] \notin {partner[c], NoOne}
      => LET p == partner'[c]
         IN  /\ {c, p} \subseteq vows' /\ partner'[p] = c
             /\ place[c] = "here" /\ place[p] = "here"

USE WeddingAssumption

-----------------------------------------------------------------------------
(* The end of a ceremony.                                                  *)
LEMMA ResetStep ==
  ASSUME VowsInv, Reset
  PROVE  VowsInv' /\ Couples
BY DEF VowsInv, Reset, Couples

(* The next state, if the couple is there: states 5, 6 and 7 are entered   *)
(* with the vows they need, and state 8 from state 7.                      *)
LEMMA NextStateStep ==
  ASSUME VowsInv, NEW said \in SUBSET Guests, vows \subseteq said,
         state # 0,
         state = 4 => partner1 \in said,
         state = 6 => partner2 \in said,
         NextState(said)
  PROVE  VowsInv' /\ Couples
<1>1. CASE ~Present \/ state = 12
  <2>1. Reset
    BY <1>1 DEF NextState, ChangeState, VowsInv
  <2> QED  BY <2>1, ResetStep
<1>2. CASE Present /\ state \notin {7, 12}
  <2>1. /\ state' = state + 1 /\ state' \in 1..12 /\ state' # 8
        /\ vows' = said /\ UNCHANGED <<partner, partner1, partner2>>
    BY <1>2 DEF NextState, ChangeState, VowsInv
  <2>2. VowsInv'
    BY <2>1 DEF VowsInv
  <2> QED  BY <2>1, <2>2 DEF Couples
<1>3. CASE Present /\ state = 7
  <2>1. /\ state' = 8 /\ vows' = said /\ Marry
        /\ UNCHANGED <<partner1, partner2>>
    BY <1>3 DEF NextState, ChangeState
  <2>2. /\ partner1 \in Guests /\ partner2 \in Guests
        /\ place[partner1] = "here" /\ place[partner2] = "here"
        /\ {partner1, partner2} \subseteq said
    BY <1>3 DEF VowsInv, Present
  <2>3. /\ partner' \in [Guests -> Names]
        /\ partner'[partner2] = partner1
        /\ partner'[partner1] = partner2
        /\ \A c \in Guests \ {partner1, partner2} : partner'[c] = partner[c]
    BY <2>1, <2>2 DEF Marry, VowsInv, Names
  <2>4. VowsInv'
    BY <2>1, <2>2, <2>3 DEF VowsInv
  <2>5. Couples
    BY <2>1, <2>2, <2>3 DEF Couples
  <2> QED  BY <2>4, <2>5
<1> QED  BY <1>1, <1>2, <1>3

(* A tick.  The two states that wait for an answer end with a tick only if *)
(* there was none.                                                         *)
LEMMA TickStep ==
  ASSUME VowsInv, vows \subseteq Guests, Wedding_Tick
  PROVE  VowsInv' /\ Couples
<1> DEFINE t    == tick + 1
           gone == Checks(state, t) /\ ~Present
<1>1. CASE Reset
  BY <1>1, ResetStep
<1>2. CASE state # 0 /\ t = LastTick[state] /\ ~NoAnswer(state, t)
           /\ NextState(vows)
  <2>1. state \notin {4, 6}
    BY <1>2 DEF NoAnswer
  <2> QED  BY <1>2, <2>1, NextStateStep
<1>3. CASE UNCHANGED <<partner, partner1, partner2, state, vows>>
  BY <1>3 DEF VowsInv, Couples
<1> QED  BY <1>1, <1>2, <1>3 DEF Wedding_Tick

(* The answers: only the one who is asked can give it.                     *)
LEMMA AnswerStep ==
  ASSUME VowsInv, vows \subseteq Guests, NEW c \in Guests, Priest_Use(c)
  PROVE  VowsInv' /\ Couples
<1>1. /\ state \in {4, 6} /\ NextState(vows \cup {c})
      /\ state = 4 => c = partner1
      /\ state = 6 => c = partner2
  BY DEF Priest_Use, RequiredState
<1> QED  BY <1>1, NextStateStep

LEMMA AcceptStep ==
  ASSUME VowsInv, NEW c \in Guests, Priest_Accept(c)
  PROVE  VowsInv' /\ Couples
BY DEF Priest_Accept, StartWedding, VowsInv, Couples

(* Outside of the ceremony nobody in the game is given a partner: a        *)
(* divorce frees, and a row is loaded before its character is in the game. *)
LEMMA OutsideStep ==
  ASSUME VowsInv, UNCHANGED ceremony, partner' \in [Guests -> Names],
         \A c \in Online : partner'[c] \in {partner[c], NoOne}
  PROVE  VowsInv' /\ Couples
BY DEF VowsInv, ceremony, Couples

LEMMA DivorceStep ==
  ASSUME VowsInv, NEW c \in Guests, Divorce(c)
  PROVE  VowsInv' /\ Couples
<1>1. UNCHANGED ceremony
  BY DEF Divorce
<1>2. /\ partner' \in [Guests -> Names]
      /\ \A x \in Guests : partner'[x] \in {partner[x], NoOne}
  BY DEF Divorce, Free, VowsInv, Names
<1> QED  BY <1>1, <1>2, OutsideStep DEF Online

LEMMA ComingAndGoing ==
  ASSUME VowsInv, stored \in [Guests -> Names], NEW c \in Guests,
         LoadCharacter(c) \/ LeaveMenu(c) \/ WeddingLogout(c)
  PROVE  VowsInv' /\ Couples
<1>1. UNCHANGED ceremony
  BY DEF LoadCharacter, LeaveMenu, WeddingLogout
<1>2. /\ partner' \in [Guests -> Names]
      /\ \A x \in Online : partner'[x] \in {partner[x], NoOne}
  BY DEF LoadCharacter, LeaveMenu, WeddingLogout, VowsInv, Names, Online
<1> QED  BY <1>1, <1>2, OutsideStep

-----------------------------------------------------------------------------
(* Rows hold names, and only guests take vows.                             *)
RowsInv == stored \in [Guests -> Names] /\ vows \subseteq Guests

LEMMA RowsStep ==
  ASSUME VowsInv, RowsInv, [WeddingNext]_weddingVars
  PROVE  RowsInv'
<1>1. CASE Wedding_Tick
  BY <1>1 DEF Wedding_Tick, NextState, ChangeState, Reset, RowsInv
<1>2. ASSUME NEW c \in Guests, Priest_Use(c) \/ Priest_Accept(c)
      PROVE  RowsInv'
  BY <1>2 DEF Priest_Use, Priest_Accept, StartWedding, NextState,
              ChangeState, Reset, RowsInv
<1>3. ASSUME NEW c \in Guests, Divorce(c) \/ WeddingLogout(c)
      PROVE  RowsInv'
  BY <1>3 DEF Divorce, Free, WeddingLogout, ceremony, RowsInv, VowsInv, Names
<1>4. ASSUME NEW c \in Guests,
             \/ Priest_Request(c) \/ LoadCharacter(c) \/ LeaveMenu(c)
             \/ \E name \in Guests : MarriageApproval(c, name)
             \/ \E at \in {"here", "away"} : EnterGame(c, at)
             \/ LeaveMap(c) \/ EnterMap(c)
      PROVE  RowsInv'
  BY <1>4 DEF Priest_Request, LoadCharacter, LeaveMenu, MarriageApproval,
              EnterGame, LeaveMap, EnterMap, ceremony, RowsInv
<1>5. CASE UNCHANGED weddingVars
  BY <1>5 DEF weddingVars, RowsInv
<1> QED  BY <1>1, <1>2, <1>3, <1>4, <1>5 DEF WeddingNext

LEMMA VowsStep ==
  ASSUME VowsInv, RowsInv, WeddingNext
  PROVE  VowsInv' /\ Couples
<1>1. ASSUME NEW c \in Guests,
             \/ Priest_Request(c)
             \/ \E name \in Guests : MarriageApproval(c, name)
             \/ \E at \in {"here", "away"} : EnterGame(c, at)
             \/ LeaveMap(c) \/ EnterMap(c)
      PROVE  VowsInv' /\ Couples
  <2>1. UNCHANGED <<partner, ceremony>>
    BY <1>1 DEF Priest_Request, MarriageApproval, EnterGame, LeaveMap, EnterMap
  <2> QED  BY <2>1, OutsideStep DEF VowsInv
<1> QED  BY <1>1, TickStep, AnswerStep, AcceptStep, DivorceStep,
            ComingAndGoing DEF WeddingNext, RowsInv

LEMMA VowsAlways == WeddingSpec => [](VowsInv /\ RowsInv)
<1>1. WeddingInit => VowsInv /\ RowsInv
  BY DEF WeddingInit, VowsInv, RowsInv, Names
<1>2. VowsInv /\ RowsInv /\ [WeddingNext]_weddingVars => (VowsInv /\ RowsInv)'
  <2>1. UNCHANGED weddingVars /\ VowsInv => VowsInv'
    BY DEF weddingVars, VowsInv
  <2> QED  BY <2>1, VowsStep, RowsStep
<1> QED  BY <1>1, <1>2, PTL DEF WeddingSpec

(* Nobody is married but by the ceremony, to the one who stands there too, *)
(* and after both have answered (Wedding::IDo, NextState, Check).          *)
THEOREM MarriagesAreByVows == WeddingSpec => MarriedByVows
<1>1. VowsInv /\ RowsInv /\ [WeddingNext]_weddingVars =>
        [\A c \in Guests :
           c \in Online /\ partner'[c] \notin {partner[c], NoOne}
             => LET p == partner'[c]
                IN  /\ {c, p} \subseteq vows' /\ partner'[p] = c
                    /\ place[c] = "here" /\ place[p] = "here"]_weddingVars
  BY VowsStep DEF Couples
<1> QED  BY <1>1, VowsAlways, PTL DEF WeddingSpec, MarriedByVows

-----------------------------------------------------------------------------
\* What the variables of weddings hold; no state lasts beyond its last tick.

TicksFine == /\ state \in 0..12 /\ tick \in Nat
             /\ state # 0 => tick < LastTick[state]

CeremonyTypes ==
  /\ fiance \in [Guests -> Names] /\ {partner1, partner2} \subseteq Names
  /\ tick_timer \in SUBSET {"pointer", "registered"} /\ TicksFine

WeddingTypes ==
  /\ place \in [Guests -> {"off", "menu", "away", "here"}]
  /\ requests \subseteq Guests /\ visits \in 0..MaxVisits /\ CeremonyTypes

LEMMA ResetTypes ==
  ASSUME CeremonyTypes, Reset
  PROVE  CeremonyTypes'
BY DEF CeremonyTypes, TicksFine, Reset, StopTimer, Names

LEMMA NextStateTypes ==
  ASSUME CeremonyTypes, state # 0, NEW said, NextState(said)
  PROVE  CeremonyTypes'
<1>1. CASE Reset
  BY <1>1, ResetTypes
<1>2. CASE ~Reset
  <2>1. /\ state' = state + 1 /\ state \in 1..11 /\ tick' = 0
        /\ fiance' = fiance \/ Marry
        /\ UNCHANGED <<partner1, partner2, tick_timer>>
    BY <1>2 DEF NextState, ChangeState, CeremonyTypes, TicksFine
  <2>2. fiance' \in [Guests -> Names]
    BY <2>1 DEF CeremonyTypes, Marry, Names
  <2>3. state' \in 1..12
    BY <2>1
  <2>4. LastTick[state'] \in Nat \ {0}
    BY <2>3
  <2> QED
    BY <2>1, <2>2, <2>3, <2>4 DEF CeremonyTypes, TicksFine
<1> QED
  BY <1>1, <1>2

LEMMA CeremonyTicks ==
  ASSUME CeremonyTypes, Wedding_Tick
  PROVE  CeremonyTypes'
<1>1. CASE Reset
  BY <1>1, ResetTypes
<1>2. CASE state # 0 /\ NextState(vows)
  BY <1>2, NextStateTypes
<1>3. CASE /\ state # 0 /\ tick + 1 # LastTick[state] /\ tick' = tick + 1
           /\ UNCHANGED <<fiance, partner1, partner2, state, tick_timer>>
  <2>1. LastTick[state] \in Nat /\ tick \in Nat /\ tick < LastTick[state]
    BY <1>3 DEF CeremonyTypes, TicksFine
  <2>2. tick + 1 < LastTick[state] /\ tick + 1 \in Nat
    BY <1>3, <2>1
  <2> QED
    BY <1>3, <2>2 DEF CeremonyTypes, TicksFine
<1> QED
  BY <1>1, <1>2, <1>3 DEF Wedding_Tick

LEMMA WeddingTypesKept ==
  ASSUME WeddingTypes, [WeddingNext]_weddingVars
  PROVE  WeddingTypes'
<1>1. CASE Wedding_Tick
  BY <1>1, CeremonyTicks DEF Wedding_Tick, WeddingTypes
<1>2. ASSUME NEW c \in Guests, Priest_Use(c)
      PROVE  WeddingTypes'
  <2>1. state # 0 /\ NextState(vows \cup {c}) /\ CeremonyTypes
    BY <1>2 DEF Priest_Use, RequiredState, WeddingTypes
  <2> QED
    BY <1>2, <2>1, NextStateTypes DEF Priest_Use, WeddingTypes
<1>3. ASSUME NEW c \in Guests, Priest_Accept(c)
      PROVE  WeddingTypes'
  <2>1. /\ fiance[c] \in Guests /\ StartWedding(fiance[c], c)
        /\ UNCHANGED <<place, requests, visits>>
    BY <1>3 DEF Priest_Accept
  <2>2. LastTick[1] > 1 /\ 1 \in 0..12
    OBVIOUS
  <2> QED
    BY <2>1, <2>2 DEF StartWedding, StartTimer, WeddingTypes, CeremonyTypes, TicksFine,
                      Names
<1>4. ASSUME NEW c \in Guests, NEW name \in Guests, MarriageApproval(c, name)
      PROVE  WeddingTypes'
  BY <1>4 DEF MarriageApproval, ceremony, WeddingTypes, CeremonyTypes, TicksFine, Names
<1>5. ASSUME NEW c \in Guests, Divorce(c)
      PROVE  WeddingTypes'
  BY <1>5 DEF Divorce, ceremony, WeddingTypes, CeremonyTypes, TicksFine
<1>6. ASSUME NEW c \in Guests,
             \/ Priest_Request(c) \/ LoadCharacter(c) \/ LeaveMenu(c)
             \/ \E at \in {"here", "away"} : EnterGame(c, at)
             \/ LeaveMap(c) \/ EnterMap(c) \/ WeddingLogout(c)
      PROVE  WeddingTypes'
  <2>1. UNCHANGED <<ceremony, fiance, visits>>
    BY <1>6 DEF Priest_Request, LoadCharacter, LeaveMenu, EnterGame, LeaveMap, EnterMap,
                WeddingLogout
  <2>2. place' \in [Guests -> {"off", "menu", "away", "here"}]
    BY <1>6 DEF Priest_Request, LoadCharacter, LeaveMenu, EnterGame, LeaveMap, EnterMap,
                WeddingLogout, WeddingTypes
  <2>3. requests' \subseteq Guests
    BY <1>6 DEF Priest_Request, LoadCharacter, LeaveMenu, EnterGame, LeaveMap, EnterMap,
                WeddingLogout, WeddingTypes
  <2> QED
    BY <2>1, <2>2, <2>3 DEF WeddingTypes, CeremonyTypes, TicksFine, ceremony
<1>7. CASE UNCHANGED weddingVars
  BY <1>7 DEF weddingVars, WeddingTypes, CeremonyTypes, TicksFine
<1> QED
  BY <1>1, <1>2, <1>3, <1>4, <1>5, <1>6, <1>7 DEF WeddingNext

(* Whoever comes, goes, asks and answers, a ceremony is in one of its      *)
(* states and has not stayed in it for longer than the state lasts.        *)
THEOREM WeddingsAreTyped == WeddingSpec => []WeddingTypeOK
<1>1. WeddingInit => WeddingTypes
  BY DEF WeddingInit, WeddingTypes, CeremonyTypes, TicksFine, Names
<1>2. VowsInv /\ RowsInv /\ WeddingTypes => WeddingTypeOK
  BY DEF VowsInv, RowsInv, WeddingTypes, CeremonyTypes, TicksFine, WeddingTypeOK
<1>3. WeddingSpec => []WeddingTypes
  BY <1>1, WeddingTypesKept, PTL DEF WeddingSpec
<1> QED
  BY <1>2, <1>3, VowsAlways, PTL

-----------------------------------------------------------------------------
\* What is checked of all of them at once.

\* A step is one of its part, and the others stay as they are.
LEMMA PartsMove ==
  [Next]_vars => /\ [PartyNext]_partyVars /\ [WeddingNext]_weddingVars
                 /\ [ArenaNext]_arenaVars /\ [GuildNext]_guildVars
                 /\ [QuestNext]_questVars /\ [SpellsNext]_spellsVars
<1> SUFFICES ASSUME [Next]_vars
             PROVE  /\ [PartyNext]_partyVars /\ [WeddingNext]_weddingVars
                    /\ [ArenaNext]_arenaVars /\ [GuildNext]_guildVars
                    /\ [QuestNext]_questVars /\ [SpellsNext]_spellsVars
  OBVIOUS
<1>1. CASE UNCHANGED vars
  BY <1>1 DEF vars
<1>2. CASE Next
  <2>1. Resting(part)
    BY <1>2 DEF Next
  <2>2. \/ part = "party" /\ PartyNext
        \/ part = "wedding" /\ WeddingNext
        \/ part = "arena" /\ ArenaNext
        \/ part = "guild" /\ GuildNext
        \/ part = "quest" /\ QuestNext
        \/ part = "timer" /\ SpellsNext
    BY <1>2 DEF Next
  <2> QED BY <2>1, <2>2 DEF Resting
<1> QED BY <1>1, <1>2

(* The type invariants of what players do together, and of the timer, for  *)
(* any constants.                                                          *)
THEOREM CommunityIsTyped == Spec => []TypeOK
<1>1. Init => /\ PartyInit /\ WeddingInit /\ ArenaInit /\ GuildInit /\ QuestInit
              /\ SpellsInit
  BY DEF Init
<1>2. Spec => /\ PartySpec /\ WeddingSpec /\ ArenaSpec /\ GuildSpec /\ QuestSpec
              /\ SpellsInit /\ [][SpellsNext]_spellsVars
  BY <1>1, PartsMove, PTL
     DEF Spec, PartySpec, WeddingSpec, ArenaSpec, GuildSpec, QuestSpec
<1>3. SpellsInit /\ [][SpellsNext]_spellsVars => []SpellsTypeOK
  BY SpellsStart, SpellsStep, SpellTypesBegin, SpellTypesKept, SpellTypesAre, PTL
<1>4. PartyTypeOK /\ WeddingTypeOK /\ ArenaTypeOK /\ GuildTypeOK /\ QuestTypeOK
        /\ SpellsTypeOK => TypeOK
  BY DEF TypeOK
<1> QED
  BY <1>2, <1>3, <1>4, PartyTypes, WeddingsAreTyped, ArenasAreTyped, GuildsAreTyped,
     QuestTypes, PTL

=============================================================================
