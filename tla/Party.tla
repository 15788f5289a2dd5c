--------------------------------- MODULE Party ---------------------------------
(***************************************************************************)
(* Parties: groups of at least two players, with a leader.  Membership is  *)
(* kept twice, in the party's list of members and in each player's pointer *)
(* to its party; chat, experience and the health bars are sent along the   *)
(* list, every handler starts from the pointer.                            *)
(*                                                                         *)
(* The pointers party_trust_send and party_trust_recv are never followed:  *)
(* an invitation counts only while the two point at each other, which is   *)
(* what `asks' records.  Whether two players are in range of each other    *)
(* changes with every step they walk and is not modelled: where it fails   *)
(* the handler does nothing.                                               *)
(***************************************************************************)
EXTENDS Naturals, FiniteSets

CONSTANTS Players, Nobody

ASSUME PartyAssumption == Nobody \notin Players /\ IsFiniteSet(Players)

NoParty  == 0
PartyIds == 1..Cardinality(Players)

VARIABLES
  members, leader,  \* of each party; no members: the party does not exist
  party,            \* the party a player points to
  online,
  asks,             \* the request of a player while it is open: whom it asks,
                    \* and whether to join (PARTY_REQUEST_JOIN) or to invite
  strayed           \* a leader has removed a player of another party

Requests == [to : Players, join : BOOLEAN]

partyVars == <<members, leader, party, online, asks, strayed>>

PartyTypeOK ==
  /\ members \in [PartyIds -> SUBSET Players]
  /\ leader \in [PartyIds -> Players \cup {Nobody}]
  /\ party \in [Players -> PartyIds \cup {NoParty}]
  /\ online \in [Players -> BOOLEAN]
  /\ asks \in [Players -> Requests \cup {Nobody}]
  /\ strayed \in BOOLEAN

PartyInit == /\ members = [p \in PartyIds |-> {}]
             /\ leader = [p \in PartyIds |-> Nobody]
             /\ party = [c \in Players |-> NoParty]
             /\ online = [c \in Players |-> FALSE]
             /\ asks = [c \in Players |-> Nobody]
             /\ strayed = FALSE

-----------------------------------------------------------------------------
(* The three parts of the state as one value, for the handlers that do     *)
(* several things to it in a row.                                          *)
Parties == [members |-> members, leader |-> leader, party |-> party]

Become(P) == /\ members' = P.members
             /\ leader' = P.leader
             /\ party' = P.party

Create(P, l, other) ==
  LET p == CHOOSE x \in PartyIds : P.members[x] = {}
  IN  [members |-> [P.members EXCEPT ![p] = {l, other}],
       leader  |-> [P.leader EXCEPT ![p] = l],
       party   |-> [P.party EXCEPT ![l] = p, ![other] = p]]

Join(P, p, c) ==
  [members |-> [P.members EXCEPT ![p] = @ \cup {c}],
   leader  |-> P.leader,
   party   |-> [P.party EXCEPT ![c] = p]]

Without(P, p, c) ==
  [members |-> [P.members EXCEPT ![p] = @ \ {c}],
   leader  |-> P.leader,
   party   |-> [P.party EXCEPT ![c] = NoParty]]

(* The destructor lets every member go.                                    *)
Disband(P, p) ==
  [members |-> [P.members EXCEPT ![p] = {}],
   leader  |-> [P.leader EXCEPT ![p] = Nobody],
   party   |-> [c \in Players |->
                  IF c \in P.members[p] THEN NoParty ELSE P.party[c]]]

(* A mutant of Leave: only the size decides whether the party goes on.     *)
LeaveBySize(P, p, c) ==
  IF Cardinality(P.members[p]) > 2 THEN Without(P, p, c) ELSE Disband(P, p)

Leave(P, p, c) ==
  IF Cardinality(P.members[p]) > 2 /\ c # P.leader[p]
  THEN Without(P, p, c) ELSE Disband(P, p)

LeaveOwn(P, c) == IF P.party[c] = NoParty THEN P ELSE Leave(P, P.party[c], c)

(* c leaves its party, if any, and comes to the party of host, or founds   *)
(* one with host, whose party may have ended with c's leaving.             *)
Taken(P, host, c) ==
  LET Q == LeaveOwn(P, c)
  IN  IF Q.party[host] = NoParty THEN Create(Q, host, c)
      ELSE Join(Q, Q.party[host], c)

-----------------------------------------------------------------------------
(* The requests that are left when none may point to a player of S.        *)
Cancelled(S) == [d \in Players |->
                   IF asks[d] # Nobody /\ asks[d].to \in S THEN Nobody
                   ELSE asks[d]]

(* A request replaces the asking player's last one, and the last one made  *)
(* to the other player.                                                    *)
Party_Request(c, v, join) ==
  /\ online[c] /\ online[v] /\ c # v
  /\ asks' = [Cancelled({v}) EXCEPT ![c] = [to |-> v, join |-> join]]
  /\ UNCHANGED <<members, leader, party, online, strayed>>

(* c takes up the request of i: to join c's party, or to come to i's.      *)
Party_Accept(c, i) ==
  /\ online[c] /\ online[i]
  /\ asks[i] # Nobody /\ asks[i].to = c
  /\ Become(IF asks[i].join THEN Taken(Parties, c, i)
            ELSE Taken(Parties, i, c))
  /\ asks' = [asks EXCEPT ![i] = Nobody]
  /\ UNCHANGED <<online, strayed>>

(* Leaving, and a leader's removal of a player.  The player is looked up   *)
(* in the whole world: whether it is still, or has ever been, in this      *)
(* party is not asked.  One that is in another is taken off nobody's list  *)
(* but loses its pointer, and the two records fall apart: from there on    *)
(* the other party may follow the pointer of a player that has logged out, *)
(* and the model stops.                                                    *)
Packet_Remove(c, v) ==
  LET p == party[c]
  IN  /\ online[c] /\ p # NoParty
      /\ v = c \/ c = leader[p]
      /\ online[v]
      /\ Become(Leave(Parties, p, v))
      /\ strayed' = (v \notin members[p] /\ party'[v] # party[v])
      /\ UNCHANGED <<online, asks>>

(* Logout leaves the party; the requests of and to the player are void,    *)
(* since a character that logs in again starts with both pointers null.    *)
PartyLogout(c) ==
  /\ online[c]
  /\ Become(LeaveOwn(Parties, c))
  /\ online' = [online EXCEPT ![c] = FALSE]
  /\ asks' = [Cancelled({c}) EXCEPT ![c] = Nobody]
  /\ UNCHANGED strayed

PartyLogin(c) == /\ ~online[c]
                 /\ online' = [online EXCEPT ![c] = TRUE]
                 /\ UNCHANGED <<members, leader, party, asks, strayed>>

PartyNext ==
  /\ ~strayed
  /\ \E c \in Players :
       \/ PartyLogin(c)
       \/ PartyLogout(c)
       \/ \E v \in Players : \/ \E join \in BOOLEAN : Party_Request(c, v, join)
                             \/ Party_Accept(c, v)
                             \/ Packet_Remove(c, v)

PartySpec == PartyInit /\ [][PartyNext]_partyVars

-----------------------------------------------------------------------------
(* The two records of membership agree: party.cpp follows every pointer of *)
(* the list of members, and frees a party on the strength of its size, so  *)
(* that neither may ever name a player that has left or logged out.  It    *)
(* holds as long as leaders remove only players of no other party.         *)
MembersAgree ==
  ~strayed =>
    /\ \A c \in Players : party[c] # NoParty => c \in members[party[c]]
    /\ \A p \in PartyIds :
         /\ \A c \in members[p] : party[c] = p /\ online[c]
         /\ members[p] # {} => /\ leader[p] \in members[p]
                               /\ Cardinality(members[p]) >= 2
===============================================================================
