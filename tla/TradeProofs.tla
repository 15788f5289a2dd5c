----------------------------- MODULE TradeProofs -----------------------------
(***************************************************************************)
(* Proofs about Trade for every set of characters and items and every      *)
(* limit: typing, that the two halves of a trade always agree, that an     *)
(* agreement is one to the present offers, that traders are together, and  *)
(* that what is on offer is there.                                         *)
(***************************************************************************)
EXTENDS Trade, FiniteSetTheorems, TLAPS

USE TradeAssumption

LEMMA AmountsAreNatural ==
  ASSUME NEW a \in Nat, NEW n \in Nat
  PROVE  Added(a, n) \in Nat /\ Deleted(a, n) \in Nat
BY DEF Added, Deleted

LEMMA NothingIsAmounts == Nothing \in Amounts /\ \A i \in Items : Nothing[i] = 0
BY DEF Nothing, Amounts

-----------------------------------------------------------------------------
(* Nobody's partner is itself, for Trade_Request refuses it: together with *)
(* TradersPaired that is inductive.                                        *)
NoSelf == \A c \in Characters : partner[c] # c

Inv == TypeOK /\ TradersPaired /\ NoSelf

LEMMA InvInit == Init => Inv
<1> SUFFICES ASSUME Init PROVE Inv
  OBVIOUS
<1>1. inventory \in [Characters -> Amounts]
  BY DEF Init, Amounts
<1>2. offer \in [Characters -> Amounts]
  BY NothingIsAmounts DEF Init
<1>3. TypeOK
  BY <1>1, <1>2 DEF Init, TypeOK
<1>4. TradersPaired /\ NoSelf
  BY DEF Init, TradersPaired, NoSelf
<1> QED
  BY <1>3, <1>4 DEF Inv

(* What the end of a trade does to the five variables of its two sides.    *)
LEMMA EndTradeType ==
  ASSUME Inv, NEW c \in Characters, trading[c], EndTrade(c)
  PROVE  /\ trading' \in [Characters -> BOOLEAN]
         /\ partner' \in [Characters -> Characters \cup {Nobody}]
         /\ agree' \in [Characters -> BOOLEAN]
         /\ offer' \in [Characters -> Amounts]
         /\ seen' \in [Characters -> (Amounts \X Amounts) \cup {<<>>}]
         /\ \A d \in Characters :
              /\ d \in {c, partner[c]} =>
                   ~trading'[d] /\ partner'[d] = Nobody /\ offer'[d] = Nothing
              /\ d \notin {c, partner[c]} =>
                   /\ trading'[d] = trading[d] /\ partner'[d] = partner[d]
                   /\ agree'[d] = agree[d] /\ offer'[d] = offer[d]
                   /\ seen'[d] = seen[d]
<1> USE DEF Inv, TypeOK
<1> DEFINE both == {c, partner[c]}
<1>1. /\ trading' = Set(trading, both, FALSE)
      /\ partner' = Set(partner, both, Nobody)
      /\ agree' = [agree EXCEPT ![c] = FALSE]
      /\ offer' = Set(offer, both, Nothing)
      /\ seen' = Set(seen, both, <<>>)
  BY DEF EndTrade
<1> HIDE DEF both
<1>2. /\ trading' \in [Characters -> BOOLEAN]
      /\ \A d \in Characters :
           trading'[d] = IF d \in both THEN FALSE ELSE trading[d]
  BY <1>1 DEF Set
<1>3. /\ partner' \in [Characters -> Characters \cup {Nobody}]
      /\ \A d \in Characters :
           partner'[d] = IF d \in both THEN Nobody ELSE partner[d]
  BY <1>1 DEF Set
<1>4. /\ offer' \in [Characters -> Amounts]
      /\ \A d \in Characters :
           offer'[d] = IF d \in both THEN Nothing ELSE offer[d]
  BY <1>1, NothingIsAmounts DEF Set
<1>5. /\ seen' \in [Characters -> (Amounts \X Amounts) \cup {<<>>}]
      /\ \A d \in Characters :
           seen'[d] = IF d \in both THEN <<>> ELSE seen[d]
  BY <1>1 DEF Set
<1>6. /\ agree' \in [Characters -> BOOLEAN]
      /\ \A d \in Characters : d \notin both => agree'[d] = agree[d]
  BY <1>1 DEF both
<1> QED
  BY <1>2, <1>3, <1>4, <1>5, <1>6 DEF both

(* A trade that ends frees exactly its two sides.                          *)
LEMMA EndTradePairs ==
  ASSUME Inv, NEW c \in Characters, trading[c], EndTrade(c),
         \A d \in Characters : d # c /\ Online(d) => mapid'[d] # Offline
  PROVE  TradersPaired' /\ NoSelf'
<1>1. \A d \in Characters : trading'[d] =>
        /\ d \notin {c, partner[c]} /\ trading[d] /\ partner'[d] = partner[d]
  BY EndTradeType
<1>2. ASSUME NEW d \in Characters, trading'[d]
      PROVE  /\ partner'[d] \in Characters \ {d}
             /\ mapid'[d] # Offline /\ mapid'[partner'[d]] # Offline
             /\ trading'[partner'[d]] /\ partner'[partner'[d]] = d
  <2>1. /\ partner[d] \in Characters \ {d} /\ Online(d) /\ Online(partner[d])
        /\ trading[partner[d]] /\ partner[partner[d]] = d
    BY <1>1, <1>2 DEF Inv, TradersPaired
  <2>2. partner[d] \notin {c, partner[c]}
    BY <1>1, <1>2, <2>1 DEF Inv, TradersPaired
  <2>3. trading'[partner[d]] /\ partner'[partner[d]] = d
    BY <2>1, <2>2, EndTradeType
  <2> QED
    BY <1>1, <1>2, <2>1, <2>2, <2>3
<1>3. NoSelf'
  BY EndTradeType DEF Inv, NoSelf
<1> QED
  BY <1>2, <1>3 DEF TradersPaired, Online

-----------------------------------------------------------------------------
(* Typing, action by action.                                               *)
LEMMA EndTypes ==
  ASSUME Inv, NEW c \in Characters,
         Trade_Close(c) \/ Walk(c) \/ Logout(c)
           \/ \E m \in Maps : Warp(c, m)
  PROVE  TypeOK'
<1>1. /\ mapid' \in [Characters -> Maps \cup {Offline}]
      /\ nowhere' \in [Characters -> BOOLEAN]
      /\ inventory' = inventory /\ fault' = fault
  <2>1. CASE Trade_Close(c) \/ Walk(c)
    BY <2>1 DEF Trade_Close, Walk, place, Inv, TypeOK
  <2>2. CASE Logout(c)
    BY <2>2 DEF Logout, Inv, TypeOK
  <2>3. CASE \E m \in Maps : Warp(c, m)
    BY <2>3 DEF Warp, Inv, TypeOK
  <2> QED
    BY <2>1, <2>2, <2>3
<1>2. CASE trading[c] /\ EndTrade(c)
  BY <1>1, <1>2, EndTradeType DEF Inv, TypeOK
<1>3. CASE UNCHANGED sides
  BY <1>1, <1>3 DEF sides, Inv, TypeOK
<1> QED
  BY <1>2, <1>3 DEF Trade_Close, Walk, Logout, Warp, EndAnyTrade

LEMMA ChangeOfferType ==
  ASSUME Inv, NEW c \in Characters, NEW i \in Items, NEW n \in Nat,
         ChangeOffer(c, i, n)
  PROVE  TypeOK'
<1>1. offer' \in [Characters -> Amounts]
  BY DEF ChangeOffer, Inv, TypeOK, Amounts
<1>2. agree' \in [Characters -> BOOLEAN]
  BY DEF ChangeOffer, Set, Inv, TypeOK
<1> QED
  BY <1>1, <1>2 DEF ChangeOffer, place, Inv, TypeOK

LEMMA HasItemIsNatural ==
  ASSUME TypeOK, NEW c \in Characters, NEW i \in Items
  PROVE  /\ inventory[c][i] \in Nat /\ offer[c][i] \in Nat
         /\ HasItem(c, i) \in Nat
BY DEF TypeOK, Amounts, HasItem

LEMMA SwappedType ==
  ASSUME Inv, NEW c \in Characters, trading[c]
  PROVE  Swapped(c) \in [Characters -> Amounts]
<1>1. \A d \in Characters, i \in Items :
        inventory[d][i] \in Nat /\ offer[d][i] \in Nat
  BY HasItemIsNatural DEF Inv
<1>2. partner[c] \in Characters
  BY DEF Inv, TradersPaired
<1>3. \A i \in Items :
        /\ Added(Deleted(inventory[partner[c]][i], offer[partner[c]][i]),
                 offer[c][i]) \in Nat
        /\ Deleted(Added(inventory[c][i], offer[partner[c]][i]),
                   offer[c][i]) \in Nat
  BY <1>1, <1>2, AmountsAreNatural
<1>4. inventory \in [Characters -> Amounts]
  BY DEF Inv, TypeOK
<1> QED
  BY <1>2, <1>3, <1>4 DEF Swapped, Amounts

LEMMA TypeStep == ASSUME Inv, [Next]_vars PROVE TypeOK'
<1>0. TypeOK
  BY DEF Inv
<1>1. CASE UNCHANGED vars
  BY <1>0, <1>1 DEF vars, TypeOK
<1>2. CASE UNCHANGED <<place, sides, inventory>> /\ fault' = TRUE
  BY <1>0, <1>2 DEF place, sides, TypeOK
<1>3. ASSUME NEW c \in Characters, TradeStep(c) PROVE TypeOK'
  <2>1. CASE \E i \in Items, n \in -1..MaxTrade + 1 : Trade_Add(c, i, n)
    <3>1. PICK i \in Items, n \in -1..MaxTrade + 1 : Trade_Add(c, i, n)
      BY <2>1
    <3> DEFINE has == IF TradeAddQuantity THEN HasItem(c, i)
                      ELSE inventory[c][i]
               amount == IF n > has THEN has ELSE n
               total == IF TradeAddQuantity THEN offer[c][i] + amount
                        ELSE amount
    <3>2. has \in Nat /\ offer[c][i] \in Nat
      BY <1>0, HasItemIsNatural
    <3>3. Tradeable(amount, total)
          /\ (ChangeOffer(c, i, total) \/ QuestWarpsTrader)
      BY <3>1 DEF Trade_Add
    <3>4. total \in Nat
      BY <3>2, <3>3 DEF Tradeable
    <3> QED
      BY <3>3, <3>4, <1>2, ChangeOfferType DEF QuestWarpsTrader
  <2>2. CASE \E i \in Items : Trade_Remove(c, i)
    BY <2>2, <1>2, ChangeOfferType DEF Trade_Remove, QuestWarpsTrader
  <2>3. CASE Disagree(c)
    BY <2>3, <1>0 DEF Disagree, place, TypeOK
  <2>4. CASE Agree(c)
    <3>1. partner[c] \in Characters
      BY <2>4 DEF Agree, Inv, TradersPaired
    <3>2. <<offer[c], offer[partner[c]]>> \in Amounts \X Amounts
      BY <3>1, <1>0 DEF TypeOK
    <3> QED
      BY <2>4, <3>2, <1>0 DEF Agree, place, TypeOK
  <2>5. CASE Exchange(c)
    <3>1. CASE QuestWarpsTrader
      BY <3>1, <1>2 DEF QuestWarpsTrader
    <3>2. CASE inventory' = Swapped(c) /\ EndTrade(c)
               /\ UNCHANGED <<place, fault>>
      BY <2>5, <3>2, <1>0, EndTradeType, SwappedType
         DEF Exchange, place, TypeOK
    <3> QED
      BY <2>5, <3>1, <3>2 DEF Exchange
  <2>6. CASE Trade_Close(c) \/ Walk(c)
    BY <2>6, EndTypes
  <2> QED
    BY <1>3, <2>1, <2>2, <2>3, <2>4, <2>5, <2>6 DEF TradeStep
<1>4. ASSUME NEW c \in Characters, CharacterStep(c) PROVE TypeOK'
  <2>1. CASE \E v \in Characters : Trade_Request(c, v)
    BY <2>1, <1>0 DEF Trade_Request, place, TypeOK
  <2>2. CASE \E v \in Characters : Trade_Accept(c, v)
    <3>1. trading' \in [Characters -> BOOLEAN]
          /\ agree' \in [Characters -> BOOLEAN]
      BY <2>2, <1>0 DEF Trade_Accept, Open, Set, TypeOK
    <3> QED
      BY <2>2, <3>1, <1>0 DEF Trade_Accept, place, TypeOK
  <2>3. CASE \E m \in Maps : DeathRespawn(c, m)
    <3>1. inventory' \in [Characters -> Amounts]
      BY <2>3, <1>0, NothingIsAmounts DEF DeathRespawn, TypeOK
    <3> QED
      BY <2>3, <3>1, <1>0 DEF DeathRespawn, sides, TypeOK
  <2>4. CASE \E m \in Maps, b \in BOOLEAN : Login(c, m, b)
    BY <2>4, <1>0 DEF Login, TypeOK
  <2>5. CASE Logout(c) \/ \E m \in Maps : Warp(c, m)
    BY <2>5, EndTypes
  <2>6. CASE \E i \in Items, n \in 1..MaxItem : Spend(c, i, n) \/ Receive(c, i, n)
    <3>1. PICK i \in Items, n \in 1..MaxItem :
            Spend(c, i, n) \/ Receive(c, i, n)
      BY <2>6
    <3>2. Deleted(inventory[c][i], n) \in Nat /\ Added(inventory[c][i], n) \in Nat
      BY <1>0, HasItemIsNatural, AmountsAreNatural
    <3>3. PICK v \in Nat : inventory' = [inventory EXCEPT ![c][i] = v]
      BY <3>1, <3>2 DEF Spend, Receive
    <3>4. inventory' \in [Characters -> Amounts]
      BY <3>3, <1>0 DEF TypeOK, Amounts
    <3> QED
      BY <3>1, <3>4, <1>0 DEF Spend, Receive, place, sides, TypeOK
  <2> QED
    BY <1>4, <2>1, <2>2, <2>3, <2>4, <2>5, <2>6 DEF CharacterStep
<1> QED
  BY <1>1, <1>3, <1>4 DEF Next

-----------------------------------------------------------------------------
(* The pairing, action by action.                                          *)
LEMMA PairStep == ASSUME Inv, [Next]_vars PROVE TradersPaired' /\ NoSelf'
<1>0. TypeOK /\ TradersPaired /\ NoSelf
  BY DEF Inv
<1>1. CASE UNCHANGED <<mapid, trading, partner>>
  BY <1>0, <1>1 DEF TradersPaired, NoSelf, Online
<1>2. ASSUME NEW c \in Characters, TradeStep(c)
      PROVE  TradersPaired' /\ NoSelf'
  <2>1. CASE \/ \E i \in Items, n \in -1..MaxTrade + 1 : Trade_Add(c, i, n)
             \/ \E i \in Items : Trade_Remove(c, i)
             \/ Disagree(c) \/ Agree(c)
    BY <2>1, <1>1 DEF Trade_Add, Trade_Remove, ChangeOffer, QuestWarpsTrader,
                      Disagree, Agree, place, sides
  <2>2. CASE Exchange(c) \/ Trade_Close(c) \/ Walk(c)
    <3>1. CASE UNCHANGED sides /\ UNCHANGED place
      BY <3>1, <1>1 DEF sides, place
    <3>2. CASE trading[c] /\ EndTrade(c) /\ UNCHANGED place
      BY <3>2, EndTradePairs DEF place, Online
    <3> QED
      BY <2>2, <3>1, <3>2 DEF Exchange, QuestWarpsTrader, Trade_Close, Walk
  <2> QED
    BY <1>2, <2>1, <2>2 DEF TradeStep
<1>3. ASSUME NEW c \in Characters, CharacterStep(c)
      PROVE  TradersPaired' /\ NoSelf'
  <2>1. CASE \E v \in Characters : Trade_Request(c, v)
    BY <2>1, <1>0 DEF Trade_Request, place, TypeOK, TradersPaired, NoSelf,
                      Online
  <2>2. CASE \E v \in Characters : Trade_Accept(c, v)
    <3>1. PICK v \in Characters : Trade_Accept(c, v)
      BY <2>2
    <3>2. /\ v # c /\ Online(c) /\ Online(v) /\ mapid' = mapid
          /\ ~trading[c] /\ ~trading[v]
      BY <3>1, <1>0 DEF Trade_Accept, NoSelf, Online, place
    <3>3. /\ partner' = [partner EXCEPT ![c] = v] /\ partner[v] = c
          /\ \A d \in Characters : trading'[d] =
               IF d \in {c, v} THEN TRUE ELSE trading[d]
      BY <3>1, <1>0 DEF Trade_Accept, Open, Set, TypeOK
    <3> QED
      BY <3>2, <3>3, <1>0 DEF TypeOK, TradersPaired, NoSelf, Online
  <2>3. CASE \E m \in Maps : DeathRespawn(c, m)
    BY <2>3, <1>0 DEF DeathRespawn, sides, TypeOK, TradersPaired, NoSelf,
                      Online
  <2>4. CASE \E m \in Maps, b \in BOOLEAN : Login(c, m, b)
    <3>1. PICK m \in Maps, b \in BOOLEAN : Login(c, m, b)
      BY <2>4
    <3>2. ~Online(c) /\ trading' = trading /\ m # Offline
          /\ mapid' = [mapid EXCEPT ![c] = m]
      BY <3>1 DEF Login
    <3>3. \A d \in Characters : partner'[d] = partner[d] \/ partner'[d] = Nobody
      BY <3>1, <1>0 DEF Login, TypeOK
    <3>4. \A d \in Characters : trading[d] => partner'[d] = partner[d]
      BY <3>1, <3>2, <1>0 DEF Login, TypeOK, TradersPaired
    <3> QED
      BY <3>2, <3>3, <3>4, <1>0 DEF TypeOK, TradersPaired, NoSelf, Online
  <2>5. CASE Logout(c) \/ \E m \in Maps : Warp(c, m)
    <3>1. \A d \in Characters : d # c => mapid'[d] = mapid[d]
      BY <2>5, <1>0 DEF Logout, Warp, TypeOK
    <3>2. CASE trading[c]
      BY <2>5, <3>1, <3>2, EndTradePairs DEF Logout, Warp, EndAnyTrade, Online
    <3>3. CASE ~trading[c]
      <4>1. trading' = trading /\ partner' = partner
        BY <2>5, <3>3 DEF Logout, Warp, EndAnyTrade, sides
      <4> QED
        BY <3>1, <3>3, <4>1, <1>0 DEF TradersPaired, NoSelf, Online
    <3> QED
      BY <3>2, <3>3
  <2>6. CASE \E i \in Items, n \in 1..MaxItem : Spend(c, i, n) \/ Receive(c, i, n)
    BY <2>6, <1>1 DEF Spend, Receive, place, sides
  <2> QED
    BY <1>3, <2>1, <2>2, <2>3, <2>4, <2>5, <2>6 DEF CharacterStep
<1>4. CASE UNCHANGED vars
  BY <1>4, <1>1 DEF vars
<1> QED
  BY <1>2, <1>3, <1>4 DEF Next

LEMMA Invariance == Spec => []Inv
<1>1. Inv /\ [Next]_vars => Inv'
  BY TypeStep, PairStep DEF Inv
<1> QED
  BY InvInit, <1>1, PTL DEF Spec

(* Every variable keeps its type; no amount ever becomes negative.         *)
THEOREM TypeCorrect == Spec => []TypeOK
<1>1. Inv => TypeOK
  BY DEF Inv
<1> QED
  BY <1>1, Invariance, PTL

(* A trading character always has a partner in the game that trades with   *)
(* it: the handlers of Trade.cpp, Walk.cpp 49-68, Character::Warp and      *)
(* Character::Logout may dereference trade_partner.                        *)
THEOREM TradersArePaired == Spec => []TradersPaired
<1>1. Inv => TradersPaired
  BY DEF Inv
<1> QED
  BY <1>1, Invariance, PTL

-----------------------------------------------------------------------------
(* Agreements.  Within a trade only ChangeOffer touches an offer, and it   *)
(* takes back the agreements of exactly the two sides that see it.         *)
LEMMA AgreedChangeOffer ==
  ASSUME Inv, AgreedToOffers, NEW c \in Characters, trading[c],
         NEW i \in Items, NEW n, ChangeOffer(c, i, n)
  PROVE  AgreedToOffers'
<1> USE DEF Inv, TypeOK
<1>1. \A d \in Characters :
        agree'[d] => d \notin {c, partner[c]} /\ agree[d]
  BY DEF ChangeOffer, Set
<1>2. UNCHANGED <<trading, partner, seen>>
      /\ \A d \in Characters : d # c => offer'[d] = offer[d]
  BY DEF ChangeOffer
<1>3. \A d \in Characters : trading[d] /\ d \notin {c, partner[c]}
        => partner[d] \in Characters \ {c}
  BY DEF TradersPaired
<1> QED
  BY <1>1, <1>2, <1>3 DEF AgreedToOffers

LEMMA AgreedEndTrade ==
  ASSUME Inv, AgreedToOffers, NEW c \in Characters, trading[c], EndTrade(c)
  PROVE  AgreedToOffers'
<1> SUFFICES ASSUME NEW d \in Characters, trading'[d], agree'[d]
             PROVE  seen'[d] = <<offer'[d], offer'[partner'[d]]>>
  BY DEF AgreedToOffers
<1>1. d \notin {c, partner[c]}
  BY EndTradeType
<1>2. /\ trading[d] /\ agree[d] /\ partner'[d] = partner[d]
      /\ offer'[d] = offer[d] /\ seen'[d] = seen[d]
  BY <1>1, EndTradeType
<1>3. partner[d] \in Characters \ {c, partner[c]}
  BY <1>1, <1>2 DEF Inv, TradersPaired
<1>4. offer'[partner[d]] = offer[partner[d]]
  BY <1>3, EndTradeType
<1> QED
  BY <1>2, <1>4 DEF AgreedToOffers

LEMMA AgreedStep ==
  ASSUME Inv, AgreedToOffers, [Next]_vars PROVE AgreedToOffers'
<1>0. TypeOK /\ TradersPaired /\ NoSelf
  BY DEF Inv
<1>1. CASE UNCHANGED sides
  BY <1>1 DEF sides, AgreedToOffers
<1>2. ASSUME NEW c \in Characters, TradeStep(c) PROVE AgreedToOffers'
  <2>1. CASE QuestWarpsTrader
    BY <2>1, <1>1 DEF QuestWarpsTrader
  <2>2. CASE \E i \in Items, n \in -1..MaxTrade + 1 : Trade_Add(c, i, n)
    BY <2>1, <2>2, AgreedChangeOffer DEF Trade_Add
  <2>3. CASE \E i \in Items : Trade_Remove(c, i)
    BY <2>1, <2>3, AgreedChangeOffer DEF Trade_Remove
  <2>4. CASE Disagree(c)
    BY <2>4, <1>0 DEF Disagree, TypeOK, AgreedToOffers
  <2>5. CASE Agree(c)
    BY <2>5, <1>0 DEF Agree, TypeOK, AgreedToOffers
  <2>6. CASE Exchange(c)
    BY <2>1, <2>6, AgreedEndTrade DEF Exchange
  <2>7. CASE Trade_Close(c) \/ Walk(c)
    BY <2>7, AgreedEndTrade DEF Trade_Close, Walk
  <2> QED
    BY <1>2, <2>2, <2>3, <2>4, <2>5, <2>6, <2>7 DEF TradeStep
<1>3. ASSUME NEW c \in Characters, CharacterStep(c) PROVE AgreedToOffers'
  <2>1. CASE \E v \in Characters : Trade_Request(c, v)
    BY <2>1, <1>0 DEF Trade_Request, TypeOK, AgreedToOffers
  <2>2. CASE \E v \in Characters : Trade_Accept(c, v)
    <3>1. PICK v \in Characters : Trade_Accept(c, v)
      BY <2>2
    <3>2. \A d \in Characters : trading'[d] /\ agree'[d] =>
            trading[d] /\ agree[d] /\ partner'[d] = partner[d]
      BY <3>1, <1>0 DEF Trade_Accept, Open, Set, TypeOK
    <3> QED
      BY <3>1, <3>2 DEF Trade_Accept, AgreedToOffers
  <2>3. CASE \E m \in Maps : DeathRespawn(c, m)
    BY <2>3, <1>1 DEF DeathRespawn
  <2>4. CASE \E m \in Maps, b \in BOOLEAN : Login(c, m, b)
    <3>1. PICK m \in Maps, b \in BOOLEAN : Login(c, m, b)
      BY <2>4
    <3>2. \A d \in Characters : trading[d] /\ agree'[d] =>
            agree[d] /\ partner'[d] = partner[d]
      BY <3>1, <1>0 DEF Login, TypeOK, TradersPaired
    <3> QED
      BY <3>1, <3>2 DEF Login, AgreedToOffers
  <2>5. CASE Logout(c) \/ \E m \in Maps : Warp(c, m)
    BY <2>5, <1>1, AgreedEndTrade DEF Logout, Warp, EndAnyTrade
  <2>6. CASE \E i \in Items, n \in 1..MaxItem : Spend(c, i, n) \/ Receive(c, i, n)
    BY <2>6, <1>1 DEF Spend, Receive
  <2> QED
    BY <1>3, <2>1, <2>2, <2>3, <2>4, <2>5, <2>6 DEF CharacterStep
<1>4. CASE UNCHANGED vars
  BY <1>4, <1>1 DEF vars, sides
<1> QED
  BY <1>2, <1>3, <1>4 DEF Next

(* No exchange on a stale agreement (Trade.cpp 131-212): whenever the flag *)
(* of a trader is set, the trader set it with both offers as they are now. *)
THEOREM AgreementsAreCurrent == Spec => []AgreedToOffers
<1>1. Init => AgreedToOffers
  BY DEF Init, AgreedToOffers
<1> QED
  BY <1>1, AgreedStep, Invariance, PTL DEF Spec

-----------------------------------------------------------------------------
(* Traders are together.  A step that moves a character either ends its    *)
(* trade or leaves it nowhere; the trades it is not in do not notice.      *)
LEMMA TogetherUnmoved ==
  ASSUME Inv, TradersTogether, NEW c \in Characters,
         \A d \in Characters \ {c} :
           mapid'[d] = mapid[d] /\ nowhere'[d] = nowhere[d],
         \A d \in Characters : trading'[d] =>
           /\ trading[d] /\ partner'[d] = partner[d]
           /\ c \notin {d, partner[d]}
  PROVE  TradersTogether'
<1> SUFFICES ASSUME NEW d \in Characters, trading'[d],
                    ~nowhere'[d], ~nowhere'[partner'[d]]
             PROVE  mapid'[d] = mapid'[partner'[d]] /\ mapid'[d] # JailMap
  BY DEF TradersTogether
<1>1. trading[d] /\ partner'[d] = partner[d] /\ c \notin {d, partner[d]}
  OBVIOUS
<1>2. partner[d] \in Characters \ {c}
  BY <1>1 DEF Inv, TradersPaired
<1> QED
  BY <1>1, <1>2 DEF TradersTogether

LEMMA TogetherEndTrade ==
  ASSUME Inv, TradersTogether, NEW c \in Characters, trading[c], EndTrade(c),
         \A d \in Characters \ {c} :
           mapid'[d] = mapid[d] /\ nowhere'[d] = nowhere[d]
  PROVE  TradersTogether'
<1>1. ASSUME NEW d \in Characters, trading'[d]
      PROVE  /\ trading[d] /\ partner'[d] = partner[d]
             /\ c \notin {d, partner[d]}
  <2>1. d \notin {c, partner[c]} /\ trading[d] /\ partner'[d] = partner[d]
    BY <1>1, EndTradeType
  <2>2. partner[partner[d]] = d
    BY <2>1 DEF Inv, TradersPaired
  <2> QED
    BY <2>1, <2>2
<1> QED
  BY <1>1, TogetherUnmoved

LEMMA TogetherStep ==
  ASSUME Inv, TradersTogether, [Next]_vars PROVE TradersTogether'
<1>0. TypeOK /\ TradersPaired
  BY DEF Inv
<1>1. CASE UNCHANGED <<mapid, nowhere, trading, partner>>
  BY <1>1 DEF TradersTogether
<1>2. ASSUME NEW c \in Characters, TradeStep(c) PROVE TradersTogether'
  <2>1. CASE \/ \E i \in Items, n \in -1..MaxTrade + 1 : Trade_Add(c, i, n)
             \/ \E i \in Items : Trade_Remove(c, i)
             \/ Disagree(c) \/ Agree(c)
    BY <2>1, <1>1 DEF Trade_Add, Trade_Remove, ChangeOffer, QuestWarpsTrader,
                      Disagree, Agree, place, sides
  <2>2. CASE Exchange(c) \/ Trade_Close(c) \/ Walk(c)
    <3>1. CASE UNCHANGED sides /\ UNCHANGED place
      BY <3>1, <1>1 DEF sides, place
    <3>2. CASE trading[c] /\ EndTrade(c) /\ UNCHANGED place
      BY <3>2, TogetherEndTrade DEF place
    <3> QED
      BY <2>2, <3>1, <3>2 DEF Exchange, QuestWarpsTrader, Trade_Close, Walk
  <2> QED
    BY <1>2, <2>1, <2>2 DEF TradeStep
<1>3. ASSUME NEW c \in Characters, CharacterStep(c) PROVE TradersTogether'
  <2>1. CASE \E v \in Characters : Trade_Request(c, v)
    BY <2>1, <1>0 DEF Trade_Request, place, TypeOK, TradersTogether
  <2>2. CASE \E v \in Characters : Trade_Accept(c, v)
    <3>1. PICK v \in Characters : Trade_Accept(c, v)
      BY <2>2
    <3>2. /\ mapid' = mapid /\ nowhere' = nowhere
          /\ mapid[v] = mapid[c] /\ mapid[c] # JailMap /\ partner[v] = c
      BY <3>1 DEF Trade_Accept, place
    <3>3. /\ partner'[c] = v /\ partner'[v] = IF v = c THEN v ELSE c
          /\ \A d \in Characters \ {c, v} :
               trading'[d] = trading[d] /\ partner'[d] = partner[d]
      BY <3>1, <1>0 DEF Trade_Accept, Open, Set, TypeOK
    <3> QED
      BY <3>2, <3>3 DEF TradersTogether
  <2>3. CASE \E m \in Maps : DeathRespawn(c, m)
    <3>1. PICK m \in Maps : DeathRespawn(c, m)
      BY <2>3
    <3>2. /\ nowhere'[c] /\ trading' = trading /\ partner' = partner
          /\ \A d \in Characters \ {c} :
               mapid'[d] = mapid[d] /\ nowhere'[d] = nowhere[d]
      BY <3>1, <1>0 DEF DeathRespawn, sides, TypeOK
    <3>3. \A d \in Characters : trading[d] => partner[d] \in Characters
      BY <1>0 DEF TradersPaired
    <3> QED
      BY <3>2, <3>3 DEF TradersTogether
  <2>4. CASE \E m \in Maps, b \in BOOLEAN : Login(c, m, b)
    <3>1. PICK m \in Maps, b \in BOOLEAN : Login(c, m, b)
      BY <2>4
    <3>2. /\ ~Online(c) /\ trading' = trading
          /\ \A d \in Characters \ {c} :
               mapid'[d] = mapid[d] /\ nowhere'[d] = nowhere[d]
      BY <3>1, <1>0 DEF Login, TypeOK
    <3>3. ASSUME NEW d \in Characters, trading[d]
          PROVE  partner'[d] = partner[d] /\ c \notin {d, partner[d]}
      <4>1. c # d /\ c # partner[d]
        BY <3>2, <3>3, <1>0 DEF TradersPaired
      <4> QED
        BY <3>1, <4>1, <1>0 DEF Login, TypeOK
    <3> QED
      BY <3>2, <3>3, TogetherUnmoved
  <2>5. CASE Logout(c) \/ \E m \in Maps : Warp(c, m)
    <3>1. \A d \in Characters \ {c} :
            mapid'[d] = mapid[d] /\ nowhere'[d] = nowhere[d]
      BY <2>5, <1>0 DEF Logout, Warp, TypeOK
    <3>2. CASE trading[c]
      BY <2>5, <3>1, <3>2, TogetherEndTrade DEF Logout, Warp, EndAnyTrade
    <3>3. CASE ~trading[c]
      <4>1. trading' = trading /\ partner' = partner
        BY <2>5, <3>3 DEF Logout, Warp, EndAnyTrade, sides
      <4>2. \A d \in Characters : trading[d] => c \notin {d, partner[d]}
        BY <3>3, <1>0 DEF TradersPaired
      <4> QED
        BY <3>1, <4>1, <4>2, TogetherUnmoved
    <3> QED
      BY <3>2, <3>3
  <2>6. CASE \E i \in Items, n \in 1..MaxItem : Spend(c, i, n) \/ Receive(c, i, n)
    BY <2>6, <1>1 DEF Spend, Receive, place, sides
  <2> QED
    BY <1>3, <2>1, <2>2, <2>3, <2>4, <2>5, <2>6 DEF CharacterStep
<1>4. CASE UNCHANGED vars
  BY <1>4, <1>1 DEF vars
<1> QED
  BY <1>2, <1>3, <1>4 DEF Next

(* However a character leaves its map (Character::Warp, Logout, the warp   *)
(* home after DeathRespawn), no trade is left across maps or in jail.      *)
THEOREM TradersAreTogether == Spec => []TradersTogether
<1>1. Init => TradersTogether
  BY DEF Init, TradersTogether
<1> QED
  BY <1>1, TogetherStep, Invariance, PTL DEF Spec

-----------------------------------------------------------------------------
(* What is on offer.  Added and Deleted are monotone enough: neither takes *)
(* a stack within MaxItem out of it.                                       *)
LEMMA AmountBounds ==
  ASSUME NEW a \in 0..MaxItem, NEW n \in 0..MaxItem
  PROVE  /\ Added(a, n) \in a..MaxItem
         /\ Deleted(a, n) \in 0..a
         /\ \A k \in 0..a : n <= a - k => Deleted(a, n) >= k
BY DEF Added, Deleted

LEMMA AmountRange ==
  \A a, n \in 0..MaxItem : /\ Added(a, n) \in 0..MaxItem
                           /\ Deleted(a, n) \in 0..MaxItem
BY DEF Added, Deleted

NoOffer == \A c \in Characters : ~trading[c] => offer[c] = Nothing
Held == \A c \in Characters, i \in Items : inventory[c][i] <= MaxItem
Backed == \A c \in Characters, i \in Items : offer[c][i] <= inventory[c][i]

LEMMA NoOfferStep == ASSUME Inv, NoOffer, [Next]_vars PROVE NoOffer'
<1>0. TypeOK /\ TradersPaired
  BY DEF Inv
<1>1. CASE UNCHANGED <<trading, offer>>
  BY <1>1 DEF NoOffer
<1>2. ASSUME NEW c \in Characters, trading[c], EndTrade(c) PROVE NoOffer'
  <2> SUFFICES ASSUME NEW d \in Characters, ~trading'[d]
               PROVE  offer'[d] = Nothing
    BY DEF NoOffer
  <2> QED
    BY <1>2, EndTradeType DEF NoOffer
<1>3. ASSUME NEW c \in Characters, NEW i \in Items, NEW n, trading[c],
             ChangeOffer(c, i, n)
      PROVE  NoOffer'
  BY <1>0, <1>3 DEF ChangeOffer, NoOffer, TypeOK
<1>4. CASE \E c, v \in Characters : Trade_Accept(c, v)
  BY <1>0, <1>4 DEF Trade_Accept, Open, Set, NoOffer, TypeOK
<1>5. CASE QuestWarpsTrader
  BY <1>1, <1>5 DEF QuestWarpsTrader, sides
<1>6. ASSUME NEW c \in Characters, TradeStep(c) PROVE NoOffer'
  BY <1>6, <1>1, <1>2, <1>3, <1>5
     DEF TradeStep, Trade_Add, Trade_Remove, Disagree, Agree, Exchange,
         Trade_Close, Walk
<1>7. ASSUME NEW c \in Characters, CharacterStep(c) PROVE NoOffer'
  BY <1>7, <1>1, <1>2, <1>4
     DEF CharacterStep, Trade_Request, DeathRespawn, Login, Logout, Warp,
         EndAnyTrade, Spend, Receive, sides
<1>8. CASE UNCHANGED vars
  BY <1>8, <1>1 DEF vars
<1> QED
  BY <1>6, <1>7, <1>8 DEF Next

(* The exchange: each side has what it offers, so that what it gives away  *)
(* comes out of its stacks and no stack passes MaxItem.                    *)
LEMMA ExchangeStock ==
  ASSUME Inv, Held, Backed, NoOffer, NEW c \in Characters, trading[c],
         inventory' = Swapped(c), EndTrade(c)
  PROVE  Held' /\ Backed'
<1> DEFINE p == partner[c]
<1>1. p \in Characters \ {c} /\ TypeOK
  BY DEF Inv, TradersPaired
<1>2. \A d \in Characters, i \in Items :
        /\ inventory[d][i] \in 0..MaxItem /\ offer[d][i] \in 0..MaxItem
  BY <1>1, HasItemIsNatural DEF Held, Backed
<1>3. ASSUME NEW i \in Items
      PROVE  /\ Added(Deleted(inventory[p][i], offer[p][i]), offer[c][i])
                  \in 0..MaxItem
             /\ Deleted(Added(inventory[c][i], offer[p][i]), offer[c][i])
                  \in 0..MaxItem
  <2>1. inventory[p][i] \in 0..MaxItem /\ offer[p][i] \in 0..MaxItem
        /\ inventory[c][i] \in 0..MaxItem /\ offer[c][i] \in 0..MaxItem
    BY <1>1, <1>2
  <2>2. Deleted(inventory[p][i], offer[p][i]) \in 0..MaxItem
        /\ Added(inventory[c][i], offer[p][i]) \in 0..MaxItem
    BY <2>1, AmountRange
  <2> QED
    BY <2>1, <2>2, AmountRange
<1>4. \A d \in Characters, i \in Items :
        inventory'[d][i] \in 0..MaxItem
        /\ (d \notin {c, p} => inventory'[d][i] = inventory[d][i])
  BY <1>1, <1>2, <1>3 DEF Swapped, TypeOK
<1>5. \A d \in Characters, i \in Items : offer'[d][i] <= inventory'[d][i]
  <2> SUFFICES ASSUME NEW d \in Characters, NEW i \in Items
               PROVE  offer'[d][i] <= inventory'[d][i]
    OBVIOUS
  <2>1. CASE d \in {c, p}
    BY <2>1, <1>4, EndTradeType, NothingIsAmounts
  <2>2. CASE d \notin {c, p}
    BY <2>2, <1>4, EndTradeType DEF Backed
  <2> QED
    BY <2>1, <2>2
<1> QED
  BY <1>4, <1>5 DEF Held, Backed

LEMMA StockStep ==
  ASSUME Inv, NoOffer, ~Deadly, Held, Backed, [Next]_vars
  PROVE  Held' /\ Backed'
<1>0. TypeOK /\ TradersPaired
  BY DEF Inv
<1>a. \A d \in Characters, i \in Items :
        inventory[d][i] \in 0..MaxItem /\ offer[d][i] \in Nat
        /\ offer[d][i] <= inventory[d][i]
  BY <1>0, HasItemIsNatural DEF Held, Backed
<1>1. CASE UNCHANGED <<inventory, offer>>
  BY <1>1 DEF Held, Backed
<1>2. ASSUME NEW c \in Characters, trading[c], EndTrade(c),
             UNCHANGED inventory
      PROVE  Held' /\ Backed'
  <2>1. \A d \in Characters : offer'[d] = offer[d] \/ offer'[d] = Nothing
    BY <1>2, EndTradeType
  <2> QED
    BY <1>2, <1>a, <2>1, NothingIsAmounts DEF Held, Backed
<1>3. ASSUME NEW c \in Characters, NEW i \in Items, NEW n \in Nat,
             n <= inventory[c][i], ChangeOffer(c, i, n)
      PROVE  Held' /\ Backed'
  <2>1. inventory' = inventory /\ offer' = [offer EXCEPT ![c][i] = n]
    BY <1>3 DEF ChangeOffer
  <2>2. \A d \in Characters, j \in Items :
          offer'[d][j] = IF d = c /\ j = i THEN n ELSE offer[d][j]
    BY <2>1, <1>0 DEF TypeOK, Amounts
  <2> QED
    BY <1>3, <2>1, <2>2 DEF Held, Backed
<1>4. CASE QuestWarpsTrader
  BY <1>1, <1>4 DEF QuestWarpsTrader, sides
<1>5. ASSUME NEW c \in Characters, NEW i \in Items, NEW n \in -1..MaxTrade + 1,
             Trade_Add(c, i, n)
      PROVE  Held' /\ Backed'
  <2> DEFINE has == IF TradeAddQuantity THEN HasItem(c, i)
                    ELSE inventory[c][i]
             amount == IF n > has THEN has ELSE n
             total == IF TradeAddQuantity THEN offer[c][i] + amount
                      ELSE amount
  <2>1. trading[c] /\ Tradeable(amount, total)
        /\ (ChangeOffer(c, i, total) \/ QuestWarpsTrader)
    BY <1>5 DEF Trade_Add
  <2>2. offer[c][i] + HasItem(c, i) <= inventory[c][i] /\ HasItem(c, i) \in Nat
    BY <1>a, <2>1 DEF HasItem
  <2>3. total \in Nat /\ total <= inventory[c][i]
    BY <1>a, <2>1, <2>2 DEF Tradeable
  <2> QED
    BY <2>1, <2>3, <1>3, <1>4
<1>6. ASSUME NEW c \in Characters, TradeStep(c) PROVE Held' /\ Backed'
  <2>1. CASE \E i \in Items : Trade_Remove(c, i)
    BY <2>1, <1>a, <1>3, <1>4 DEF Trade_Remove
  <2>2. CASE Disagree(c) \/ Agree(c)
    BY <2>2, <1>1 DEF Disagree, Agree
  <2>3. CASE Exchange(c)
    BY <2>3, <1>4, ExchangeStock DEF Exchange
  <2>4. CASE Trade_Close(c) \/ Walk(c)
    BY <2>4, <1>2 DEF Trade_Close, Walk
  <2> QED
    BY <1>6, <1>5, <2>1, <2>2, <2>3, <2>4 DEF TradeStep
<1>7. ASSUME NEW c \in Characters, NEW i \in Items, NEW v \in 0..MaxItem,
             offer[c][i] <= v, inventory' = [inventory EXCEPT ![c][i] = v],
             UNCHANGED offer
      PROVE  Held' /\ Backed'
  <2>1. \A d \in Characters, j \in Items :
          inventory'[d][j] = IF d = c /\ j = i THEN v ELSE inventory[d][j]
    BY <1>7, <1>0 DEF TypeOK, Amounts
  <2> QED
    BY <1>7, <2>1 DEF Held, Backed
<1>8. ASSUME NEW c \in Characters, NEW i \in Items, NEW n \in 1..MaxItem,
             Spend(c, i, n)
      PROVE  Held' /\ Backed'
  <2>1. offer[c][i] \in 0..inventory[c][i]
        /\ n <= inventory[c][i] - offer[c][i]
    <3>1. CASE trading[c]
      BY <1>8, <1>a, <3>1 DEF Spend, HasItem
    <3>2. CASE ~trading[c]
      BY <1>8, <1>a, <3>2, NothingIsAmounts DEF Spend, HasItem, NoOffer
    <3> QED
      BY <3>1, <3>2
  <2>2. Deleted(inventory[c][i], n) \in 0..MaxItem
        /\ offer[c][i] <= Deleted(inventory[c][i], n)
    BY <1>a, <2>1, AmountBounds
  <2> QED
    BY <1>8, <2>2, <1>7 DEF Spend, sides
<1>9. ASSUME NEW c \in Characters, NEW i \in Items, NEW n \in 1..MaxItem,
             Receive(c, i, n)
      PROVE  Held' /\ Backed'
  <2>1. Added(inventory[c][i], n) \in 0..MaxItem
        /\ offer[c][i] <= Added(inventory[c][i], n)
    BY <1>a, AmountBounds
  <2> QED
    BY <1>9, <2>1, <1>7 DEF Receive, sides
<1>10. ASSUME NEW c \in Characters, CharacterStep(c) PROVE Held' /\ Backed'
  <2>1. CASE \/ \E v \in Characters : Trade_Request(c, v) \/ Trade_Accept(c, v)
             \/ \E m \in Maps : DeathRespawn(c, m)
             \/ \E m \in Maps, b \in BOOLEAN : Login(c, m, b)
    BY <2>1, <1>1 DEF Trade_Request, Trade_Accept, DeathRespawn, Login, sides
  <2>2. CASE Logout(c) \/ \E m \in Maps : Warp(c, m)
    BY <2>2, <1>1, <1>2 DEF Logout, Warp, EndAnyTrade, sides
  <2> QED
    BY <1>10, <1>8, <1>9, <2>1, <2>2 DEF CharacterStep
<1>11. CASE UNCHANGED vars
  BY <1>11, <1>1 DEF vars
<1> QED
  BY <1>6, <1>10, <1>11 DEF Next

(* Without Deadly an offer is covered by the inventory of its owner at all *)
(* times, so that an exchange (Trade.cpp 151-168) never gives the partner  *)
(* something its owner did not have.                                       *)
THEOREM OffersAreBacked == Spec => []OfferBacked
<1> DEFINE Stock == NoOffer /\ (~Deadly => Held /\ Backed)
<1>1. Init => Stock
  <2>1. ASSUME Init PROVE Held /\ Backed /\ NoOffer
    <3>1. \A c \in Characters : offer[c] = Nothing
      BY <2>1 DEF Init
    <3>2. \A c \in Characters, i \in Items : inventory[c][i] \in 0..MaxItem
      BY <2>1 DEF Init
    <3> QED
      BY <3>1, <3>2, NothingIsAmounts DEF Held, Backed, NoOffer
  <2> QED
    BY <2>1
<1>2. Inv /\ Stock /\ [Next]_vars => Stock'
  BY NoOfferStep, StockStep
<1>3. Stock => OfferBacked
  BY DEF Backed, OfferBacked
<1> QED
  BY <1>1, <1>2, <1>3, Invariance, PTL DEF Spec
-----------------------------------------------------------------------------
(* The limits of an offer.                                                 *)
Limits == \A c \in Characters :
            /\ \A i \in Items : offer[c][i] <= MaxTrade
            /\ IsFiniteSet(Offered(c))
            /\ Cardinality(Offered(c)) <= MaxOffers

(* An offer with one amount replaced has at most that item more.           *)
LEMMA LimitsChangeOffer ==
  ASSUME Inv, Limits, NEW c \in Characters, NEW i \in Items, NEW n \in Nat,
         n <= MaxTrade, n = 0 \/ RoomToOffer(c, i), ChangeOffer(c, i, n)
  PROVE  Limits'
<1>1. \A d \in Characters, j \in Items :
        /\ offer[d][j] \in Nat
        /\ offer'[d][j] = IF d = c /\ j = i THEN n ELSE offer[d][j]
  BY DEF ChangeOffer, Inv, TypeOK, Amounts
<1>2. \A d \in Characters, j \in Items : offer'[d][j] <= MaxTrade
  BY <1>1 DEF Limits
<1>3. ASSUME NEW d \in Characters
      PROVE  /\ IsFiniteSet(Offered(d)')
             /\ Cardinality(Offered(d)') <= MaxOffers
  <2>0. /\ IsFiniteSet(Offered(d)) /\ Cardinality(Offered(d)) <= MaxOffers
        /\ Offered(d)' = {j \in Items : offer'[d][j] > 0}
    BY DEF Limits, Offered
  <2>1. CASE d # c \/ n = 0 \/ i \in Offered(d)
    <3>1. Offered(d)' \subseteq Offered(d)
      BY <1>1, <2>0, <2>1 DEF Offered
    <3>2. /\ IsFiniteSet(Offered(d)')
          /\ Cardinality(Offered(d)') <= Cardinality(Offered(d))
      BY <2>0, <3>1, FS_Subset
    <3>3. Cardinality(Offered(d)) \in Nat /\ Cardinality(Offered(d)') \in Nat
      BY <2>0, <3>2, FS_CardinalityType
    <3> QED
      BY <2>0, <3>2, <3>3
  <2>2. CASE d = c /\ n # 0 /\ i \notin Offered(d)
    <3>1. Offered(d)' = Offered(d) \cup {i}
      BY <1>1, <2>0, <2>2 DEF Offered
    <3>2. /\ IsFiniteSet(Offered(d)')
          /\ Cardinality(Offered(d)') = Cardinality(Offered(d)) + 1
      <4> PICK S : S = Offered(d)
        OBVIOUS
      <4>1. IsFiniteSet(S) /\ i \notin S /\ Offered(d)' = S \cup {i}
        BY <2>0, <2>2, <3>1
      <4>2. /\ IsFiniteSet(S \cup {i})
            /\ Cardinality(S \cup {i}) = Cardinality(S) + 1
        BY <4>1, FS_AddElement
      <4> QED
        BY <4>1, <4>2
    <3>3. Cardinality(Offered(d)) \in Nat
      BY <2>0, FS_CardinalityType
    <3>4. Cardinality(Offered(d)) < MaxOffers
      BY <2>2 DEF RoomToOffer
    <3> QED
      BY <3>2, <3>3, <3>4
  <2> QED
    BY <2>1, <2>2
<1> QED
  BY <1>2, <1>3 DEF Limits

(* Elsewhere offers are left alone or emptied.                             *)
LEMMA LimitsKeptOrEmptied ==
  ASSUME Limits, \A d \in Characters : offer'[d] \in {offer[d], Nothing}
  PROVE  Limits'
<1>1. ASSUME NEW d \in Characters, offer'[d] = offer[d]
      PROVE  /\ \A i \in Items : offer'[d][i] <= MaxTrade
             /\ IsFiniteSet(Offered(d)')
             /\ Cardinality(Offered(d)') <= MaxOffers
  BY <1>1 DEF Limits, Offered
<1>2. ASSUME NEW d \in Characters, offer'[d] = Nothing
      PROVE  /\ \A i \in Items : offer'[d][i] <= MaxTrade
             /\ IsFiniteSet(Offered(d)')
             /\ Cardinality(Offered(d)') <= MaxOffers
  <2>1. Offered(d)' = {}
    BY <1>2, NothingIsAmounts DEF Offered
  <2>2. IsFiniteSet({}) /\ Cardinality({}) = 0
    BY FS_EmptySet
  <2> QED
    BY <1>2, <2>1, <2>2, NothingIsAmounts
<1> QED
  BY <1>1, <1>2 DEF Limits

LEMMA LimitsStep == ASSUME Inv, Limits, [Next]_vars PROVE Limits'
<1>1. CASE UNCHANGED offer
  BY <1>1, LimitsKeptOrEmptied
<1>2. ASSUME NEW c \in Characters, trading[c], EndTrade(c) PROVE Limits'
  <2>1. \A d \in Characters : offer'[d] \in {offer[d], Nothing}
    BY <1>2, EndTradeType
  <2> QED
    BY <2>1, LimitsKeptOrEmptied
<1>3. CASE QuestWarpsTrader
  BY <1>1, <1>3 DEF QuestWarpsTrader, sides
<1>4. ASSUME NEW c \in Characters, NEW i \in Items, NEW n \in -1..MaxTrade + 1,
             Trade_Add(c, i, n)
      PROVE  Limits'
  <2> DEFINE has == IF TradeAddQuantity THEN HasItem(c, i)
                    ELSE inventory[c][i]
             amount == IF n > has THEN has ELSE n
             total == IF TradeAddQuantity THEN offer[c][i] + amount
                      ELSE amount
  <2>1. /\ RoomToOffer(c, i) /\ Tradeable(amount, total)
        /\ (ChangeOffer(c, i, total) \/ QuestWarpsTrader)
    BY <1>4 DEF Trade_Add
  <2>2. has \in Nat /\ offer[c][i] \in Nat
    BY HasItemIsNatural DEF Inv
  <2>3. total \in Nat /\ total <= MaxTrade
    BY <2>1, <2>2 DEF Tradeable
  <2> QED
    BY <2>1, <2>3, <1>3, LimitsChangeOffer
<1>5. ASSUME NEW c \in Characters, TradeStep(c) PROVE Limits'
  <2>1. CASE \E i \in Items : Trade_Remove(c, i)
    BY <2>1, <1>3, LimitsChangeOffer DEF Trade_Remove
  <2>2. CASE Disagree(c) \/ Agree(c)
    BY <2>2, <1>1 DEF Disagree, Agree
  <2>3. CASE Exchange(c) \/ Trade_Close(c) \/ Walk(c)
    BY <2>3, <1>2, <1>3 DEF Exchange, Trade_Close, Walk
  <2> QED
    BY <1>5, <1>4, <2>1, <2>2, <2>3 DEF TradeStep
<1>6. ASSUME NEW c \in Characters, CharacterStep(c) PROVE Limits'
  BY <1>6, <1>1, <1>2
     DEF CharacterStep, Trade_Request, Trade_Accept, DeathRespawn, Login,
         Logout, Warp, EndAnyTrade, Spend, Receive, sides
<1>7. CASE UNCHANGED vars
  BY <1>7, <1>1 DEF vars
<1> QED
  BY <1>5, <1>6, <1>7 DEF Next

(* Only a trader has an offer, within the limits of limits.ini and         *)
(* Trade.cpp, although an offer grows by one packet at a time and amounts  *)
(* from the client may be negative or too large.                           *)
THEOREM OffersAreWithinLimits == Spec => []OfferWithinLimits
<1>1. Init => NoOffer /\ Limits
  <2>1. ASSUME Init PROVE NoOffer /\ Limits
    <3>1. \A c \in Characters : offer[c] = Nothing
      BY <2>1 DEF Init
    <3>2. \A c \in Characters : Offered(c) = {}
      BY <3>1, NothingIsAmounts DEF Offered
    <3>3. IsFiniteSet({}) /\ Cardinality({}) = 0
      BY FS_EmptySet
    <3>4. \A c \in Characters : /\ IsFiniteSet(Offered(c))
                                /\ Cardinality(Offered(c)) = 0
      BY <3>2, <3>3
    <3>5. \A c \in Characters, i \in Items : offer[c][i] <= MaxTrade
      BY <3>1, NothingIsAmounts
    <3> QED
      BY <3>1, <3>4, <3>5 DEF NoOffer, Limits
  <2> QED
    BY <2>1
<1>2. Inv /\ NoOffer /\ Limits /\ [Next]_vars => NoOffer' /\ Limits'
  BY NoOfferStep, LimitsStep
<1>3. NoOffer /\ Limits => OfferWithinLimits
  BY DEF NoOffer, Limits, OfferWithinLimits
<1> QED
  BY <1>1, <1>2, <1>3, Invariance, PTL DEF Spec
-----------------------------------------------------------------------------
(* Trade implements Barter.  First the deals: with the two halves of every *)
(* trade in step, the set of pairs changes like the flags.                 *)
LEMMA DealsArePairs ==
  ASSUME Inv
  PROVE  /\ \A a, b \in Characters :
              {a, b} \in Deals <=> trading[a] /\ partner[a] = b
         /\ UNION Deals = Traders
<1>1. \A c \in Traders : /\ partner[c] \in Traders \ {c}
                         /\ partner[partner[c]] = c
  BY DEF Inv, TradersPaired, Traders
<1>2. ASSUME NEW a \in Characters, NEW b \in Characters, {a, b} \in Deals
      PROVE  trading[a] /\ partner[a] = b
  <2>1. PICK c \in Traders : {a, b} = {c, partner[c]}
    BY <1>2 DEF Deals
  <2> QED
    BY <1>1, <2>1 DEF Traders
<1>3. ASSUME NEW a \in Characters, trading[a]
      PROVE  {a, partner[a]} \in Deals
  BY <1>3 DEF Deals, Traders
<1>4. UNION Deals = Traders
  BY <1>1 DEF Deals
<1> QED
  BY <1>2, <1>3, <1>4

LEMMA TradeHasPartner ==
  ASSUME Inv, NEW c \in Characters, trading[c]
  PROVE  /\ partner[c] \in Characters \ {c} /\ trading[partner[c]]
         /\ partner[partner[c]] = c
         /\ {c, partner[c]} \in Deals
BY DealsArePairs DEF Inv, TradersPaired

LEMMA SameDeals ==
  ASSUME trading' = trading, \A c \in Traders : partner'[c] = partner[c]
  PROVE  Deals' = Deals /\ Traders' = Traders
<1>1. Traders' = Traders
  BY DEF Traders
<1>2. Deals' = {{c, partner'[c]} : c \in Traders}
  BY <1>1 DEF Deals
<1>3. \A c \in Traders : {c, partner'[c]} = {c, partner[c]}
  OBVIOUS
<1> QED
  BY <1>1, <1>2, <1>3 DEF Deals

(* The end of a trade, with or without an exchange, closes one deal.       *)
LEMMA EndTradeCloses ==
  ASSUME Inv, NEW c \in Characters, trading[c], EndTrade(c)
  PROVE  Deal!Close(c, partner[c])
<1> DEFINE p == partner[c]
           both == {c, p}
<1>0. /\ p \in Characters \ {c} /\ trading[p] /\ partner[p] = c
      /\ both \in Deals
  BY TradeHasPartner
<1>1. \A d \in Characters :
        /\ d \in both => ~trading'[d] /\ offer'[d] = Nothing
        /\ d \notin both =>
             /\ trading'[d] = trading[d] /\ partner'[d] = partner[d]
             /\ agree'[d] = agree[d] /\ offer'[d] = offer[d]
  BY EndTradeType
<1>2. offer' \in [Characters -> Amounts]
  BY EndTradeType
<1> HIDE DEF both
<1>3. Traders' = Traders \ both
  BY <1>1 DEF Traders
<1>4. Deals' = Deals \ {both}
  <2>1. ASSUME NEW x \in Deals' PROVE x \in Deals \ {both}
    <3>1. PICK d \in Traders' : x = {d, partner'[d]}
      BY DEF Deals
    <3>2. d \in Traders \ both /\ d \in Characters
      BY <1>3 DEF Traders
    <3>3. x = {d, partner[d]}
      BY <3>1, <3>2, <1>1
    <3>4. x # both
      BY <3>2, <3>3
    <3> QED
      BY <3>2, <3>3, <3>4 DEF Deals
  <2>2. ASSUME NEW x \in Deals, x # both PROVE x \in Deals'
    <3>1. PICK d \in Traders : x = {d, partner[d]}
      BY DEF Deals
    <3>2. d \notin both
      BY <3>1, <2>2, <1>0 DEF both
    <3>3. d \in Traders' /\ d \in Characters
      BY <3>2, <1>3 DEF Traders
    <3>4. x = {d, partner'[d]}
      BY <3>1, <3>2, <3>3, <1>1
    <3>5. Deals' = {{e, partner'[e]} : e \in Traders'}
      BY DEF Deals
    <3> QED
      BY <3>3, <3>4, <3>5
  <2> QED
    BY <2>1, <2>2
<1>5. Consenting' = Consenting \ both
  BY <1>1, <1>3 DEF Consenting, Traders
<1>6. offer' = [d \in Characters |-> IF d \in both THEN Deal!None
                                     ELSE offer[d]]
  BY <1>1, <1>2 DEF Deal!None, Nothing
<1> QED
  BY <1>0, <1>4, <1>5, <1>6 DEF Deal!Close, both

LEMMA AcceptOpens ==
  ASSUME Inv, NEW c \in Characters, NEW v \in Characters, Trade_Accept(c, v)
  PROVE  Deal!Open(c, v)
<1>1. /\ c # v /\ ~trading[c] /\ ~trading[v] /\ partner[v] = c
      /\ partner' = [partner EXCEPT ![c] = v]
      /\ UNCHANGED <<offer, inventory>>
  BY DEF Trade_Accept, Inv, NoSelf
<1>2. \A d \in Characters :
        /\ trading'[d] = IF d \in {c, v} THEN TRUE ELSE trading[d]
        /\ agree'[d] = IF d \in {c, v} THEN FALSE ELSE agree[d]
  BY DEF Trade_Accept, Open, Set, Inv, TypeOK
<1>3. /\ partner'[c] = v /\ partner'[v] = c
      /\ \A d \in Characters \ {c} : partner'[d] = partner[d]
  BY <1>1 DEF Inv, TypeOK
<1>4. Traders' = Traders \cup {c, v} /\ {c, v} \cap Traders = {}
  BY <1>1, <1>2 DEF Traders
<1>5. Consenting' = Consenting
  BY <1>1, <1>2, <1>4 DEF Consenting, Traders
<1>6. Deals' = Deals \cup {{c, v}}
  <2>1. Deals' = {{d, partner'[d]} : d \in Traders'}
    BY DEF Deals
  <2>2. {c, partner'[c]} = {c, v} /\ {v, partner'[v]} = {c, v}
    BY <1>3
  <2>3. \A d \in Traders : {d, partner'[d]} = {d, partner[d]}
    BY <1>3, <1>4 DEF Traders
  <2>4. ASSUME NEW x \in Deals' PROVE x \in Deals \cup {{c, v}}
    <3>1. PICK d \in Traders \cup {c, v} : x = {d, partner'[d]}
      BY <2>1, <1>4
    <3> QED
      BY <3>1, <2>2, <2>3 DEF Deals
  <2>5. ASSUME NEW x \in Deals PROVE x \in Deals'
    <3>1. PICK d \in Traders : x = {d, partner[d]}
      BY DEF Deals
    <3> QED
      BY <3>1, <2>1, <2>3, <1>4
  <2>6. {c, v} \in Deals'
    BY <2>1, <2>2, <1>4
  <2> QED
    BY <2>4, <2>5, <2>6
<1>7. {c, v} \cap UNION Deals = {}
  BY <1>4, DealsArePairs
<1> QED
  BY <1>1, <1>5, <1>6, <1>7 DEF Deal!Open, Deal!Dealing

(* A changed offer, within what the trader has, voids both agreements.     *)
LEMMA ChangeOfferChanges ==
  ASSUME Inv, NEW c \in Characters, NEW i \in Items, NEW n \in Nat,
         trading[c], ChangeOffer(c, i, n), Backed'
  PROVE  Deal!ChangeOffer(c, partner[c])
<1> DEFINE p == partner[c]
<1>0. p \in Characters \ {c} /\ {c, p} \in Deals
  BY TradeHasPartner
<1>1. /\ UNCHANGED <<trading, partner, inventory>>
      /\ offer' = [offer EXCEPT ![c][i] = n]
      /\ \A d \in Characters : agree'[d] = IF d \in {c, p} THEN FALSE
                                           ELSE agree[d]
  BY DEF ChangeOffer, Set, Inv, TypeOK
<1>2. Deals' = Deals /\ Traders' = Traders
  BY <1>1, SameDeals
<1>3. Consenting' = Consenting \ {c, p}
  BY <1>1, <1>2 DEF Consenting, Traders
<1>4. \A d \in Characters \ {c} : offer'[d] = offer[d]
  BY <1>1 DEF Inv, TypeOK
<1>5. Deal!Backed(inventory[c], offer'[c])
  BY <1>1 DEF Backed, Deal!Backed
<1> QED
  BY <1>0, <1>1, <1>2, <1>3, <1>4, <1>5 DEF Deal!ChangeOffer

LEMMA AgreementConsents ==
  ASSUME Inv, NEW c \in Characters, Agree(c) \/ Disagree(c)
  PROVE  Deal!Consent(c)
<1>1. /\ trading[c] /\ UNCHANGED <<trading, partner, offer, inventory>>
      /\ \E b \in BOOLEAN : agree' = [agree EXCEPT ![c] = b]
  BY DEF Agree, Disagree
<1>2. Deals' = Deals /\ Traders' = Traders
  BY <1>1, SameDeals
<1>3. c \in UNION Deals
  BY <1>1, DealsArePairs DEF Traders
<1>4. \A d \in Characters \ {c} : agree'[d] = agree[d]
  BY <1>1 DEF Inv, TypeOK
<1>5. \A x : x # c => (x \in Consenting' <=> x \in Consenting)
  BY <1>2, <1>4 DEF Consenting, Traders
<1>6. Consenting' = Consenting \cup {c} \/ Consenting' = Consenting \ {c}
  <2>1. CASE c \in Consenting'
    BY <2>1, <1>5
  <2>2. CASE c \notin Consenting'
    BY <2>2, <1>5
  <2> QED
    BY <2>1, <2>2
<1> QED
  BY <1>1, <1>2, <1>3, <1>6 DEF Deal!Consent, Deal!Dealing

(* The exchange: what each side gets is what Barter says is due to it,     *)
(* cut down to MaxItem.                                                    *)
LEMMA AmountsDue ==
  ASSUME NEW a \in 0..MaxItem, NEW n \in 0..a, NEW m \in 0..MaxItem
  PROVE  /\ Added(Deleted(a, n), m) <= a - n + m
         /\ Deleted(Added(a, m), n) <= a - n + m
         /\ a + m <= MaxItem => /\ Added(Deleted(a, n), m) = a - n + m
                                /\ Deleted(Added(a, m), n) = a - n + m
<1>1. Deleted(a, n) = a - n
  BY DEF Deleted
<1>2. Added(a - n, m) <= a - n + m
      /\ (a - n + m <= MaxItem => Added(a - n, m) = a - n + m)
  BY DEF Added
<1>3. /\ Added(a, m) \in a..a + m
      /\ a + m <= MaxItem => Added(a, m) = a + m
  BY DEF Added
<1>4. \A x \in a..a + m : Deleted(x, n) = x - n
  BY DEF Deleted
<1>5. Deleted(Added(a, m), n) = Added(a, m) - n
  BY <1>3, <1>4
<1> QED
  BY <1>1, <1>2, <1>3, <1>5

LEMMA ExchangeSwaps ==
  ASSUME Inv, Held, Backed, NEW c \in Characters, trading[c],
         agree[partner[c]], inventory' = Swapped(c), EndTrade(c)
  PROVE  Deal!Swap(c, partner[c])
<1> DEFINE p == partner[c]
<1>0. p \in Characters \ {c} /\ trading[p]
  BY TradeHasPartner
<1>1. p \in Consenting
  BY <1>0 DEF Consenting, Traders
<1>2. /\ \A d \in Characters, i \in Items :
           inventory[d][i] \in 0..MaxItem /\ offer[d][i] \in 0..inventory[d][i]
      /\ inventory \in [Characters -> Amounts]
  BY HasItemIsNatural DEF Held, Backed, Inv, TypeOK
<1>3. /\ \A d \in Characters \ {c, p} : inventory'[d] = inventory[d]
      /\ \A i \in Items :
           /\ inventory'[p][i] = Added(Deleted(inventory[p][i], offer[p][i]),
                                       offer[c][i])
           /\ inventory'[c][i] = Deleted(Added(inventory[c][i], offer[p][i]),
                                         offer[c][i])
  BY <1>0, <1>2 DEF Swapped
<1>4. Deal!Receives(c, p)
  <2> SUFFICES ASSUME NEW i \in Items
               PROVE  /\ inventory'[c][i] <= Deal!Due(c, p, i)
                      /\ inventory[c][i] + offer[p][i] <= MaxItem
                           => inventory'[c][i] = Deal!Due(c, p, i)
    BY DEF Deal!Receives
  <2>1. /\ inventory[c][i] \in 0..MaxItem
        /\ offer[c][i] \in 0..inventory[c][i]
        /\ offer[p][i] \in 0..MaxItem
    BY <1>0, <1>2
  <2> QED
    BY <2>1, <1>3, AmountsDue DEF Deal!Due
<1>5. Deal!Receives(p, c)
  <2> SUFFICES ASSUME NEW i \in Items
               PROVE  /\ inventory'[p][i] <= Deal!Due(p, c, i)
                      /\ inventory[p][i] + offer[c][i] <= MaxItem
                           => inventory'[p][i] = Deal!Due(p, c, i)
    BY DEF Deal!Receives
  <2>1. /\ inventory[p][i] \in 0..MaxItem
        /\ offer[p][i] \in 0..inventory[p][i]
        /\ offer[c][i] \in 0..MaxItem
    BY <1>0, <1>2
  <2>2. /\ inventory'[p][i] <= inventory[p][i] - offer[p][i] + offer[c][i]
        /\ inventory[p][i] + offer[c][i] <= MaxItem
             => inventory'[p][i] = inventory[p][i] - offer[p][i] + offer[c][i]
    <3> PICK a \in 0..MaxItem : a = inventory[p][i]
      BY <2>1
    <3> PICK n \in 0..a : n = offer[p][i]
      BY <2>1
    <3> PICK m \in 0..MaxItem : m = offer[c][i]
      BY <2>1
    <3>1. inventory'[p][i] \in {Added(Deleted(a, n), m), Deleted(Added(a, m), n)}
      BY <1>3
    <3>2. /\ Added(Deleted(a, n), m) <= a - n + m
          /\ Deleted(Added(a, m), n) <= a - n + m
          /\ a + m <= MaxItem => /\ Added(Deleted(a, n), m) = a - n + m
                                 /\ Deleted(Added(a, m), n) = a - n + m
      BY AmountsDue
    <3> QED
      BY <3>1, <3>2
  <2> QED
    BY <2>2 DEF Deal!Due
<1>6. Deal!Close(c, p)
  BY EndTradeCloses
<1> QED
  BY <1>1, <1>3, <1>4, <1>5, <1>6 DEF Deal!Swap

(* Earning and spending touch nothing that is on offer.                    *)
LEMMA EarningLives ==
  ASSUME Inv, Backed', NEW c \in Characters, NEW i \in Items, NEW n,
         inventory' = [inventory EXCEPT ![c][i] = n], UNCHANGED sides
  PROVE  Deal!Live(c)
<1>1. \A d \in Characters \ {c} : inventory'[d] = inventory[d]
  BY DEF Inv, TypeOK
<1>2. Deal!Backed(inventory'[c], offer[c])
  BY DEF sides, Backed, Deal!Backed
<1>3. Deals' = Deals /\ Consenting' = Consenting
  BY SameDeals DEF sides, Consenting
<1> QED
  BY <1>1, <1>2, <1>3 DEF sides, Deal!Live

LEMMA BarterInit == ASSUME Init PROVE Deal!BInit
<1>1. /\ inventory \in [Characters -> [Items -> Nat]]
      /\ offer = [c \in Characters |-> [i \in Items |-> 0]]
      /\ Traders = {}
  BY DEF Init, Nothing, Traders
<1>2. Deals = {} /\ Consenting = {}
  BY <1>1 DEF Deals, Consenting
<1> QED
  BY <1>1, <1>2 DEF Deal!BInit, Deal!Bundles, Deal!None

(* Every step of a handler is a step of Barter or leaves it alone.         *)
LEMMA BarterStep ==
  ASSUME Inv, NoOffer, ~Deadly, Held, Backed, [Next]_vars
  PROVE  [Deal!BNext]_Deal!bvars
<1>0. Held' /\ Backed' /\ TypeOK
  BY StockStep DEF Inv
<1>1. ASSUME UNCHANGED <<trading, offer, inventory>>,
             \A c \in Traders : partner'[c] = partner[c] /\ agree'[c] = agree[c]
      PROVE  UNCHANGED Deal!bvars
  <2>1. Deals' = Deals /\ Traders' = Traders
    BY <1>1, SameDeals
  <2>2. Consenting' = Consenting
    BY <1>1, <2>1 DEF Consenting
  <2> QED
    BY <1>1, <2>1, <2>2 DEF Deal!bvars
<1>2. CASE UNCHANGED <<sides, inventory>>
  BY <1>1, <1>2 DEF sides
<1>3. ASSUME NEW c \in Characters, trading[c], EndTrade(c),
             UNCHANGED inventory
      PROVE  Deal!BNext
  <2>1. Deal!Cancel(c, partner[c]) /\ partner[c] \in Characters
    BY <1>3, EndTradeCloses, TradeHasPartner DEF Deal!Cancel
  <2> QED
    BY <2>1 DEF Deal!BNext
<1>4. ASSUME NEW c \in Characters, NEW i \in Items, NEW n \in Nat,
             trading[c], ChangeOffer(c, i, n)
      PROVE  Deal!BNext
  <2>1. Deal!ChangeOffer(c, partner[c]) /\ partner[c] \in Characters
    BY <1>0, <1>4, ChangeOfferChanges, TradeHasPartner
  <2> QED
    BY <2>1 DEF Deal!BNext
<1>5. CASE QuestWarpsTrader
  BY <1>2, <1>5 DEF QuestWarpsTrader
<1>6. ASSUME NEW c \in Characters, TradeStep(c)
      PROVE  [Deal!BNext]_Deal!bvars
  <2>1. CASE \E i \in Items, n \in -1..MaxTrade + 1 : Trade_Add(c, i, n)
    <3>1. PICK i \in Items, n \in -1..MaxTrade + 1 : Trade_Add(c, i, n)
      BY <2>1
    <3> DEFINE has == IF TradeAddQuantity THEN HasItem(c, i)
                      ELSE inventory[c][i]
               amount == IF n > has THEN has ELSE n
               total == IF TradeAddQuantity THEN offer[c][i] + amount
                        ELSE amount
    <3>2. trading[c] /\ Tradeable(amount, total)
          /\ (ChangeOffer(c, i, total) \/ QuestWarpsTrader)
      BY <3>1 DEF Trade_Add
    <3>3. has \in Nat /\ offer[c][i] \in Nat
      BY <1>0, HasItemIsNatural
    <3>4. total \in Nat
      BY <3>2, <3>3 DEF Tradeable
    <3> QED
      BY <3>2, <3>4, <1>4, <1>5
  <2>2. CASE \E i \in Items : Trade_Remove(c, i)
    BY <2>2, <1>4, <1>5 DEF Trade_Remove
  <2>3. CASE Disagree(c) \/ Agree(c)
    BY <2>3, AgreementConsents DEF Deal!BNext
  <2>4. CASE Exchange(c)
    <3>1. CASE inventory' = Swapped(c) /\ EndTrade(c)
      <4>1. Deal!Swap(c, partner[c]) /\ partner[c] \in Characters
        BY <2>4, <3>1, ExchangeSwaps, TradeHasPartner DEF Exchange
      <4> QED
        BY <4>1 DEF Deal!BNext
    <3> QED
      BY <2>4, <3>1, <1>5 DEF Exchange
  <2>5. CASE Trade_Close(c) \/ Walk(c)
    BY <2>5, <1>3 DEF Trade_Close, Walk
  <2> QED
    BY <1>6, <2>1, <2>2, <2>3, <2>4, <2>5 DEF TradeStep
<1>7. ASSUME NEW c \in Characters, CharacterStep(c)
      PROVE  [Deal!BNext]_Deal!bvars
  <2>1. CASE \E v \in Characters : Trade_Request(c, v)
    <3>1. \A d \in Traders : partner'[d] = partner[d]
      BY <2>1, <1>0 DEF Trade_Request, TypeOK, Traders
    <3> QED
      BY <2>1, <3>1, <1>1 DEF Trade_Request
  <2>2. CASE \E v \in Characters : Trade_Accept(c, v)
    BY <2>2, AcceptOpens DEF Deal!BNext
  <2>3. CASE \E m \in Maps : DeathRespawn(c, m)
    BY <2>3, <1>2 DEF DeathRespawn, sides
  <2>4. CASE \E m \in Maps, b \in BOOLEAN : Login(c, m, b)
    <3>1. PICK m \in Maps, b \in BOOLEAN : Login(c, m, b)
      BY <2>4
    <3>2. \A d \in Traders : d # c /\ partner[d] # c /\ d \in Characters
      BY <3>1 DEF Login, Traders, Inv, TradersPaired
    <3>3. \A d \in Traders : partner'[d] = partner[d] /\ agree'[d] = agree[d]
      BY <3>1, <3>2, <1>0 DEF Login, TypeOK
    <3> QED
      BY <3>1, <3>3, <1>1 DEF Login
  <2>5. CASE Logout(c) \/ \E m \in Maps : Warp(c, m)
    BY <2>5, <1>2, <1>3 DEF Logout, Warp, EndAnyTrade
  <2>6. CASE \E i \in Items, n \in 1..MaxItem : Spend(c, i, n) \/ Receive(c, i, n)
    <3>1. PICK i \in Items :
            \E n : inventory' = [inventory EXCEPT ![c][i] = n] /\ UNCHANGED sides
      BY <2>6 DEF Spend, Receive
    <3>2. PICK n : inventory' = [inventory EXCEPT ![c][i] = n] /\ UNCHANGED sides
      BY <3>1
    <3> QED
      BY <3>2, <1>0, EarningLives DEF Deal!BNext
  <2> QED
    BY <1>7, <2>1, <2>2, <2>3, <2>4, <2>5, <2>6 DEF CharacterStep
<1>8. CASE UNCHANGED vars
  BY <1>8, <1>2 DEF vars, sides
<1> QED
  BY <1>6, <1>7, <1>8 DEF Next

(* The handlers of Trade.cpp, with the pointers, flags and lists they keep *)
(* in two characters, implement deals with an atomic swap, for any number  *)
(* of characters, items and limits.  In Deadly mode an offer may outlive   *)
(* the goods (DroppedItemsAreGone), so that there the claim would be false. *)
THEOREM TradeImplementsBarter == ASSUME ~Deadly PROVE Spec => KeepsBarter
<1>1. Init => Held /\ Backed /\ NoOffer
  <2>1. ASSUME Init PROVE Held /\ Backed /\ NoOffer
    <3>1. \A c \in Characters : offer[c] = Nothing
      BY <2>1 DEF Init
    <3>2. \A c \in Characters, i \in Items : inventory[c][i] \in 0..MaxItem
      BY <2>1 DEF Init
    <3> QED
      BY <3>1, <3>2, NothingIsAmounts DEF Held, Backed, NoOffer
  <2> QED
    BY <2>1
<1>2. Inv /\ Held /\ Backed /\ NoOffer /\ [Next]_vars
        => Held' /\ Backed' /\ NoOffer'
  BY NoOfferStep, StockStep
<1>3. Init => Deal!BInit
  BY BarterInit
<1>4. Inv /\ Held /\ Backed /\ NoOffer /\ [Next]_vars
        => [Deal!BNext]_Deal!bvars
  BY BarterStep
<1> QED
  BY <1>1, <1>2, <1>3, <1>4, Invariance, PTL
     DEF Spec, KeepsBarter, Deal!BSpec
=============================================================================
