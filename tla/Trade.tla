-------------------------------- MODULE Trade --------------------------------
(***************************************************************************)
(* Trading between two characters: the request, the two sides' offers and  *)
(* agreements, the exchange, and everything that ends a trade or happens   *)
(* to a trader in the middle of one (walking, warping, dying, logging out, *)
(* buying, picking items up).                                              *)
(*                                                                         *)
(* Every action is one packet handler or one event of the server loop,     *)
(* which runs them one at a time.  A trade is not an object in the code:   *)
(* it is a pointer, two flags and a list in each of the two characters,    *)
(* and every handler has to keep the two halves in step.                   *)
(*                                                                         *)
(* The items are those a character may trade: Trade_Add refuses an item    *)
(* whose special is Lore.  Lists with one entry per item id (inventory,    *)
(* trade_inventory) are functions from items to amounts, 0 for no entry.   *)
(* Whether CanInteractItems holds, which an administrator may change at    *)
(* any time, is not modelled: where it fails the handler does nothing.     *)
(***************************************************************************)
EXTENDS Integers, FiniteSets

CONSTANTS Characters, Nobody,   \* Nobody: a null pointer
          Items,
          Maps, JailMap, Offline,
          MaxItem, MaxTrade,    \* options of limits.ini
          INT_MAX,              \* the largest int
          MaxOffers,            \* Trade_Add: distinct items on offer (10)
          RemoveLimit,          \* Trade_Remove: refused beyond it (5)
          TradeAddQuantity, Deadly,  \* options of misc.ini
          QuestsWarp            \* may a quest rule warp a trading character?

ASSUME TradeAssumption ==
  /\ Nobody \notin Characters
  /\ Offline \notin Maps
  /\ JailMap \in Maps
  /\ MaxItem \in Nat /\ MaxTrade \in Nat /\ INT_MAX \in Nat
  /\ MaxItem <= INT_MAX /\ MaxTrade <= INT_MAX
  /\ MaxOffers \in Nat /\ RemoveLimit \in Nat
  /\ {TradeAddQuantity, Deadly, QuestsWarp} \subseteq BOOLEAN

VARIABLES
  mapid,      \* the map of a character, Offline for one that is not in game
  nowhere,    \* has the character died and not been warped home yet?
  trading, partner, agree,  \* trading, trade_partner, trade_agree
  offer,      \* trade_inventory
  inventory,
  seen,       \* history: the two offers a character last agreed to
  fault       \* a handler has dereferenced a null trade_partner

sides == <<trading, partner, agree, offer, seen>>
place == <<mapid, nowhere>>
vars  == <<mapid, nowhere, trading, partner, agree, offer, inventory, seen,
           fault>>

Amounts == [Items -> Nat]
Nothing == [i \in Items |-> 0]

TypeOK == /\ mapid \in [Characters -> Maps \cup {Offline}]
          /\ nowhere \in [Characters -> BOOLEAN]
          /\ trading \in [Characters -> BOOLEAN]
          /\ partner \in [Characters -> Characters \cup {Nobody}]
          /\ agree \in [Characters -> BOOLEAN]
          /\ offer \in [Characters -> Amounts]
          /\ inventory \in [Characters -> Amounts]
          /\ seen \in [Characters -> (Amounts \X Amounts) \cup {<<>>}]
          /\ fault \in BOOLEAN

Init == /\ mapid = [c \in Characters |-> Offline]
        /\ nowhere = [c \in Characters |-> FALSE]
        /\ trading = [c \in Characters |-> FALSE]
        /\ partner = [c \in Characters |-> Nobody]
        /\ agree = [c \in Characters |-> FALSE]
        /\ offer = [c \in Characters |-> Nothing]
        /\ inventory \in [Characters -> [Items -> 0..MaxItem]]
        /\ seen = [c \in Characters |-> <<>>]
        /\ fault = FALSE

-----------------------------------------------------------------------------
Online(c) == mapid[c] # Offline
Offered(c) == {i \in Items : offer[c][i] > 0}
Set(f, S, v) == [x \in DOMAIN f |-> IF x \in S THEN v ELSE f[x]]

(* A mutant of HasItem: include_trade is the default.                      *)
HasItemAll(c, i) == inventory[c][i]

(* HasItem without include_trade: what a character has and has not offered.*)
HasItem(c, i) == IF trading[c] /\ inventory[c][i] > offer[c][i]
                 THEN inventory[c][i] - offer[c][i]
                 ELSE IF trading[c] THEN 0 ELSE inventory[c][i]

(* The amount of one item after AddItem and after DelItem of n of it.  A   *)
(* sum that overflows refuses the whole addition, a stack is cut down to   *)
(* MaxItem, and deleting takes what there is.                              *)
Added(amount, n) == IF amount > 0 /\ amount + n > INT_MAX THEN amount
                    ELSE IF amount > 0 /\ n > 0 /\ amount + n > MaxItem
                         THEN MaxItem
                         ELSE amount + n
Deleted(amount, n) == IF amount > n THEN amount - n ELSE 0

-----------------------------------------------------------------------------
(* A character enters the game.  Its object may lie at the address of one  *)
(* that logged out, so that an old request still points to it.             *)
Login(c, m, sameAddress) ==
  /\ ~Online(c)
  /\ mapid' = [mapid EXCEPT ![c] = m]
  /\ nowhere' = [nowhere EXCEPT ![c] = FALSE]
  /\ agree' = [agree EXCEPT ![c] = FALSE]
  /\ partner' = [d \in Characters |->
                   IF d = c \/ (partner[d] = c /\ ~sameAddress)
                   THEN Nobody ELSE partner[d]]
  /\ UNCHANGED <<trading, offer, inventory, seen, fault>>

(* Trade_Request: only the asking side remembers whom it asked.            *)
Trade_Request(c, v) ==
  /\ Online(c) /\ ~trading[c] /\ mapid[c] # JailMap
  /\ v # c /\ mapid[v] = mapid[c] /\ ~nowhere[v] /\ ~trading[v]
  /\ partner' = [partner EXCEPT ![c] = v]
  /\ UNCHANGED <<place, trading, agree, offer, inventory, seen, fault>>

(* The flags of a trade that begins: both agreements are cleared.          *)
Open(c, v) == /\ trading' = Set(trading, {c, v}, TRUE)
              /\ agree' = Set(agree, {c, v}, FALSE)

(* Trade_Accept: c takes up the request of v.                              *)
Trade_Accept(c, v) ==
  /\ Online(c) /\ ~trading[c] /\ mapid[c] # JailMap
  /\ mapid[v] = mapid[c] /\ ~nowhere[v] /\ partner[v] = c /\ ~trading[v]
  /\ partner' = [partner EXCEPT ![c] = v]
  /\ Open(c, v)
  /\ UNCHANGED <<place, offer, inventory, seen, fault>>

(* A mutant of EndTrade: the partner is told but not released.             *)
EndOwnSide(c) ==
  /\ trading' = [trading EXCEPT ![c] = FALSE]
  /\ partner' = [partner EXCEPT ![c] = Nobody]
  /\ agree' = [agree EXCEPT ![c] = FALSE]
  /\ offer' = [offer EXCEPT ![c] = Nothing]
  /\ seen' = [seen EXCEPT ![c] = <<>>]

(* The end of a trade, as Trade_Close, Walk, Warp and Logout write it: the *)
(* agreement of the other side is left as it was.                          *)
EndTrade(c) ==
  LET both == {c, partner[c]}
  IN  /\ trading' = Set(trading, both, FALSE)
      /\ partner' = Set(partner, both, Nobody)
      /\ agree' = [agree EXCEPT ![c] = FALSE]
      /\ offer' = Set(offer, both, Nothing)
      /\ seen' = Set(seen, both, <<>>)

(* A mutant of EndAnyTrade: a trade survives the change of maps.           *)
KeepTrade(c) == c \in Characters /\ UNCHANGED sides

EndAnyTrade(c) == IF trading[c] THEN EndTrade(c) ELSE UNCHANGED sides

Trade_Close(c) == /\ trading[c]
                  /\ EndTrade(c)
                  /\ UNCHANGED <<place, inventory, fault>>

(* A step on the map ends the trade; a warp tile is the Warp that follows. *)
Walk(c) == /\ trading[c]
           /\ EndTrade(c)
           /\ UNCHANGED <<place, inventory, fault>>

(* A warp by a tile, a scroll, an administrator, a quest, or home after    *)
(* death.                                                                  *)
Warp(c, m) == /\ Online(c)
              /\ mapid' = [mapid EXCEPT ![c] = m]
              /\ nowhere' = [nowhere EXCEPT ![c] = FALSE]
              /\ EndAnyTrade(c)
              /\ UNCHANGED <<inventory, fault>>

Logout(c) == /\ Online(c)
             /\ mapid' = [mapid EXCEPT ![c] = Offline]
             /\ EndAnyTrade(c)
             /\ UNCHANGED <<nowhere, inventory, fault>>

(* DeathRespawn takes the character off its map at once and schedules the  *)
(* warp home; a trade is left open until then.  In Deadly mode DropAll     *)
(* empties the inventory, unless CanInteractItems is false.                *)
DeathRespawn(c, spawn) ==
  /\ Online(c) /\ ~nowhere[c]
  /\ mapid' = [mapid EXCEPT ![c] = spawn]
  /\ nowhere' = [nowhere EXCEPT ![c] = TRUE]
  /\ \/ Deadly /\ inventory' = [inventory EXCEPT ![c] = Nothing]
     \/ UNCHANGED inventory
  /\ UNCHANGED <<sides, fault>>

-----------------------------------------------------------------------------
(* Quest rules are checked whenever an offer gains or loses an item and    *)
(* whenever stats are recalculated.  A rule that warps the trader ends the *)
(* trade inside the handler, which then goes on to use the null partner:   *)
(* from there on the behaviour is undefined, and the model stops.  A rule  *)
(* that fires where the handler no longer needs the partner is the Warp    *)
(* that follows it.                                                        *)
QuestWarpsTrader == /\ QuestsWarp
                    /\ fault' = TRUE
                    /\ UNCHANGED <<place, sides, inventory>>

(* A mutant of ChangeOffer: only the own agreement is taken back.          *)
ChangeOfferQuietly(c, i, n) ==
  /\ offer' = [offer EXCEPT ![c][i] = n]
  /\ agree' = [agree EXCEPT ![c] = FALSE]
  /\ UNCHANGED <<place, trading, partner, inventory, seen, fault>>

(* A changed offer takes both agreements back.                             *)
ChangeOffer(c, i, n) ==
  /\ offer' = [offer EXCEPT ![c][i] = n]
  /\ agree' = Set(agree, {c, partner[c]}, FALSE)
  /\ UNCHANGED <<place, trading, partner, inventory, seen, fault>>

(* Trade_Add refuses an eleventh item (the mutant one item too late), and  *)
(* AddTradeItem an amount or a total out of range; the amount in a packet  *)
(* is an int and may be negative, which the mutant forgets.                *)
RoomLate(c, i) == i \in Offered(c) \/ Cardinality(Offered(c)) <= MaxOffers
RoomToOffer(c, i) == i \in Offered(c) \/ Cardinality(Offered(c)) < MaxOffers

BelowMaxTrade(amount, total) == amount <= MaxTrade /\ total <= MaxTrade
Tradeable(amount, total) == /\ amount > 0 /\ amount <= MaxTrade
                            /\ total <= MaxTrade

(* Trade_Add and AddTradeItem: the amount asked for is cut down to what    *)
(* there is, and replaces or, with TradeAddQuantity, is added to the one   *)
(* on offer.                                                               *)
Trade_Add(c, i, asked) ==
  LET has    == IF TradeAddQuantity THEN HasItem(c, i) ELSE inventory[c][i]
      amount == IF asked > has THEN has ELSE asked
      total  == IF TradeAddQuantity THEN offer[c][i] + amount ELSE amount
  IN  /\ trading[c]
      /\ RoomToOffer(c, i)
      /\ Tradeable(amount, total)
      /\ \/ ChangeOffer(c, i, total)
         \/ i \notin Offered(c) /\ QuestWarpsTrader

Trade_Remove(c, i) == /\ trading[c]
                      /\ Cardinality(Offered(c)) <= RemoveLimit
                      /\ i \in Offered(c)
                      /\ \/ ChangeOffer(c, i, 0)
                         \/ QuestWarpsTrader

(* Trade_Agree, in its three cases: taking the agreement back, agreeing    *)
(* before the other side has or with nothing to offer, and the agreement   *)
(* that completes the trade.                                               *)
Disagree(c) == /\ trading[c]
               /\ agree' = [agree EXCEPT ![c] = FALSE]
               /\ seen' = [seen EXCEPT ![c] = <<>>]
               /\ UNCHANGED <<place, trading, partner, offer, inventory, fault>>

Agree(c) == /\ trading[c]
            /\ offer[c] = Nothing \/ ~agree[partner[c]]
            /\ agree' = [agree EXCEPT ![c] = TRUE]
            /\ seen' = [seen EXCEPT ![c] = <<offer[c], offer[partner[c]]>>]
            /\ UNCHANGED <<place, trading, partner, offer, inventory, fault>>

(* A mutant of Swapped: the goods are copied, the partner keeps its own.   *)
SwappedCopy(c) ==
  LET p == partner[c]
  IN  [inventory EXCEPT
         ![p] = [i \in Items |-> Added(inventory[p][i], offer[c][i])],
         ![c] = [i \in Items |-> Deleted(Added(inventory[c][i], offer[p][i]),
                                         offer[c][i])]]

(* The partner's offer changes hands first, the own one then; what AddItem *)
(* and DelItem return is not looked at.                                    *)
Swapped(c) ==
  LET p == partner[c]
  IN  [inventory EXCEPT
         ![p] = [i \in Items |-> Added(Deleted(inventory[p][i], offer[p][i]),
                                       offer[c][i])],
         ![c] = [i \in Items |-> Deleted(Added(inventory[c][i], offer[p][i]),
                                         offer[c][i])]]

Exchange(c) == /\ trading[c]
               /\ offer[c] # Nothing /\ agree[partner[c]]
               /\ \/ /\ inventory' = Swapped(c)
                     /\ EndTrade(c)
                     /\ UNCHANGED <<place, fault>>
                  \/ QuestWarpsTrader

-----------------------------------------------------------------------------
(* What else happens to a trader's inventory.  Handlers that could take an *)
(* offered item refuse a trading character; the others pay with what       *)
(* HasItem reports as free.  Items come from the ground, shops, quests.    *)
Spend(c, i, n) == /\ Online(c)
                  /\ n <= HasItem(c, i)
                  /\ inventory' = [inventory EXCEPT ![c][i] = Deleted(@, n)]
                  /\ UNCHANGED <<place, sides, fault>>

Receive(c, i, n) == /\ Online(c)
                    /\ inventory' = [inventory EXCEPT ![c][i] = Added(@, n)]
                    /\ UNCHANGED <<place, sides, fault>>

TradeStep(c) == \/ \E i \in Items, n \in -1..MaxTrade + 1 : Trade_Add(c, i, n)
                \/ \E i \in Items : Trade_Remove(c, i)
                \/ Disagree(c) \/ Agree(c) \/ Exchange(c)
                \/ Trade_Close(c) \/ Walk(c)

CharacterStep(c) == \/ \E v \in Characters : Trade_Request(c, v)
                    \/ \E v \in Characters : Trade_Accept(c, v)
                    \/ \E m \in Maps : Warp(c, m) \/ DeathRespawn(c, m)
                    \/ \E m \in Maps, b \in BOOLEAN : Login(c, m, b)
                    \/ Logout(c)
                    \/ \E i \in Items, n \in 1..MaxItem :
                         Spend(c, i, n) \/ Receive(c, i, n)

Next == ~fault /\ \E c \in Characters : TradeStep(c) \/ CharacterStep(c)

Spec == Init /\ [][Next]_vars

-----------------------------------------------------------------------------
(* The two halves of a trade agree: a character that trades has a partner  *)
(* that is in the game, trades, and has it as its partner.  Every handler  *)
(* dereferences trade_partner on the strength of trading alone.            *)
TradersPaired ==
  \A c \in Characters :
    trading[c] => /\ partner[c] \in Characters \ {c}
                  /\ Online(c) /\ Online(partner[c])
                  /\ trading[partner[c]]
                  /\ partner[partner[c]] = c

(* Who trades is with its partner on one map and not in jail, unless one   *)
(* of them has died and waits for the warp home.                           *)
TradersTogether ==
  \A c \in Characters :
    trading[c] /\ ~nowhere[c] /\ ~nowhere[partner[c]]
      => mapid[c] = mapid[partner[c]] /\ mapid[c] # JailMap

(* Without Deadly, what is on offer is there: an exchange never hands over *)
(* an item its owner has spent, although the owner may buy, pay and pick   *)
(* things up in the middle of the trade.                                   *)
OfferBacked ==
  ~Deadly => \A c \in Characters, i \in Items :
               trading[c] => offer[c][i] <= inventory[c][i]

(* Only a trader has an offer, of at most MaxTrade of an item (limits.ini  *)
(* 37) and at most MaxOffers items.                                        *)
OfferWithinLimits ==
  \A c \in Characters :
    /\ ~trading[c] => offer[c] = Nothing
    /\ \A i \in Items : offer[c][i] <= MaxTrade
    /\ Cardinality(Offered(c)) <= MaxOffers

(* An agreement that counts is one to the offers as they are now: the      *)
(* other side cannot change its offer after it, and the flag that a trade  *)
(* leaves behind is not taken for an agreement in the next one.            *)
AgreedToOffers ==
  \A c \in Characters :
    trading[c] /\ agree[c] => seen[c] = <<offer[c], offer[partner[c]]>>

(* misc.ini 196 says of Deadly: "Drops all items on death".  What has been *)
(* dropped cannot be handed over in a trade as well: an exchange gives     *)
(* away no more than its owner holds.                                      *)
DroppedItemsAreGone ==
  [][\A c \in Characters :
       trading[c] /\ ~trading'[c] /\ inventory' # inventory
         => \A i \in Items : offer[c][i] <= inventory[c][i]]_vars
-----------------------------------------------------------------------------
Traders == {c \in Characters : trading[c]}
Deals == {{c, partner[c]} : c \in Traders}
Consenting == {c \in Traders : agree[c]}

Deal == INSTANCE Barter WITH
          Parties <- Characters, Goods <- Items, Capacity <- MaxItem,
          holding <- inventory, deals <- Deals, consent <- Consenting

(* Trading keeps the promise of Barter: two flags, a pointer and a list in *)
(* each character (Trade.cpp) work as one deal with an atomic swap that    *)
(* both sides consented to, whatever requests are outstanding, whatever    *)
(* either trader earns or spends meanwhile and however the trade ends.     *)
KeepsBarter == Deal!BSpec
=============================================================================
