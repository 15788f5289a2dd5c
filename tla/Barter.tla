------------------------------- MODULE Barter -------------------------------
(***************************************************************************)
(* What trading promises, without flags, pointers and maps: deals between  *)
(* two parties.  While a deal is open each side offers some of what it     *)
(* holds; a change of either offer voids the consent of both; the goods    *)
(* change hands in one step, when one side consents to what the other has  *)
(* consented to already.  A swap creates nothing, and loses something only *)
(* of a good of which the receiver cannot hold as much.                    *)
(***************************************************************************)
EXTENDS Integers

CONSTANTS Parties, Goods,
          Capacity   \* what a party can hold of a good

VARIABLES holding, deals, offer, consent

bvars == <<holding, deals, offer, consent>>

Bundles == [Goods -> Nat]
None == [g \in Goods |-> 0]

Dealing == UNION deals
Backed(h, o) == \A g \in Goods : o[g] <= h[g]

BInit == /\ holding \in [Parties -> Bundles]
         /\ deals = {}
         /\ offer = [p \in Parties |-> None]
         /\ consent = {}

Open(a, b) == /\ a # b /\ {a, b} \cap Dealing = {}
              /\ deals' = deals \cup {{a, b}}
              /\ UNCHANGED <<holding, offer, consent>>

ChangeOffer(a, b) == /\ {a, b} \in deals
                     /\ \A p \in Parties \ {a} : offer'[p] = offer[p]
                     /\ Backed(holding[a], offer'[a])
                     /\ consent' = consent \ {a, b}
                     /\ UNCHANGED <<holding, deals>>

Consent(a) == /\ a \in Dealing
              /\ consent' \in {consent \cup {a}, consent \ {a}}
              /\ UNCHANGED <<holding, deals, offer>>

Close(a, b) == /\ {a, b} \in deals
               /\ deals' = deals \ {{a, b}}
               /\ offer' = [p \in Parties |-> IF p \in {a, b} THEN None
                                              ELSE offer[p]]
               /\ consent' = consent \ {a, b}

Cancel(a, b) == Close(a, b) /\ UNCHANGED holding

(* Of good g, a receives what b offers for what a offers itself.           *)
Due(a, b, g) == holding[a][g] - offer[a][g] + offer[b][g]
Receives(a, b) ==
  \A g \in Goods :
    /\ holding'[a][g] <= Due(a, b, g)
    /\ holding[a][g] + offer[b][g] <= Capacity
         => holding'[a][g] = Due(a, b, g)

Swap(a, b) == /\ Close(a, b)
              /\ b \in consent
              /\ Receives(a, b) /\ Receives(b, a)
              /\ \A p \in Parties \ {a, b} : holding'[p] = holding[p]

(* Apart from deals a party earns and spends, but not what it has offered. *)
Live(a) == /\ \A p \in Parties \ {a} : holding'[p] = holding[p]
           /\ Backed(holding'[a], offer[a])
           /\ UNCHANGED <<deals, offer, consent>>

BNext == \/ \E a, b \in Parties : \/ Open(a, b) \/ ChangeOffer(a, b)
                                  \/ Cancel(a, b) \/ Swap(a, b)
         \/ \E a \in Parties : Consent(a) \/ Live(a)

BSpec == BInit /\ [][BNext]_bvars
=============================================================================
