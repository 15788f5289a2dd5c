---------------------------------- MODULE View ---------------------------------
(***************************************************************************)
(* What the players of one map are shown.  The server tells a client of    *)
(* another character, an NPC or an item when it comes into range and of a  *)
(* character or an NPC when it goes out of range; a step moves the diamond *)
(* of tiles in range, and Map::Walk works out its new and its old edge.    *)
(* A client drops by itself the items that get out of range.               *)
(*                                                                         *)
(* Modelled: characters, one NPC and one item on a small map with walls,   *)
(* spikes and chairs.  A character is away (on no map or another one),     *)
(* here, or dead, which is nowhere until the delayed warp.                 *)
(***************************************************************************)
EXTENDS Integers, FiniteSets

CONSTANTS Walkers, Cow, Coin,           \* characters, the NPC, the item
          Width, Height, Walls, Spikes, Chairs,
          SeeDistance, DropDistance,
          OffMap                        \* for who is not on the map

Tiles == (0..Width-1) \X (0..Height-1)
Directions == {"up", "right", "down", "left"}

ASSUME ViewAssumption ==
  /\ Width \in Nat /\ Height \in Nat /\ SeeDistance \in Nat \ {0}
  /\ Walls \cup Spikes \cup Chairs \subseteq Tiles
  /\ DropDistance \in 0..SeeDistance
  /\ OffMap \notin Int \X Int
  /\ Cow \notin Walkers /\ Coin \notin Walkers /\ Cow # Coin

VARIABLES whereabouts,  \* of a character: "away", "here", "dead"
          tile,         \* of a character
          sitting,      \* "stand", "floor", or the way off a chair
          loading,      \* who was warped here and has not accepted it
          cow, coin,    \* where they are, or OffMap
          shown,        \* what a client shows of the others here
          misled        \* history: who has not been shown a move to a chair

viewVars == <<whereabouts, tile, sitting, loading, cow, coin, shown, misled>>

ViewTypeOK ==
  /\ whereabouts \in [Walkers -> {"away", "here", "dead"}]
  /\ tile \in [Walkers -> Tiles \cup {OffMap}]
  /\ sitting \in [Walkers -> {"stand", "floor"} \cup Directions]
  /\ loading \subseteq Walkers /\ misled \subseteq Walkers
  /\ cow \in Tiles \cup {OffMap} /\ coin \in Tiles \cup {OffMap}
  /\ shown \in [Walkers -> SUBSET (Walkers \cup {Cow, Coin})]
  /\ \A c \in Walkers : /\ whereabouts[c] # "here" => c \notin loading
                        /\ whereabouts[c] = "here" <=> tile[c] # OffMap

ViewInit ==
  /\ whereabouts = [c \in Walkers |-> "away"]
  /\ tile = [c \in Walkers |-> OffMap]
  /\ sitting = [c \in Walkers |-> "stand"]
  /\ loading = {} /\ misled = {}
  /\ cow \in Tiles \ Walls /\ coin = OffMap
  /\ shown = [c \in Walkers |-> {}]

-----------------------------------------------------------------------------
Abs(n) == IF n < 0 THEN -n ELSE n
Apart(s, t) == Abs(s[1] - t[1]) + Abs(s[2] - t[2])       \* util::path_length
InRange(s, t) == s # OffMap /\ t # OffMap /\ Apart(s, t) <= SeeDistance
Present == {c \in Walkers : whereabouts[c] = "here"}

StepFrom(t, d) ==
  CASE d = "up"    -> <<t[1], t[2] - 1>>
    [] d = "right" -> <<t[1] + 1, t[2]>>
    [] d = "down"  -> <<t[1], t[2] + 1>>
    [] d = "left"  -> <<t[1] - 1, t[2]>>

(* The edges of the diamond around t after a step d to it: the tiles that  *)
(* have come into range, and those that have gone out of it.  The mutant   *)
(* forgets that one is a tile further.                                     *)
Offsets == -SeeDistance..SeeDistance

NewCoords(t, d) ==
  CASE d = "up"    -> {<<t[1] + i, t[2] - SeeDistance + Abs(i)>> : i \in Offsets}
    [] d = "right" -> {<<t[1] + SeeDistance - Abs(i), t[2] + i>> : i \in Offsets}
    [] d = "down"  -> {<<t[1] + i, t[2] + SeeDistance - Abs(i)>> : i \in Offsets}
    [] d = "left"  -> {<<t[1] - SeeDistance + Abs(i), t[2] + i>> : i \in Offsets}

OldCoordsNear(t, d) ==
  LET S == SeeDistance
  IN  CASE d = "up"    -> {<<t[1] + i, t[2] + S - Abs(i)>> : i \in Offsets}
        [] d = "right" -> {<<t[1] - S + Abs(i), t[2] + i>> : i \in Offsets}
        [] d = "down"  -> {<<t[1] + i, t[2] - S + Abs(i)>> : i \in Offsets}
        [] d = "left"  -> {<<t[1] + S - Abs(i), t[2] + i>> : i \in Offsets}

OldCoords(t, d) ==
  LET S == SeeDistance
  IN  CASE d = "up"    -> {<<t[1] + i, t[2] + S + 1 - Abs(i)>> : i \in Offsets}
        [] d = "right" -> {<<t[1] - S - 1 + Abs(i), t[2] + i>> : i \in Offsets}
        [] d = "down"  -> {<<t[1] + i, t[2] - S - 1 + Abs(i)>> : i \in Offsets}
        [] d = "left"  -> {<<t[1] + S + 1 - Abs(i), t[2] + i>> : i \in Offsets}

(* Only a client that has accepted its warp to the map shows it.           *)
Tell(what) ==
  shown' = [c \in Walkers |-> IF whereabouts'[c] = "here" /\ c \notin loading'
                              THEN what[c] ELSE {}]

(* All that is in range, as Warp_Accept and Refresh list it.               *)
InView(c) ==
  {o \in Present \ {c} : InRange(tile[c], tile[o])}
  \cup (IF InRange(tile[c], cow) THEN {Cow} ELSE {})
  \cup (IF InRange(tile[c], coin) THEN {Coin} ELSE {})

-----------------------------------------------------------------------------
(* Character c goes from the map; those in range are told.  A dead one     *)
(* leaves silently, but the deadly hit has told the same clients.          *)
Gone(c, to) ==
  /\ whereabouts' = [whereabouts EXCEPT ![c] = to]
  /\ tile' = [tile EXCEPT ![c] = OffMap]
  /\ loading' = loading \ {c} /\ misled' = misled \ {c}
  /\ Tell([o \in Walkers |-> IF InRange(tile[o], tile[c]) THEN shown[o] \ {c}
                             ELSE shown[o]])
  /\ UNCHANGED <<cow, coin>>

WarpAway(c) ==
  /\ whereabouts[c] \in {"here", "dead"}
  /\ Gone(c, "away")
  /\ sitting' = [sitting EXCEPT ![c] = "stand"]

(* Killed by the NPC, another player or the map's spikes.                   *)
Dies(c) ==
  /\ whereabouts[c] = "here"
  /\ Gone(c, "dead")
  /\ UNCHANGED sitting

(* A warp to t on the map: Map::Leave where c was, Map::Enter at t.        *)
WarpTo(c, t) ==
  LET left(o) == IF InRange(tile[o], tile[c]) THEN shown[o] \ {c} ELSE shown[o]
  IN  /\ whereabouts' = [whereabouts EXCEPT ![c] = "here"]
      /\ tile' = [tile EXCEPT ![c] = t]
      /\ sitting' = [sitting EXCEPT ![c] = "stand"]
      /\ loading' = loading \cup {c} /\ misled' = misled \ {c}
      /\ Tell([o \in Walkers |-> IF InRange(tile[o], t) THEN left(o) \cup {c}
                                 ELSE left(o)])
      /\ UNCHANGED <<cow, coin>>

Warp_Accept(c) ==
  /\ c \in loading
  /\ loading' = loading \ {c}
  /\ shown' = [shown EXCEPT ![c] = InView(c)]
  /\ misled' = misled \ {c}
  /\ UNCHANGED <<whereabouts, tile, sitting, cow, coin>>

Refresh(c) ==
  /\ c \in Present \ loading
  /\ shown' = [shown EXCEPT ![c] = InView(c)]
  /\ misled' = misled \ {c}
  /\ UNCHANGED <<whereabouts, tile, sitting, loading, cow, coin>>

(* A step to a free tile, or, once GhostTimer has run out, to a taken one; *)
(* on spikes it may be the last.                                           *)
WalkOn(c, d) ==
  LET t    == StepFrom(tile[c], d)
      old  == OldCoords(t, d)
      new  == NewCoords(t, d)
      gone == {o \in Present \ {c} : tile[o] \in old}
      come == {o \in Present \ {c} : tile[o] \in new}
      mine == (shown[c] \ (gone \cup (IF cow \in old THEN {Cow} ELSE {})
                                \cup (IF InRange(t, coin) THEN {} ELSE {Coin})))
              \cup come \cup (IF cow \in new THEN {Cow} ELSE {})
              \cup (IF coin \in new THEN {Coin} ELSE {})
  IN  /\ whereabouts[c] = "here" /\ sitting[c] = "stand"
      /\ t \in Tiles \ (Walls \cup Chairs)
      /\ \/ /\ tile' = [tile EXCEPT ![c] = t]
            /\ UNCHANGED <<whereabouts, loading, misled>>
            /\ Tell([o \in Walkers |-> CASE o = c       -> mine
                                         [] o \in come  -> shown[o] \cup {c}
                                         [] o \in gone  -> shown[o] \ {c}
                                         [] OTHER       -> shown[o]])
         \/ /\ t \in Spikes
            /\ whereabouts' = [whereabouts EXCEPT ![c] = "dead"]
            /\ tile' = [tile EXCEPT ![c] = OffMap]
            /\ loading' = loading \ {c} /\ misled' = misled \ {c}
            /\ Tell([o \in Walkers |->
                       IF o \in gone \/ InRange(tile[o], t)
                       THEN shown[o] \ {c} ELSE shown[o]])
      /\ UNCHANGED <<sitting, cow, coin>>

(* Sitting down, and on a chair next to one; standing up.                  *)
Sit(c) ==
  /\ whereabouts[c] = "here" /\ sitting[c] = "stand"
  /\ sitting' = [sitting EXCEPT ![c] = "floor"]
  /\ UNCHANGED <<whereabouts, tile, loading, cow, coin, shown, misled>>

Chair_Request(c, d) ==
  /\ whereabouts[c] = "here" /\ sitting[c] = "stand"
  /\ \E t \in Chairs : /\ StepFrom(t, d) = tile[c]
                       /\ \A o \in Present : tile[o] # t
                       /\ tile' = [tile EXCEPT ![c] = t]
  /\ sitting' = [sitting EXCEPT ![c] = d]
  /\ misled' = Present
  /\ UNCHANGED <<whereabouts, loading, cow, coin, shown>>

Stand(c) ==
  /\ whereabouts[c] = "here" /\ sitting[c] # "stand"
  /\ tile' = IF sitting[c] = "floor" THEN tile
             ELSE [tile EXCEPT ![c] = StepFrom(@, sitting[c])]
  /\ sitting' = [sitting EXCEPT ![c] = "stand"]
  /\ misled' = IF sitting[c] = "floor" THEN misled ELSE Present
  /\ UNCHANGED <<whereabouts, loading, cow, coin, shown>>

-----------------------------------------------------------------------------
(* The NPC walks: Map::Walk tells those on the edges.                      *)
CowWalks(d) ==
  LET t   == StepFrom(cow, d)
      old == OldCoords(t, d)
      new == NewCoords(t, d)
  IN  /\ cow # OffMap
      /\ t \in Tiles \ (Walls \cup Chairs)
      /\ \A o \in Present : tile[o] # t
      /\ cow' = t
      /\ UNCHANGED <<whereabouts, tile, sitting, loading, coin, misled>>
      /\ Tell([o \in Walkers |-> CASE tile[o] \in new -> shown[o] \cup {Cow}
                                   [] tile[o] \in old -> shown[o] \ {Cow}
                                   [] OTHER           -> shown[o]])

CowAppears(t) ==
  /\ cow = OffMap /\ t \notin Walls
  /\ cow' = t
  /\ UNCHANGED <<whereabouts, tile, sitting, loading, coin, misled>>
  /\ Tell([o \in Walkers |-> IF InRange(tile[o], t) THEN shown[o] \cup {Cow}
                             ELSE shown[o]])

CowDies ==
  /\ cow # OffMap /\ cow' = OffMap
  /\ UNCHANGED <<whereabouts, tile, sitting, loading, coin, misled>>
  /\ Tell([o \in Walkers |-> IF InRange(tile[o], cow) THEN shown[o] \ {Cow}
                             ELSE shown[o]])

(* An item is dropped by a character, whose reply names it, and taken.     *)
CoinDropped(c, t) ==
  /\ coin = OffMap /\ t \notin Walls /\ c \in Present
  /\ Apart(tile[c], t) <= DropDistance
  /\ coin' = t
  /\ UNCHANGED <<whereabouts, tile, sitting, loading, cow, misled>>
  /\ Tell([o \in Walkers |-> IF o = c \/ InRange(tile[o], t)
                             THEN shown[o] \cup {Coin} ELSE shown[o]])

CoinTaken ==
  /\ coin # OffMap /\ coin' = OffMap
  /\ UNCHANGED <<whereabouts, tile, sitting, loading, cow, misled>>
  /\ Tell([o \in Walkers |-> IF InRange(tile[o], coin) THEN shown[o] \ {Coin}
                             ELSE shown[o]])

ViewNext ==
  \/ \E c \in Walkers :
       \/ WarpAway(c) \/ Dies(c)
       \/ Warp_Accept(c) \/ Refresh(c) \/ Sit(c) \/ Stand(c)
       \/ \E t \in Tiles \ Walls : WarpTo(c, t) \/ CoinDropped(c, t)
       \/ \E d \in Directions : WalkOn(c, d) \/ Chair_Request(c, d)
  \/ \E d \in Directions : CowWalks(d)
  \/ \E t \in Tiles : CowAppears(t)
  \/ CowDies \/ CoinTaken

ViewSpec == ViewInit /\ [][ViewNext]_viewVars

-----------------------------------------------------------------------------
(* A client shows exactly the characters, the NPC and the item in range    *)
(* of its own (Map::Walk's two edges, Enter, Leave and the rest), except   *)
(* one that has not been refreshed since somebody got on or off a chair,   *)
(* a step of which only those in range are told.                           *)
ShowsWhatIsThere ==
  \A c \in Present \ (loading \cup misled) : shown[c] = InView(c)
================================================================================
