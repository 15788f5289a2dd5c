--------------------------------- MODULE Arena ---------------------------------
(***************************************************************************)
(* One map's arena.  Its count of occupants, which decides whether a next  *)
(* group may be let in and whether a kill was the last one, is kept apart  *)
(* from the fighters: a character is in the arena by its pointer to it,    *)
(* and every way in, out, and back after a reload of arenas.ini or of the  *)
(* map has to see to both.                                                 *)
(*                                                                         *)
(* The arena object is replaced by a reload, hence the generations.        *)
(* Following a pointer to one that is gone is undefined: the model stops   *)
(* there.  Tiles are the spawn tiles and the rest, walking is one step.    *)
(***************************************************************************)
EXTENDS Integers, FiniteSets

CONSTANTS Fighters, SpawnTiles,
          Block,       \* occupants that keep a next group out
          MaxReloads   \* bound: reloads of the arena

ASSUME ArenaAssumption == /\ IsFiniteSet(Fighters)
                          /\ SpawnTiles \cap {"off", "out", "dead", "floor"} = {}
                          /\ Block \in Nat /\ MaxReloads \in Nat

VARIABLES
  spot,          \* where a character is; "dead": off the map, to be warped home
  arena,         \* the generation it points to; 0: none
  generation,    \* of the map's arena
  enabled,       \* whether the map has one
  occupants,
  freed          \* the pointer to an arena that is gone was followed

arenaVars == <<spot, arena, generation, enabled, occupants, freed>>

ArenaTypeOK ==
  /\ spot \in [Fighters -> {"off", "out", "dead", "floor"} \cup SpawnTiles]
  /\ arena \in [Fighters -> 0..MaxReloads + 1]
  /\ generation \in 1..MaxReloads + 1
  /\ enabled \in BOOLEAN
  /\ occupants \in 0..Cardinality(Fighters)
  /\ freed \in BOOLEAN

ArenaInit == /\ spot = [c \in Fighters |-> "off"]
             /\ arena = [c \in Fighters |-> 0]
             /\ generation = 1 /\ enabled = TRUE /\ occupants = 0
             /\ freed = FALSE

OnMap  == {c \in Fighters : spot[c] \in {"floor"} \cup SpawnTiles}
Inside == {c \in Fighters : arena[c] # 0}
Current == {c \in Inside : enabled /\ arena[c] = generation}
Gone(S) == (S \cap Inside) \ Current # {}

(* Characters of S are warped, those of next into the arena: each leaves   *)
(* the arena it was in.                                                    *)
Warped(S, next) ==
  /\ arena' = [c \in Fighters |-> IF c \in next THEN generation
                                  ELSE IF c \in S THEN 0 ELSE arena[c]]
  /\ occupants' = occupants - Cardinality(S \cap Current) + Cardinality(next)
  /\ freed' = Gone(S)

-----------------------------------------------------------------------------
(* The timer, or an administrator with force, lets in the first character  *)
(* on each spawn tile.                                                     *)
Spawn(force) ==
  /\ enabled
  /\ occupants < Block \/ force
  /\ \E next \in SUBSET OnMap :
       /\ next # {}
       /\ \A c, d \in next : spot[c] = spot[d] => c = d
       /\ {spot[c] : c \in next} = {spot[c] : c \in OnMap} \cap SpawnTiles
       /\ Warped(next, next)
       /\ spot' = [c \in Fighters |-> IF c \in next THEN "floor" ELSE spot[c]]
  /\ UNCHANGED <<generation, enabled>>

(* A fighter hits another in front of it: out it goes, and with it the     *)
(* winner if these were the last two.                                      *)
Attack(c, d) == IF occupants = 2 THEN {c, d} ELSE {d}

Arena_Attack(c, d) ==
  /\ c # d /\ {c, d} \subseteq OnMap /\ {c, d} \subseteq Inside
  /\ arena[c] = arena[d]
  /\ IF Gone({c})
     THEN freed' = TRUE /\ UNCHANGED <<arena, occupants, spot>>
     ELSE /\ Warped(Attack(c, d), {})
          /\ spot' = [x \in Fighters |-> IF x \in Attack(c, d) THEN "floor"
                                         ELSE spot[x]]
  /\ UNCHANGED <<generation, enabled>>

(* Walking about the map; warping off it, onto it or about it, home after  *)
(* death too.                                                              *)
WalkTo(c, tile) ==
  /\ c \in OnMap /\ tile \in {"floor"} \cup SpawnTiles
  /\ spot' = [spot EXCEPT ![c] = tile]
  /\ UNCHANGED <<arena, generation, enabled, occupants, freed>>

WarpTo(c, to) ==
  /\ spot[c] # "off" /\ to \in {"out", "floor"}
  /\ spot' = [spot EXCEPT ![c] = to]
  /\ Warped({c}, {})
  /\ UNCHANGED <<generation, enabled>>

(* Dying takes a character off the map.  It stays a fighter until it is    *)
(* warped home.                                                            *)
DeathRespawn(c) ==
  /\ c \in OnMap
  /\ spot' = [spot EXCEPT ![c] = "dead"]
  /\ UNCHANGED <<arena, generation, enabled, occupants, freed>>

ArenaLogin(c) ==
  /\ spot[c] = "off"
  /\ \E to \in {"out", "floor"} : spot' = [spot EXCEPT ![c] = to]
  /\ UNCHANGED <<arena, generation, enabled, occupants, freed>>

(* A mutant of ArenaLogout: the arena is not told.                         *)
LogoutUncounted(c) ==
  /\ spot[c] # "off"
  /\ spot' = [spot EXCEPT ![c] = "off"]
  /\ arena' = [arena EXCEPT ![c] = 0]
  /\ UNCHANGED <<generation, enabled, occupants, freed>>

ArenaLogout(c) ==
  /\ spot[c] # "off"
  /\ spot' = [spot EXCEPT ![c] = "off"]
  /\ Warped({c}, {})
  /\ UNCHANGED <<generation, enabled>>

(* A new reading of arenas.ini replaces the arena, or takes it away.       *)
(* Fighters on the map go on in the new one, or are put at its entrance;   *)
(* those that are dead at the moment are missed.                           *)
LoadArena(on) ==
  LET kept == OnMap \cap Current
  IN  /\ generation <= MaxReloads
      /\ generation' = generation + 1
      /\ enabled' = on
      /\ arena' = [c \in Fighters |->
                     IF c \in kept THEN IF on THEN generation + 1 ELSE 0
                     ELSE arena[c]]
      /\ occupants' = IF on THEN Cardinality(kept) ELSE 0
      /\ spot' = IF on THEN spot
                 ELSE [c \in Fighters |-> IF c \in kept THEN "floor"
                                          ELSE spot[c]]
      /\ UNCHANGED freed

(* A new version of the map deletes the arena before it loads one, and no  *)
(* fighter is told.                                                        *)
ReloadMap(on) ==
  /\ generation <= MaxReloads
  /\ generation' = generation + 1
  /\ enabled' = on
  /\ occupants' = 0
  /\ UNCHANGED <<spot, arena, freed>>

ArenaNext ==
  /\ ~freed
  /\ \/ \E force \in BOOLEAN : Spawn(force)
     \/ \E on \in BOOLEAN : LoadArena(on) \/ ReloadMap(on)
     \/ \E c \in Fighters :
          \/ \E d \in Fighters : Arena_Attack(c, d)
          \/ \E tile \in {"floor"} \cup SpawnTiles : WalkTo(c, tile)
          \/ \E to \in {"out", "floor"} : WarpTo(c, to)
          \/ DeathRespawn(c) \/ ArenaLogin(c) \/ ArenaLogout(c)

ArenaSpec == ArenaInit /\ [][ArenaNext]_arenaVars

-----------------------------------------------------------------------------
(* The count of occupants is the number of characters that point to this   *)
(* arena, and nobody does from outside the map (Arena::Spawn, Attack,      *)
(* Character::Warp, Logout, Map::LoadArena): one too many and no group is  *)
(* let in again, one too few and a fight ends with a fighter left over.    *)
(* It holds until a pointer that a reload left behind is followed.         *)
OccupantsCounted ==
  ~freed =>
    /\ occupants = Cardinality(Current)
    /\ Current \subseteq OnMap \cup {c \in Fighters : spot[c] = "dead"}
================================================================================
