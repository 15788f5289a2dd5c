------------------------------- MODULE Spells -------------------------------
(***************************************************************************)
(* What the world does by timer: chants (handlers/Spell.cpp and            *)
(* Character), doors that close and maps that are evacuated (map.cpp), the *)
(* spikes, drains and recovery of the world (world.cpp).  The handlers of  *)
(* packets run in a callback too, that of server_pump_queue; the events    *)
(* that never expire are one here, "world", which does one thing of any of *)
(* them at a time.                                                         *)
(*                                                                         *)
(* Two maps, "here" with the door and the spikes, and "away" with the      *)
(* spawn and the jail.  NPCs have their own module: a spell at one costs   *)
(* what it costs.  Who may not interact, and who is hidden, is left out.   *)
(***************************************************************************)
EXTENDS Timer

CONSTANTS Casters,
          Guides,             \* who has an admin's access
          Book,               \* spell -> [type, target, restrict, tp, hp]
          PkMaps,             \* where players may hurt each other
          MaxHp, MaxTp,
          DeathRecover,       \* hp after a death
          EvacuateTicks,      \* EvacuateLength / EvacuateTick
          MaxChants, MaxOpens, MaxEvacuations   \* bounds

ASSUME SpellsAssumption ==
  /\ 0 \notin Addresses /\ Guides \subseteq Casters
  /\ MaxHp \in Nat /\ MaxTp \in Nat /\ DeathRecover \in 1..MaxHp
  /\ \A s \in DOMAIN Book : Book[s].hp \in Nat /\ Book[s].tp \in Nat
  /\ EvacuateTicks \in Nat \ {0}

VARIABLES
  playing, map_, nowhere,     \* of a caster: online; map; dead, between maps
  chant,                      \* [event, ready, spell, target]
  hp, tp,
  open, opens,                \* the door
  evacuate_lock, evac,        \* of "here"; the struct's step, or Freed
  evacuations,
  chants, matured, casts      \* history: begun, come to their end, cast

body == <<playing, map_, nowhere, hp, tp>>
chanting == <<chant, chants, matured, casts>>
doors == <<open, opens>>
evacuation == <<evacuate_lock, evac, evacuations>>
spellsVars == <<timerVars, body, chanting, doors, evacuation>>

Maps == {"here", "away"}
Invalid == <<"invalid">>
Targets == {<<"self">>, <<"npc">>, <<"group">>}
             \cup {<<"player", v>> : v \in Casters}
NoChant == [event |-> 0, ready |-> FALSE, spell |-> "none", target |-> Invalid]
Freed == -1

SpellsTypeOK ==
  /\ TimerTypeOK
  /\ playing \in [Casters -> BOOLEAN] /\ map_ \in [Casters -> Maps]
  /\ nowhere \in [Casters -> BOOLEAN]
  /\ chant \in [Casters -> [event : Addresses \cup {0}, ready : BOOLEAN,
                            spell : DOMAIN Book \cup {"none"},
                            target : Targets \cup {Invalid}]]
  /\ hp \in [Casters -> 0..MaxHp] /\ tp \in [Casters -> 0..MaxTp]
  /\ open \in BOOLEAN /\ evacuate_lock \in BOOLEAN
  /\ evac \in Freed..EvacuateTicks

SpellsInit ==
  /\ \E e \in Addresses : TimerInit(e, "world")
  /\ playing = [c \in Casters |-> FALSE] /\ map_ = [c \in Casters |-> "away"]
  /\ nowhere = [c \in Casters |-> FALSE] /\ chant = [c \in Casters |-> NoChant]
  /\ hp = [c \in Casters |-> MaxHp] /\ tp = [c \in Casters |-> MaxTp]
  /\ open = FALSE /\ opens = 0
  /\ evacuate_lock = FALSE /\ evac = Freed /\ evacuations = 0
  /\ chants = [c \in Casters |-> 0] /\ matured = [c \in Casters |-> 0]
  /\ casts = [c \in Casters |-> 0]

-----------------------------------------------------------------------------
\* In the callback of an event of this kind.
Calls(kind) == /\ turn = "callback" /\ Exists(running)
               /\ memory[running].kind = kind
Pumped(c) == Calls("world") /\ playing[c]

On(c, m) == playing[c] /\ map_[c] = m /\ ~nowhere[c]

\* CancelSpell of everyone of S; the spell_id it leaves is not read again.
EventsOf(S) == {chant[c].event : c \in S} \ {0}
ChantsOver(S) == [c \in Casters |-> IF c \in S THEN NoChant ELSE chant[c]]
CancelSpell(S) == /\ chant' = ChantsOver(S) /\ Relist(EventsOf(S), NoEvents)
                  /\ UNCHANGED <<chants, matured, casts>>

AtMost(n, limit) == IF n < limit THEN n ELSE limit

\* DeathRespawn, of everyone of S: at the spawn, but not on its map yet.
\* What was chanted goes on.
Respawn(S, hurt) ==
  /\ hp' = [c \in Casters |-> IF c \in S THEN DeathRecover ELSE hurt[c]]
  /\ map_' = [c \in Casters |-> IF c \in S THEN "away" ELSE map_[c]]
  /\ nowhere' = [c \in Casters |-> nowhere[c] \/ c \in S]
  /\ UNCHANGED playing

Dying(hurt) == {c \in Casters : hurt[c] = 0}
Hurt(hurt) == Respawn(Dying(hurt), hurt)
Healed(S, gain) ==
  /\ hp' = [c \in Casters |-> IF c \in S THEN AtMost(hp[c] + gain, MaxHp)
                                         ELSE hp[c]]
  /\ UNCHANGED <<playing, map_, nowhere>>
NoHarm == UNCHANGED <<playing, map_, nowhere, hp>>

-----------------------------------------------------------------------------
\* SpellAct, once CancelSpell is done: by the target that was chosen.

Pays(c, spell) == tp[c] >= spell.tp /\ tp' = [tp EXCEPT ![c] = @ - spell.tp]

SpellSelf(c, spell) ==
  /\ spell.restrict = "friendly" /\ spell.target = "self"
  /\ spell.type = "heal" /\ Pays(c, spell) /\ Healed({c}, spell.hp)

SpellAttack(c, spell) ==
  /\ spell.restrict # "friendly" /\ spell.target = "normal"
  /\ spell.type = "damage" /\ Pays(c, spell) /\ NoHarm

SpellAttackPK(c, v, spell) ==
  /\ spell.restrict # "npc" /\ spell.target = "normal"
  /\ On(v, map_[c]) /\ (spell.restrict # "friendly" => v # c)
  /\ Pays(c, spell)
  /\ \/ /\ spell.type = "damage" /\ map_[c] \in PkMaps
        /\ \E left \in 0..hp[v] : Hurt([hp EXCEPT ![v] = left])
     \/ spell.type = "heal" /\ Healed({v}, spell.hp)

SpellGroup(c, spell) ==
  /\ spell.restrict = "friendly" /\ spell.target = "group"
  /\ spell.type = "heal" /\ Pays(c, spell)
  /\ Healed({v \in Casters : playing[v] /\ map_[v] = map_[c]}, spell.hp)

Effect(c, target, spell) ==
  \/ target[1] = "self" /\ SpellSelf(c, spell)
  \/ target[1] = "npc" /\ SpellAttack(c, spell)
  \/ target[1] = "player" /\ SpellAttackPK(c, target[2], spell)
  \/ target[1] = "group" /\ SpellGroup(c, spell)

\* A spell without the right target, or without the tp, is spent for nothing.
SpellAct(c, target) ==
  /\ casts' = [casts EXCEPT ![c] = @ + 1]
  /\ \/ Effect(c, target, Book[chant[c].spell])
     \/ NoHarm /\ UNCHANGED tp

\* The chant is over, whoever may be the target.
Spent(c) == chant' = ChantsOver({c}) /\ Relist(EventsOf({c}), NoEvents)

-----------------------------------------------------------------------------
\* Handlers, in the callback of server_pump_queue.

Spell_Request(c, s) ==
  /\ Pumped(c) /\ chants[c] < MaxChants
  /\ \E e \in Free_(EventsOf({c})) :
       /\ Relist(EventsOf({c}), [a \in {e} |-> New("spell", c, 1)])
       /\ chant' = [chant EXCEPT ![c] = [event |-> e, ready |-> FALSE,
                                         spell |-> s, target |-> Invalid]]
  /\ chants' = [chants EXCEPT ![c] = @ + 1]
  /\ Returns /\ UNCHANGED <<body, matured, casts, doors, evacuation>>

\* Spell_Target_Self, _Other and _Group, with the right timestamp or not.
Spell_Target(c, target) ==
  /\ Pumped(c) /\ (chant[c].event # 0 \/ chant[c].ready)
  /\ \/ CancelSpell({c}) /\ UNCHANGED body
     \/ /\ ~chant[c].ready /\ chant' = [chant EXCEPT ![c].target = target]
        /\ Unchanged /\ UNCHANGED <<body, chants, matured, casts>>
     \/ /\ chant[c].ready /\ Spent(c) /\ SpellAct(c, target)
        /\ UNCHANGED <<chants, matured>>
  /\ Returns /\ UNCHANGED <<doors, evacuation>>

\* Walk, Face, Sit, Stand, and Attack when it meets no player; a step may be
\* onto spikes.
Moves(c) ==
  /\ Pumped(c) /\ CancelSpell({c})
  /\ \/ NoHarm
     \/ On(c, "here") /\ Hurt([hp EXCEPT ![c] = @ - 1])
  /\ Returns /\ UNCHANGED <<tp, doors, evacuation>>

AttackPK(c, v) ==
  /\ Pumped(c) /\ c # v /\ On(v, map_[c]) /\ map_[c] \in PkMaps
  /\ CancelSpell({c})
  /\ \E left \in 0..hp[v] : Hurt([hp EXCEPT ![v] = left])
  /\ Returns /\ UNCHANGED <<tp, doors, evacuation>>

\* Through a warp, or from nowhere to the spawn (Internal_Warp).  While a
\* map is evacuated its warps let nobody in but guides.
ChangeMap(c, m) ==
  /\ Pumped(c)
  /\ IF nowhere[c] THEN m = "away"
     ELSE m # map_[c] /\ (m = "here" /\ evacuate_lock => c \in Guides)
  /\ CancelSpell({c})
  /\ map_' = [map_ EXCEPT ![c] = m] /\ nowhere' = [nowhere EXCEPT ![c] = FALSE]
  /\ Returns /\ UNCHANGED <<playing, hp, tp, doors, evacuation>>

JoinGame(c) ==
  /\ Calls("world") /\ ~playing[c] /\ playing' = [playing EXCEPT ![c] = TRUE]
  /\ chant' = [chant EXCEPT ![c] = NoChant] /\ Unchanged
  /\ map_' = [map_ EXCEPT ![c] = "away"]
  /\ nowhere' = [nowhere EXCEPT ![c] = FALSE]
  /\ Returns /\ UNCHANGED <<hp, tp, chants, matured, casts, doors, evacuation>>

\* By a packet, or outside of Tick when its client is buried.
LogoutCancels(S) == CancelSpell(S)
LeaveGame(c) ==
  /\ turn = "idle" \/ Calls("world")
  /\ playing[c] /\ playing' = [playing EXCEPT ![c] = FALSE]
  /\ LogoutCancels({c})
  /\ Returns /\ UNCHANGED <<map_, nowhere, hp, tp, doors, evacuation>>

OpenDoor ==
  /\ Calls("world") /\ ~open /\ opens < MaxOpens
  /\ open' = TRUE /\ opens' = opens + 1
  /\ \E e \in Free_({}) : Relist({}, [a \in {e} |-> New("door", e, 1)])
  /\ Returns /\ UNCHANGED <<body, chanting, evacuation>>

\* Map::Reload: its tiles are read again, and the door with them.
ReloadTiles ==
  /\ Calls("world") /\ open /\ open' = FALSE
  /\ Unchanged /\ Returns /\ UNCHANGED <<opens, body, chanting, evacuation>>

\* map_evacuate is called at once for the first time.
StepsBefore == EvacuateTicks
StepsAfter == EvacuateTicks - 1
Evacuate ==
  /\ Calls("world") /\ ~evacuate_lock /\ evacuations < MaxEvacuations
  /\ evacuate_lock' = TRUE /\ evacuations' = evacuations + 1
  /\ evac' = StepsAfter
  /\ \E e \in Free_({}) :
       Relist({}, [a \in {e} |-> New("evacuate", e, EvacuateTicks)])
  /\ Returns /\ UNCHANGED <<body, chanting, doors>>

-----------------------------------------------------------------------------
\* The other callbacks of the world

world_recover ==
  /\ Calls("world")
  /\ \E health, magic \in 0..1 :
       /\ health + magic > 0
       /\ hp' = [c \in Casters |-> IF playing[c]
                                   THEN AtMost(hp[c] + health, MaxHp) ELSE hp[c]]
       /\ tp' = [c \in Casters |-> IF playing[c]
                                   THEN AtMost(tp[c] + magic, MaxTp) ELSE tp[c]]
  /\ Unchanged /\ Returns
  /\ UNCHANGED <<playing, map_, nowhere, chanting, doors, evacuation>>

\* Those who stand on them.
TimedSpikes ==
  /\ Calls("world")
  /\ \E S \in SUBSET {c \in Casters : On(c, "here")} :
       /\ S # {}
       /\ Hurt([c \in Casters |-> IF c \in S /\ hp[c] > 0 THEN hp[c] - 1
                                                         ELSE hp[c]])
  /\ Unchanged /\ Returns /\ UNCHANGED <<tp, chanting, doors, evacuation>>

AllOfIt(n) == 0
ButOne(n) == IF n > 1 THEN n - 1 ELSE n
Drained_(n) == ButOne(n)
TimedDrains ==
  /\ Calls("world")
  /\ \/ hp' = [c \in Casters |-> IF On(c, "here") THEN Drained_(hp[c])
                                               ELSE hp[c]]
        /\ UNCHANGED tp
     \/ tp' = [c \in Casters |-> IF On(c, "here") /\ tp[c] > 0 THEN tp[c] - 1
                                                                  ELSE tp[c]]
        /\ UNCHANGED hp
  /\ Unchanged /\ Returns
  /\ UNCHANGED <<playing, map_, nowhere, chanting, doors, evacuation>>

Nothing == Calls("world") /\ Unchanged /\ Returns
           /\ UNCHANGED <<body, chanting, doors, evacuation>>

-----------------------------------------------------------------------------
\* The callbacks of the other events

\* character_cast_spell lets go of its event before anything else.
StillHeld(c) == chant
LetGo(c) == [chant EXCEPT ![c].event = 0]

character_cast_spell ==
  /\ Calls("spell")
  /\ LET c == memory[running].who
         now == LetGo(c) IN
     /\ matured' = [matured EXCEPT ![c] = @ + 1]
     /\ IF chant[c].target = Invalid
        THEN /\ chant' = [now EXCEPT ![c].ready = TRUE]
             /\ Unchanged /\ UNCHANGED <<body, casts>>
        ELSE /\ chant' = ChantsOver({c})
             /\ Relist({now[c].event} \ {0}, NoEvents)
             /\ SpellAct(c, chant[c].target)
  /\ Returns /\ UNCHANGED <<chants, doors, evacuation>>

map_close_door ==
  /\ Calls("door") /\ open' = FALSE
  /\ Unchanged /\ Returns /\ UNCHANGED <<opens, body, chanting, evacuation>>

\* Counts down; then everyone but the guides is sent to jail.
map_evacuate ==
  /\ Calls("evacuate")
  /\ IF evac > 0
     THEN evac' = evac - 1 /\ Unchanged
          /\ UNCHANGED <<evacuate_lock, body, chanting>>
     ELSE LET S == {c \in Casters \ Guides : On(c, "here")} IN
          /\ CancelSpell(S)
          /\ map_' = [c \in Casters |-> IF c \in S THEN "away" ELSE map_[c]]
          /\ evacuate_lock' = FALSE /\ evac' = Freed
          /\ UNCHANGED <<playing, nowhere, hp, tp>>
  /\ Returns /\ UNCHANGED <<evacuations, doors>>

Callback ==
  \/ OpenDoor \/ ReloadTiles \/ Evacuate \/ Nothing
  \/ world_recover \/ TimedSpikes \/ TimedDrains
  \/ character_cast_spell \/ map_close_door \/ map_evacuate
  \/ \E c \in Casters :
       \/ Moves(c) \/ JoinGame(c)
       \/ \E s \in DOMAIN Book : Spell_Request(c, s)
       \/ \E target \in Targets : Spell_Target(c, target)
       \/ \E m \in Maps : ChangeMap(c, m)
       \/ \E v \in Casters : AttackPK(c, v)

Ticks == TimerNext /\ UNCHANGED <<body, chanting, doors, evacuation>>
SpellsNext == Ticks \/ Callback \/ \E c \in Casters : LeaveGame(c)

\* EOServer::Tick calls Timer::Tick for ever, and time passes: an event that
\* is looked at again and again is due at last.
SpellsFairness ==
  /\ WF_spellsVars(Ticks \/ Callback)
  /\ \A e \in Addresses :
       SF_spellsVars(Fire(e) /\ UNCHANGED <<body, chanting, doors, evacuation>>)

SpellsSpec == SpellsInit /\ [][SpellsNext]_spellsVars /\ SpellsFairness

-----------------------------------------------------------------------------
\* No event outlives what its callback will be given, and nobody holds a
\* pointer to an event that is gone (timer.cpp:249, character.cpp:939): the
\* events of chants are those their casters hold, and the one of an
\* evacuation has its struct.
Pending == timers \cup (IF turn = "callback" THEN {running} ELSE {})
EventsSound ==
  /\ OnlyLiving
  /\ \A e \in Pending :
       /\ memory[e].kind = "spell" =>
            playing[memory[e].who] /\ chant[memory[e].who].event = e
       /\ memory[e].kind = "evacuate" => evac # Freed
  /\ \A c \in Casters : chant[c].event # 0 => /\ chant[c].event \in Pending
                                              /\ memory[chant[c].event].who = c

\* A chant that came to its end gives one cast at most, whichever of the end
\* and the target comes first.
CastOnce == \A c \in Casters : casts[c] <= matured[c]

\* Spikes, spells, blows and drains leave nobody on a map without hp.
NobodyStandsDead ==
  \A c \in Casters : playing[c] /\ ~nowhere[c] => hp[c] > 0

\* A door that was opened closes and a map that is evacuated is open again.
TimedThingsEnd == (open ~> ~open) /\ (evacuate_lock ~> ~evacuate_lock)

\* What runs by timer finds what it was given, and what a chant, a blow, a
\* drain or a recovery does, it does once and leaves a state that may go on.
SpellsSound == EventsSound /\ CastOnce /\ NobodyStandsDead
===========================================================================
