---------------------------- MODULE SpellsProofs ----------------------------
(***************************************************************************)
(* The timer of the world and what it runs, for any casters, spells, maps  *)
(* and addresses.  An event is known by its address, and the list, what    *)
(* the casters hold and what a callback is given are changed by different  *)
(* hands: SpellsInv says whose each event is, so that whatever deletes     *)
(* some events and allocates others (Turns, Chanted) leaves the rest with  *)
(* those who hold them.                                                    *)
(***************************************************************************)
EXTENDS Spells, FiniteSetTheorems, TLAPS

-----------------------------------------------------------------------------
\* Spells and the timer: the inductive invariant.

Kinds == {"world", "spell", "door", "evacuate"}
Events == [kind : Kinds, who : Casters \cup Addresses, lifetime : Int,
           managed : BOOLEAN]
Chants == [event : Addresses \cup {0}, ready : BOOLEAN,
           spell : DOMAIN Book \cup {"none"}, target : Targets \cup {Invalid}]

\* Whatever is listed, or in its callback, is there.
ListSound ==
  /\ memory \in [DOMAIN memory -> Events] /\ DOMAIN memory \subseteq Addresses
  /\ timers \subseteq DOMAIN memory
  /\ turn \in {"idle", "list", "callback", "called"}
  /\ turn \in {"callback", "called"} => running \in DOMAIN memory
  /\ \A e \in timers : memory[e].managed

\* In its callback an event is gone from the list if this was its last.
InCallback(e) == turn = "callback" /\ running = e

SpellEvent(e) == memory[e].kind = "spell" =>
  /\ memory[e].who \in Casters /\ playing[memory[e].who]
  /\ chant[memory[e].who].event = e
  /\ e \in timers => memory[e].lifetime = 1
  /\ InCallback(e) => e \notin timers

\* One event for an evacuation: its lifetime is one ahead of what is left.
EvacuateEvent(e) == memory[e].kind = "evacuate" =>
  /\ evacuate_lock
  /\ \A f \in Pending : memory[f].kind = "evacuate" => f = e
  /\ IF InCallback(e)
     THEN memory[e].lifetime = evac /\ (e \in timers <=> evac # 0)
     ELSE memory[e].lifetime = evac + 1

ChantHeld(c) ==
  /\ chant[c].event # 0 => /\ chant[c].event \in Pending
                           /\ memory[chant[c].event].kind = "spell"
                           /\ memory[chant[c].event].who = c
  /\ chant[c].event # 0 \/ chant[c].ready => chant[c].spell \in DOMAIN Book

OneCastEach(c) ==
  /\ casts[c] \in Int /\ matured[c] \in Int
  /\ casts[c] + (IF chant[c].ready THEN 1 ELSE 0) <= matured[c]

\* Events, chants, casts and bodies together.
SpellsInv ==
  /\ ListSound
  /\ \A e \in Pending : SpellEvent(e) /\ EvacuateEvent(e)
  /\ chant \in [Casters -> Chants]
  /\ \A c \in Casters : ChantHeld(c) /\ OneCastEach(c)
  /\ casts \in [Casters -> Int] /\ matured \in [Casters -> Int]
  /\ playing \in [Casters -> BOOLEAN]
  /\ hp \in [Casters -> 1..MaxHp] /\ tp \in [Casters -> Nat]
  /\ evac \in Nat \cup {Freed} /\ evacuate_lock \in BOOLEAN
  /\ evacuate_lock <=> evac # Freed

\* A callback, or what is done outside of Tick, deletes some events of the
\* casters of S and allocates others.
Turns(gone, new) ==
  /\ turn \in {"idle", "callback"} /\ gone \subseteq Addresses
  /\ turn = "callback" => running \notin gone
  /\ new \in [DOMAIN new -> Events]
  /\ DOMAIN new \subseteq (Addresses \ DOMAIN memory) \cup gone
  /\ \A e \in DOMAIN new : new[e].managed
  /\ Relist(gone, new) /\ Returns

Chanted(S, gone, new) ==
  /\ gone \subseteq EventsOf(S) /\ \A e \in EventsOf(S) : e \in timers => e \in gone
  /\ turn = "callback" /\ memory[running].kind = "spell" => running \in EventsOf(S)
  /\ \A c \in Casters \ S : /\ chant'[c].event = chant[c].event
                            /\ playing[c] => playing'[c]
  /\ \A c \in S : chant'[c].event # 0 =>
       /\ chant'[c].event \in DOMAIN new
       /\ new[chant'[c].event].kind = "spell" /\ new[chant'[c].event].who = c
  /\ \A e \in DOMAIN new : new[e].kind = "spell" =>
       /\ new[e].who \in S /\ new[e].lifetime = 1
       /\ playing'[new[e].who] /\ chant'[new[e].who].event = e

\* What Relist leaves in the list.
LEMMA Relisted ==
  ASSUME SpellsInv, NEW gone, NEW new, Turns(gone, new)
  PROVE  /\ ListSound' /\ timers' = (timers \ gone) \cup DOMAIN new
         /\ Pending' = timers' /\ \A e : ~InCallback(e)'
         /\ \A e \in DOMAIN new : memory'[e] = new[e]
         /\ \A e \in timers \ gone : memory'[e] = memory[e]
<1>1. ListSound
  BY DEF SpellsInv
<1>2. /\ turn \in {"idle", "callback"} /\ gone \subseteq Addresses
      /\ turn = "callback" => running \notin gone
      /\ new \in [DOMAIN new -> Events]
      /\ DOMAIN new \subseteq (Addresses \ DOMAIN memory) \cup gone
      /\ \A e \in DOMAIN new : new[e].managed
      /\ turn' = IF turn = "callback" THEN "called" ELSE turn
      /\ running' = running
  BY DEF Turns, Returns
<1>3. timers' = (timers \ gone) \cup DOMAIN new
  BY DEF Turns, Relist
<1> DEFINE M == (DOMAIN memory \ gone) \cup DOMAIN new
<1>4. memory' = [e \in M |-> IF e \in DOMAIN new THEN new[e] ELSE memory[e]]
  BY DEF Turns, Relist
<1> HIDE DEF M
<1>5. DOMAIN memory' = M
  BY <1>4
<1>6. \A e \in DOMAIN new : memory'[e] = new[e]
  BY <1>4 DEF M
<1>7. \A e \in DOMAIN memory \ gone : memory'[e] = memory[e] /\ e \in M
  <2> SUFFICES ASSUME NEW e \in DOMAIN memory \ gone
               PROVE  memory'[e] = memory[e] /\ e \in M
    OBVIOUS
  <2>1. e \notin DOMAIN new /\ e \in M
    BY <1>2 DEF M
  <2> QED
    BY <1>4, <2>1
<1>8. memory' \in [DOMAIN memory' -> Events]
  <2>1. \A e \in M : memory'[e] \in Events
    <3> SUFFICES ASSUME NEW e \in M PROVE memory'[e] \in Events
      OBVIOUS
    <3>1. CASE e \in DOMAIN new
      BY <1>2, <1>6, <3>1
    <3>2. CASE e \notin DOMAIN new
      BY <1>1, <1>7, <3>2 DEF ListSound, M
    <3> QED
      BY <3>1, <3>2
  <2> QED
    BY <1>4, <1>5, <2>1
<1>9. \A e \in timers \ gone : memory'[e] = memory[e]
  BY <1>1, <1>7 DEF ListSound
<1>10. ListSound'
  <2>1. DOMAIN memory' \subseteq Addresses
    BY <1>1, <1>2, <1>5 DEF ListSound, M
  <2>2. timers' \subseteq DOMAIN memory'
    BY <1>1, <1>3, <1>5 DEF ListSound, M
  <2>3. turn' \in {"callback", "called"} => running' \in DOMAIN memory'
    BY <1>1, <1>2, <1>5 DEF ListSound, M
  <2>4. \A e \in timers' : memory'[e].managed
    BY <1>1, <1>2, <1>3, <1>6, <1>9 DEF ListSound
  <2>5. turn' \in {"idle", "list", "callback", "called"}
    BY <1>2
  <2> QED
    BY <1>8, <2>1, <2>2, <2>3, <2>4, <2>5 DEF ListSound
<1>11. turn' # "callback"
  BY <1>2
<1> QED
  BY <1>3, <1>6, <1>9, <1>10, <1>11 DEF Pending, InCallback

\* The events of chants are those of S, or as they were.
LEMMA ChantsKept ==
  ASSUME SpellsInv, NEW S \in SUBSET Casters, NEW gone, NEW new,
         Turns(gone, new), Chanted(S, gone, new)
  PROVE  /\ \A e \in Pending' : SpellEvent(e)'
         /\ \A c \in Casters : chant'[c].event # 0 =>
              /\ chant'[c].event \in Pending'
              /\ memory'[chant'[c].event].kind = "spell"
              /\ memory'[chant'[c].event].who = c
<1>1. /\ timers' = (timers \ gone) \cup DOMAIN new
      /\ Pending' = timers' /\ \A e : ~InCallback(e)'
      /\ \A e \in DOMAIN new : memory'[e] = new[e]
      /\ \A e \in timers \ gone : memory'[e] = memory[e]
  BY Relisted
<1>2. /\ gone \subseteq EventsOf(S) /\ \A e \in EventsOf(S) : e \in timers => e \in gone
      /\ turn = "callback" /\ memory[running].kind = "spell" => running \in EventsOf(S)
      /\ \A c \in Casters \ S : /\ chant'[c].event = chant[c].event
                                /\ playing[c] => playing'[c]
      /\ \A c \in S : chant'[c].event # 0 =>
           /\ chant'[c].event \in DOMAIN new
           /\ new[chant'[c].event].kind = "spell" /\ new[chant'[c].event].who = c
      /\ \A e \in DOMAIN new : new[e].kind = "spell" =>
           /\ new[e].who \in S /\ new[e].lifetime = 1
           /\ playing'[new[e].who] /\ chant'[new[e].who].event = e
  BY DEF Chanted
<1>3. \A e \in EventsOf(S) : e # 0 /\ \E c \in S : chant[c].event = e
  BY DEF EventsOf
<1>4. \A c \in S : chant[c].event # 0 => chant[c].event \in EventsOf(S)
  BY DEF EventsOf
<1>5. /\ timers \subseteq Pending /\ 0 \notin timers
      /\ \A e \in Pending : e \in timers \/ (turn = "callback" /\ e = running)
  <2>1. timers \subseteq Addresses /\ 0 \notin Addresses
    BY SpellsAssumption DEF SpellsInv, ListSound
  <2>2. timers \subseteq Pending
    BY DEF Pending
  <2>3. \A e \in Pending : e \in timers \/ (turn = "callback" /\ e = running)
    BY DEF Pending
  <2> QED
    BY <2>1, <2>2, <2>3
<1>6. ASSUME NEW e \in Pending' PROVE SpellEvent(e)'
  <2>1. CASE e \in DOMAIN new
    BY <1>1, <1>2, <2>1 DEF SpellEvent
  <2>2. CASE e \in timers \ gone
    <3> SUFFICES ASSUME memory'[e].kind = "spell"
          PROVE  /\ memory'[e].who \in Casters /\ playing'[memory'[e].who]
                 /\ chant'[memory'[e].who].event = e
                 /\ memory'[e].lifetime = 1
      BY <1>1 DEF SpellEvent
    <3>1. memory'[e] = memory[e] /\ SpellEvent(e) /\ e # 0
      BY <1>1, <1>5, <2>2 DEF SpellsInv
    <3>2. /\ memory[e].who \in Casters /\ playing[memory[e].who]
          /\ chant[memory[e].who].event = e /\ memory[e].lifetime = 1
      BY <2>2, <3>1 DEF SpellEvent
    <3>3. memory[e].who \notin S
      BY <1>2, <1>4, <2>2, <3>1, <3>2
    <3> QED
      BY <1>2, <3>1, <3>2, <3>3
  <2> QED
    BY <1>1, <1>6, <2>1, <2>2
<1>7. ASSUME NEW c \in Casters, chant'[c].event # 0
      PROVE  /\ chant'[c].event \in Pending'
             /\ memory'[chant'[c].event].kind = "spell"
             /\ memory'[chant'[c].event].who = c
  <2>1. CASE c \in S
    BY <1>1, <1>2, <1>7, <2>1
  <2>2. CASE c \notin S
    <3> PICK e : e = chant[c].event
      OBVIOUS
    <3>1. chant'[c].event = e /\ e # 0
      BY <1>2, <1>7, <2>2
    <3>2. e \in Pending /\ memory[e].kind = "spell" /\ memory[e].who = c
      BY <3>1 DEF SpellsInv, ChantHeld
    <3>3. e \notin EventsOf(S)
      <4> SUFFICES ASSUME NEW d \in S, chant[d].event = e PROVE FALSE
        BY <1>3
      <4>1. memory[e].who = d
        BY <3>1 DEF SpellsInv, ChantHeld
      <4> QED
        BY <2>2, <3>2, <4>1
    <3>4. e \in timers \ gone
      BY <1>2, <1>5, <3>2, <3>3
    <3> QED
      BY <1>1, <3>1, <3>2, <3>4
  <2> QED
    BY <2>1, <2>2
<1> QED
  BY <1>6, <1>7

\* Nothing about an evacuation.
LEMMA EvacuationKept ==
  ASSUME SpellsInv, NEW gone, NEW new, Turns(gone, new),
         \A e \in DOMAIN new : new[e].kind # "evacuate",
         turn = "callback" => memory[running].kind # "evacuate",
         UNCHANGED <<evac, evacuate_lock>>
  PROVE  \A e \in Pending' : EvacuateEvent(e)'
<1>1. /\ timers' = (timers \ gone) \cup DOMAIN new
      /\ Pending' = timers' /\ \A e : ~InCallback(e)'
      /\ \A e \in DOMAIN new : memory'[e] = new[e]
      /\ \A e \in timers \ gone : memory'[e] = memory[e]
  BY Relisted
<1>2. timers \subseteq Pending
  BY DEF Pending
<1>3. \A f \in Pending' : memory'[f].kind = "evacuate" =>
         f \in timers \ gone /\ memory[f].kind = "evacuate" /\ memory'[f] = memory[f]
  BY <1>1
<1> SUFFICES ASSUME NEW e \in Pending', memory'[e].kind = "evacuate"
      PROVE  /\ evacuate_lock'
             /\ \A f \in Pending' : memory'[f].kind = "evacuate" => f = e
             /\ memory'[e].lifetime = evac' + 1
  BY <1>1 DEF EvacuateEvent
<1>4. e \in timers /\ memory[e].kind = "evacuate" /\ memory'[e] = memory[e]
  BY <1>3
<1>5. EvacuateEvent(e) /\ ~InCallback(e)
  BY <1>2, <1>4 DEF SpellsInv, InCallback
<1>6. /\ evacuate_lock /\ memory[e].lifetime = evac + 1
      /\ \A f \in Pending : memory[f].kind = "evacuate" => f = e
  BY <1>4, <1>5 DEF EvacuateEvent
<1> QED
  BY <1>2, <1>3, <1>4, <1>6

\* Of each caster: what it chants now, and what it cast.
LEMMA ChantsOverKeeps ==
  ASSUME SpellsInv, NEW S \in SUBSET Casters, chant' = ChantsOver(S)
  PROVE  /\ chant' \in [Casters -> Chants]
         /\ \A c \in S : chant'[c].event = 0 /\ chant'[c].ready = FALSE
         /\ \A c \in Casters \ S : chant'[c] = chant[c]
<1>1. NoChant \in Chants /\ NoChant.event = 0 /\ NoChant.ready = FALSE
  BY DEF NoChant, Chants
<1>2. \A c \in Casters : chant'[c] = IF c \in S THEN NoChant ELSE chant[c]
  BY DEF ChantsOver
<1>3. chant \in [Casters -> Chants]
  BY DEF SpellsInv
<1> QED
  BY <1>1, <1>2, <1>3 DEF ChantsOver

\* The events of a chant that is cancelled go with it.
LEMMA CancelTurns ==
  ASSUME SpellsInv, NEW S \in SUBSET Casters,
         turn = "idle" \/ (turn = "callback" /\ memory[running].kind # "spell"),
         Relist(EventsOf(S), NoEvents), Returns,
         \A c \in S : chant'[c].event = 0,
         \A c \in Casters \ S : /\ chant'[c].event = chant[c].event
                                /\ playing[c] => playing'[c]
  PROVE  Turns(EventsOf(S), NoEvents) /\ Chanted(S, EventsOf(S), NoEvents)
<1>1. DOMAIN NoEvents = {} /\ NoEvents \in [DOMAIN NoEvents -> Events]
  BY DEF NoEvents
<1>2. ASSUME NEW e \in EventsOf(S)
      PROVE  e \in Addresses /\ (turn = "callback" => running # e)
  <2>1. PICK c \in S : chant[c].event = e /\ e # 0
    BY <1>2 DEF EventsOf
  <2>2. e \in Addresses /\ memory[e].kind = "spell"
    BY <2>1 DEF SpellsInv, ChantHeld, Chants
  <2> QED
    BY <2>2
<1>3. Turns(EventsOf(S), NoEvents)
  BY <1>1, <1>2 DEF Turns
<1>4. Chanted(S, EventsOf(S), NoEvents)
  BY <1>1 DEF Chanted
<1> QED
  BY <1>3, <1>4

\* All that is left to show of a step that cancels chants.
LEMMA CancelKeeps ==
  ASSUME SpellsInv, NEW S \in SUBSET Casters,
         turn = "idle" \/ (turn = "callback" /\ memory[running].kind # "spell"),
         CancelSpell(S), Returns,
         \A c \in Casters \ S : playing[c] => playing'[c],
         playing' \in [Casters -> BOOLEAN], hp' \in [Casters -> 1..MaxHp],
         tp' \in [Casters -> Nat]
  PROVE  /\ (turn = "callback" => memory[running].kind # "evacuate")
            /\ UNCHANGED <<evac, evacuate_lock>> => SpellsInv'
         /\ Turns(EventsOf(S), NoEvents) /\ ListSound'
         /\ \A e \in Pending' : SpellEvent(e)'
         /\ chant' \in [Casters -> Chants]
         /\ \A c \in Casters : ChantHeld(c)' /\ OneCastEach(c)'
         /\ UNCHANGED <<casts, matured>>
<1>1. /\ chant' = ChantsOver(S) /\ Relist(EventsOf(S), NoEvents)
      /\ UNCHANGED <<casts, matured>>
  BY DEF CancelSpell
<1>2. /\ chant' \in [Casters -> Chants]
      /\ \A c \in S : chant'[c].event = 0 /\ chant'[c].ready = FALSE
      /\ \A c \in Casters \ S : chant'[c] = chant[c]
  BY <1>1, ChantsOverKeeps
<1>3. Turns(EventsOf(S), NoEvents) /\ Chanted(S, EventsOf(S), NoEvents)
  BY <1>1, <1>2, CancelTurns
<1>4. ListSound'
  BY <1>3, Relisted
<1>5. /\ \A e \in Pending' : SpellEvent(e)'
      /\ \A c \in Casters : chant'[c].event # 0 =>
              /\ chant'[c].event \in Pending'
              /\ memory'[chant'[c].event].kind = "spell"
              /\ memory'[chant'[c].event].who = c
  BY <1>3, ChantsKept
<1>6. ASSUME NEW c \in Casters PROVE ChantHeld(c)' /\ OneCastEach(c)'
  <2>1. ChantHeld(c) /\ OneCastEach(c)
    BY DEF SpellsInv
  <2>2. ChantHeld(c)'
    BY <1>2, <1>5, <2>1 DEF ChantHeld
  <2>3. chant'[c].ready = FALSE \/ chant'[c].ready = chant[c].ready
    BY <1>2
  <2>4. /\ casts[c] \in Int /\ matured[c] \in Int
        /\ casts[c] + (IF chant'[c].ready THEN 1 ELSE 0) <= matured[c]
    <3>1. casts[c] \in Int /\ matured[c] \in Int
      BY <2>1 DEF OneCastEach
    <3>2. casts[c] <= matured[c]
      BY <2>1 DEF OneCastEach
    <3>3. CASE chant'[c].ready = FALSE
      BY <3>1, <3>2, <3>3
    <3>4. CASE chant'[c].ready = chant[c].ready
      BY <2>1, <3>4 DEF OneCastEach
    <3> QED
      BY <2>3, <3>1, <3>3, <3>4
  <2>5. OneCastEach(c)'
    BY <1>1, <2>4 DEF OneCastEach
  <2> QED
    BY <2>2, <2>5
<1>7. ASSUME turn = "callback" => memory[running].kind # "evacuate",
             UNCHANGED <<evac, evacuate_lock>>
      PROVE  SpellsInv'
  <2>1. \A e \in DOMAIN NoEvents : NoEvents[e].kind # "evacuate"
    BY DEF NoEvents
  <2>2. \A e \in Pending' : EvacuateEvent(e)'
    BY <1>3, <1>7, <2>1, EvacuationKept
  <2>3. /\ casts' \in [Casters -> Int] /\ matured' \in [Casters -> Int]
        /\ evac' \in Nat \cup {Freed} /\ evacuate_lock' \in BOOLEAN
        /\ evacuate_lock' <=> evac' # Freed
    BY <1>1, <1>7 DEF SpellsInv
  <2> QED
    BY <1>2, <1>4, <1>5, <1>6, <2>2, <2>3 DEF SpellsInv
<1> QED
  BY <1>1, <1>2, <1>3, <1>4, <1>5, <1>6, <1>7

-----------------------------------------------------------------------------
\* The bodies: whoever has no hp left is sent off at once.

Bodies == /\ playing \in [Casters -> BOOLEAN]
          /\ hp \in [Casters -> 1..MaxHp] /\ tp \in [Casters -> Nat]

\* Everyone who was hurt to death is somewhere else, alive.
LEMMA HurtKeeps ==
  ASSUME Bodies, NEW hurt \in [Casters -> 0..MaxHp], Hurt(hurt)
  PROVE  hp' \in [Casters -> 1..MaxHp] /\ playing' = playing
<1>1. /\ hp' = [c \in Casters |-> IF c \in Dying(hurt) THEN DeathRecover
                                                      ELSE hurt[c]]
      /\ playing' = playing
  BY DEF Hurt, Respawn
<1>2. ASSUME NEW c \in Casters
      PROVE  (IF c \in Dying(hurt) THEN DeathRecover ELSE hurt[c]) \in 1..MaxHp
  <2>1. MaxHp \in Nat /\ DeathRecover \in 1..MaxHp /\ hurt[c] \in 0..MaxHp
    BY SpellsAssumption
  <2>2. c \notin Dying(hurt) => hurt[c] # 0
    BY DEF Dying
  <2> QED
    BY <2>1, <2>2
<1> QED
  BY <1>1, <1>2

\* A hit takes off what it may.
LEMMA HitKeeps ==
  ASSUME Bodies, NEW v \in Casters, NEW left \in 0..hp[v],
         Hurt([hp EXCEPT ![v] = left])
  PROVE  hp' \in [Casters -> 1..MaxHp] /\ playing' = playing
<1>1. MaxHp \in Nat /\ hp \in [Casters -> 1..MaxHp]
  BY SpellsAssumption DEF Bodies
<1>2. left \in 0..MaxHp
  BY <1>1
<1>3. [hp EXCEPT ![v] = left] \in [Casters -> 0..MaxHp]
  BY <1>1, <1>2
<1> QED
  BY <1>3, HurtKeeps

\* Nobody is healed to nothing.
LEMMA HealedKeeps ==
  ASSUME Bodies, NEW S, NEW gain \in Nat, Healed(S, gain)
  PROVE  hp' \in [Casters -> 1..MaxHp] /\ playing' = playing
<1>1. /\ hp' = [c \in Casters |-> IF c \in S THEN AtMost(hp[c] + gain, MaxHp)
                                             ELSE hp[c]]
      /\ playing' = playing
  BY DEF Healed
<1>2. ASSUME NEW c \in Casters
      PROVE  AtMost(hp[c] + gain, MaxHp) \in 1..MaxHp /\ hp[c] \in 1..MaxHp
  <2>1. MaxHp \in Nat /\ hp[c] \in 1..MaxHp
    BY SpellsAssumption DEF Bodies
  <2> QED
    BY <2>1 DEF AtMost
<1> QED
  BY <1>1, <1>2

\* Nobody pays what is not there.
LEMMA PaysKeeps ==
  ASSUME Bodies, NEW c \in Casters, NEW spell, spell.tp \in Nat, Pays(c, spell)
  PROVE  tp' \in [Casters -> Nat]
<1>1. tp[c] >= spell.tp /\ tp' = [tp EXCEPT ![c] = tp[c] - spell.tp]
  BY DEF Pays
<1>2. tp[c] \in Nat /\ tp \in [Casters -> Nat]
  BY DEF Bodies
<1>3. tp[c] - spell.tp \in Nat
  BY <1>1, <1>2
<1> QED
  BY <1>1, <1>2, <1>3

\* A spell, whatever its kind.
LEMMA EffectKeeps ==
  ASSUME Bodies, NEW c \in Casters, NEW target \in Targets, NEW s \in DOMAIN Book,
         Effect(c, target, Book[s])
  PROVE  hp' \in [Casters -> 1..MaxHp] /\ playing' = playing
         /\ tp' \in [Casters -> Nat]
<1>1. Book[s].hp \in Nat /\ Book[s].tp \in Nat
  BY SpellsAssumption
<1>2. CASE SpellSelf(c, Book[s])
  BY <1>1, <1>2, HealedKeeps, PaysKeeps DEF SpellSelf
<1>3. CASE SpellAttack(c, Book[s])
  BY <1>1, <1>3, PaysKeeps DEF SpellAttack, NoHarm, Bodies
<1>4. ASSUME target[1] = "player", SpellAttackPK(c, target[2], Book[s])
      PROVE  hp' \in [Casters -> 1..MaxHp] /\ playing' = playing
             /\ tp' \in [Casters -> Nat]
  <2>1. target[2] \in Casters
    BY <1>4 DEF Targets
  <2>2. tp' \in [Casters -> Nat]
    BY <1>1, <1>4, PaysKeeps DEF SpellAttackPK
  <2>3. \/ \E left \in 0..hp[target[2]] : Hurt([hp EXCEPT ![target[2]] = left])
        \/ Healed({target[2]}, Book[s].hp)
    BY <1>4 DEF SpellAttackPK
  <2>4. CASE \E left \in 0..hp[target[2]] : Hurt([hp EXCEPT ![target[2]] = left])
    BY <2>1, <2>2, <2>4, HitKeeps
  <2>5. CASE Healed({target[2]}, Book[s].hp)
    BY <1>1, <2>2, <2>5, HealedKeeps
  <2> QED
    BY <2>3, <2>4, <2>5
<1>5. CASE SpellGroup(c, Book[s])
  BY <1>1, <1>5, HealedKeeps, PaysKeeps DEF SpellGroup
<1> QED
  BY <1>2, <1>3, <1>4, <1>5 DEF Effect

\* A spell at its end: at most one more was cast.
LEMMA SpellActKeeps ==
  ASSUME SpellsInv, NEW c \in Casters, NEW target \in Targets,
         chant[c].spell \in DOMAIN Book, SpellAct(c, target)
  PROVE  /\ hp' \in [Casters -> 1..MaxHp] /\ playing' = playing
         /\ tp' \in [Casters -> Nat]
         /\ casts' = [casts EXCEPT ![c] = casts[c] + 1]
<1>1. Bodies
  BY DEF SpellsInv, Bodies
<1>2. casts' = [casts EXCEPT ![c] = casts[c] + 1]
  BY DEF SpellAct
<1>3. CASE Effect(c, target, Book[chant[c].spell])
  BY <1>1, <1>2, <1>3, EffectKeeps
<1>4. CASE NoHarm /\ UNCHANGED tp
  BY <1>1, <1>2, <1>4 DEF NoHarm, Bodies
<1> QED
  BY <1>3, <1>4 DEF SpellAct

-----------------------------------------------------------------------------
\* The steps.

\* What is left to show when the events of chants are taken care of.
LEMMA Finish ==
  ASSUME SpellsInv, NEW S \in SUBSET Casters, NEW gone, NEW new,
         Turns(gone, new), Chanted(S, gone, new),
         chant' \in [Casters -> Chants],
         \A c \in Casters :
           /\ chant'[c].event # 0 \/ chant'[c].ready =>
                chant'[c].spell \in DOMAIN Book
           /\ OneCastEach(c)',
         \A e \in Pending' : EvacuateEvent(e)',
         evac' \in Nat \cup {Freed}, evacuate_lock' \in BOOLEAN,
         evacuate_lock' <=> evac' # Freed,
         casts' \in [Casters -> Int], matured' \in [Casters -> Int],
         playing' \in [Casters -> BOOLEAN], hp' \in [Casters -> 1..MaxHp],
         tp' \in [Casters -> Nat]
  PROVE  SpellsInv'
<1>1. ListSound'
  BY Relisted
<1>2. /\ \A e \in Pending' : SpellEvent(e)'
      /\ \A c \in Casters : chant'[c].event # 0 =>
              /\ chant'[c].event \in Pending'
              /\ memory'[chant'[c].event].kind = "spell"
              /\ memory'[chant'[c].event].who = c
  BY ChantsKept
<1>3. \A c \in Casters : ChantHeld(c)'
  BY <1>2 DEF ChantHeld
<1> QED
  BY <1>1, <1>2, <1>3 DEF SpellsInv

\* Where nothing is chanted, cancelled or timed.
LEMMA QuietKeeps ==
  ASSUME SpellsInv, turn = "callback",
         memory[running].kind \in {"world", "door"},
         Unchanged, Returns, UNCHANGED <<chanting, evac, evacuate_lock, playing>>,
         hp' \in [Casters -> 1..MaxHp], tp' \in [Casters -> Nat]
  PROVE  SpellsInv'
<1>1. chant \in [Casters -> Chants] /\ playing \in [Casters -> BOOLEAN]
  BY DEF SpellsInv
<1>2. EventsOf({}) = {} /\ ChantsOver({}) = chant
  BY <1>1 DEF EventsOf, ChantsOver
<1>3. CancelSpell({})
  BY <1>2 DEF CancelSpell, Unchanged, chanting
<1>4. playing' \in [Casters -> BOOLEAN] /\ \A c \in Casters : playing[c] => playing'[c]
  BY <1>1
<1>5. {} \in SUBSET Casters
  OBVIOUS
<1> QED
  BY <1>3, <1>4, <1>5, CancelKeeps

\* Whose callback it is.
LEMMA InWorld ==
  ASSUME SpellsInv, NEW kind \in Kinds, Calls(kind)
  PROVE  turn = "callback" /\ memory[running].kind = kind /\ running \in Pending
BY DEF Calls, Pending

\* Doors that close, spikes, drains, recovery.
LEMMA QuietStepsKeep ==
  ASSUME SpellsInv,
         \/ ReloadTiles \/ Nothing \/ world_recover \/ TimedSpikes
         \/ TimedDrains \/ map_close_door
  PROVE  SpellsInv'
<1>1. Bodies
  BY DEF SpellsInv, Bodies
<1>2. hp \in [Casters -> 1..MaxHp] /\ tp \in [Casters -> Nat] /\ MaxHp \in Nat
      /\ MaxTp \in Nat
  BY <1>1, SpellsAssumption DEF Bodies
<1>3. CASE ReloadTiles
  BY <1>2, <1>3, InWorld, QuietKeeps DEF ReloadTiles, Kinds, body, evacuation
<1>4. CASE Nothing
  BY <1>2, <1>4, InWorld, QuietKeeps DEF Nothing, Kinds, body, evacuation
<1>5. CASE map_close_door
  BY <1>2, <1>5, InWorld, QuietKeeps DEF map_close_door, Kinds, body, evacuation
<1>6. CASE world_recover
  <2>1. PICK health \in 0..1, magic \in 0..1 :
       /\ hp' = [c \in Casters |-> IF playing[c]
                                   THEN AtMost(hp[c] + health, MaxHp) ELSE hp[c]]
       /\ tp' = [c \in Casters |-> IF playing[c]
                                   THEN AtMost(tp[c] + magic, MaxTp) ELSE tp[c]]
    BY <1>6 DEF world_recover
  <2>2. \A c \in Casters : AtMost(hp[c] + health, MaxHp) \in 1..MaxHp
    <3> TAKE c \in Casters
    <3>1. hp[c] \in 1..MaxHp /\ hp[c] + health \in Nat \ {0}
      BY <1>2
    <3> QED
      BY <1>2, <3>1 DEF AtMost
  <2>3. \A c \in Casters : AtMost(tp[c] + magic, MaxTp) \in Nat
    <3> TAKE c \in Casters
    <3>1. tp[c] \in Nat /\ tp[c] + magic \in Nat
      BY <1>2
    <3> QED
      BY <1>2, <3>1 DEF AtMost
  <2>4. hp' \in [Casters -> 1..MaxHp]
    BY <1>2, <2>1, <2>2
  <2>5. tp' \in [Casters -> Nat]
    BY <1>2, <2>1, <2>3
  <2> QED
    BY <1>6, <2>4, <2>5, InWorld, QuietKeeps DEF world_recover, Kinds, evacuation
<1>7. CASE TimedSpikes
  <2>1. PICK S \in SUBSET {c \in Casters : On(c, "here")} :
          Hurt([c \in Casters |-> IF c \in S /\ hp[c] > 0 THEN hp[c] - 1 ELSE hp[c]])
    BY <1>7 DEF TimedSpikes
  <2>2. [c \in Casters |-> IF c \in S /\ hp[c] > 0 THEN hp[c] - 1 ELSE hp[c]]
          \in [Casters -> 0..MaxHp]
    BY <1>2
  <2>3. hp' \in [Casters -> 1..MaxHp] /\ playing' = playing
    BY <1>1, <2>1, <2>2, HurtKeeps
  <2> QED
    BY <1>2, <1>7, <2>3, InWorld, QuietKeeps DEF TimedSpikes, Kinds, evacuation
<1>8. CASE TimedDrains
  <2>1. hp' \in [Casters -> 1..MaxHp] /\ tp' \in [Casters -> Nat]
    <3>1. CASE /\ hp' = [c \in Casters |-> IF On(c, "here") THEN Drained_(hp[c])
                                                           ELSE hp[c]]
               /\ UNCHANGED tp
      <4>1. \A c \in Casters : Drained_(hp[c]) \in 1..MaxHp
        <5> TAKE c \in Casters
        <5>1. hp[c] \in 1..MaxHp
          BY <1>2
        <5> QED
          BY <1>2, <5>1 DEF Drained_, ButOne
      <4> QED
        BY <1>2, <3>1, <4>1
    <3>2. CASE /\ tp' = [c \in Casters |-> IF On(c, "here") /\ tp[c] > 0
                                           THEN tp[c] - 1 ELSE tp[c]]
               /\ UNCHANGED hp
      BY <1>2, <3>2
    <3> QED
      BY <1>8, <3>1, <3>2 DEF TimedDrains
  <2> QED
    BY <1>8, <2>1, InWorld, QuietKeeps DEF TimedDrains, Kinds, evacuation
<1> QED
  BY <1>3, <1>4, <1>5, <1>6, <1>7, <1>8

\* Who moves, fights, leaves a map or the game cancels a chant.
LEMMA CancelStepsKeep ==
  ASSUME SpellsInv, NEW c \in Casters,
         \/ Moves(c) \/ LeaveGame(c)
         \/ \E m \in Maps : ChangeMap(c, m)
         \/ \E v \in Casters : AttackPK(c, v)
  PROVE  SpellsInv'
<1>1. Bodies /\ playing \in [Casters -> BOOLEAN]
  BY DEF SpellsInv, Bodies
<1>2. hp \in [Casters -> 1..MaxHp] /\ tp \in [Casters -> Nat] /\ MaxHp \in Nat
  BY <1>1, SpellsAssumption DEF Bodies
<1>3. {c} \in SUBSET Casters
  OBVIOUS
<1>4. CASE Moves(c)
  <2>1. hp' \in [Casters -> 1..MaxHp] /\ playing' = playing
    <3>1. CASE NoHarm
      BY <1>2, <3>1 DEF NoHarm
    <3>2. CASE Hurt([hp EXCEPT ![c] = @ - 1])
      <4>1. hp[c] \in 1..MaxHp
        BY <1>2
      <4> PICK left : left = hp[c] - 1
        OBVIOUS
      <4>2. left \in 0..hp[c] /\ Hurt([hp EXCEPT ![c] = left])
        BY <1>2, <3>2, <4>1
      <4> QED
        BY <1>1, <4>2, HitKeeps
    <3> QED
      BY <1>4, <3>1, <3>2 DEF Moves
  <2>2. turn = "callback" /\ memory[running].kind = "world"
    BY <1>4 DEF Moves, Pumped, Calls
  <2>3. tp' = tp /\ evac' = evac /\ evacuate_lock' = evacuate_lock
    BY <1>4 DEF Moves, evacuation
  <2>4. CancelSpell({c}) /\ Returns
    BY <1>4 DEF Moves
  <2> QED
    BY <1>1, <1>2, <1>3, <2>1, <2>2, <2>3, <2>4, CancelKeeps
<1>5. CASE LeaveGame(c)
  <2>1. turn = "idle" \/ (turn = "callback" /\ memory[running].kind = "world")
    BY <1>5 DEF LeaveGame, Calls
  <2>2. /\ playing' = [playing EXCEPT ![c] = FALSE]
        /\ UNCHANGED <<hp, tp, evac, evacuate_lock>>
        /\ CancelSpell({c}) /\ Returns
    BY <1>5 DEF LeaveGame, LogoutCancels, evacuation
  <2>3. /\ playing' \in [Casters -> BOOLEAN]
        /\ \A d \in Casters \ {c} : playing[d] => playing'[d]
    BY <1>1, <2>2
  <2> QED
    BY <1>2, <1>3, <2>1, <2>2, <2>3, CancelKeeps
<1>6. ASSUME NEW m \in Maps, ChangeMap(c, m) PROVE SpellsInv'
  <2>1. turn = "callback" /\ memory[running].kind = "world"
    BY <1>6 DEF ChangeMap, Pumped, Calls
  <2>2. /\ UNCHANGED <<playing, hp, tp, evac, evacuate_lock>>
        /\ CancelSpell({c}) /\ Returns
    BY <1>6 DEF ChangeMap, evacuation
  <2> QED
    BY <1>1, <1>2, <1>3, <2>1, <2>2, CancelKeeps
<1>7. ASSUME NEW v \in Casters, AttackPK(c, v) PROVE SpellsInv'
  <2>1. turn = "callback" /\ memory[running].kind = "world"
    BY <1>7 DEF AttackPK, Pumped, Calls
  <2>2. UNCHANGED <<tp, evac, evacuate_lock>> /\ CancelSpell({c}) /\ Returns
    BY <1>7 DEF AttackPK, evacuation
  <2>3. hp' \in [Casters -> 1..MaxHp] /\ playing' = playing
    BY <1>1, <1>7, HitKeeps DEF AttackPK
  <2> QED
    BY <1>1, <1>2, <1>3, <2>1, <2>2, <2>3, CancelKeeps
<1> QED
  BY <1>4, <1>5, <1>6, <1>7

\* Who joins has no chant: those of the last time were cancelled.
LEMMA JoinGameKeeps ==
  ASSUME SpellsInv, NEW c \in Casters, JoinGame(c)
  PROVE  SpellsInv'
<1>1. /\ turn = "callback" /\ memory[running].kind = "world"
      /\ ~playing[c] /\ playing' = [playing EXCEPT ![c] = TRUE]
      /\ chant' = [chant EXCEPT ![c] = NoChant] /\ Relist({}, NoEvents) /\ Returns
      /\ UNCHANGED <<hp, tp, matured, casts, evac, evacuate_lock>>
  BY DEF JoinGame, Calls, Unchanged, evacuation
<1>2. /\ chant \in [Casters -> Chants] /\ playing \in [Casters -> BOOLEAN]
      /\ casts \in [Casters -> Int] /\ matured \in [Casters -> Int]
      /\ hp \in [Casters -> 1..MaxHp] /\ tp \in [Casters -> Nat]
      /\ evac \in Nat \cup {Freed} /\ evacuate_lock \in BOOLEAN
      /\ evacuate_lock <=> evac # Freed
  BY DEF SpellsInv
<1>3. chant[c].event = 0
  <2> SUFFICES ASSUME chant[c].event # 0 PROVE FALSE
    OBVIOUS
  <2> PICK e : e = chant[c].event
    OBVIOUS
  <2>1. e \in Pending /\ memory[e].kind = "spell" /\ memory[e].who = c
    BY DEF SpellsInv, ChantHeld
  <2>2. SpellEvent(e)
    BY <2>1 DEF SpellsInv
  <2> QED
    BY <1>1, <2>1, <2>2 DEF SpellEvent
<1>4. EventsOf({c}) = {}
  BY <1>3 DEF EventsOf
<1>5. NoChant \in Chants /\ NoChant.event = 0 /\ NoChant.ready = FALSE
  BY DEF NoChant, Chants
<1>6. /\ chant' \in [Casters -> Chants] /\ chant'[c] = NoChant
      /\ \A d \in Casters \ {c} : chant'[d] = chant[d]
  BY <1>1, <1>2, <1>5
<1>7. /\ playing' \in [Casters -> BOOLEAN]
      /\ \A d \in Casters \ {c} : playing[d] => playing'[d]
  BY <1>1, <1>2
<1>8. {c} \in SUBSET Casters
  OBVIOUS
<1>9. /\ Turns(EventsOf({c}), NoEvents)
      /\ Chanted({c}, EventsOf({c}), NoEvents)
  <2>1. Relist(EventsOf({c}), NoEvents) /\ Returns
    BY <1>1, <1>4
  <2>2. \A d \in {c} : chant'[d].event = 0
    BY <1>5, <1>6
  <2>3. \A d \in Casters \ {c} : /\ chant'[d].event = chant[d].event
                                 /\ playing[d] => playing'[d]
    BY <1>6, <1>7
  <2> QED
    BY <1>1, <1>8, <2>1, <2>2, <2>3, CancelTurns
<1>10. ASSUME NEW d \in Casters
       PROVE  /\ chant'[d].event # 0 \/ chant'[d].ready =>
                   chant'[d].spell \in DOMAIN Book
              /\ OneCastEach(d)'
  <2>1. ChantHeld(d) /\ OneCastEach(d)
    BY DEF SpellsInv
  <2>2. CASE d = c
    <3>1. chant'[d].event = 0 /\ chant'[d].ready = FALSE
      BY <1>5, <1>6, <2>2
    <3>2. casts[d] \in Int /\ matured[d] \in Int /\ casts[d] <= matured[d]
      BY <2>1 DEF OneCastEach
    <3> QED
      BY <1>1, <3>1, <3>2 DEF OneCastEach
  <2>3. CASE d # c
    <3>1. chant'[d] = chant[d]
      BY <1>6, <2>3
    <3> QED
      BY <1>1, <2>1, <3>1 DEF OneCastEach, ChantHeld
  <2> QED
    BY <2>2, <2>3
<1>11. \A e \in Pending' : EvacuateEvent(e)'
  <2>1. \A e \in DOMAIN NoEvents : NoEvents[e].kind # "evacuate"
    BY DEF NoEvents
  <2> QED
    BY <1>1, <1>9, <2>1, EvacuationKept
<1>12. /\ casts' \in [Casters -> Int] /\ matured' \in [Casters -> Int]
       /\ hp' \in [Casters -> 1..MaxHp] /\ tp' \in [Casters -> Nat]
       /\ evac' \in Nat \cup {Freed} /\ evacuate_lock' \in BOOLEAN
       /\ evacuate_lock' <=> evac' # Freed
  BY <1>1, <1>2
<1> QED
  BY <1>6, <1>7, <1>8, <1>9, <1>10, <1>11, <1>12, Finish

\* A new event, of a door or an evacuation.
LEMMA NewEventTurns ==
  ASSUME SpellsInv, turn = "callback", memory[running].kind = "world",
         NEW e \in Free_({}), NEW kind \in {"door", "evacuate"},
         NEW lifetime \in Int,
         Relist({}, [a \in {e} |-> New(kind, e, lifetime)]), Returns,
         UNCHANGED <<chant, playing>>
  PROVE  /\ Turns({}, [a \in {e} |-> New(kind, e, lifetime)])
         /\ Chanted({}, {}, [a \in {e} |-> New(kind, e, lifetime)])
<1>1. e \in Addresses \ DOMAIN memory
  BY DEF Free_
<1> DEFINE r == New(kind, e, lifetime)
           new == [a \in {e} |-> r]
<1>2. r \in Events /\ r.kind = kind /\ r.managed
  BY <1>1 DEF New, Events, Kinds
<1> HIDE DEF r
<1>3. DOMAIN new = {e} /\ new[e] = r /\ new \in [DOMAIN new -> Events]
  BY <1>2
<1>4. EventsOf({}) = {}
  BY DEF EventsOf
<1>5. Relist({}, new)
  BY DEF r
<1> HIDE DEF new
<1>6. Turns({}, new)
  BY <1>1, <1>2, <1>3, <1>5 DEF Turns
<1>7. Chanted({}, {}, new)
  BY <1>2, <1>3, <1>4 DEF Chanted
<1> QED
  BY <1>6, <1>7 DEF new, r

\* What Finish asks for when no chant and no body is touched.
LEMMA UntouchedKeeps ==
  ASSUME SpellsInv, UNCHANGED <<chant, casts, matured, playing, hp, tp>>
  PROVE  /\ chant' \in [Casters -> Chants]
         /\ \A c \in Casters :
              /\ chant'[c].event # 0 \/ chant'[c].ready =>
                   chant'[c].spell \in DOMAIN Book
              /\ OneCastEach(c)'
         /\ casts' \in [Casters -> Int] /\ matured' \in [Casters -> Int]
         /\ playing' \in [Casters -> BOOLEAN] /\ hp' \in [Casters -> 1..MaxHp]
         /\ tp' \in [Casters -> Nat]
BY DEF SpellsInv, ChantHeld, OneCastEach

\* A door that is opened will close.
LEMMA OpenDoorKeeps ==
  ASSUME SpellsInv, OpenDoor
  PROVE  SpellsInv'
<1>1. PICK e \in Free_({}) : Relist({}, [a \in {e} |-> New("door", e, 1)])
  BY DEF OpenDoor
<1>2. /\ turn = "callback" /\ memory[running].kind = "world" /\ Returns
      /\ UNCHANGED <<chant, casts, matured, playing, hp, tp, evac, evacuate_lock>>
  BY DEF OpenDoor, Calls, body, chanting, evacuation
<1> PICK new : new = [a \in {e} |-> New("door", e, 1)]
  OBVIOUS
<1>3. Turns({}, new) /\ Chanted({}, {}, new)
  <2>1. UNCHANGED <<chant, playing>> /\ 1 \in Int
    BY <1>2
  <2>2. /\ Turns({}, [a \in {e} |-> New("door", e, 1)])
        /\ Chanted({}, {}, [a \in {e} |-> New("door", e, 1)])
    BY <1>1, <1>2, <2>1, NewEventTurns
  <2> QED
    BY <2>2
<1>4. \A a \in DOMAIN new : new[a].kind # "evacuate"
  BY DEF New
<1>5. \A a \in Pending' : EvacuateEvent(a)'
  BY <1>2, <1>3, <1>4, EvacuationKept
<1>6. /\ evac' \in Nat \cup {Freed} /\ evacuate_lock' \in BOOLEAN
      /\ evacuate_lock' <=> evac' # Freed
  BY <1>2 DEF SpellsInv
<1>7. {} \in SUBSET Casters
  OBVIOUS
<1> QED
  BY <1>2, <1>3, <1>5, <1>6, <1>7, UntouchedKeeps, Finish

\* The first of the evacuation's calls is made at once: what is left of it is
\* one less than what is left of the event.
LEMMA EvacuateKeeps ==
  ASSUME SpellsInv, Evacuate
  PROVE  SpellsInv'
<1>1. PICK e \in Free_({}) :
        Relist({}, [a \in {e} |-> New("evacuate", e, EvacuateTicks)])
  BY DEF Evacuate
<1>2. /\ turn = "callback" /\ memory[running].kind = "world" /\ Returns
      /\ ~evacuate_lock /\ evacuate_lock' = TRUE /\ evac' = EvacuateTicks - 1
      /\ UNCHANGED <<chant, casts, matured, playing, hp, tp>>
  BY DEF Evacuate, StepsAfter, Calls, body, chanting
<1> PICK new : new = [a \in {e} |-> New("evacuate", e, EvacuateTicks)]
  OBVIOUS
<1>3. EvacuateTicks \in Nat \ {0} /\ EvacuateTicks - 1 \in Nat
  BY SpellsAssumption
<1>4. Turns({}, new) /\ Chanted({}, {}, new)
  <2>1. UNCHANGED <<chant, playing>> /\ EvacuateTicks \in Int
    BY <1>2, <1>3
  <2>2. /\ Turns({}, [a \in {e} |-> New("evacuate", e, EvacuateTicks)])
        /\ Chanted({}, {}, [a \in {e} |-> New("evacuate", e, EvacuateTicks)])
    BY <1>1, <1>2, <2>1, NewEventTurns
  <2> QED
    BY <2>2
<1>5. DOMAIN new = {e} /\ new[e].lifetime = EvacuateTicks
  BY DEF New
<1>6. /\ timers' = (timers \ {}) \cup DOMAIN new
      /\ Pending' = timers' /\ \A a : ~InCallback(a)'
      /\ \A a \in DOMAIN new : memory'[a] = new[a]
      /\ \A a \in timers \ {} : memory'[a] = memory[a]
  BY <1>4, Relisted
<1>7. \A a \in timers : memory[a].kind # "evacuate"
  BY <1>2 DEF SpellsInv, EvacuateEvent, Pending
<1>8. \A a \in Pending' : memory'[a].kind = "evacuate" => a = e
  BY <1>5, <1>6, <1>7
<1>9. memory'[e].lifetime = evac' + 1
  BY <1>2, <1>3, <1>5, <1>6
<1>10. \A a \in Pending' : EvacuateEvent(a)'
  BY <1>2, <1>6, <1>8, <1>9 DEF EvacuateEvent
<1>11. /\ evac' \in Nat \cup {Freed} /\ evacuate_lock' \in BOOLEAN
       /\ evacuate_lock' <=> evac' # Freed
  BY <1>2, <1>3 DEF Freed
<1>12. {} \in SUBSET Casters
  OBVIOUS
<1> QED
  BY <1>2, <1>4, <1>10, <1>11, <1>12, UntouchedKeeps, Finish

\* The end of an evacuation sends all but guides to jail.
LEMMA map_evacuateKeeps ==
  ASSUME SpellsInv, map_evacuate
  PROVE  SpellsInv'
<1>1. /\ turn = "callback" /\ running \in Pending
      /\ memory[running].kind = "evacuate" /\ Returns
  BY DEF map_evacuate, Calls, Pending
<1>2. /\ evacuate_lock /\ memory[running].lifetime = evac
      /\ running \in timers <=> evac # 0
      /\ \A f \in Pending : memory[f].kind = "evacuate" => f = running
  BY <1>1 DEF SpellsInv, EvacuateEvent, InCallback
<1>3. /\ chant \in [Casters -> Chants] /\ playing \in [Casters -> BOOLEAN]
      /\ hp \in [Casters -> 1..MaxHp] /\ tp \in [Casters -> Nat]
      /\ evac \in Nat
  BY <1>2 DEF SpellsInv
<1>4. /\ timers \subseteq Pending
      /\ \A f \in timers : memory[f].kind = "evacuate" => f = running
  BY <1>2 DEF Pending
<1>5. CASE evac > 0
  <2>1. /\ evac' = evac - 1 /\ Unchanged
        /\ UNCHANGED <<evacuate_lock, playing, hp, tp, chant, chants, casts, matured>>
    BY <1>5 DEF map_evacuate, body, chanting
  <2>2. EventsOf({}) = {} /\ ChantsOver({}) = chant
    BY <1>3 DEF EventsOf, ChantsOver
  <2>3. CancelSpell({})
    BY <2>1, <2>2 DEF CancelSpell, Unchanged
  <2>4. {} \in SUBSET Casters
    OBVIOUS
  <2>5. /\ Turns(EventsOf({}), NoEvents) /\ ListSound'
        /\ \A e \in Pending' : SpellEvent(e)'
        /\ chant' \in [Casters -> Chants]
        /\ \A c \in Casters : ChantHeld(c)' /\ OneCastEach(c)'
    BY <1>1, <1>3, <2>1, <2>3, <2>4, CancelKeeps
  <2>6. /\ timers' = (timers \ {}) \cup DOMAIN NoEvents
        /\ Pending' = timers' /\ \A a : ~InCallback(a)'
        /\ \A a \in timers \ {} : memory'[a] = memory[a]
    BY <2>2, <2>5, Relisted
  <2>7. DOMAIN NoEvents = {}
    BY DEF NoEvents
  <2>8. timers' = timers /\ \A a \in timers : memory'[a] = memory[a]
    BY <2>6, <2>7
  <2>9. \A a \in Pending' : EvacuateEvent(a)'
    BY <1>2, <1>3, <1>4, <1>5, <2>1, <2>6, <2>8 DEF EvacuateEvent
  <2>10. /\ evac' \in Nat \cup {Freed} /\ evacuate_lock' \in BOOLEAN
         /\ evacuate_lock' <=> evac' # Freed
    BY <1>2, <1>3, <1>5, <2>1 DEF Freed
  <2>11. /\ casts' \in [Casters -> Int] /\ matured' \in [Casters -> Int]
         /\ playing' \in [Casters -> BOOLEAN] /\ hp' \in [Casters -> 1..MaxHp]
         /\ tp' \in [Casters -> Nat]
    BY <2>1 DEF SpellsInv
  <2> QED
    BY <2>5, <2>9, <2>10, <2>11 DEF SpellsInv
<1>6. CASE evac = 0
  <2> PICK S : S = {c \in Casters \ Guides : On(c, "here")}
    OBVIOUS
  <2>1. /\ CancelSpell(S) /\ evacuate_lock' = FALSE /\ evac' = Freed
        /\ UNCHANGED <<playing, hp, tp>>
    BY <1>6 DEF map_evacuate
  <2>2. S \in SUBSET Casters
    OBVIOUS
  <2>3. /\ Turns(EventsOf(S), NoEvents) /\ ListSound'
        /\ \A e \in Pending' : SpellEvent(e)'
        /\ chant' \in [Casters -> Chants]
        /\ \A c \in Casters : ChantHeld(c)' /\ OneCastEach(c)'
        /\ UNCHANGED <<casts, matured>>
    BY <1>1, <1>3, <2>1, <2>2, CancelKeeps
  <2>4. /\ timers' = (timers \ EventsOf(S)) \cup DOMAIN NoEvents
        /\ Pending' = timers'
        /\ \A a \in timers \ EventsOf(S) : memory'[a] = memory[a]
    BY <2>3, Relisted
  <2>5. DOMAIN NoEvents = {}
    BY DEF NoEvents
  <2>6. \A a \in Pending' : memory'[a].kind # "evacuate"
    BY <1>2, <1>4, <1>6, <2>4, <2>5
  <2>7. \A a \in Pending' : EvacuateEvent(a)'
    BY <2>6 DEF EvacuateEvent
  <2>8. /\ casts' \in [Casters -> Int] /\ matured' \in [Casters -> Int]
        /\ playing' \in [Casters -> BOOLEAN] /\ hp' \in [Casters -> 1..MaxHp]
        /\ tp' \in [Casters -> Nat]
        /\ evac' \in Nat \cup {Freed} /\ evacuate_lock' \in BOOLEAN
        /\ evacuate_lock' <=> evac' # Freed
    BY <2>1, <2>3 DEF SpellsInv
  <2> QED
    BY <2>3, <2>7, <2>8 DEF SpellsInv
<1> QED
  BY <1>3, <1>5, <1>6

\* What Finish asks for of the casters that are not concerned.
LEMMA OthersKeep ==
  ASSUME SpellsInv, NEW d \in Casters, chant'[d] = chant[d],
         casts'[d] = casts[d], matured'[d] = matured[d]
  PROVE  /\ chant'[d].event # 0 \/ chant'[d].ready =>
              chant'[d].spell \in DOMAIN Book
         /\ OneCastEach(d)'
<1>1. ChantHeld(d) /\ OneCastEach(d)
  BY DEF SpellsInv
<1>2. chant'[d].event # 0 \/ chant'[d].ready => chant'[d].spell \in DOMAIN Book
  BY <1>1 DEF ChantHeld
<1>3. OneCastEach(d)'
  BY <1>1 DEF OneCastEach
<1> QED
  BY <1>2, <1>3

\* A new chant replaces the old one, and its event the old event.
LEMMA Spell_RequestKeeps ==
  ASSUME SpellsInv, NEW c \in Casters, NEW s \in DOMAIN Book, Spell_Request(c, s)
  PROVE  SpellsInv'
<1>1. /\ turn = "callback" /\ memory[running].kind = "world" /\ playing[c] /\ Returns
      /\ UNCHANGED <<casts, matured, playing, hp, tp, evac, evacuate_lock>>
  BY DEF Spell_Request, Pumped, Calls, body, evacuation
<1> PICK gone : gone = EventsOf({c})
  OBVIOUS
<1>2. PICK e \in Free_(EventsOf({c})) :
       /\ Relist(EventsOf({c}), [a \in {e} |-> New("spell", c, 1)])
       /\ chant' = [chant EXCEPT ![c] = [event |-> e, ready |-> FALSE,
                                         spell |-> s, target |-> Invalid]]
  BY DEF Spell_Request
<1> PICK r : r = New("spell", c, 1)
  OBVIOUS
<1> PICK new : new = [a \in {e} |-> r]
  OBVIOUS
<1> PICK ch : ch = [event |-> e, ready |-> FALSE, spell |-> s, target |-> Invalid]
  OBVIOUS
<1>3. /\ chant \in [Casters -> Chants] /\ playing \in [Casters -> BOOLEAN]
      /\ hp \in [Casters -> 1..MaxHp] /\ tp \in [Casters -> Nat]
      /\ casts \in [Casters -> Int] /\ matured \in [Casters -> Int]
      /\ evac \in Nat \cup {Freed} /\ evacuate_lock \in BOOLEAN
      /\ evacuate_lock <=> evac # Freed
  BY DEF SpellsInv
<1>4. r \in Events /\ r.kind = "spell" /\ r.managed /\ r.lifetime = 1 /\ r.who = c
  BY DEF New, Events, Kinds
<1>5. DOMAIN new = {e} /\ new[e] = r /\ new \in [DOMAIN new -> Events]
  BY <1>4
<1>6. ASSUME NEW g \in gone
      PROVE  g \in Addresses /\ running # g /\ g = chant[c].event
  <2>1. chant[c].event = g /\ g # 0
    BY <1>6 DEF EventsOf
  <2>2. g \in Addresses /\ memory[g].kind = "spell"
    BY <1>3, <2>1 DEF SpellsInv, ChantHeld, Chants
  <2> QED
    BY <1>1, <2>1, <2>2
<1>7. e \in (Addresses \ DOMAIN memory) \cup gone /\ e \in Addresses
  BY <1>2, <1>6 DEF Free_
<1>8. ch \in Chants /\ ch.event = e /\ ch.ready = FALSE /\ ch.spell = s
  BY <1>7 DEF Chants
<1>9. /\ chant' \in [Casters -> Chants] /\ chant'[c] = ch
      /\ \A d \in Casters \ {c} : chant'[d] = chant[d]
  BY <1>2, <1>3, <1>8
<1>10. Turns(gone, new)
  <2>1. gone \subseteq Addresses /\ running \notin gone
    BY <1>6
  <2>2. Relist(gone, new)
    BY <1>2
  <2>3. DOMAIN new \subseteq (Addresses \ DOMAIN memory) \cup gone
        /\ \A a \in DOMAIN new : new[a].managed
    BY <1>4, <1>5, <1>7
  <2> QED
    BY <1>1, <1>5, <2>1, <2>2, <2>3 DEF Turns
<1>11. Chanted({c}, gone, new)
  <2>1. /\ gone \subseteq EventsOf({c})
        /\ \A a \in EventsOf({c}) : a \in timers => a \in gone
    OBVIOUS
  <2>2. \A d \in Casters \ {c} : /\ chant'[d].event = chant[d].event
                                 /\ playing[d] => playing'[d]
    BY <1>1, <1>9
  <2>3. \A d \in {c} : chant'[d].event # 0 =>
       /\ chant'[d].event \in DOMAIN new
       /\ new[chant'[d].event].kind = "spell" /\ new[chant'[d].event].who = d
    BY <1>4, <1>5, <1>8, <1>9
  <2>4. \A a \in DOMAIN new : new[a].kind = "spell" =>
       /\ new[a].who \in {c} /\ new[a].lifetime = 1
       /\ playing'[new[a].who] /\ chant'[new[a].who].event = a
    BY <1>1, <1>4, <1>5, <1>8, <1>9
  <2> QED
    BY <1>1, <2>1, <2>2, <2>3, <2>4 DEF Chanted
<1>12. ASSUME NEW d \in Casters
       PROVE  /\ chant'[d].event # 0 \/ chant'[d].ready =>
                   chant'[d].spell \in DOMAIN Book
              /\ OneCastEach(d)'
  <2>1. CASE d = c
    <3>1. OneCastEach(d)
      BY DEF SpellsInv
    <3>2. casts[d] \in Int /\ matured[d] \in Int /\ casts[d] <= matured[d]
      BY <3>1 DEF OneCastEach
    <3>3. chant'[d].ready = FALSE /\ chant'[d].spell \in DOMAIN Book
      BY <1>8, <1>9, <2>1
    <3> QED
      BY <1>1, <3>2, <3>3 DEF OneCastEach
  <2>2. CASE d # c
    BY <1>1, <1>9, <2>2, OthersKeep
  <2> QED
    BY <2>1, <2>2
<1>13. \A a \in Pending' : EvacuateEvent(a)'
  <2>1. \A a \in DOMAIN new : new[a].kind # "evacuate"
    BY <1>4, <1>5
  <2> QED
    BY <1>1, <1>10, <2>1, EvacuationKept
<1>14. /\ casts' \in [Casters -> Int] /\ matured' \in [Casters -> Int]
       /\ playing' \in [Casters -> BOOLEAN]
       /\ hp' \in [Casters -> 1..MaxHp] /\ tp' \in [Casters -> Nat]
       /\ evac' \in Nat \cup {Freed} /\ evacuate_lock' \in BOOLEAN
       /\ evacuate_lock' <=> evac' # Freed
  BY <1>1, <1>3
<1>15. {c} \in SUBSET Casters
  OBVIOUS
<1> QED
  BY <1>9, <1>10, <1>11, <1>12, <1>13, <1>14, <1>15, Finish

\* A target, in time, too late or not at all.
LEMMA Spell_TargetKeeps ==
  ASSUME SpellsInv, NEW c \in Casters, NEW target \in Targets,
         Spell_Target(c, target)
  PROVE  SpellsInv'
<1>1. /\ turn = "callback" /\ memory[running].kind = "world" /\ Returns
      /\ UNCHANGED <<evac, evacuate_lock>>
  BY DEF Spell_Target, Pumped, Calls, evacuation
<1>2. /\ chant \in [Casters -> Chants] /\ playing \in [Casters -> BOOLEAN]
      /\ hp \in [Casters -> 1..MaxHp] /\ tp \in [Casters -> Nat]
      /\ casts \in [Casters -> Int] /\ matured \in [Casters -> Int]
      /\ evac \in Nat \cup {Freed} /\ evacuate_lock \in BOOLEAN
      /\ evacuate_lock <=> evac # Freed
  BY DEF SpellsInv
<1>3. {c} \in SUBSET Casters /\ {} \in SUBSET Casters
  OBVIOUS
<1>4. \A a \in DOMAIN NoEvents : NoEvents[a].kind # "evacuate"
  BY DEF NoEvents
<1>5. CASE CancelSpell({c}) /\ UNCHANGED body
  <2>1. UNCHANGED <<playing, hp, tp>>
    BY <1>5 DEF body
  <2> QED
    BY <1>1, <1>2, <1>3, <1>5, <2>1, CancelKeeps
<1>6. CASE /\ ~chant[c].ready /\ chant' = [chant EXCEPT ![c].target = target]
           /\ Unchanged /\ UNCHANGED <<body, chants, matured, casts>>
  <2>1. UNCHANGED <<playing, hp, tp, matured, casts>>
    BY <1>6 DEF body
  <2>2. EventsOf({}) = {}
    BY DEF EventsOf
  <2>3. /\ chant' \in [Casters -> Chants]
        /\ \A d \in Casters : /\ chant'[d].event = chant[d].event
                              /\ chant'[d].ready = chant[d].ready
                              /\ chant'[d].spell = chant[d].spell
    BY <1>2, <1>6 DEF Chants
  <2>4. Turns(EventsOf({}), NoEvents) /\ Chanted({}, EventsOf({}), NoEvents)
    <3>1. Relist(EventsOf({}), NoEvents)
      BY <1>6, <2>2 DEF Unchanged
    <3>2. \A d \in Casters \ {} : /\ chant'[d].event = chant[d].event
                                  /\ playing[d] => playing'[d]
      BY <2>1, <2>3
    <3> QED
      BY <1>1, <1>3, <3>1, <3>2, CancelTurns
  <2>5. ASSUME NEW d \in Casters
        PROVE  /\ chant'[d].event # 0 \/ chant'[d].ready =>
                    chant'[d].spell \in DOMAIN Book
               /\ OneCastEach(d)'
    <3>1. ChantHeld(d) /\ OneCastEach(d)
      BY DEF SpellsInv
    <3>2. chant'[d].event # 0 \/ chant'[d].ready =>
            chant'[d].spell \in DOMAIN Book
      BY <2>3, <3>1 DEF ChantHeld
    <3>3. OneCastEach(d)'
      BY <2>1, <2>3, <3>1 DEF OneCastEach
    <3> QED
      BY <3>2, <3>3
  <2>6. \A a \in Pending' : EvacuateEvent(a)'
    BY <1>1, <1>4, <2>4, EvacuationKept
  <2>7. /\ casts' \in [Casters -> Int] /\ matured' \in [Casters -> Int]
        /\ playing' \in [Casters -> BOOLEAN]
        /\ hp' \in [Casters -> 1..MaxHp] /\ tp' \in [Casters -> Nat]
        /\ evac' \in Nat \cup {Freed} /\ evacuate_lock' \in BOOLEAN
        /\ evacuate_lock' <=> evac' # Freed
    BY <1>1, <1>2, <2>1
  <2> QED
    BY <1>3, <2>3, <2>4, <2>5, <2>6, <2>7, Finish
<1>7. CASE /\ chant[c].ready /\ Spent(c) /\ SpellAct(c, target)
           /\ UNCHANGED <<chants, matured>>
  <2>1. /\ chant' = ChantsOver({c}) /\ Relist(EventsOf({c}), NoEvents)
        /\ UNCHANGED matured
    BY <1>7 DEF Spent
  <2>2. /\ chant' \in [Casters -> Chants]
        /\ \A d \in {c} : chant'[d].event = 0 /\ chant'[d].ready = FALSE
        /\ \A d \in Casters \ {c} : chant'[d] = chant[d]
    BY <1>3, <2>1, ChantsOverKeeps
  <2>3. chant[c].spell \in DOMAIN Book /\ OneCastEach(c)
    BY <1>7 DEF SpellsInv, ChantHeld
  <2>4. /\ hp' \in [Casters -> 1..MaxHp] /\ playing' = playing
        /\ tp' \in [Casters -> Nat]
        /\ casts' = [casts EXCEPT ![c] = casts[c] + 1]
    BY <1>7, <2>3, SpellActKeeps
  <2>5. Turns(EventsOf({c}), NoEvents) /\ Chanted({c}, EventsOf({c}), NoEvents)
    <3>1. \A d \in {c} : chant'[d].event = 0
      BY <2>2
    <3>2. \A d \in Casters \ {c} : /\ chant'[d].event = chant[d].event
                                   /\ playing[d] => playing'[d]
      BY <2>2, <2>4
    <3> QED
      BY <1>1, <1>3, <2>1, <3>1, <3>2, CancelTurns
  <2>6. ASSUME NEW d \in Casters
        PROVE  /\ chant'[d].event # 0 \/ chant'[d].ready =>
                    chant'[d].spell \in DOMAIN Book
               /\ OneCastEach(d)'
    <3>1. CASE d = c
      <4>1. casts[c] \in Int /\ matured[c] \in Int /\ casts[c] + 1 <= matured[c]
        BY <1>7, <2>3 DEF OneCastEach
      <4>2. casts'[c] = casts[c] + 1 /\ chant'[c].ready = FALSE
            /\ chant'[c].event = 0
        BY <1>2, <2>2, <2>4
      <4>3. casts'[c] \in Int /\ casts'[c] <= matured'[c] /\ matured'[c] \in Int
        BY <2>1, <4>1, <4>2
      <4> QED
        BY <3>1, <4>2, <4>3 DEF OneCastEach
    <3>2. CASE d # c
      <4>1. chant'[d] = chant[d] /\ casts'[d] = casts[d] /\ matured'[d] = matured[d]
        BY <1>2, <2>1, <2>2, <2>4, <3>2
      <4> QED
        BY <4>1, OthersKeep
    <3> QED
      BY <3>1, <3>2
  <2>7. \A a \in Pending' : EvacuateEvent(a)'
    BY <1>1, <1>4, <2>5, EvacuationKept
  <2>8. /\ casts' \in [Casters -> Int] /\ matured' \in [Casters -> Int]
        /\ playing' \in [Casters -> BOOLEAN]
        /\ evac' \in Nat \cup {Freed} /\ evacuate_lock' \in BOOLEAN
        /\ evacuate_lock' <=> evac' # Freed
    BY <1>1, <1>2, <2>1, <2>4
  <2> QED
    BY <1>3, <2>2, <2>4, <2>5, <2>6, <2>7, <2>8, Finish
<1> QED
  BY <1>5, <1>6, <1>7 DEF Spell_Target

\* A chant at its end: its event is not there any more when it is let go.
LEMMA character_cast_spellKeeps ==
  ASSUME SpellsInv, character_cast_spell
  PROVE  SpellsInv'
<1> PICK c : c = memory[running].who
  OBVIOUS
<1>1. /\ turn = "callback" /\ running \in Pending /\ InCallback(running)
      /\ memory[running].kind = "spell" /\ Returns
      /\ matured' = [matured EXCEPT ![c] = matured[c] + 1]
      /\ UNCHANGED <<evac, evacuate_lock>>
  BY DEF character_cast_spell, Calls, Pending, InCallback, evacuation
<1>2. /\ chant \in [Casters -> Chants] /\ playing \in [Casters -> BOOLEAN]
      /\ hp \in [Casters -> 1..MaxHp] /\ tp \in [Casters -> Nat]
      /\ casts \in [Casters -> Int] /\ matured \in [Casters -> Int]
      /\ evac \in Nat \cup {Freed} /\ evacuate_lock \in BOOLEAN
      /\ evacuate_lock <=> evac # Freed
  BY DEF SpellsInv
<1>3. c \in Casters /\ chant[c].event = running /\ running \notin timers
  BY <1>1 DEF SpellsInv, SpellEvent
<1>4. running # 0
  BY <1>1, SpellsAssumption DEF SpellsInv, ListSound
<1>5. EventsOf({c}) = {running}
  BY <1>3, <1>4 DEF EventsOf
<1>6. chant[c].spell \in DOMAIN Book /\ OneCastEach(c) /\ chant[c] \in Chants
  BY <1>2, <1>3, <1>4 DEF SpellsInv, ChantHeld
<1>7. LetGo(c)[c].event = 0
  BY <1>2, <1>3 DEF LetGo, Chants
<1>8. /\ \A a \in DOMAIN NoEvents : NoEvents[a].kind # "evacuate"
      /\ DOMAIN NoEvents = {} /\ NoEvents \in [DOMAIN NoEvents -> Events]
      /\ {c} \in SUBSET Casters
  BY <1>3 DEF NoEvents
<1>9. ASSUME Relist({}, NoEvents), chant'[c].event = 0,
             \A d \in Casters \ {c} : chant'[d] = chant[d], playing' = playing
      PROVE  /\ Turns({}, NoEvents) /\ Chanted({c}, {}, NoEvents)
             /\ \A a \in Pending' : EvacuateEvent(a)'
  <2>1. Turns({}, NoEvents)
    BY <1>1, <1>8, <1>9 DEF Turns
  <2>2. Chanted({c}, {}, NoEvents)
    BY <1>3, <1>5, <1>8, <1>9 DEF Chanted
  <2> QED
    BY <1>1, <1>8, <2>1, <2>2, EvacuationKept
<1>10. matured' \in [Casters -> Int] /\ matured'[c] = matured[c] + 1
       /\ \A d \in Casters \ {c} : matured'[d] = matured[d]
  BY <1>1, <1>2, <1>3
<1>11. casts[c] \in Int /\ matured[c] \in Int /\ casts[c] <= matured[c]
  BY <1>6 DEF OneCastEach
<1>12. /\ evac' \in Nat \cup {Freed} /\ evacuate_lock' \in BOOLEAN
       /\ evacuate_lock' <=> evac' # Freed
  BY <1>1, <1>2
<1>13. CASE chant[c].target = Invalid
  <2>1. /\ chant' = [LetGo(c) EXCEPT ![c].ready = TRUE]
        /\ Relist({}, NoEvents) /\ UNCHANGED <<playing, hp, tp, casts>>
    BY <1>13 DEF character_cast_spell, Unchanged, body
  <2>2. LetGo(c) \in [Casters -> Chants] /\ LetGo(c)[c].spell = chant[c].spell
        /\ \A d \in Casters \ {c} : LetGo(c)[d] = chant[d]
    BY <1>2, <1>3 DEF LetGo, Chants
  <2>3. /\ chant' \in [Casters -> Chants]
        /\ chant'[c].event = 0 /\ chant'[c].ready = TRUE
        /\ chant'[c].spell = chant[c].spell
        /\ \A d \in Casters \ {c} : chant'[d] = chant[d]
    <3> PICK f : f = LetGo(c)
      OBVIOUS
    <3> PICK g : g = [f[c] EXCEPT !.ready = TRUE]
      OBVIOUS
    <3>1. chant' = [f EXCEPT ![c] = g] /\ f \in [Casters -> Chants]
      BY <2>1, <2>2
    <3>2. f[c] \in Chants /\ f[c].event = 0 /\ f[c].spell = chant[c].spell
      BY <1>3, <1>7, <2>2
    <3>3. /\ g \in Chants /\ g.event = 0 /\ g.ready = TRUE
          /\ g.spell = chant[c].spell
      BY <3>2 DEF Chants
    <3>4. /\ chant' \in [Casters -> Chants] /\ chant'[c] = g
          /\ \A d \in Casters \ {c} : chant'[d] = f[d]
      BY <1>3, <3>1, <3>3
    <3> QED
      BY <2>2, <3>3, <3>4
  <2>4. ASSUME NEW d \in Casters
        PROVE  /\ chant'[d].event # 0 \/ chant'[d].ready =>
                    chant'[d].spell \in DOMAIN Book
               /\ OneCastEach(d)'
    <3>1. CASE d = c
      <4>1. casts'[c] = casts[c] /\ casts'[c] + 1 <= matured'[c]
            /\ matured'[c] \in Int
        BY <1>10, <1>11, <2>1
      <4> QED
        BY <1>6, <1>11, <2>3, <3>1, <4>1 DEF OneCastEach
    <3>2. CASE d # c
      BY <1>10, <2>1, <2>3, <3>2, OthersKeep
    <3> QED
      BY <3>1, <3>2
  <2>5. /\ Turns({}, NoEvents) /\ Chanted({c}, {}, NoEvents)
        /\ \A a \in Pending' : EvacuateEvent(a)'
    BY <1>9, <2>1, <2>3
  <2>6. /\ casts' \in [Casters -> Int] /\ playing' \in [Casters -> BOOLEAN]
        /\ hp' \in [Casters -> 1..MaxHp] /\ tp' \in [Casters -> Nat]
    BY <1>2, <2>1
  <2> QED
    BY <1>8, <1>10, <1>12, <2>3, <2>4, <2>5, <2>6, Finish
<1>14. CASE chant[c].target # Invalid
  <2>1. /\ chant' = ChantsOver({c}) /\ Relist({}, NoEvents)
        /\ SpellAct(c, chant[c].target)
    <3>1. {LetGo(c)[c].event} \ {0} = {}
      BY <1>7
    <3> QED
      BY <1>14, <3>1 DEF character_cast_spell
  <2>2. /\ chant' \in [Casters -> Chants]
        /\ \A d \in {c} : chant'[d].event = 0 /\ chant'[d].ready = FALSE
        /\ \A d \in Casters \ {c} : chant'[d] = chant[d]
    BY <1>8, <2>1, ChantsOverKeeps
  <2>3. chant[c].target \in Targets
    BY <1>6, <1>14 DEF Chants
  <2>4. /\ hp' \in [Casters -> 1..MaxHp] /\ playing' = playing
        /\ tp' \in [Casters -> Nat]
        /\ casts' = [casts EXCEPT ![c] = casts[c] + 1]
    BY <1>3, <1>6, <2>1, <2>3, SpellActKeeps
  <2>5. ASSUME NEW d \in Casters
        PROVE  /\ chant'[d].event # 0 \/ chant'[d].ready =>
                    chant'[d].spell \in DOMAIN Book
               /\ OneCastEach(d)'
    <3>1. CASE d = c
      <4>1. casts'[c] = casts[c] + 1
        BY <1>2, <1>3, <2>4
      <4>2. casts'[c] \in Int /\ matured'[c] \in Int /\ casts'[c] <= matured'[c]
        BY <1>10, <1>11, <4>1
      <4>3. chant'[c].event = 0 /\ chant'[c].ready = FALSE
        BY <2>2
      <4> QED
        BY <3>1, <4>2, <4>3 DEF OneCastEach
    <3>2. CASE d # c
      <4>1. chant'[d] = chant[d] /\ casts'[d] = casts[d] /\ matured'[d] = matured[d]
        BY <1>2, <1>10, <2>2, <2>4, <3>2
      <4> QED
        BY <4>1, OthersKeep
    <3> QED
      BY <3>1, <3>2
  <2>6. /\ Turns({}, NoEvents) /\ Chanted({c}, {}, NoEvents)
        /\ \A a \in Pending' : EvacuateEvent(a)'
    <3>1. chant'[c].event = 0
      BY <2>2
    <3> QED
      BY <1>9, <2>1, <2>2, <2>4, <3>1
  <2>7. casts' \in [Casters -> Int] /\ playing' \in [Casters -> BOOLEAN]
    BY <1>2, <1>3, <2>4
  <2> QED
    BY <1>8, <1>10, <1>12, <2>2, <2>4, <2>5, <2>6, <2>7, Finish
<1> QED
  BY <1>13, <1>14

\* Timer::Tick itself.
LEMMA TicksKeep ==
  ASSUME SpellsInv, Ticks
  PROVE  SpellsInv'
<1>1. UNCHANGED <<playing, hp, tp, chant, matured, casts, evac, evacuate_lock>>
  BY DEF Ticks, body, chanting, evacuation
<1>2. ListSound
  BY DEF SpellsInv
<1>3. ASSUME UNCHANGED timers, turn # "callback", turn' # "callback",
             ListSound', \A e \in timers : memory'[e] = memory[e]
      PROVE  SpellsInv'
  <2>1. Pending = timers /\ Pending' = timers
    BY <1>3 DEF Pending
  <2>2. \A e : ~InCallback(e) /\ ~InCallback(e)'
    BY <1>3 DEF InCallback
  <2>3. \A e \in Pending' : SpellEvent(e)' /\ EvacuateEvent(e)'
    BY <1>1, <1>3, <2>1, <2>2 DEF SpellsInv, SpellEvent, EvacuateEvent
  <2>4. \A c \in Casters : ChantHeld(c)' /\ OneCastEach(c)'
    BY <1>1, <1>3, <2>1 DEF SpellsInv, ChantHeld, OneCastEach
  <2> QED
    BY <1>1, <1>3, <2>3, <2>4 DEF SpellsInv
<1>4. CASE TickBegins
  <2>1. /\ turn = "idle" /\ turn' = "list" /\ UNCHANGED <<memory, timers, running>>
    BY <1>4 DEF TickBegins
  <2>2. ListSound'
    BY <1>2, <2>1 DEF ListSound
  <2> QED
    BY <1>3, <2>1, <2>2
<1>5. CASE TickEnds
  <2>1. /\ turn = "list" /\ turn' = "idle" /\ UNCHANGED <<memory, timers, running>>
    BY <1>5 DEF TickEnds, timerList
  <2>2. ListSound'
    BY <1>2, <2>1 DEF ListSound
  <2> QED
    BY <1>3, <2>1, <2>2
<1>6. CASE \E e \in Addresses : Pass(e)
  <2>1. turn = "list" /\ UNCHANGED <<memory, timers, turn, running>>
    BY <1>6 DEF Pass, timerList
  <2>2. ListSound'
    BY <1>2, <2>1 DEF ListSound
  <2> QED
    BY <1>3, <2>1, <2>2
<1>7. CASE Called
  <2>1. /\ turn = "called" /\ turn' = "list" /\ UNCHANGED timers
        /\ \/ UNCHANGED memory
           \/ /\ ~memory[running].managed
              /\ memory' = [e \in DOMAIN memory \ {running} |-> memory[e]]
    BY <1>7 DEF Called, timerList
  <2>2. CASE UNCHANGED memory
    <3>1. ListSound'
      BY <1>2, <2>1, <2>2 DEF ListSound
    <3> QED
      BY <1>3, <2>1, <2>2, <3>1
  <2>3. CASE /\ ~memory[running].managed
             /\ memory' = [e \in DOMAIN memory \ {running} |-> memory[e]]
    <3>1. running \notin timers
      BY <1>2, <2>3 DEF ListSound
    <3>2. /\ DOMAIN memory' = DOMAIN memory \ {running}
          /\ \A e \in DOMAIN memory \ {running} : memory'[e] = memory[e]
          /\ memory' \in [DOMAIN memory' -> Events]
      BY <1>2, <2>3 DEF ListSound
    <3>3. ListSound'
      BY <1>2, <2>1, <3>1, <3>2 DEF ListSound
    <3>4. \A e \in timers : memory'[e] = memory[e]
      BY <1>2, <3>1, <3>2 DEF ListSound
    <3> QED
      BY <1>3, <2>1, <3>3, <3>4
  <2> QED
    BY <2>1, <2>2, <2>3
<1>8. ASSUME NEW e \in Addresses, Fire(e) PROVE SpellsInv'
  <2> PICK m : m = memory[e]
    OBVIOUS
  <2> PICK left : left = IF m.lifetime = Forever THEN Forever ELSE m.lifetime - 1
    OBVIOUS
  <2>1. /\ turn = "list" /\ turn' = "callback" /\ running' = e /\ e \in timers
        /\ memory' = [memory EXCEPT ![e].lifetime = left, ![e].managed = left # 0]
        /\ timers' = IF left = 0 THEN timers \ {e} ELSE timers
    BY <1>8 DEF Fire
  <2>2. /\ memory \in [DOMAIN memory -> Events] /\ timers \subseteq DOMAIN memory
        /\ m \in Events /\ m.lifetime \in Int /\ Forever \in Int /\ Forever < 0
    BY <1>2, <2>1, TimerAssumption DEF ListSound, Events
  <2>3. left \in Int
    BY <2>2
  <2> PICK n : n = [m EXCEPT !.lifetime = left, !.managed = left # 0]
    OBVIOUS
  <2>4. /\ n \in Events /\ n.lifetime = left /\ n.kind = m.kind /\ n.who = m.who
        /\ left # 0 => n.managed
    <3>1. (left # 0) \in BOOLEAN
      OBVIOUS
    <3> QED
      BY <2>2, <2>3, <3>1 DEF Events
  <2>5. memory' = [memory EXCEPT ![e] = n]
    BY <2>1
  <2>6. /\ DOMAIN memory' = DOMAIN memory /\ memory' \in [DOMAIN memory' -> Events]
        /\ memory'[e] = n /\ \A f \in DOMAIN memory \ {e} : memory'[f] = memory[f]
    <3> PICK D : D = DOMAIN memory
      OBVIOUS
    <3>1. memory \in [D -> Events] /\ e \in D
      BY <2>1, <2>2
    <3>2. /\ memory' \in [D -> Events] /\ memory'[e] = n
          /\ \A f \in D \ {e} : memory'[f] = memory[f]
      BY <2>4, <2>5, <3>1
    <3>3. DOMAIN memory' = D
      BY <3>2
    <3> QED
      BY <3>2, <3>3
  <2>7. Pending = timers /\ Pending' = timers
    BY <2>1 DEF Pending
  <2>8. \A f : InCallback(f)' <=> f = e
    BY <2>1 DEF InCallback
  <2>9. \A f : ~InCallback(f)
    BY <2>1 DEF InCallback
  <2>10. \A f \in timers : memory'[f].kind = memory[f].kind
                           /\ memory'[f].who = memory[f].who
    BY <2>2, <2>4, <2>6
  <2>11. ListSound'
    <3>1. timers' \subseteq DOMAIN memory' /\ DOMAIN memory' \subseteq Addresses
      BY <1>2, <2>1, <2>6 DEF ListSound
    <3>2. ASSUME NEW f \in timers' PROVE memory'[f].managed
      <4>1. CASE f = e
        <5>1. left # 0
          BY <2>1, <3>2, <4>1
        <5> QED
          BY <2>4, <2>6, <4>1, <5>1
      <4>2. CASE f # e
        BY <1>2, <2>1, <2>2, <2>6, <3>2, <4>2 DEF ListSound
      <4> QED
        BY <4>1, <4>2
    <3> QED
      BY <2>1, <2>2, <2>6, <3>1, <3>2 DEF ListSound
  <2>12. ASSUME NEW f \in Pending' PROVE SpellEvent(f)'
    <3>1. SpellEvent(f)
      BY <2>7, <2>12 DEF SpellsInv
    <3> SUFFICES ASSUME memory'[f].kind = "spell"
          PROVE  /\ memory'[f].who \in Casters /\ playing'[memory'[f].who]
                 /\ chant'[memory'[f].who].event = f
                 /\ f \in timers' => memory'[f].lifetime = 1
                 /\ InCallback(f)' => f \notin timers'
      BY DEF SpellEvent
    <3>2. /\ f \in timers /\ memory[f].kind = "spell" /\ memory'[f].who = memory[f].who
          /\ memory[f].who \in Casters /\ playing[memory[f].who]
          /\ chant[memory[f].who].event = f /\ memory[f].lifetime = 1
      BY <2>7, <2>10, <2>12, <3>1 DEF SpellEvent
    <3>3. CASE f = e
      <4>1. left = 0
        BY <2>2, <3>2, <3>3
      <4> QED
        BY <1>1, <2>1, <3>2, <3>3, <4>1
    <3>4. CASE f # e
      BY <1>1, <2>2, <2>6, <2>8, <3>2, <3>4
    <3> QED
      BY <3>3, <3>4
  <2>13. ASSUME NEW f \in Pending' PROVE EvacuateEvent(f)'
    <3>1. EvacuateEvent(f) /\ ~InCallback(f) /\ evac \in Nat \cup {Freed}
          /\ (evacuate_lock <=> evac # Freed)
      BY <2>7, <2>9, <2>13 DEF SpellsInv
    <3> SUFFICES ASSUME memory'[f].kind = "evacuate"
          PROVE  /\ evacuate_lock'
                 /\ \A g \in Pending' : memory'[g].kind = "evacuate" => g = f
                 /\ IF InCallback(f)'
                    THEN memory'[f].lifetime = evac' /\ (f \in timers' <=> evac' # 0)
                    ELSE memory'[f].lifetime = evac' + 1
      BY DEF EvacuateEvent
    <3>2. /\ f \in timers /\ memory[f].kind = "evacuate" /\ evacuate_lock
          /\ \A g \in Pending : memory[g].kind = "evacuate" => g = f
          /\ memory[f].lifetime = evac + 1 /\ evac \in Nat
      BY <2>7, <2>10, <2>13, <3>1 DEF EvacuateEvent
    <3>3. \A g \in Pending' : memory'[g].kind = "evacuate" => g = f
      BY <2>7, <2>10, <3>2
    <3>4. CASE f = e
      <4>1. left = evac
        BY <2>2, <3>2, <3>4
      <4>2. f \in timers' <=> evac # 0
        BY <2>1, <3>2, <3>4, <4>1
      <4> QED
        BY <1>1, <2>4, <2>6, <2>8, <3>2, <3>3, <3>4, <4>1, <4>2
    <3>5. CASE f # e
      <4>1. memory'[f].lifetime = evac + 1
        BY <2>2, <2>6, <3>2, <3>5
      <4> QED
        BY <1>1, <2>8, <3>2, <3>3, <3>5, <4>1
    <3> QED
      BY <3>4, <3>5
  <2>14. ASSUME NEW c \in Casters PROVE ChantHeld(c)' /\ OneCastEach(c)'
    <3>1. ChantHeld(c) /\ OneCastEach(c)
      BY DEF SpellsInv
    <3>2. ChantHeld(c)'
      BY <1>1, <2>7, <2>10, <3>1 DEF ChantHeld
    <3>3. OneCastEach(c)'
      BY <1>1, <3>1 DEF OneCastEach
    <3> QED
      BY <3>2, <3>3
  <2> QED
    BY <1>1, <2>11, <2>12, <2>13, <2>14 DEF SpellsInv
<1> QED
  BY <1>4, <1>5, <1>6, <1>7, <1>8 DEF Ticks, TimerNext

\* One event that never expires, and nobody chants.
LEMMA SpellsStart == SpellsInit => SpellsInv
<1> SUFFICES ASSUME SpellsInit PROVE SpellsInv
  OBVIOUS
<1>1. PICK e \in Addresses : TimerInit(e, "world")
  BY DEF SpellsInit
<1> PICK r : r = [kind |-> "world", who |-> e, lifetime |-> Forever, managed |-> TRUE]
  OBVIOUS
<1>2. r \in Events /\ r.kind = "world" /\ r.managed
  BY TimerAssumption DEF Events, Kinds
<1>3. /\ memory = [a \in {e} |-> r] /\ timers = {e} /\ turn = "idle"
  BY <1>1 DEF TimerInit
<1>4. memory \in [DOMAIN memory -> Events] /\ DOMAIN memory = {e} /\ memory[e] = r
  BY <1>2, <1>3
<1>5. Pending = {e}
  BY <1>3 DEF Pending
<1>6. ListSound
  BY <1>2, <1>3, <1>4 DEF ListSound
<1>7. \A a \in Pending : SpellEvent(a) /\ EvacuateEvent(a)
  BY <1>2, <1>4, <1>5 DEF SpellEvent, EvacuateEvent
<1>8. NoChant \in Chants /\ NoChant.event = 0 /\ NoChant.ready = FALSE
  BY DEF NoChant, Chants
<1>9. /\ chant = [c \in Casters |-> NoChant]
      /\ casts = [c \in Casters |-> 0] /\ matured = [c \in Casters |-> 0]
      /\ playing = [c \in Casters |-> FALSE]
      /\ hp = [c \in Casters |-> MaxHp] /\ tp = [c \in Casters |-> MaxTp]
      /\ evac = Freed /\ evacuate_lock = FALSE
  BY DEF SpellsInit
<1>10. chant \in [Casters -> Chants] /\ \A c \in Casters : chant[c] = NoChant
  BY <1>8, <1>9
<1>11. \A c \in Casters : ChantHeld(c) /\ OneCastEach(c)
  BY <1>8, <1>9, <1>10 DEF ChantHeld, OneCastEach
<1>12. MaxHp \in 1..MaxHp /\ MaxTp \in Nat
  BY SpellsAssumption
<1>13. /\ casts \in [Casters -> Int] /\ matured \in [Casters -> Int]
       /\ playing \in [Casters -> BOOLEAN] /\ hp \in [Casters -> 1..MaxHp]
       /\ tp \in [Casters -> Nat]
  BY <1>9, <1>12
<1> QED
  BY <1>6, <1>7, <1>9, <1>10, <1>11, <1>13 DEF SpellsInv

\* Every step keeps what the events are for.
LEMMA SpellsStep == SpellsInv /\ [SpellsNext]_spellsVars => SpellsInv'
<1> SUFFICES ASSUME SpellsInv, [SpellsNext]_spellsVars PROVE SpellsInv'
  OBVIOUS
<1>1. CASE Ticks
  BY <1>1, TicksKeep
<1>2. CASE Callback
  <2>1. CASE \E c \in Casters : \/ Moves(c) \/ JoinGame(c)
                                \/ \E s \in DOMAIN Book : Spell_Request(c, s)
                                \/ \E target \in Targets : Spell_Target(c, target)
                                \/ \E m \in Maps : ChangeMap(c, m)
                                \/ \E v \in Casters : AttackPK(c, v)
    BY <2>1, CancelStepsKeep, JoinGameKeeps, Spell_RequestKeeps, Spell_TargetKeeps
  <2> QED
    BY <1>2, <2>1, OpenDoorKeeps, EvacuateKeeps, QuietStepsKeep,
       character_cast_spellKeeps, map_evacuateKeeps DEF Callback
<1>3. CASE \E c \in Casters : LeaveGame(c)
  BY <1>3, CancelStepsKeep
<1>4. CASE UNCHANGED spellsVars
  <2>1. UNCHANGED <<memory, timers, turn, running, playing, hp, tp, chant, casts,
                    matured, evac, evacuate_lock>>
    BY <1>4 DEF spellsVars, timerVars, timerList, ticking, body, chanting, evacuation
  <2>2. Pending' = Pending
    BY <2>1 DEF Pending
  <2> QED
    BY <2>1, <2>2 DEF SpellsInv, ListSound, SpellEvent, EvacuateEvent, InCallback,
                      ChantHeld, OneCastEach
<1> QED
  BY <1>1, <1>2, <1>3, <1>4 DEF SpellsNext

\* ... which is all that is asked.
LEMMA SpellsInvSound == SpellsInv => SpellsSound
<1> SUFFICES ASSUME SpellsInv PROVE SpellsSound
  OBVIOUS
<1>1. EventsSound
  <2>1. OnlyLiving
    BY DEF SpellsInv, ListSound, OnlyLiving, Exists
  <2>2. \A e \in Pending :
       /\ memory[e].kind = "spell" =>
            playing[memory[e].who] /\ chant[memory[e].who].event = e
       /\ memory[e].kind = "evacuate" => evac # Freed
    BY DEF SpellsInv, SpellEvent, EvacuateEvent
  <2>3. \A c \in Casters : chant[c].event # 0 => /\ chant[c].event \in Pending
                                                 /\ memory[chant[c].event].who = c
    BY DEF SpellsInv, ChantHeld
  <2> QED
    BY <2>1, <2>2, <2>3 DEF EventsSound
<1>2. CastOnce
  <2> SUFFICES ASSUME NEW c \in Casters PROVE casts[c] <= matured[c]
    BY DEF CastOnce
  <2>1. OneCastEach(c)
    BY DEF SpellsInv
  <2> QED
    BY <2>1 DEF OneCastEach
<1>3. NobodyStandsDead
  <2> SUFFICES ASSUME NEW c \in Casters PROVE hp[c] > 0
    BY DEF NobodyStandsDead
  <2>1. hp[c] \in 1..MaxHp /\ MaxHp \in Nat
    BY SpellsAssumption DEF SpellsInv
  <2> QED
    BY <2>1
<1> QED
  BY <1>1, <1>2, <1>3 DEF SpellsSound

\* What the world does by timer finds what it was given (Timer::Tick,
\* character_cast_spell, map_evacuate): no event outlives its caster or its
\* evacuation, a chant gives one cast, and nobody is left standing without hp.
THEOREM TimedThingsAreSound == SpellsSpec => []SpellsSound
<1>1. SpellsSpec => []SpellsInv
  <2>1. SpellsInit /\ [][SpellsNext]_spellsVars => []SpellsInv
    BY SpellsStart, SpellsStep, PTL
  <2> QED
    BY <2>1, PTL DEF SpellsSpec
<1> QED
  BY <1>1, SpellsInvSound, PTL

-----------------------------------------------------------------------------
\* What the variables of the timer and of the spells hold.

TimerTypes ==
  /\ \A e \in DOMAIN memory : memory[e].lifetime >= Forever
  /\ execlist \subseteq Addresses /\ changed \in BOOLEAN
  /\ unseen \subseteq Addresses /\ fresh \subseteq Addresses
  /\ running \in Addresses \cup {0}
Places == map_ \in [Casters -> Maps] /\ nowhere \in [Casters -> BOOLEAN]
BodyTypes == Places /\ tp \in [Casters -> 0..MaxTp] /\ open \in BOOLEAN
             /\ evac <= EvacuateTicks
SpellTypes == TimerTypes /\ BodyTypes

\* What is allocated has as long to go as an event may.
LEMMA RelistTypes ==
  ASSUME SpellsInv, TimerTypes, NEW gone, NEW new, DOMAIN new \subseteq Addresses,
         \A e \in DOMAIN new : new[e].lifetime >= Forever,
         Relist(gone, new), Returns
  PROVE  TimerTypes'
<1>1. /\ timers \subseteq Addresses /\ running' = running /\ unseen' = unseen
  BY DEF SpellsInv, ListSound, Returns
<1> DEFINE M == (DOMAIN memory \ gone) \cup DOMAIN new
<1>2. /\ memory' = [e \in M |-> IF e \in DOMAIN new THEN new[e] ELSE memory[e]]
      /\ changed' = (changed \/ gone # {} \/ DOMAIN new # {})
      /\ fresh' = (fresh \ gone) \cup DOMAIN new
      /\ execlist' = IF changed' THEN {} ELSE execlist
  BY DEF Relist
<1>3. \A e \in DOMAIN memory' : memory'[e].lifetime >= Forever
  <2>1. DOMAIN memory' = M
    BY <1>2
  <2> SUFFICES ASSUME NEW e \in M PROVE memory'[e].lifetime >= Forever
    BY <2>1
  <2>2. CASE e \in DOMAIN new
    BY <1>2, <2>2
  <2>3. CASE e \notin DOMAIN new
    BY <1>2, <2>3 DEF TimerTypes
  <2> QED
    BY <2>2, <2>3
<1>4. changed' \in BOOLEAN
  <2>1. (changed \/ gone # {} \/ DOMAIN new # {}) \in BOOLEAN
    OBVIOUS
  <2> QED
    BY <1>2, <2>1
<1>5. execlist' \subseteq Addresses /\ fresh' \subseteq Addresses
  BY <1>2 DEF TimerTypes
<1> QED
  BY <1>1, <1>3, <1>4, <1>5 DEF TimerTypes

\* Nothing is allocated.
LEMMA CancelTypes ==
  ASSUME SpellsInv, TimerTypes, NEW gone, Relist(gone, NoEvents), Returns
  PROVE  TimerTypes'
<1>1. DOMAIN NoEvents = {}
  BY DEF NoEvents
<1> QED
  BY <1>1, RelistTypes

\* One event is.
LEMMA NewTypes ==
  ASSUME SpellsInv, TimerTypes, NEW gone \in SUBSET Addresses, NEW e \in Free_(gone),
         NEW kind, NEW who, NEW lifetime \in Nat,
         Relist(gone, [a \in {e} |-> New(kind, who, lifetime)]), Returns
  PROVE  TimerTypes'
<1> PICK r : r = New(kind, who, lifetime)
  OBVIOUS
<1>1. r.lifetime = lifetime /\ lifetime >= Forever
  BY TimerAssumption DEF New
<1> PICK new : new = [a \in {e} |-> r]
  OBVIOUS
<1>2. DOMAIN new = {e} /\ new[e] = r /\ e \in Addresses
  BY DEF Free_
<1>3. Relist(gone, new)
  OBVIOUS
<1> HIDE DEF New
<1> QED
  BY <1>1, <1>2, <1>3, RelistTypes

\* Tick itself: only what expires is counted down.
LEMMA TickTypes ==
  ASSUME SpellsInv, TimerTypes, TimerNext
  PROVE  TimerTypes'
<1>1. /\ memory \in [DOMAIN memory -> Events] /\ timers \subseteq DOMAIN memory
      /\ DOMAIN memory \subseteq Addresses
  BY DEF SpellsInv, ListSound
<1>2. CASE TickBegins
  BY <1>1, <1>2 DEF TickBegins, TimerTypes
<1>3. CASE TickEnds
  BY <1>3 DEF TickEnds, TimerTypes, timerList
<1>4. CASE \E e \in Addresses : Pass(e)
  BY <1>4 DEF Pass, TimerTypes, timerList
<1>5. CASE Called
  <2>1. \A e \in DOMAIN memory' : memory'[e].lifetime >= Forever
    <3>1. CASE memory' = memory
      BY <3>1 DEF TimerTypes
    <3>2. CASE memory' = [e \in DOMAIN memory \ {running} |-> memory[e]]
      <4> PICK D : D = DOMAIN memory \ {running}
        OBVIOUS
      <4>1. DOMAIN memory' = D /\ \A e \in D : memory'[e] = memory[e]
        BY <3>2
      <4> QED
        BY <4>1 DEF TimerTypes
    <3> QED
      BY <1>5, <3>1, <3>2 DEF Called
  <2> QED
    BY <1>5, <2>1 DEF Called, TimerTypes, timerList
<1>6. ASSUME NEW e \in Addresses, Fire(e) PROVE TimerTypes'
  <2> PICK m : m = memory[e]
    OBVIOUS
  <2> PICK left : left = IF m.lifetime = Forever THEN Forever ELSE m.lifetime - 1
    OBVIOUS
  <2>1. /\ e \in timers /\ unseen' = unseen \ {e} /\ running' = e
        /\ fresh' = fresh
        /\ memory' = [memory EXCEPT ![e].lifetime = left, ![e].managed = left # 0]
        /\ changed' = (changed \/ left = 0)
        /\ execlist' = IF changed' THEN {} ELSE execlist
    BY <1>6 DEF Fire
  <2>2. /\ m \in Events /\ m.lifetime \in Int /\ Forever \in Int
        /\ m.lifetime >= Forever
    BY <1>1, <2>1, TimerAssumption DEF Events, TimerTypes
  <2>3. left >= Forever
    BY <2>2
  <2> PICK n : n = [m EXCEPT !.lifetime = left, !.managed = left # 0]
    OBVIOUS
  <2>4. n.lifetime = left
    BY <2>2 DEF Events
  <2>5. memory' = [memory EXCEPT ![e] = n]
    BY <2>1
  <2>6. DOMAIN memory' = DOMAIN memory /\ memory'[e] = n
        /\ \A f \in DOMAIN memory \ {e} : memory'[f] = memory[f]
    BY <1>1, <2>1, <2>5
  <2>7. \A f \in DOMAIN memory' : memory'[f].lifetime >= Forever
    BY <2>3, <2>4, <2>6 DEF TimerTypes
  <2>8. changed' \in BOOLEAN
    <3>1. (changed \/ left = 0) \in BOOLEAN
      OBVIOUS
    <3> QED
      BY <2>1, <3>1
  <2> QED
    BY <2>1, <2>7, <2>8 DEF TimerTypes
<1> QED
  BY <1>2, <1>3, <1>4, <1>5, <1>6 DEF TimerNext

\* Where a blow, a cure or neither leaves everyone.
LEMMA PlacesKept ==
  ASSUME Places,
         \/ NoHarm
         \/ \E hurt : Hurt(hurt)
         \/ \E S, gain : Healed(S, gain)
  PROVE  Places'
<1>1. CASE NoHarm \/ \E S, gain : Healed(S, gain)
  BY <1>1 DEF NoHarm, Healed, Places
<1>2. ASSUME NEW hurt, Hurt(hurt) PROVE Places'
  <2>1. /\ map_' = [c \in Casters |-> IF c \in Dying(hurt) THEN "away" ELSE map_[c]]
        /\ nowhere' = [c \in Casters |-> nowhere[c] \/ c \in Dying(hurt)]
    BY <1>2 DEF Hurt, Respawn
  <2>2. map_' \in [Casters -> Maps]
    BY <2>1 DEF Places, Maps
  <2>3. \A c \in Casters : (nowhere[c] \/ c \in Dying(hurt)) \in BOOLEAN
    OBVIOUS
  <2> QED
    BY <2>1, <2>2, <2>3 DEF Places
<1> QED
  BY <1>1, <1>2

\* A spell: tp is only spent.
LEMMA SpellActTypes ==
  ASSUME SpellsInv, Places, tp \in [Casters -> 0..MaxTp], NEW c \in Casters,
         chant[c].spell \in DOMAIN Book, NEW target \in Targets, SpellAct(c, target)
  PROVE  Places' /\ tp' \in [Casters -> 0..MaxTp]
<1> PICK spell : spell = Book[chant[c].spell]
  OBVIOUS
<1>1. spell.tp \in Nat /\ spell.hp \in Nat /\ MaxTp \in Nat
  BY SpellsAssumption
<1>2. Pays(c, spell) => tp' \in [Casters -> 0..MaxTp]
  <2> SUFFICES ASSUME Pays(c, spell) PROVE tp' \in [Casters -> 0..MaxTp]
    OBVIOUS
  <2>1. tp[c] \in 0..MaxTp /\ tp[c] >= spell.tp
        /\ tp' = [tp EXCEPT ![c] = tp[c] - spell.tp]
    BY DEF Pays
  <2>2. tp[c] - spell.tp \in 0..MaxTp
    BY <1>1, <2>1
  <2> QED
    BY <2>1, <2>2
<1>3. CASE Effect(c, target, spell)
  <2>1. CASE SpellSelf(c, spell)
    BY <1>2, <2>1, PlacesKept DEF SpellSelf
  <2>2. CASE SpellAttack(c, spell)
    BY <1>2, <2>2, PlacesKept DEF SpellAttack
  <2>3. CASE SpellAttackPK(c, target[2], spell)
    BY <1>2, <2>3, PlacesKept DEF SpellAttackPK
  <2>4. CASE SpellGroup(c, spell)
    BY <1>2, <2>4, PlacesKept DEF SpellGroup
  <2> QED
    BY <1>3, <2>1, <2>2, <2>3, <2>4 DEF Effect
<1>4. CASE NoHarm /\ UNCHANGED tp
  BY <1>4, PlacesKept
<1> QED
  BY <1>3, <1>4 DEF SpellAct

\* What takes the callback of the world, and leaves the timer as it is.
LEMMA QuietStepsTypes ==
  ASSUME SpellsInv, SpellTypes,
         \/ ReloadTiles \/ Nothing \/ world_recover \/ TimedSpikes
         \/ TimedDrains \/ map_close_door
  PROVE  SpellTypes'
<1>1. TimerTypes'
  BY CancelTypes DEF ReloadTiles, Nothing, world_recover, TimedSpikes, TimedDrains,
                     map_close_door, Unchanged, SpellTypes
<1>2. /\ Places /\ tp \in [Casters -> 0..MaxTp] /\ open \in BOOLEAN
      /\ evac <= EvacuateTicks /\ MaxTp \in Nat
  BY SpellsAssumption DEF SpellTypes, BodyTypes
<1>3. evac' = evac /\ open' \in BOOLEAN
  BY <1>2 DEF ReloadTiles, Nothing, world_recover, TimedSpikes, TimedDrains,
              map_close_door, evacuation, doors
<1>4. Places' /\ tp' \in [Casters -> 0..MaxTp]
  <2>1. CASE ReloadTiles \/ Nothing \/ map_close_door
    BY <1>2, <2>1 DEF ReloadTiles, Nothing, map_close_door, body, Places
  <2>2. CASE world_recover
    <3>1. PICK magic \in 0..1 :
           tp' = [c \in Casters |-> IF playing[c]
                                    THEN AtMost(tp[c] + magic, MaxTp) ELSE tp[c]]
      BY <2>2 DEF world_recover
    <3>2. \A c \in Casters : AtMost(tp[c] + magic, MaxTp) \in 0..MaxTp
      <4> TAKE c \in Casters
      <4>1. tp[c] \in 0..MaxTp /\ tp[c] + magic \in Nat
        BY <1>2
      <4> QED
        BY <1>2, <4>1 DEF AtMost
    <3> QED
      BY <1>2, <2>2, <3>1, <3>2 DEF world_recover, Places
  <2>3. CASE TimedSpikes
    BY <1>2, <2>3, PlacesKept DEF TimedSpikes
  <2>4. CASE TimedDrains
    <3>1. Places'
      BY <1>2, <2>4 DEF TimedDrains, Places
    <3>2. CASE UNCHANGED tp
      BY <1>2, <3>1, <3>2
    <3>3. CASE tp' = [c \in Casters |-> IF On(c, "here") /\ tp[c] > 0
                                        THEN tp[c] - 1 ELSE tp[c]]
      <4>1. \A c \in Casters : tp[c] \in 0..MaxTp
                               /\ (tp[c] > 0 => tp[c] - 1 \in 0..MaxTp)
        BY <1>2
      <4> QED
        BY <3>1, <3>3, <4>1
    <3> QED
      BY <2>4, <3>2, <3>3 DEF TimedDrains
  <2> QED
    BY <2>1, <2>2, <2>3, <2>4
<1> QED
  BY <1>1, <1>2, <1>3, <1>4 DEF SpellTypes, BodyTypes

\* What cancels a chant and moves or hurts somebody.
LEMMA CancelStepsTypes ==
  ASSUME SpellsInv, SpellTypes, NEW c \in Casters,
         \/ Moves(c) \/ LeaveGame(c) \/ JoinGame(c)
         \/ \E m \in Maps : ChangeMap(c, m)
         \/ \E v \in Casters : AttackPK(c, v)
  PROVE  SpellTypes'
<1>1. /\ Places /\ tp \in [Casters -> 0..MaxTp] /\ open \in BOOLEAN
      /\ evac <= EvacuateTicks
  BY DEF SpellTypes, BodyTypes
<1>2. TimerTypes'
  BY CancelTypes DEF Moves, LeaveGame, JoinGame, ChangeMap, AttackPK, CancelSpell,
                     LogoutCancels, Unchanged, SpellTypes
<1>3. UNCHANGED <<tp, open, evac>>
  BY DEF Moves, LeaveGame, JoinGame, ChangeMap, AttackPK, doors, evacuation
<1>4. Places'
  <2>1. CASE Moves(c) \/ \E v \in Casters : AttackPK(c, v)
    BY <1>1, <2>1, PlacesKept DEF Moves, AttackPK
  <2>2. CASE LeaveGame(c)
    BY <1>1, <2>2 DEF LeaveGame, Places
  <2>3. CASE JoinGame(c) \/ \E m \in Maps : ChangeMap(c, m)
    BY <1>1, <2>3 DEF JoinGame, ChangeMap, Places, Maps
  <2> QED
    BY <2>1, <2>2, <2>3
<1> QED
  BY <1>1, <1>2, <1>3, <1>4 DEF SpellTypes, BodyTypes

\* What is allocated: of a chant, a door or an evacuation.
LEMMA NewStepsTypes ==
  ASSUME SpellsInv, SpellTypes,
         \/ OpenDoor \/ Evacuate
         \/ \E c \in Casters, s \in DOMAIN Book : Spell_Request(c, s)
  PROVE  SpellTypes'
<1>1. /\ Places /\ tp \in [Casters -> 0..MaxTp] /\ open \in BOOLEAN
      /\ evac <= EvacuateTicks /\ EvacuateTicks \in Nat /\ TimerTypes
  BY SpellsAssumption DEF SpellTypes, BodyTypes
<1>2. CASE OpenDoor
  <2>1. TimerTypes'
    <3>1. PICK e \in Free_({}) : Relist({}, [a \in {e} |-> New("door", e, 1)])
      BY <1>2 DEF OpenDoor
    <3>2. Returns /\ {} \in SUBSET Addresses /\ 1 \in Nat
      BY <1>2 DEF OpenDoor
    <3> QED
      BY <1>1, <3>1, <3>2, NewTypes
  <2> QED
    BY <1>1, <1>2, <2>1 DEF OpenDoor, SpellTypes, BodyTypes, Places, body, evacuation
<1>3. CASE Evacuate
  <2>1. TimerTypes'
    <3>1. PICK e \in Free_({}) :
            Relist({}, [a \in {e} |-> New("evacuate", e, EvacuateTicks)])
      BY <1>3 DEF Evacuate
    <3>2. Returns /\ {} \in SUBSET Addresses
      BY <1>3 DEF Evacuate
    <3> QED
      BY <1>1, <3>1, <3>2, NewTypes
  <2>2. evac' <= EvacuateTicks
    BY <1>1, <1>3 DEF Evacuate, StepsAfter
  <2> QED
    BY <1>1, <1>3, <2>1, <2>2 DEF Evacuate, SpellTypes, BodyTypes, Places, body, doors
<1>4. ASSUME NEW c \in Casters, NEW s \in DOMAIN Book, Spell_Request(c, s)
      PROVE  SpellTypes'
  <2>1. EventsOf({c}) \in SUBSET Addresses
    BY DEF EventsOf, SpellsInv, Chants
  <2>2. TimerTypes'
    <3>1. PICK e \in Free_(EventsOf({c})) :
            Relist(EventsOf({c}), [a \in {e} |-> New("spell", c, 1)])
      BY <1>4 DEF Spell_Request
    <3>2. Returns /\ 1 \in Nat
      BY <1>4 DEF Spell_Request
    <3> QED
      BY <1>1, <2>1, <3>1, <3>2, NewTypes
  <2> QED
    BY <1>1, <1>4, <2>2 DEF Spell_Request, SpellTypes, BodyTypes, Places, body, doors,
                            evacuation
<1> QED
  BY <1>2, <1>3, <1>4

\* A chant that is cast, and an evacuation that goes on.
LEMMA CastStepsTypes ==
  ASSUME SpellsInv, SpellTypes,
         \/ character_cast_spell \/ map_evacuate
         \/ \E c \in Casters, target \in Targets : Spell_Target(c, target)
  PROVE  SpellTypes'
<1>1. /\ Places /\ tp \in [Casters -> 0..MaxTp] /\ open \in BOOLEAN
      /\ evac <= EvacuateTicks /\ EvacuateTicks \in Nat /\ TimerTypes
      /\ evac \in Nat \cup {Freed}
  BY SpellsAssumption DEF SpellTypes, BodyTypes, SpellsInv
<1>2. CASE character_cast_spell
  <2> PICK c : c = memory[running].who
    OBVIOUS
  <2>1. /\ turn = "callback" /\ memory[running].kind = "spell" /\ Returns
        /\ UNCHANGED <<doors, evacuation>>
    BY <1>2 DEF character_cast_spell, Calls
  <2>2. c \in Casters /\ chant[c].event = running /\ running # 0
    BY <2>1, SpellsAssumption DEF SpellsInv, SpellEvent, Pending, ListSound
  <2>3. chant[c].spell \in DOMAIN Book /\ chant[c].target \in Targets \cup {Invalid}
    BY <2>2 DEF SpellsInv, ChantHeld, Chants
  <2>4. TimerTypes'
    BY <1>1, <1>2, <2>1, CancelTypes DEF character_cast_spell, Unchanged
  <2>5. Places' /\ tp' \in [Casters -> 0..MaxTp]
    <3>1. CASE chant[c].target = Invalid
      BY <1>1, <1>2, <3>1 DEF character_cast_spell, body, Places
    <3>2. CASE chant[c].target # Invalid
      <4>1. SpellAct(c, chant[c].target) /\ chant[c].target \in Targets
        BY <1>2, <2>3, <3>2 DEF character_cast_spell
      <4> QED
        BY <1>1, <2>2, <2>3, <4>1, SpellActTypes
    <3> QED
      BY <3>1, <3>2
  <2> QED
    BY <1>1, <2>1, <2>4, <2>5 DEF SpellTypes, BodyTypes, doors, evacuation
<1>3. CASE map_evacuate
  <2>1. TimerTypes'
    BY <1>1, <1>3, CancelTypes DEF map_evacuate, CancelSpell, Unchanged
  <2>2. Places' /\ evac' <= EvacuateTicks
    <3>1. CASE evac > 0
      <4>1. UNCHANGED body /\ evac' = evac - 1
        BY <1>3, <3>1 DEF map_evacuate
      <4> QED
        BY <1>1, <3>1, <4>1 DEF Freed, body, Places
    <3>2. CASE ~(evac > 0)
      <4>1. /\ evac' = Freed /\ nowhere' = nowhere
            /\ \E S : map_' = [c \in Casters |-> IF c \in S THEN "away" ELSE map_[c]]
        BY <1>3, <3>2 DEF map_evacuate
      <4> QED
        BY <1>1, <4>1 DEF Freed, Places, Maps
    <3> QED
      BY <3>1, <3>2
  <2>3. UNCHANGED <<tp, open>>
    BY <1>3 DEF map_evacuate, doors, body
  <2> QED
    BY <1>1, <2>1, <2>2, <2>3 DEF SpellTypes, BodyTypes
<1>4. ASSUME NEW c \in Casters, NEW target \in Targets, Spell_Target(c, target)
      PROVE  SpellTypes'
  <2>1. TimerTypes'
    BY <1>1, <1>4, CancelTypes DEF Spell_Target, CancelSpell, Spent, Unchanged
  <2>2. UNCHANGED <<open, evac>>
    BY <1>4 DEF Spell_Target, doors, evacuation
  <2>3. Places' /\ tp' \in [Casters -> 0..MaxTp]
    <3>1. CASE UNCHANGED body
      BY <1>1, <3>1 DEF body, Places
    <3>2. CASE chant[c].ready /\ SpellAct(c, target)
      <4>1. chant[c].spell \in DOMAIN Book
        BY <3>2 DEF SpellsInv, ChantHeld
      <4> QED
        BY <1>1, <3>2, <4>1, SpellActTypes
    <3> QED
      BY <1>4, <3>1, <3>2 DEF Spell_Target
  <2> QED
    BY <1>1, <2>1, <2>2, <2>3 DEF SpellTypes, BodyTypes
<1> QED
  BY <1>2, <1>3, <1>4

\* Every step of the world's timer and of its spells.
LEMMA SpellTypesKept ==
  SpellsInv /\ SpellTypes /\ [SpellsNext]_spellsVars => SpellTypes'
<1> SUFFICES ASSUME SpellsInv, SpellTypes, [SpellsNext]_spellsVars PROVE SpellTypes'
  OBVIOUS
<1>1. CASE Ticks
  <2>1. TimerTypes'
    BY <1>1, TickTypes DEF Ticks, SpellTypes
  <2> QED
    BY <1>1, <2>1 DEF Ticks, SpellTypes, BodyTypes, Places, body, doors, evacuation
<1>2. CASE Callback
  <2>1. CASE \E c \in Casters : \/ Moves(c) \/ JoinGame(c)
                                \/ \E s \in DOMAIN Book : Spell_Request(c, s)
                                \/ \E target \in Targets : Spell_Target(c, target)
                                \/ \E m \in Maps : ChangeMap(c, m)
                                \/ \E v \in Casters : AttackPK(c, v)
    BY <2>1, CancelStepsTypes, NewStepsTypes, CastStepsTypes
  <2> QED
    BY <1>2, <2>1, QuietStepsTypes, NewStepsTypes, CastStepsTypes DEF Callback
<1>3. CASE \E c \in Casters : LeaveGame(c)
  BY <1>3, CancelStepsTypes
<1>4. CASE UNCHANGED spellsVars
  BY <1>4 DEF spellsVars, timerVars, timerList, ticking, body, chanting, doors,
              evacuation, SpellTypes, TimerTypes, BodyTypes, Places
<1> QED
  BY <1>1, <1>2, <1>3, <1>4 DEF SpellsNext

\* ... and the first of its states.
LEMMA SpellTypesBegin == SpellsInit => SpellTypes
<1> SUFFICES ASSUME SpellsInit PROVE SpellTypes
  OBVIOUS
<1>1. PICK e \in Addresses : TimerInit(e, "world")
  BY DEF SpellsInit
<1> PICK r : r = [kind |-> "world", who |-> e, lifetime |-> Forever, managed |-> TRUE]
  OBVIOUS
<1>2. r.lifetime >= Forever
  BY TimerAssumption
<1>3. memory = [a \in {e} |-> r]
  BY <1>1 DEF TimerInit
<1>4. TimerTypes
  BY <1>1, <1>2, <1>3 DEF TimerInit, TimerTypes
<1>5. MaxTp \in Nat /\ EvacuateTicks \in Nat
  BY SpellsAssumption
<1>6. Places /\ open \in BOOLEAN
  BY DEF SpellsInit, Places, Maps
<1>7. tp \in [Casters -> 0..MaxTp] /\ evac <= EvacuateTicks
  BY <1>5 DEF SpellsInit, Freed
<1> QED
  BY <1>4, <1>6, <1>7 DEF SpellTypes, BodyTypes

\* ... which gives the types that are checked.
LEMMA SpellTypesAre == SpellsInv /\ SpellTypes => SpellsTypeOK
<1> SUFFICES ASSUME SpellsInv, SpellTypes PROVE SpellsTypeOK
  OBVIOUS
<1>1. TimerTypeOK
  <2>1. \A e \in DOMAIN memory : memory[e].managed \in BOOLEAN
    BY DEF SpellsInv, ListSound, Events
  <2> QED
    BY <2>1 DEF SpellsInv, ListSound, SpellTypes, TimerTypes, TimerTypeOK
<1>2. hp \in [Casters -> 0..MaxHp]
  <2>1. MaxHp \in Nat /\ hp \in [Casters -> 1..MaxHp]
    BY SpellsAssumption DEF SpellsInv
  <2> QED
    BY <2>1
<1>3. evac \in Freed..EvacuateTicks
  BY SpellsAssumption DEF SpellsInv, SpellTypes, BodyTypes, Freed
<1> QED
  BY <1>1, <1>2, <1>3 DEF SpellsInv, Chants, SpellTypes, BodyTypes, Places, SpellsTypeOK

\* Whatever the timer runs, whoever chants, and whatever dies, goes or is
\* evacuated meanwhile, the timer's list and everyone's state are what
\* Timer::Tick and the spells take them for.
THEOREM SpellsAreTyped == SpellsSpec => []SpellsTypeOK
<1>1. SpellsInit /\ [][SpellsNext]_spellsVars => [](SpellsInv /\ SpellTypes)
  BY SpellsStart, SpellsStep, SpellTypesBegin, SpellTypesKept, PTL
<1> QED
  BY <1>1, SpellTypesAre, PTL DEF SpellsSpec

=============================================================================
