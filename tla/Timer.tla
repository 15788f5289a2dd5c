------------------------------- MODULE Timer -------------------------------
(***************************************************************************)
(* The timer of the world (Timer and TimeEvent, timer.cpp).  Events are    *)
(* allocated and deleted by those who register them; Tick goes through a   *)
(* copy of the list and runs what is due, and what it runs registers and   *)
(* deletes events, of the same list, meanwhile.  All this is the thread of *)
(* the world.                                                              *)
(*                                                                         *)
(* An event is known by its address, which may be used again once it was   *)
(* freed.  Addresses are visited in any order (the list is a set of        *)
(* pointers), and a registered event is due at any tick but the one in     *)
(* which it was registered.                                                *)
(***************************************************************************)
EXTENDS Integers, FiniteSets

CONSTANTS Addresses,   \* where events may be allocated
          Forever      \* lifetime of an event that never expires (-1)

ASSUME TimerAssumption == Forever \in Int /\ Forever < 0

VARIABLES
  memory,     \* address -> [kind, who, lifetime, managed] of those allocated
  timers, changed,
  execlist,   \* read when nothing has changed only: {} while something has
  turn,       \* "idle", or where Tick is: "list", "callback", "called"
  unseen,     \* what is left of execlist in this tick
  fresh,      \* registered during this tick
  running     \* the event whose callback is run, or 0

timerList == <<timers, execlist, changed>>
ticking == <<turn, unseen, fresh, running>>
timerVars == <<memory, timerList, ticking>>

Exists(e) == e \in DOMAIN memory

TimerTypeOK ==
  /\ DOMAIN memory \subseteq Addresses
  /\ \A e \in DOMAIN memory : /\ memory[e].lifetime >= Forever
                              /\ memory[e].managed \in BOOLEAN
  /\ timers \subseteq Addresses /\ execlist \subseteq Addresses
  /\ changed \in BOOLEAN
  /\ turn \in {"idle", "list", "callback", "called"}
  /\ unseen \subseteq Addresses /\ fresh \subseteq Addresses
  /\ running \in Addresses \cup {0}

\* One event, which never expires, is there from the start.
TimerInit(e, kind) ==
  /\ memory = [a \in {e} |-> [kind |-> kind, who |-> e, lifetime |-> Forever,
                              managed |-> TRUE]]
  /\ timers = {e} /\ execlist = {} /\ changed = TRUE
  /\ turn = "idle" /\ unseen = {} /\ fresh = {} /\ running = 0

-----------------------------------------------------------------------------
\* What the callbacks and handlers do to the list.  They do it all at once:
\* delete the events of gone, then allocate and register those of new, a
\* function from free addresses to events.

Free_(gone) == (Addresses \ DOMAIN memory) \cup gone
New(kind, who, lifetime) == [kind |-> kind, who |-> who, lifetime |-> lifetime,
                             managed |-> TRUE]

Relist(gone, new) ==
  /\ memory' = [e \in (DOMAIN memory \ gone) \cup DOMAIN new |->
                  IF e \in DOMAIN new THEN new[e] ELSE memory[e]]
  /\ timers' = (timers \ gone) \cup DOMAIN new
  /\ changed' = (changed \/ gone # {} \/ DOMAIN new # {})
  /\ fresh' = (fresh \ gone) \cup DOMAIN new
  /\ execlist' = IF changed' THEN {} ELSE execlist
NoEvents == [e \in {} |-> 0]
Unchanged == Relist({}, NoEvents)

\* The end of a callback, or a step outside of Tick.
Returns == /\ turn' = IF turn = "callback" THEN "called" ELSE turn
           /\ UNCHANGED <<unseen, running>>

-----------------------------------------------------------------------------

TickBegins ==
  /\ turn = "idle" /\ turn' = "list"
  /\ execlist' = IF changed THEN timers ELSE execlist
  /\ unseen' = execlist' /\ fresh' = {}
  /\ changed' = FALSE /\ UNCHANGED <<memory, timers, running>>

\* Not in the list any more: not looked at.  Not due: left alone.
Pass(e) ==
  /\ turn = "list" /\ e \in unseen /\ unseen' = unseen \ {e}
  /\ UNCHANGED <<memory, timerList, turn, fresh, running>>

\* Due: its last tick unregisters it.
Fire(e) ==
  /\ turn = "list" /\ e \in unseen /\ e \in timers \ fresh
  /\ unseen' = unseen \ {e} /\ turn' = "callback" /\ running' = e
  /\ LET left == IF memory[e].lifetime = Forever THEN Forever
                                                 ELSE memory[e].lifetime - 1 IN
     /\ memory' = [memory EXCEPT ![e].lifetime = left,
                                 ![e].managed = left # 0]
     /\ timers' = IF left = 0 THEN timers \ {e} ELSE timers
     /\ changed' = (changed \/ left = 0)
     /\ execlist' = IF changed' THEN {} ELSE execlist
  /\ UNCHANGED fresh

\* After the callback: what is not registered any more is deleted.
Called ==
  /\ turn = "called" /\ turn' = "list"
  /\ memory' = IF Exists(running) /\ ~memory[running].managed
               THEN [e \in DOMAIN memory \ {running} |-> memory[e]]
               ELSE memory
  /\ running' = 0 /\ UNCHANGED <<timerList, unseen, fresh>>

TickEnds ==
  /\ turn = "list" /\ unseen = {} /\ turn' = "idle" /\ fresh' = {}
  /\ UNCHANGED <<memory, timerList, unseen, running>>

TimerNext == \/ TickBegins \/ Called \/ TickEnds
             \/ \E e \in Addresses : Pass(e) \/ Fire(e)

-----------------------------------------------------------------------------
\* What Tick looks at is there: a registered event when its turn comes, and
\* the event itself when its callback has returned.
OnlyLiving == /\ timers \subseteq DOMAIN memory
              /\ turn \in {"callback", "called"} => Exists(running)
===========================================================================
