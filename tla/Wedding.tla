-------------------------------- MODULE Wedding --------------------------------
(***************************************************************************)
(* Engagement, the ceremony at one priest's map, and divorce.              *)
(*                                                                         *)
(* The ceremony is a script driven by a timer: a number of states, each    *)
(* ending at a tick of its own, with tests of whether the couple is still  *)
(* on the map at some ticks and not at others, and two states that wait    *)
(* for an answer.  Couple and callers are names; the requests that were    *)
(* made to the priest are pointers, taken back only when their maker       *)
(* leaves the map.                                                         *)
(*                                                                         *)
(* A character lives in up to two places: its row in the database and,     *)
(* from the login of its account on, an object, which is written back only *)
(* if the character entered the game.  The law office may be on any map.   *)
(* Prices, dress and level are conditions that may hold or not; rings and  *)
(* gold are not modelled, and the priest is always there.                  *)
(***************************************************************************)
EXTENDS Integers

CONSTANTS Guests, NoOne,      \* names; NoOne: the empty string
          LastTick, AskTick, \* the tick that ends a state, that of the question
          MaxVisits           \* bound: visits to the law office

ASSUME WeddingAssumption ==
  /\ NoOne \notin Guests
  /\ LastTick \in [1..12 -> Nat \ {0}]   \* 20,6,6,13,7,13,1,6,6,5,1,5
  /\ LastTick[1] > 1 /\ LastTick[7] = 1
  /\ AskTick \in 1..LastTick[4] - 1 /\ AskTick \in 1..LastTick[6] - 1  \* 3
  /\ MaxVisits \in Nat

VARIABLES
  place,         \* "off", "menu": account logged in, "away", "here": priest's map
  partner, fiance,   \* of the character's object
  stored,         \* the partner in the character's row
  requests,       \* Wedding::requests
  partner1, partner2, state, tick, tick_timer,
  vows,           \* history: who has said I do in this ceremony
  visits

weddingVars == <<place, partner, fiance, stored, requests, partner1, partner2,
                 state, tick, tick_timer, vows, visits>>
ceremony == <<partner1, partner2, state, tick, tick_timer, vows>>

Names  == Guests \cup {NoOne}
Online == {c \in Guests : place[c] \in {"away", "here"}}

WeddingTypeOK ==
  /\ place \in [Guests -> {"off", "menu", "away", "here"}]
  /\ {partner, fiance, stored} \subseteq [Guests -> Names]
  /\ requests \subseteq Guests
  /\ {partner1, partner2} \subseteq Names
  /\ state \in 0..12 /\ tick \in Nat
  /\ state # 0 => tick < LastTick[state]
  /\ tick_timer \in SUBSET {"pointer", "registered"}
  /\ vows \subseteq Guests
  /\ visits \in 0..MaxVisits

WeddingInit == /\ place = [c \in Guests |-> "off"]
               /\ partner = [c \in Guests |-> NoOne]
               /\ fiance = [c \in Guests |-> NoOne]
               /\ stored = [c \in Guests |-> NoOne]
               /\ requests = {}
               /\ partner1 = NoOne /\ partner2 = NoOne
               /\ state = 0 /\ tick = 0 /\ tick_timer = {}
               /\ vows = {} /\ visits = 0

-----------------------------------------------------------------------------
(* tick_timer: whether there is a timer, and whether it is registered.     *)
(* StopTimer forgets the timer; its mutant leaves the pointer, and         *)
(* StartTimer then takes the timer for running.                            *)
StopTimerOnly == tick_timer \ {"registered"}
StopTimer     == {}
StartTimer    == IF "pointer" \in tick_timer THEN tick_timer
                 ELSE {"pointer", "registered"}

Present == {partner1, partner2} \subseteq {c \in Guests : place[c] = "here"}

Reset == /\ partner1' = NoOne /\ partner2' = NoOne
         /\ state' = 0 /\ tick' = 0
         /\ tick_timer' = StopTimer
         /\ vows' = {}
         /\ UNCHANGED <<partner, fiance>>

(* ChangeState, with what the first tick of a state does: state 8 makes    *)
(* the couple, 13 ends the ceremony.                                       *)
Marry == /\ partner' = [partner EXCEPT ![partner1] = partner2,
                                       ![partner2] = partner1]
         /\ fiance' = [c \in Guests |-> IF c \in {partner1, partner2}
                                        THEN NoOne ELSE fiance[c]]

ChangeState(s, said) ==
  IF s = 13 THEN Reset
  ELSE /\ state' = s /\ tick' = 0
       /\ IF s = 8 THEN Marry ELSE UNCHANGED <<partner, fiance>>
       /\ vows' = said
       /\ UNCHANGED <<partner1, partner2, tick_timer>>

(* NextState goes on only if the couple is still there.  If not, the       *)
(* ceremony ends, with an excuse before state 8 and the last words after.  *)
NextState(said) == IF Present THEN ChangeState(state + 1, said) ELSE Reset

(* The ticks that make sure of the couple: before either question is put,  *)
(* and when an answer is repeated aloud.  State 7 goes on at once.         *)
Checks(s, t) == \/ s \in {4, 6} /\ t = AskTick
                \/ s \in {5, 7} /\ t = 1

(* A question nobody answers.                                              *)
NoAnswer(s, t) == s \in {4, 6} /\ t = LastTick[s]

\* Between ceremonies (state 0) there is nothing to reset but the timer.
Wedding_Tick ==
  LET t    == tick + 1
      gone == Checks(state, t) /\ ~Present
  IN  /\ "registered" \in tick_timer
      /\ \/ /\ state = 0 \/ gone \/ NoAnswer(state, t)
            /\ Reset
         \/ /\ state # 0 /\ t = LastTick[state]
            /\ ~gone /\ ~NoAnswer(state, t)
            /\ NextState(vows)
         \/ /\ state # 0 /\ t # LastTick[state]
            /\ ~gone
            /\ tick' = t
            /\ UNCHANGED <<partner, fiance, partner1, partner2, state,
                           tick_timer, vows>>
      /\ UNCHANGED <<place, stored, requests, visits>>

(* StartWedding: the first state is entered and gets a second tick at      *)
(* once; then the timer is started, if it does not run already.            *)
StartWedding(p1, p2) ==
  /\ state = 0
  /\ partner1' = p1 /\ partner2' = p2
  /\ state' = 1 /\ tick' = 1
  /\ tick_timer' = StartTimer
  /\ vows' = {}
  /\ UNCHANGED <<partner, fiance>>

-----------------------------------------------------------------------------
(* Requesting marriage at a priest.  A ceremony under way is mentioned and *)
(* does not matter.                                                        *)
Priest_Request(c) ==
  LET p == fiance[c]
  IN  /\ place[c] = "here"
      /\ p \in Guests \ {c}
      /\ place[p] = "here" /\ fiance[p] = c /\ partner[p] = NoOne
      /\ requests' = requests \cup {c}
      /\ UNCHANGED <<place, partner, fiance, stored, ceremony, visits>>

(* Accepting: c's own fiance must have asked; whom it asked for, and what  *)
(* has become of it since, is not looked at.                               *)
Priest_Accept(c) ==
  LET p == fiance[c]
  IN  /\ place[c] = "here" /\ partner[c] = NoOne
      /\ p \in Guests /\ place[p] = "here"
      /\ p \in requests
      /\ StartWedding(p, c)
      /\ UNCHANGED <<place, stored, requests, visits>>

(* Saying "I do": the state that waits for a character; the mutant lets    *)
(* either of the two answer.                                               *)
AnswersFor(c) == IF c \in {partner1, partner2} /\ state \in {4, 6} THEN state
                 ELSE 0
RequiredState(c) == IF c = partner1 THEN 4 ELSE IF c = partner2 THEN 6 ELSE 0

Priest_Use(c) ==
  /\ place[c] = "here"
  /\ RequiredState(c) # 0 /\ state = RequiredState(c)
  /\ NextState(vows \cup {c})
  /\ UNCHANGED <<place, stored, requests, visits>>

(* A name entered at the law office is engaged to, asked or not.           *)
MarriageApproval(c, name) ==
  /\ visits < MaxVisits /\ visits' = visits + 1
  /\ c \in Online /\ partner[c] = NoOne
  /\ fiance' = [fiance EXCEPT ![c] = name]
  /\ UNCHANGED <<place, partner, stored, requests, ceremony>>

(* The partner's half of a divorce, or of a deleted character: in memory   *)
(* if the partner is in the game, in the database if not.                  *)
Free(p, of) ==
  IF p \in Online
  THEN /\ partner' = [x \in Guests |-> IF x \in {p, of} THEN NoOne
                                       ELSE partner[x]]
       /\ UNCHANGED stored
  ELSE /\ partner' = [partner EXCEPT ![of] = NoOne]
       /\ stored' = [x \in Guests |-> IF x = p /\ stored[x] = of THEN NoOne
                                      ELSE stored[x]]

Divorce(c) ==
  /\ visits < MaxVisits /\ visits' = visits + 1
  /\ c \in Online /\ partner[c] # NoOne
  /\ Free(partner[c], c)
  /\ UNCHANGED <<place, fiance, requests, ceremony>>

-----------------------------------------------------------------------------
(* The account of c logs in, and its characters are loaded; c enters the   *)
(* game; leaves it, and is saved; the account leaves from the menu.        *)
LoadCharacter(c) ==
  /\ place[c] = "off"
  /\ place' = [place EXCEPT ![c] = "menu"]
  /\ partner' = [partner EXCEPT ![c] = stored[c]]
  /\ UNCHANGED <<fiance, stored, requests, ceremony, visits>>

EnterGame(c, where) ==
  /\ place[c] = "menu"
  /\ place' = [place EXCEPT ![c] = where]
  /\ UNCHANGED <<partner, fiance, stored, requests, ceremony, visits>>

LeaveMenu(c) ==
  /\ place[c] = "menu"
  /\ place' = [place EXCEPT ![c] = "off"]
  /\ partner' = [partner EXCEPT ![c] = NoOne]
  /\ UNCHANGED <<fiance, stored, requests, ceremony, visits>>

WeddingLogout(c) ==
  /\ c \in Online
  /\ place' = [place EXCEPT ![c] = "off"]
  /\ stored' = [stored EXCEPT ![c] = partner[c]]
  /\ partner' = [partner EXCEPT ![c] = NoOne]
  /\ requests' = requests \ {c}
  /\ UNCHANGED <<fiance, ceremony, visits>>

(* Leaving the map, by a warp or by death, takes a request back.           *)
LeaveMap(c) ==
  /\ place[c] = "here"
  /\ place' = [place EXCEPT ![c] = "away"]
  /\ requests' = requests \ {c}
  /\ UNCHANGED <<partner, fiance, stored, ceremony, visits>>

EnterMap(c) ==
  /\ place[c] = "away"
  /\ place' = [place EXCEPT ![c] = "here"]
  /\ UNCHANGED <<partner, fiance, stored, requests, ceremony, visits>>

WeddingNext ==
  \/ Wedding_Tick
  \/ \E c \in Guests :
       \/ Priest_Request(c) \/ Priest_Accept(c) \/ Priest_Use(c)
       \/ \E name \in Guests : MarriageApproval(c, name)
       \/ Divorce(c)
       \/ LoadCharacter(c) \/ LeaveMenu(c) \/ WeddingLogout(c)
       \/ \E where \in {"here", "away"} : EnterGame(c, where)
       \/ LeaveMap(c) \/ EnterMap(c)

WeddingSpec == WeddingInit /\ [][WeddingNext]_weddingVars

(* The timer ticks (Timer::Tick on the server loop); nobody has to do      *)
(* anything else.                                                          *)
WeddingFairness == WF_weddingVars(Wedding_Tick)

-----------------------------------------------------------------------------
(* A marriage is made by a ceremony in which both said "I do", and for     *)
(* both at once, while both are on the map: nobody is married alone, by    *)
(* somebody else's answer or after leaving (Wedding::IDo, Check).          *)
MarriedByVows ==
  [][\A c \in Guests :
       c \in Online /\ partner'[c] \notin {partner[c], NoOne}
         => LET p == partner'[c]
            IN  /\ {c, p} \subseteq vows' /\ partner'[p] = c
                /\ place[c] = "here" /\ place[p] = "here"]_weddingVars

(* A ceremony ends, whoever leaves, logs out or keeps silent: the priest   *)
(* is not lost to everybody else (Wedding::Tick, StartTimer).              *)
CeremonyEnds == (state # 0) ~> (state = 0)
================================================================================
