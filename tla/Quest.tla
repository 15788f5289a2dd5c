--------------------------------- MODULE Quest ---------------------------------
(***************************************************************************)
(* The quests of one character: the interpreter of EO+ (Context) and what  *)
(* calls it.  A quest is a set of states, each with actions, done when the *)
(* state is entered, and rules, looked at afterwards and whenever          *)
(* something about the character changes.  An action may enter a state, of *)
(* this quest or of another, and may give the character something, which   *)
(* has all rules of all quests looked at from within the action.  The call *)
(* stack is therefore part of the state, and a counter limits it.          *)
(*                                                                         *)
(* What rules ask of a character are facts that hold or not; of the        *)
(* counters only that of kills is modelled, and c, of days, as a flag.     *)
(***************************************************************************)
EXTENDS Integers, Sequences, FiniteSets

CONSTANTS LastQuest, Labels,   \* quests have numbers; names of states
          Actions, Rules,      \* of the states a quest declares
          Facts, NoLabel, max_recursion,
          MaxEvents,           \* bound: of what happens to the character
          MaxContexts          \* bound: of objects at a time

Quests == 0..LastQuest
States(q) == DOMAIN Actions[q]

(* What is to be done names states, quests and facts that there are.       *)
Fits(a) ==
  /\ a.op \in {"setstate", "startquest", "setqueststate"} => a.to \in Labels
  /\ a.op \in {"startquest", "resetquest", "setqueststate"}
       => a.quest \in Quests
  /\ a.op = "give" => a.fact \in Facts
Scripted(list) == /\ Len(list) \in Nat /\ DOMAIN list = 1..Len(list)
                  /\ \A j \in 1..Len(list) : Fits(list[j])

ASSUME QuestAssumption ==
  /\ LastQuest \in Nat /\ NoLabel \notin Labels
  /\ {"begin", "end", "done"} \subseteq Labels
  /\ \A q \in Quests : /\ "begin" \in States(q) /\ States(q) \subseteq Labels
                       /\ DOMAIN Rules[q] = States(q)
                       /\ \A s \in States(q) : /\ Scripted(Actions[q][s])
                                              /\ Scripted(Rules[q][s])
  /\ max_recursion \in Nat \ {0} /\ MaxEvents \in Nat
  /\ MaxContexts \in Nat /\ MaxContexts > LastQuest

VARIABLES
  contexts,        \* by number: objects that are in the map or on the stack
  quests,          \* Character::quests: of each quest a context; 0: no entry,
                   \* -1: an empty one
  quests_inactive, \* what is kept of quests that are not running
  facts,
  stack,           \* the calls in progress, innermost first
  recursive_depth,
  events

questVars == <<contexts, quests, quests_inactive, facts, stack,
               recursive_depth, events>>

(* Calls: DoActions and CheckRules of a context, in its state at the time  *)
(* of the call; the loops over all quests; what KilledNPC does at the end. *)
Loops == {"DoActions", "CheckRules"}
Call(fn, o, s) == [fn |-> fn, ctx |-> o, state |-> s, i |-> 0,
                   changed |-> FALSE, last |-> FALSE]
Ids == 1..MaxContexts
Nobody_ == [quest |-> 0, name |-> NoLabel, state |-> NoLabel,
            finished |-> FALSE, kills |-> 0, daily |-> FALSE, since |-> 0]
Saved == [name : Labels, kills : Nat, daily : BOOLEAN, since : Nat]

Running == {q \in Quests : quests[q] > 0}

QuestTypeOK ==
  /\ \A o \in Ids : /\ contexts[o].quest \in Quests
                    /\ contexts[o].name \in Labels \cup {NoLabel}
                    /\ contexts[o].state \in States(contexts[o].quest)
                                               \cup {NoLabel}
                    /\ contexts[o].kills \in Nat
  /\ quests \in [Quests -> Ids \cup {0, -1}]
  /\ \A q \in Running : contexts[quests[q]].quest = q
  /\ \A q \in DOMAIN quests_inactive : quests_inactive[q] \in Saved
  /\ DOMAIN quests_inactive \subseteq Quests
  /\ facts \subseteq Facts
  /\ \A j \in DOMAIN stack : stack[j].ctx \in Ids \cup {0}
  /\ recursive_depth \in Int /\ recursive_depth <= max_recursion
  /\ events \in 0..MaxEvents

QuestInit == /\ contexts = [o \in Ids |-> Nobody_]
             /\ quests = [q \in Quests |-> 0]
             /\ quests_inactive = <<>>
             /\ facts = {} /\ stack = <<Call("Login", 0, NoLabel)>>
             /\ recursive_depth = 0 /\ events = 0

-----------------------------------------------------------------------------
(* Objects that nothing holds are gone.                                    *)
Kept(C, Q, stk) ==
  [o \in Ids |-> IF (\E q \in Quests : Q[q] = o)
                    \/ (\E j \in DOMAIN stk : stk[j].ctx = o)
                 THEN C[o] ELSE Nobody_]

Update(C, Q, stk, depth) ==
  /\ contexts' = Kept(C, Q, stk) /\ quests' = Q
  /\ stack' = stk /\ recursive_depth' = depth

(* An exception leaves all calls; the loops count themselves out.          *)
Left(stk, depth) ==
  depth - Cardinality({j \in DOMAIN stk : stk[j].fn \in Loops})
Throw(C, Q, stk, depth) == Update(C, Q, <<>>, Left(stk, depth))

(* The start of DoActions and of CheckRules.                               *)
TooDeep(depth) == depth >= max_recursion
Enter(fn, C, Q, o, stk, depth) ==
  IF C[o].state = NoLabel
  THEN IF C[o].finished THEN Update(C, Q, stk, depth)
       ELSE Throw(C, Q, stk, depth)
  ELSE IF TooDeep(depth) THEN Throw(C, Q, stk, depth)
  ELSE Update(C, Q, <<Call(fn, o, C[o].state)>> \o stk, depth + 1)

(* BeginState: the counters begin anew, but for that of days; a mutant     *)
(* keeps them.                                                             *)
KeepCounters(ctx) == [ctx EXCEPT !.since = 0]
BeginState(ctx)   == [ctx EXCEPT !.kills = 0, !.since = 0]

(* SetState up to BeginState.  The name is set before it is looked up.     *)
Named(ctx, s) ==
  IF s \in States(ctx.quest)
  THEN BeginState([ctx EXCEPT !.name = s, !.state = s,
                              !.finished = (s = "end")])
  ELSE IF s \in {"end", "done"}
  THEN [ctx EXCEPT !.name = s, !.state = NoLabel, !.finished = TRUE]
  ELSE [ctx EXCEPT !.name = s]

Known(q, s) == s \in States(q) \cup {"end", "done"}

SetState(C, Q, o, s, stk, depth) ==
  LET D == [C EXCEPT ![o] = Named(C[o], s)]
  IN  IF ~Known(C[o].quest, s) THEN Throw(D, Q, stk, depth)
      ELSE IF s \notin States(C[o].quest) THEN Update(D, Q, stk, depth)
      ELSE Enter("DoActions", D, Q, o, stk, depth)

(* A new context for quest q, in state s.                                  *)
Unused == {x \in Ids : contexts[x] = Nobody_}
Start(q, s, stk, depth) ==
  LET o == CHOOSE x \in Unused : TRUE
      C == [contexts EXCEPT ![o] = [Nobody_ EXCEPT !.quest = q]]
  IN  /\ Unused # {}
      /\ SetState(C, [quests EXCEPT ![q] = o], o, s, stk, depth)

-----------------------------------------------------------------------------
(* Facts about the character.                                              *)
Holds(rule) == \/ rule.when = "always"
               \/ rule.when = "has"   /\ rule.about \in facts
               \/ rule.when = "lacks" /\ rule.about \notin facts

(* DoAction with the calls below it, of which the top one is the caller:   *)
(* changed is set there if it is to hear that the state was changed.       *)
Heard(stk) == <<[stk[1] EXCEPT !.changed = TRUE]>> \o Tail(stk)

SetsState(a, o, stk) ==
  /\ a.op = "setstate"
  /\ SetState(contexts, quests, o, a.to, Heard(stk), recursive_depth)
  /\ UNCHANGED facts

Resets(a, o, stk) ==
  /\ a.op = "reset"
  /\ IF contexts[o].daily
     THEN SetState(contexts, quests, o, "done", Heard(stk), recursive_depth)
     ELSE Update(contexts, [quests EXCEPT ![contexts[o].quest] = -1],
                 Heard(stk), recursive_depth)
  /\ UNCHANGED facts

ResetsDaily(a, o, stk) ==
  /\ a.op = "resetdaily"
  /\ SetState([contexts EXCEPT ![o].daily = TRUE], quests, o, "done",
              Heard(stk), recursive_depth)
  /\ UNCHANGED facts

(* Another quest, or this one: started if it is not running; reset, which  *)
(* looks at the flag of this quest; or told its state.                     *)
StartsQuest(a, stk) ==
  LET c == quests[a.quest]
  IN  /\ a.op = "startquest"
      /\ IF c <= 0 THEN Start(a.quest, a.to, stk, recursive_depth)
         ELSE IF contexts[c].name = "done"
         THEN SetState(contexts, quests, c, a.to, stk, recursive_depth)
         ELSE Update(contexts, quests, stk, recursive_depth)
      /\ UNCHANGED facts

Below(a, o, stk) == IF a.quest = contexts[o].quest THEN Heard(stk) ELSE stk

ResetsQuest(a, o, stk) ==
  LET c == quests[a.quest]
  IN  /\ a.op = "resetquest"
      /\ IF c <= 0
         THEN Update(contexts, quests, Below(a, o, stk), recursive_depth)
         ELSE IF contexts[o].daily
         THEN Update(contexts, [quests EXCEPT ![a.quest] = -1],
                     Below(a, o, stk), recursive_depth)
         ELSE SetState(contexts, quests, c, "done", Below(a, o, stk),
                       recursive_depth)
      /\ UNCHANGED facts

SetsQuestState(a, o, stk) ==
  LET c == quests[a.quest]
  IN  /\ a.op = "setqueststate"
      /\ IF c <= 0 THEN Update(contexts, quests, stk, recursive_depth)
         ELSE SetState(contexts, quests, c, a.to, Below(a, o, stk),
                       recursive_depth)
      /\ UNCHANGED facts

(* Giving and taking ends in CalculateStats, which looks at all rules.     *)
Gives(a, stk) ==
  /\ a.op \in {"give", "take"}
  /\ facts' = IF a.op = "give" THEN facts \cup {a.fact} ELSE facts \ {a.fact}
  /\ Update(contexts, quests, <<Call("CheckQuestRules", 0, NoLabel)>> \o stk,
            recursive_depth)

DoAction(a, o, stk) ==
  \/ SetsState(a, o, stk) \/ Resets(a, o, stk) \/ ResetsDaily(a, o, stk)
  \/ StartsQuest(a, stk) \/ ResetsQuest(a, o, stk) \/ SetsQuestState(a, o, stk)
  \/ Gives(a, stk)

-----------------------------------------------------------------------------
(* One step of the innermost call.  `changed' does not end DoActions: its  *)
(* helper returns, and it goes on, counted out once too often.             *)
Top  == stack[1]
Rest == Tail(stack)
Next_ == [Top EXCEPT !.i = @ + 1]

DoActions ==
  LET o == Top.ctx
      list == Actions[contexts[o].quest][Top.state]
      a == list[Top.i + 1]
      skip == a.cond \in {"elseif", "else"} /\ Top.last
      asks == a.cond \in {"if", "elseif"} /\ ~skip
      run  == ~skip /\ (asks => Holds(a))
      top  == [Next_ EXCEPT !.last = IF asks THEN Holds(a) ELSE @]
  IN  /\ stack # <<>> /\ Top.fn = "DoActions"
      /\ \/ /\ Top.changed
            /\ Update(contexts, quests,
                      <<[Top EXCEPT !.changed = FALSE]>> \o Rest,
                      recursive_depth - 1)
            /\ UNCHANGED facts
         \/ /\ ~Top.changed /\ Top.i = Len(list)
            /\ Enter("CheckRules", contexts, quests, o, Rest,
                     recursive_depth - 1)
            /\ UNCHANGED facts
         \/ /\ ~Top.changed /\ Top.i < Len(list)
            /\ IF run THEN DoAction(a, o, <<top>> \o Rest)
               ELSE /\ Update(contexts, quests, <<top>> \o Rest,
                              recursive_depth)
                    /\ UNCHANGED facts
      /\ UNCHANGED <<quests_inactive, events>>

(* The first rule that leads to another state is the last one.             *)
CheckRules ==
  LET o == Top.ctx
      list == Rules[contexts[o].quest][Top.state]
      r == list[Top.i + 1]
  IN  /\ stack # <<>> /\ Top.fn = "CheckRules"
      /\ IF Top.changed \/ Top.i >= Len(list)
         THEN /\ Update(contexts, quests, Rest, recursive_depth - 1)
              /\ UNCHANGED facts
         ELSE IF Holds(r) THEN DoAction(r, o, <<Next_>> \o Rest)
         ELSE /\ Update(contexts, quests, <<Next_>> \o Rest, recursive_depth)
              /\ UNCHANGED facts
      /\ UNCHANGED <<quests_inactive, events>>

(* The loops over the quests, in the order of their numbers.               *)
CheckQuestRules ==
  LET o == quests[Top.i]
  IN  /\ stack # <<>> /\ Top.fn = "CheckQuestRules"
      /\ IF Top.i \notin Quests
         THEN Update(contexts, quests, Rest, recursive_depth)
         ELSE IF o <= 0
         THEN Update(contexts, quests, <<Next_>> \o Rest, recursive_depth)
         ELSE Enter("CheckRules", contexts, quests, o, <<Next_>> \o Rest,
                    recursive_depth)
      /\ UNCHANGED <<quests_inactive, facts, events>>

(* KilledNPC: counted if the state asks for kills; the first rule with     *)
(* enough of them is followed, and then the counter is erased.             *)
KilledNPC ==
  LET o == quests[Top.i]
      ctx == contexts[o]
      list == IF o <= 0 \/ ctx.state = NoLabel THEN <<>>
              ELSE Rules[ctx.quest][ctx.state]
      asked == {j \in DOMAIN list : list[j].when = "killed"}
      met   == {j \in asked : ctx.kills + 1 >= list[j].need}
      first == CHOOSE j \in met : \A k \in met : j <= k
      C == IF asked = {} THEN contexts
           ELSE [contexts EXCEPT ![o].kills = @ + 1, ![o].since = @ + 1]
  IN  /\ stack # <<>> /\ Top.fn = "KilledNPC"
      /\ IF Top.i \notin Quests
         THEN Update(contexts, quests, Rest, recursive_depth) /\ UNCHANGED facts
         ELSE IF met = {}
         THEN /\ Update(C, quests, <<Next_>> \o Rest, recursive_depth)
              /\ UNCHANGED facts
         ELSE DoAction(list[first], o,
                       <<Call("erase", o, NoLabel)>> \o (<<Next_>> \o Rest))
      /\ UNCHANGED <<quests_inactive, events>>

EraseProgress ==
  /\ stack # <<>> /\ Top.fn = "erase"
  /\ Update([contexts EXCEPT ![Top.ctx].kills = 0], quests, Rest,
            recursive_depth)
  /\ UNCHANGED <<quests_inactive, facts, events>>

-----------------------------------------------------------------------------
(* What happens to the character: it talks to an NPC of quest q, answers   *)
(* it, kills, comes by something or loses it.                              *)
Happens == /\ stack = <<>> /\ events < MaxEvents /\ events' = events + 1

Quest_Use(q) ==
  LET o == quests[q]
  IN  /\ Happens
      /\ \/ o <= 0 /\ Start(q, "begin", <<>>, recursive_depth)
         \/ /\ o > 0 /\ contexts[o].name = "done"
            /\ SetState(contexts, quests, o, "begin", <<>>, recursive_depth)
      /\ UNCHANGED <<quests_inactive, facts>>

Quest_Accept(q) ==
  LET ctx == contexts[quests[q]]
      list == Rules[q][ctx.state]
      met == {j \in DOMAIN list : list[j].when = "talked"}
      first == CHOOSE j \in met : \A k \in met : j <= k
  IN  /\ Happens
      /\ quests[q] > 0 /\ ctx.state # NoLabel /\ met # {}
      /\ DoAction(list[first], quests[q],
                  <<Call("return", quests[q], NoLabel)>>)
      /\ UNCHANGED quests_inactive

Return == /\ stack # <<>> /\ Top.fn = "return"
          /\ Update(contexts, quests, Rest, recursive_depth)
          /\ UNCHANGED <<quests_inactive, facts, events>>

Kills == /\ Happens
         /\ Update(contexts, quests, <<Call("KilledNPC", 0, NoLabel)>>,
                   recursive_depth)
         /\ UNCHANGED <<quests_inactive, facts>>

Changes(f) ==
  /\ Happens
  /\ facts' = IF f \in facts THEN facts \ {f} ELSE facts \cup {f}
  /\ Update(contexts, quests, <<Call("CheckQuestRules", 0, NoLabel)>>,
            recursive_depth)
  /\ UNCHANGED quests_inactive

(* Saving a quest, and resuming it: no actions are done.                   *)
Save(ctx) == [name |-> ctx.name, kills |-> ctx.kills, daily |-> ctx.daily,
              since |-> ctx.since]
Resume(q, saved) ==
  [Named([Nobody_ EXCEPT !.quest = q], saved.name) EXCEPT
     !.kills = saved.kills, !.daily = saved.daily, !.since = saved.since]

(* From what is saved, those quests whose state is known are resumed.      *)
Resumed(saved, stk) ==
  LET good == {q \in DOMAIN saved : Known(q, saved[q].name)}
      C == [o \in Ids |-> IF o - 1 \in good THEN Resume(o - 1, saved[o - 1])
                          ELSE Nobody_]
  IN  Update(C, [q \in Quests |-> IF q \in good THEN q + 1 ELSE 0], stk,
             recursive_depth)

(* Logging out and in.  An entry of a quest that was reset, or that was    *)
(* started again, hides what was inactive of it.                           *)
Relog ==
  LET kept  == {q \in DOMAIN quests_inactive : quests[q] = 0}
      saved == [q \in Running \cup kept |->
                  IF q \in Running THEN Save(contexts[quests[q]])
                  ELSE quests_inactive[q]]
  IN  /\ Happens /\ Resumed(saved, <<Call("Login", 0, NoLabel)>>)
      /\ quests_inactive' = [q \in {p \in DOMAIN saved :
                                      ~Known(p, saved[p].name)} |-> saved[q]]
      /\ UNCHANGED facts

(* The default quest is started if it is not there.                        *)
Login ==
  /\ stack # <<>> /\ Top.fn = "Login"
  /\ IF quests[0] <= 0 THEN Start(0, "begin", Rest, recursive_depth)
     ELSE Update(contexts, quests, Rest, recursive_depth)
  /\ UNCHANGED <<quests_inactive, facts, events>>

(* ReloadQuests.  Only a quest with no entry among the inactive ones gets  *)
(* one, and they stay there.                                               *)
ReloadQuests ==
  LET backup == [q \in DOMAIN quests_inactive \cup Running |->
                   IF q \in DOMAIN quests_inactive THEN quests_inactive[q]
                   ELSE Save(contexts[quests[q]])]
  IN  /\ Happens
      /\ Resumed(backup, <<Call("CheckQuestRules", 0, NoLabel)>>)
      /\ quests_inactive' = backup
      /\ UNCHANGED facts

QuestNext ==
  \/ DoActions \/ CheckRules \/ CheckQuestRules \/ KilledNPC
  \/ EraseProgress \/ Return \/ Login
  \/ \E q \in Quests : Quest_Use(q) \/ Quest_Accept(q)
  \/ \E f \in Facts : Changes(f)
  \/ Kills \/ Relog \/ ReloadQuests

QuestSpec == QuestInit /\ [][QuestNext]_questVars

-----------------------------------------------------------------------------
(* The kills a quest has counted were made in the state it is in           *)
(* (Quest_Context::BeginState, KilledNPC, UnserializeProgress).            *)
KillsOfThisState ==
  \A o \in Ids : contexts[o].state # NoLabel
                 => contexts[o].kills <= contexts[o].since

(* With no quest code running, none is counted: else sooner or later every *)
(* quest of the server would be too deep (Context::DoActions, CheckRules). *)
NothingCounted == stack = <<>> => recursive_depth <= 0

(* What quests count, they count once: kills of the state a quest is in    *)
(* and quest code that is still running, through states set by actions and *)
(* rules, quests that start others, logins and reloads.                    *)
QuestsSound == KillsOfThisState /\ NothingCounted
================================================================================
