------------------------------ MODULE MCService -------------------------------
(*****************************************************************************)
(* What the server's loop does between requests, for TLC: timed events and   *)
(* spells, the database and the saves, the packets and the uploads.  As in   *)
(* MCWorld, each is explored by itself.                                      *)
(*****************************************************************************)
EXTENDS Spells, Saving, Sequence, Uploads

VARIABLE part

vars == <<part, spellsVars, allSavingVars, sequenceVars, uploadsVars>>

TypeOK == /\ part = "spells" => SpellsTypeOK
          /\ part = "saving" => SavingTypeOK
          /\ part = "sequence" => SequenceTypeOK
          /\ part = "uploads" => UploadsTypeOK

Init == /\ SpellsInit /\ SavingInit /\ SequenceInit /\ UploadsInit
        /\ part \in {"spells", "saving", "sequence", "uploads"}
        /\ part # "spells" => timers = {1}

Resting(p) == /\ p # "spells" => UNCHANGED spellsVars
              /\ p # "saving" => UNCHANGED allSavingVars
              /\ p # "sequence" => UNCHANGED sequenceVars
              /\ p # "uploads" => UNCHANGED uploadsVars

Next == /\ UNCHANGED part
        /\ \/ part = "spells" /\ SpellsNext
           \/ part = "saving" /\ SavingNext
           \/ part = "sequence" /\ SequenceNext
           \/ part = "uploads" /\ UploadsNext
        /\ Resting(part)

Spec == Init /\ [][Next]_vars

-----------------------------------------------------------------------------
\* Instances

\* Spells: one that hurts whoever it hits, and one that heals a party.
Book_ == [bolt |-> [type |-> "damage", target |-> "normal",
                    restrict |-> "any", tp |-> 1, hp |-> 0],
          mend |-> [type |-> "heal", target |-> "group",
                    restrict |-> "friendly", tp |-> 0, hp |-> 1]]
Never == -1

\* Saving: rows with a counter and a version.
Stored == [usage : 0..LastMinute, version : 0..LastVersion]
Fresh == [r \in Records |-> [usage |-> 0, version |-> 0]]
Account == [user |-> "user", pass |-> "pass", db |-> "db"]
Granted == {<<"user", "pass">>, <<"", "">>}
===============================================================================
