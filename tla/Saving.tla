------------------------------ MODULE Saving ------------------------------
(***************************************************************************)
(* How characters are kept (world.cpp, main.cpp, Character::Save and       *)
(* Logout): the timed save in one transaction, the save at logout, the     *)
(* dump to a file when the server exits or crashes in a way it notices,    *)
(* and the restore from that file at the next start.  A process may also   *)
(* end without a word (power, SIGKILL).                                    *)
(*                                                                         *)
(* A row is [usage, version]: the minutes played, and how far the rest of  *)
(* the character has got.  Guilds, chests and items on the ground go the   *)
(* same way and are left out.                                              *)
(***************************************************************************)
EXTENDS Database

CONSTANTS LastVersion, LastMinute,   \* bounds: of a row,
          MaxStarts, MaxLog            \* of processes, of queries in a log

ASSUME SavingAssumption ==
  /\ Values = [usage : 0..LastMinute, version : 0..LastVersion]
  /\ LastMinute \in Nat /\ LastVersion \in Nat /\ MaxStarts \in Nat

VARIABLES
  live,      \* the characters online: the row as it would be saved, with
             \* base: the usage that was read at login (Character::usage)
  dumped,    \* the file: what DumpToFile wrote, of some characters
  task,      \* what the world's thread is at
  agenda,      \* the characters that the task has not come to yet
  boots     \* how often the process was started

savingVars == <<live, dumped, task, agenda, boots>>
allSavingVars == <<databaseVars, savingVars>>

Row(c) == [usage |-> live[c].usage, version |-> live[c].version]
Online == DOMAIN live
Tasks == {"none", "begin", "save", "commit", "rollback", "logout", "cleanup",
          "open", "restore", "keep", "undo"}

SavingTypeOK ==
  /\ DatabaseTypeOK
  /\ Online \subseteq Records /\ DOMAIN dumped \subseteq Records
  /\ \A c \in Online : live[c] \in [usage : 0..LastMinute,
                                   version : 0..LastVersion,
                                   base : 0..live[c].usage]
  /\ \A c \in DOMAIN dumped : dumped[c] \in Values
  /\ task \in Tasks /\ agenda \subseteq Records /\ boots \in 0..MaxStarts
  /\ task = "none" => Idle

SavingInit ==
  /\ DatabaseInit
  /\ live = <<>> /\ dumped = <<>> /\ task = "none" /\ agenda = {} /\ boots = 0

Without(f, x) == [y \in DOMAIN f \ {x} |-> f[y]]
Free == process = "up" /\ task = "none"

-----------------------------------------------------------------------------
\* Play

Login(c) ==
  /\ Free /\ c \notin Online
  /\ live' = [d \in Online \cup {c} |->
                IF d = c THEN [usage |-> Seen[c].usage, base |-> Seen[c].usage,
                               version |-> Seen[c].version]
                ELSE live[d]]
  /\ UNCHANGED <<databaseVars, dumped, task, agenda, boots>>

Progress(c) ==
  /\ Free /\ c \in Online
  /\ \/ /\ live[c].version < LastVersion
        /\ live' = [live EXCEPT ![c].version = @ + 1]
     \/ /\ live[c].usage < LastMinute
        /\ live' = [live EXCEPT ![c].usage = @ + 1]
  /\ UNCHANGED <<databaseVars, dumped, task, agenda, boots>>

-----------------------------------------------------------------------------
\* The timed save.  What it throws is caught by Timer::Tick.

TimedSave ==
  /\ Free /\ Len(transaction_log) < MaxLog
  /\ agenda' = Online
  /\ IF in_transaction THEN task' = "save" /\ UNCHANGED databaseVars
                       ELSE task' = "begin" /\ Ask(Begin)
  /\ UNCHANGED <<live, dumped, boots>>

Saves == task \in {"begin", "save"} /\ (Idle \/ Done)

SaveNext(c) ==
  /\ process = "up" /\ Saves /\ c \in agenda
  /\ Ask(Write(c, Row(c)))
  /\ task' = "save" /\ agenda' = agenda \ {c}
  /\ UNCHANGED <<live, dumped, boots>>

SaveCommits ==
  /\ process = "up" /\ Saves /\ agenda = {}
  /\ Ask(Commit) /\ task' = "commit"
  /\ UNCHANGED <<live, dumped, agenda, boots>>

CommitFails ==
  /\ process = "up" /\ task = "commit" /\ Failed
  /\ Ask(Rollback) /\ task' = "rollback"
  /\ UNCHANGED <<live, dumped, agenda, boots>>

\* The commit was done, or the rollback was done or throws, or a save throws.
SaveEnds ==
  /\ process = "up"
  /\ \/ task \in {"commit", "rollback"} /\ Done
     \/ task \in {"save", "rollback"} /\ Failed
  /\ Answered /\ task' = "none" /\ agenda' = {}
  /\ UNCHANGED <<live, dumped, boots>>

-----------------------------------------------------------------------------
\* Logout, by the destructor of the character: what it throws terminates.

LogOut(c) ==
  /\ Free /\ c \in Online /\ Len(transaction_log) < MaxLog
  /\ Ask(Write(c, Row(c)))
  /\ task' = "logout" /\ agenda' = {c}
  /\ UNCHANGED <<live, dumped, boots>>

LoggedOut ==
  /\ process = "up" /\ task = "logout" /\ Done
  /\ Answered /\ task' = "none" /\ agenda' = {}
  /\ live' = Without(live, asked.key)
  /\ UNCHANGED <<dumped, boots>>

LogoutThrows ==
  /\ process = "up" /\ task \in {"logout", "cleanup"} /\ Failed
  /\ StopProcess("halted") /\ task' = "none" /\ agenda' = {} /\ live' = <<>>
  /\ UNCHANGED <<transaction, login, stored, losses, errors, dumped, boots>>

-----------------------------------------------------------------------------
\* The end of the process

\* What the dump says of a character: not Usage(), but the usage at login.
Dumped(c) == [usage |-> live[c].base, version |-> live[c].version]

\* Cleanup: on exit, on a signal that is handled, on an exception.  The dump
\* is merged into the one that is there; then everyone is logged out.
Cleanup ==
  /\ Free
  /\ dumped' = [c \in Online \cup DOMAIN dumped |->
                  IF c \in Online THEN Dumped(c) ELSE dumped[c]]
  /\ task' = "cleanup" /\ agenda' = Online
  /\ UNCHANGED <<databaseVars, live, boots>>

CleanupNext(c) ==
  /\ process = "up" /\ task = "cleanup" /\ (Idle \/ Done) /\ c \in agenda
  /\ Ask(Write(c, Row(c))) /\ agenda' = agenda \ {c}
  /\ UNCHANGED <<live, dumped, task, boots>>

Exit(state) ==
  /\ StopProcess(state) /\ task' = "none" /\ agenda' = {} /\ live' = <<>>
  /\ UNCHANGED <<transaction, login, stored, losses, errors, dumped, boots>>

CleanupEnds == /\ process = "up" /\ task = "cleanup" /\ (Idle \/ Done)
               /\ agenda = {} /\ Exit("down")

Crash == process = "up" /\ Exit("down")

-----------------------------------------------------------------------------
\* The start, and the restore

Boot ==
  /\ boots < MaxStarts /\ boots' = boots + 1
  /\ Open /\ live' = <<>> /\ agenda' = DOMAIN dumped
  /\ asked' = IF dumped = <<>> THEN NoQuery ELSE Begin
  /\ task' = IF dumped = <<>> THEN "none" ELSE "open"
  /\ reply' = "none" /\ UNCHANGED <<stored, losses, errors, dumped>>

\* Restores: todo is what is left of the dump; an entry is erased from it
\* when its statement was executed, or when there is none to execute.
Left == IF Done /\ asked.op = "write" THEN agenda \ {asked.key} ELSE agenda
Restores == /\ process = "up" /\ task \in {"open", "restore"}
            /\ Idle \/ Done

Restorable(c) == c \in DOMAIN dumped
NotNewer(c) == Seen[c].usage <= dumped[c].usage

RestoreNext(c) ==
  /\ Restores /\ c \in Left
  /\ IF NotNewer(c) THEN Ask(Write(c, dumped[c])) /\ agenda' = Left
                    ELSE Answered /\ agenda' = Left \ {c}
  /\ task' = "restore"
  /\ UNCHANGED <<live, dumped, boots>>

RestoreCommits ==
  /\ Restores /\ Left = {}
  /\ Ask(Commit) /\ task' = "keep" /\ agenda' = {}
  /\ UNCHANGED <<live, dumped, boots>>

RestoreThrows ==
  /\ process = "up" /\ task \in {"restore", "keep"} /\ Failed
  /\ Ask(Rollback) /\ task' = "undo"
  /\ UNCHANGED <<live, dumped, agenda, boots>>

\* The file is written again with what is left, or removed.
RestoreEnds ==
  /\ process = "up" /\ task \in {"keep", "undo"} /\ Done
  /\ Answered /\ task' = "none" /\ agenda' = {}
  /\ dumped' = [c \in agenda |-> dumped[c]]
  /\ UNCHANGED <<live, boots>>

\* main catches it: Cleanup, with nobody online.
UndoThrows == process = "up" /\ task = "undo" /\ Failed /\ Exit("down")

SavingNext ==
  \/ DatabaseNext /\ UNCHANGED savingVars
  \/ TimedSave \/ SaveCommits \/ CommitFails \/ SaveEnds
  \/ LoggedOut \/ LogoutThrows \/ Cleanup \/ CleanupEnds \/ Crash
  \/ Boot \/ RestoreCommits \/ RestoreThrows \/ RestoreEnds \/ UndoThrows
  \/ \E c \in Records : \/ Login(c) \/ Progress(c) \/ SaveNext(c) \/ LogOut(c)
                        \/ CleanupNext(c) \/ RestoreNext(c)

SavingSpec == SavingInit /\ [][SavingNext]_allSavingVars

-----------------------------------------------------------------------------
\* Whatever is saved, rolled back, lost and restored, the stored minutes of a
\* character never fall: the restore leaves a row alone that is newer than
\* the dump's (test RestoreFromDump_DoesNotOverwrite_CharacterWithNewerData).
UsageNeverFalls ==
  [][\A c \in Records : stored'[c].usage >= stored[c].usage]_allSavingVars
===========================================================================
