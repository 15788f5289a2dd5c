----------------------------- MODULE Database -----------------------------
(***************************************************************************)
(* The world's MySQL connection (Database, database.cpp): transactions,    *)
(* the log of the queries of the open one, and what RawQuery does when the *)
(* link to the server is lost in the middle of a query: close, connect     *)
(* again, replay the log, and run the query again.  The caller asks one    *)
(* query at a time and waits; what a query selects is left to the caller.  *)
(* The rows of the characters table stand for the whole database.          *)
(***************************************************************************)
EXTENDS Naturals, Sequences, FiniteSetsExt

CONSTANTS Records, Values,      \* the rows' keys and what they may hold
          Start,                \* the rows of the database to begin with
          Configured, Blank,    \* [user, pass, db]; the empty string
          Grants,               \* <<user, pass>> pairs the server lets in
          Attempts,             \* recovery_attempt's limit
          MaxLosses, MaxErrors  \* bounds: lost links, refused queries

ASSUME DatabaseAssumption ==
  /\ Start \in [Records -> Values]
  /\ Attempts \in Nat \ {0} /\ MaxLosses \in Nat /\ MaxErrors \in Nat
  /\ Configured = [user |-> Configured.user, pass |-> Configured.pass,
                   db |-> Configured.db]
  /\ Blank # Configured.db

VARIABLES
  process,          \* "up", "halted" (std::terminate) or "down"
  in_transaction, transaction_log,
  login,            \* the user, pass and db members of Database
  attempt,          \* recovery_attempt; 0: no recovery under way
  asked, reply,     \* the query its caller waits for, and its outcome
  stored,           \* server: the committed rows
  session,          \* server: this connection, or NoSession
  losses, errors    \* how many there were

link == <<login, attempt, session>>
transaction == <<in_transaction, transaction_log>>
databaseVars == <<process, transaction, link, asked, reply, stored, losses,
                  errors>>

Begin == [op |-> "begin"]
Commit == [op |-> "commit"]
Rollback == [op |-> "rollback"]
Write(r, v) == [op |-> "write", key |-> r, value |-> v]
NoQuery == [op |-> "none"]
Writes == {Write(r, v) : r \in Records, v \in Values}
Queries == {Begin, Commit, Rollback, NoQuery} \cup Writes

NoSession == [up |-> FALSE, open |-> FALSE, db |-> Blank, rows |-> Start]
Connected(db) == [up |-> TRUE, open |-> FALSE, db |-> db, rows |-> Start]

DatabaseTypeOK ==
  /\ process \in {"up", "halted", "down"}
  /\ in_transaction \in BOOLEAN /\ transaction_log \in Seq(Writes)
  /\ login \in [user : {Configured.user, Configured.pass, Configured.db, Blank},
                pass : {Configured.pass, Configured.db, Blank},
                db : {Configured.db, Blank}]
  /\ attempt \in 0..Attempts
  /\ asked \in Queries /\ reply \in {"none", "done", "failed"}
  /\ stored \in [Records -> Values]
  /\ session \in [up : BOOLEAN, open : BOOLEAN,
                  db : {Configured.db, Blank}, rows : [Records -> Values]]
  /\ losses \in 0..MaxLosses /\ errors \in 0..MaxErrors

DatabaseInit ==
  /\ process = "down" /\ stored = Start
  /\ in_transaction = FALSE /\ transaction_log = <<>>
  /\ login = Configured /\ attempt = 0 /\ session = NoSession
  /\ asked = NoQuery /\ reply = "none" /\ losses = 0 /\ errors = 0

\* A new process, its Database object and its connection.
Open == /\ process = "down" /\ process' = "up"
        /\ login' = Configured /\ attempt' = 0
        /\ session' = Connected(Configured.db)
        /\ in_transaction' = FALSE /\ transaction_log' = <<>>

\* The process is gone; the server rolls back what it had not committed.
StopProcess(state) == /\ process' = state /\ session' = NoSession /\ attempt' = 0
                /\ asked' = NoQuery /\ reply' = "none"

Ask(query) == /\ asked' = query /\ reply' = "none"
              /\ UNCHANGED <<process, transaction, link, stored, losses,
                             errors>>
Done == asked # NoQuery /\ reply = "done"
Failed == asked # NoQuery /\ reply = "failed"
Idle == asked = NoQuery
Answered == /\ asked' = NoQuery /\ reply' = "none"
            /\ UNCHANGED <<process, transaction, link, stored, losses,
                           errors>>

-----------------------------------------------------------------------------
\* The server

Apply(rows, query) == [rows EXCEPT ![query.key] = query.value]

\* What a connection sees: its own transaction's rows, if it has one open.
Seen == IF session.open THEN session.rows ELSE stored

StoredAfter(query) ==
  CASE query.op = "write" /\ ~session.open -> Apply(stored, query)
    [] query.op = "commit" -> Seen
    [] OTHER -> stored

SessionAfter(query) ==
  CASE query.op = "begin" -> [session EXCEPT !.open = TRUE, !.rows = stored]
    [] query.op \in {"commit", "rollback"} ->
         [session EXCEPT !.open = FALSE, !.rows = Start]
    [] query.op = "write" /\ session.open ->
         [session EXCEPT !.rows = Apply(@, query)]
    [] OTHER -> session

\* There is no table to write to when no database was selected.
CanExecute(query) == query.op = "write" => session.db = Configured.db

-----------------------------------------------------------------------------
\* RawQuery, BeginTransaction, Commit and Rollback

Running == /\ process = "up" /\ asked # NoQuery /\ reply = "none"
           /\ attempt = 0

\* transaction_log keeps what changes data, for a replay.
Logged == IF in_transaction /\ asked.op = "write"
          THEN Append(transaction_log, asked) ELSE transaction_log

EndWithLog == in_transaction' = FALSE /\ UNCHANGED transaction_log
EndTransaction == in_transaction' = FALSE /\ transaction_log' = <<>>

Returned ==
  IF asked.op \in {"commit", "rollback"} THEN EndTransaction
  ELSE /\ in_transaction' = (in_transaction \/ asked.op = "begin")
       /\ transaction_log' = Logged

RawQuery ==
  /\ Running /\ CanExecute(asked)
  /\ stored' = StoredAfter(asked) /\ session' = SessionAfter(asked)
  /\ Returned
  /\ reply' = "done"
  /\ UNCHANGED <<process, login, attempt, asked, losses, errors>>

\* An error that is not a lost link is thrown; BeginTransaction catches it
\* and tries again, up to ten times (MaxErrors is below that).
RefusedQuery ==
  /\ Running
  /\ \/ /\ ~CanExecute(asked) /\ UNCHANGED errors
     \/ errors < MaxErrors /\ errors' = errors + 1
  /\ reply' = IF asked.op = "begin" THEN "none" ELSE "failed"
  /\ UNCHANGED <<process, transaction, link, asked, stored, losses>>

\* The link is lost, before the server ran the query or after it did.
LoseLink ==
  /\ Running /\ losses < MaxLosses
  /\ \/ UNCHANGED stored
     \/ CanExecute(asked) /\ stored' = StoredAfter(asked)
  /\ losses' = losses + 1
  /\ session' = NoSession /\ attempt' = 1
  /\ UNCHANGED <<process, transaction, login, asked, reply, errors>>

\* Connect is called with one argument too few: what is passed as authtype
\* is the user, as user the password, as password the database.  They are
\* references to the members that Connect assigns to first.
Members(l) == [user |-> l.pass, pass |-> l.db, db |-> Blank]
Presented(l) == <<Members(l).pass, Members(l).db>>

\* The log done to some rows: each is left as its last logged write has it.
WritesOf(r) == {i \in DOMAIN transaction_log : transaction_log[i].key = r}
Replay(rows) == [r \in Records |-> IF WritesOf(r) = {} THEN rows[r]
                                  ELSE transaction_log[Max(WritesOf(r))].value]

\* Another attempt fails: the server is away or does not let it in.
ReconnectFails ==
  /\ process = "up" /\ attempt > 0
  /\ login' = Members(login)
  /\ IF attempt = Attempts
     THEN StopProcess("halted")
     ELSE attempt' = attempt + 1 /\ UNCHANGED <<process, session, asked, reply>>
  /\ UNCHANGED <<transaction, stored, losses, errors>>

\* Connected again: the open transaction is begun anew and its queries are
\* replayed; one that fails halts the server.  Then the query runs again.
Reconnect ==
  /\ process = "up" /\ attempt > 0
  /\ Presented(login) \in Grants
  /\ login' = Members(login)
  /\ IF in_transaction /\ transaction_log # <<>> /\ Members(login).db = Blank
     THEN StopProcess("halted")
     ELSE /\ session' = [Connected(Members(login).db) EXCEPT
                           !.open = in_transaction,
                           !.rows = IF in_transaction THEN Replay(stored)
                                    ELSE Start]
          /\ attempt' = 0 /\ UNCHANGED <<process, asked, reply>>
  /\ UNCHANGED <<transaction, stored, losses, errors>>

DatabaseNext == RawQuery \/ RefusedQuery \/ LoseLink \/ ReconnectFails
                \/ Reconnect

\* The transaction the server has open is the one RawQuery would replay: at
\* any moment with a link, the rows this connection sees are the committed
\* ones with the logged queries done to them.
TransactionMirrored ==
  process = "up" /\ session.up =>
    /\ session.open = in_transaction
    /\ in_transaction => session.rows = Replay(stored)
===========================================================================
