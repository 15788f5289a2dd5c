------------------------------- MODULE Session -------------------------------
(***************************************************************************)
(* A connection from accept to burial: the list of clients of the server,  *)
(* the states a client goes through (Uninitialized, Initialized, LoggedIn, *)
(* Playing), the asynchronous operations that log it in, create an account *)
(* or change a password on the worker threads of the pool, the ways in     *)
(* which the server closes it, and BuryTheDead, which frees it.            *)
(*                                                                         *)
(* Two kinds of threads take steps.  The server loop runs handlers, timer  *)
(* events and BuryTheDead: each is one action, for the loop is a single    *)
(* thread.  A worker runs the body of an AsyncOperation and its callbacks: *)
(* every access of a worker to shared state is an action of its own, so    *)
(* the loop may do anything between two of them.                           *)
(*                                                                         *)
(* Data is reduced to what tells these steps apart: an account is a model  *)
(* value, the outcome of a query or of a hash comparison is a choice, and  *)
(* so is every check of a packet's contents.                               *)
(***************************************************************************)
EXTENDS Naturals, FiniteSets

CONSTANTS Clients,           \* the connections ever made, one EOClient each
          Accounts,          \* the user names clients ask for
          NoAccount,         \* a null player
          MaxLoginAttempts,  \* options of server.ini; attempts 0: no limit
          LoginQueueSize,
          MaxConnections

ASSUME SessionAssumption == /\ NoAccount \notin Accounts
                            /\ MaxLoginAttempts \in Nat
                            /\ LoginQueueSize \in Nat
                            /\ MaxConnections \in Nat \ {0}

VARIABLES
  client,        \* the EOClient objects and their Client part
  ops,           \* the AsyncOperations that may still use their client
  completing,    \* how many logins have only their completion callback left
  pendingLogins, \* World::pending_logins
  processCount,  \* LoginManager::_processCount
  undefined      \* a worker has used a client after it was deleted

vars == <<client, ops, completing, pendingLogins, processCount, undefined>>
opVars == <<ops, completing>>
loginVars == <<pendingLogins, processCount>>

States == {"Uninitialized", "Initialized", "LoggedIn", "Playing"}

Client == [conn : {"none",      \* not constructed
                   "open",      \* Connected()
                   "closed",    \* closed, still in the list of clients
                   "gone"},     \* deleted
           state        : States,
           accepted     : BOOLEAN,
           needpong     : BOOLEAN,
           player       : Accounts \cup {NoAccount},
           character    : BOOLEAN,   \* has the player selected a character?
           attempts     : Nat,       \* login_attempts
           asyncPending : BOOLEAN]   \* async_op_pending

(* A fresh client; a deleted one has no contents, and shows as fresh.      *)
Fresh(conn) == [conn |-> conn, state |-> "Uninitialized", accepted |-> FALSE,
                needpong |-> FALSE, player |-> NoAccount, character |-> FALSE,
                attempts |-> 0, asyncPending |-> FALSE]

(* An operation: what it does, for which account, the next step of the     *)
(* worker that runs it and the login_attempts it has read.                 *)
Op == [kind : {"login", "create", "change"},
       user : Accounts \cup {NoAccount},
       pc   : {"query", "player", "unpend", "greet", "refuse", "count",
               "close", "drop", "clear"},
       read : Nat]

TypeOK == /\ client \in [Clients -> Client]
          /\ ops \in [Clients -> SUBSET Op]
          /\ completing \in Nat
          /\ pendingLogins \in [Accounts -> BOOLEAN]
          /\ processCount \in Nat
          /\ undefined \in BOOLEAN

Init == /\ client = [c \in Clients |-> Fresh("none")]
        /\ ops = [c \in Clients |-> {}]
        /\ completing = 0
        /\ pendingLogins = [a \in Accounts |-> FALSE]
        /\ processCount = 0
        /\ undefined = FALSE

-----------------------------------------------------------------------------
(* The list of clients.                                                    *)

Listed == {c \in Clients : client[c].conn \in {"open", "closed"}}

Connected(c) == client[c].conn = "open"

(* Client::Close, on the record of a client.                               *)
Close(r) == [r EXCEPT !.conn = IF @ = "open" THEN "closed" ELSE @]

(* AsyncOpPending(false) and Close.                                        *)
DropRec(r) == [Close(r) EXCEPT !.asyncPending = FALSE]

(* Only client c changes, to r.                                            *)
SetClient(c, r) == client' = [client EXCEPT ![c] = r]

(* Server::Poll with room in the list.                                     *)
Connect(c) == /\ client[c].conn = "none"
              /\ Cardinality(Listed) < MaxConnections
              /\ SetClient(c, Fresh("open"))
              /\ UNCHANGED <<opVars, loginVars, undefined>>

(* Server::Poll with a full list: a client that has not been accepted is   *)
(* deleted to make room for the new one.                                   *)
Evict(c, victim) == /\ client[c].conn = "none"
                    /\ Cardinality(Listed) >= MaxConnections
                    /\ victim \in Listed
                    /\ ~client[victim].accepted
                    /\ client' = [client EXCEPT ![c] = Fresh("open"),
                                                ![victim] = Fresh("gone")]
                    /\ UNCHANGED <<opVars, loginVars, undefined>>

(* Server::BuryTheDead.  Two seconds after it was closed, at once if the   *)
(* close was forced, a client without an operation under way is deleted.   *)
Bury(c) == /\ client[c].conn = "closed"
           /\ ~client[c].asyncPending
           /\ SetClient(c, Fresh("gone"))
           /\ UNCHANGED <<opVars, loginVars, undefined>>

-----------------------------------------------------------------------------
(* The ways to close a client.                                             *)

(* The peer hangs up, the socket fails, the client was idle, or a handler  *)
(* rejects what it was sent (wrong version, a ban, a wrong id): Close.     *)
Hangup(c) == /\ Connected(c)
             /\ SetClient(c, Close(client[c]))
             /\ UNCHANGED <<opVars, loginVars, undefined>>

(* A wrong sequence number, a reserved packet, a full action queue or a    *)
(* handler that threw: AsyncOpPending(false) before Close.                 *)
Drop(c) == /\ Connected(c)
           /\ SetClient(c, DropRec(client[c]))
           /\ UNCHANGED <<opVars, loginVars, undefined>>

(* server_ping_all: every client in the list, a closed one as well.        *)
PingAll == /\ Listed # {}
           /\ client' = [c \in Clients |->
                IF c \notin Listed THEN client[c]
                ELSE IF client[c].needpong THEN DropRec(client[c])
                ELSE [client[c] EXCEPT !.needpong = TRUE]]
           /\ UNCHANGED <<opVars, loginVars, undefined>>

-----------------------------------------------------------------------------
(* Handlers.  One runs for a connected client in a state it is registered  *)
(* for (StateCheck); server_pump_queue turns an exception into a Drop.     *)

(* Mutant of Menu: the handler is registered for any state.                *)
AnyState(c) == Connected(c)

Menu(c)          == Connected(c) /\ client[c].state = "Initialized"
CharacterMenu(c) == /\ Connected(c)
                    /\ client[c].state = "LoggedIn"
                    /\ ~client[c].character
LoggingIn(c)     == /\ Connected(c)
                    /\ client[c].state = "LoggedIn"
                    /\ client[c].character

InitInit(c) == /\ Connected(c)
               /\ client[c].state = "Uninitialized"
               /\ SetClient(c, [client[c] EXCEPT !.state = "Initialized"])
               /\ UNCHANGED <<opVars, loginVars, undefined>>

ConnectionAccept(c) == /\ Menu(c)
                       /\ SetClient(c, [client[c] EXCEPT !.accepted = TRUE])
                       /\ UNCHANGED <<opVars, loginVars, undefined>>

ConnectionPing(c) == /\ Connected(c)
                     /\ SetClient(c, [client[c] EXCEPT !.needpong = FALSE])
                     /\ UNCHANGED <<opVars, loginVars, undefined>>

WelcomeRequest(c) == /\ CharacterMenu(c)
                     /\ SetClient(c, [client[c] EXCEPT !.character = TRUE])
                     /\ UNCHANGED <<opVars, loginVars, undefined>>

WelcomeMsg(c) == /\ LoggingIn(c)
                 /\ SetClient(c, [client[c] EXCEPT !.state = "Playing"])
                 /\ UNCHANGED <<opVars, loginVars, undefined>>

(* Mutant of Begin: no test for an operation under way.                    *)
BeginAnother(c, kind, u) ==
  /\ SetClient(c, [client[c] EXCEPT !.asyncPending = TRUE])
  /\ ops' = [ops EXCEPT ![c] = @ \cup
               {[kind |-> kind, user |-> u, pc |-> "query", read |-> 0]}]
  /\ UNCHANGED completing

(* AsyncOperation::Execute of an operation of client c: with one under way *)
(* it throws, and the client is dropped.                                   *)
Begin(c, kind, u) ==
  IF client[c].asyncPending
  THEN /\ SetClient(c, DropRec(client[c]))
       /\ UNCHANGED opVars
  ELSE /\ SetClient(c, [client[c] EXCEPT !.asyncPending = TRUE])
       /\ ops' = [ops EXCEPT ![c] = @ \cup
                    {[kind |-> kind, user |-> u, pc |-> "query", read |-> 0]}]
       /\ UNCHANGED completing

AccountCreate(c) == /\ Menu(c)
                    /\ Begin(c, "create", NoAccount)
                    /\ UNCHANGED <<loginVars, undefined>>

AccountAgree(c) == /\ CharacterMenu(c)
                   /\ Begin(c, "change", NoAccount)
                   /\ UNCHANGED <<loginVars, undefined>>

-----------------------------------------------------------------------------
(* Login_Request.                                                          *)

PlayerOnline(u) == pendingLogins[u] \/ \E c \in Listed : client[c].player = u

LoginBusy == processCount >= LoginQueueSize

SetPendingLogin(u, isPending) ==
  pendingLogins' = [pendingLogins EXCEPT ![u] = isPending]

(* The record of a client that has now failed n times to log in.           *)
Failed(r, n) == LET told == [r EXCEPT !.attempts = n]
                IN IF MaxLoginAttempts # 0 /\ n >= MaxLoginAttempts
                   THEN Close(told) ELSE told

(* The failure callback, called by the server loop itself.                 *)
Refuse(c, u) == /\ SetPendingLogin(u, FALSE)
                /\ SetClient(c, Failed(client[c], client[c].attempts + 1))

LoginRefused(c, u) == /\ Menu(c)
                      /\ PlayerOnline(u)
                      /\ Refuse(c, u)
                      /\ UNCHANGED <<opVars, processCount, undefined>>

(* Too many logins under way: Execute runs the failure callback at once,   *)
(* unless it throws, which leaves the account marked.                      *)
LoginTooBusy(c, u) ==
  /\ Menu(c)
  /\ ~PlayerOnline(u)
  /\ LoginBusy
  /\ IF client[c].asyncPending
     THEN SetPendingLogin(u, TRUE) /\ SetClient(c, DropRec(client[c]))
     ELSE Refuse(c, u)
  /\ UNCHANGED <<opVars, processCount, undefined>>

(* Mutant of LoginBegin: the operation is not counted.                     *)
LoginUncounted(c, u) == /\ Menu(c)
                        /\ ~PlayerOnline(u)
                        /\ ~LoginBusy
                        /\ SetPendingLogin(u, TRUE)
                        /\ Begin(c, "login", u)
                        /\ UNCHANGED <<processCount, undefined>>

(* CheckLoginAsync counts the operation when it is created.                *)
LoginBegin(c, u) == /\ Menu(c)
                    /\ ~PlayerOnline(u)
                    /\ ~LoginBusy
                    /\ SetPendingLogin(u, TRUE)
                    /\ processCount' = processCount + 1
                    /\ Begin(c, "login", u)
                    /\ UNCHANGED undefined

-----------------------------------------------------------------------------
(* The worker that runs an operation.  Except for the query itself, which  *)
(* only uses what it was given, every step uses the client.                *)

(* Operation op of client c goes on at pc, having read n.                  *)
Proceed(c, op, pc, n) ==
  /\ op \in ops[c]
  /\ ops' = [ops EXCEPT ![c] =
               (@ \ {op}) \cup {[op EXCEPT !.pc = pc, !.read = n]}]
  /\ UNCHANGED <<completing, processCount, undefined>>

At(c, op, pc) == op.pc = pc /\ client[c].conn # "gone"

(* The operation: the query finds the password right ("player") or not     *)
(* ("refuse"), an account is created ("clear") or not ("drop"), a password *)
(* is changed or not; or the database throws ("clear").                    *)
Outcomes(kind) == CASE kind = "login"  -> {"player", "refuse", "clear"}
                    [] kind = "create" -> {"drop", "clear"}
                    [] kind = "change" -> {"clear"}

Query(c, op) == /\ op.pc = "query"
                /\ \E pc \in Outcomes(op.kind) : Proceed(c, op, pc, 0)
                /\ UNCHANGED <<client, pendingLogins>>

(* PlayerFactory: the account is loaded, or it is gone or the database     *)
(* fails and the constructor of Player throws.                             *)
LoadPlayer(c, op) == /\ At(c, op, "player")
                     /\ Proceed(c, op, "unpend", 0)
                     /\ SetClient(c, [client[c] EXCEPT !.player = op.user])
                     /\ UNCHANGED pendingLogins

(* Mutant of LoadPlayerThrows: the login goes on without a player.         *)
LoadPlayerFails(c, op) == /\ At(c, op, "player")
                          /\ Proceed(c, op, "unpend", 0)
                          /\ UNCHANGED <<client, pendingLogins>>

LoadPlayerThrows(c, op) == /\ At(c, op, "player")
                           /\ Proceed(c, op, "clear", 0)
                           /\ UNCHANGED <<client, pendingLogins>>

Unpend(c, op) == /\ At(c, op, "unpend")
                 /\ Proceed(c, op, "greet", 0)
                 /\ SetPendingLogin(op.user, FALSE)
                 /\ UNCHANGED client

Greet(c, op) == /\ At(c, op, "greet")
                /\ Proceed(c, op, "clear", 0)
                /\ SetClient(c, IF Connected(c)
                                THEN [client[c] EXCEPT !.state = "LoggedIn"]
                                ELSE client[c])
                /\ UNCHANGED pendingLogins

(* The failure callback on a worker: the account is released and the       *)
(* client told; login_attempts is then read and written without a lock.    *)
OpRefuse(c, op) == /\ At(c, op, "refuse")
                   /\ Proceed(c, op, "count", 0)
                   /\ SetPendingLogin(op.user, FALSE)
                   /\ UNCHANGED client

OpCount(c, op) == /\ At(c, op, "count")
                  /\ Proceed(c, op, "close", client[c].attempts)
                  /\ UNCHANGED <<client, pendingLogins>>

OpClose(c, op) == /\ At(c, op, "close")
                  /\ Proceed(c, op, "clear", 0)
                  /\ SetClient(c, Failed(client[c], op.read + 1))
                  /\ UNCHANGED pendingLogins

(* An account could not be created: the failure callback closes.           *)
OpDrop(c, op) == /\ At(c, op, "drop")
                 /\ Proceed(c, op, "clear", 0)
                 /\ SetClient(c, Close(client[c]))
                 /\ UNCHANGED pendingLogins

(* Mutant of OpClear: the flag stays set.                                  *)
OpForgets(c, op) == /\ At(c, op, "clear")
                    /\ op \in ops[c]
                    /\ ops' = [ops EXCEPT ![c] = @ \ {op}]
                    /\ completing' = IF op.kind = "login" THEN completing + 1
                                                          ELSE completing
                    /\ UNCHANGED <<client, loginVars, undefined>>

(* AsyncOpPending(false); only a login has something left to do then.      *)
OpClear(c, op) == /\ At(c, op, "clear")
                  /\ op \in ops[c]
                  /\ SetClient(c, [client[c] EXCEPT !.asyncPending = FALSE])
                  /\ ops' = [ops EXCEPT ![c] = @ \ {op}]
                  /\ completing' = IF op.kind = "login" THEN completing + 1
                                                        ELSE completing
                  /\ UNCHANGED <<loginVars, undefined>>

(* The completion callback of a login.                                     *)
Complete == /\ completing > 0
            /\ completing' = completing - 1
            /\ processCount' = processCount - 1
            /\ UNCHANGED <<client, ops, pendingLogins, undefined>>

(* A step on a client that has been deleted: what follows is undefined,    *)
(* and the model stops here.                                               *)
OpOnDeleted(c, op) == /\ op \in ops[c]
                      /\ op.pc # "query"
                      /\ client[c].conn = "gone"
                      /\ undefined' = TRUE
                      /\ UNCHANGED <<client, opVars, loginVars>>

-----------------------------------------------------------------------------
WorkerStep(c) ==
  /\ ~undefined
  /\ \E op \in ops[c] :
       \/ Query(c, op) \/ LoadPlayer(c, op) \/ LoadPlayerThrows(c, op)
       \/ Unpend(c, op) \/ Greet(c, op) \/ OpRefuse(c, op) \/ OpCount(c, op)
       \/ OpClose(c, op) \/ OpDrop(c, op) \/ OpClear(c, op)
       \/ OpOnDeleted(c, op)

Handle(c) ==
  \/ InitInit(c) \/ ConnectionAccept(c) \/ ConnectionPing(c)
  \/ WelcomeRequest(c) \/ WelcomeMsg(c) \/ AccountCreate(c) \/ AccountAgree(c)
  \/ \E u \in Accounts :
       LoginRefused(c, u) \/ LoginTooBusy(c, u) \/ LoginBegin(c, u)

LoopStep(c) ==
  /\ ~undefined
  /\ \/ Connect(c) \/ Hangup(c) \/ Drop(c) \/ Handle(c)
     \/ \E victim \in Clients : Evict(c, victim)

Burial(c) == ~undefined /\ Bury(c)

Next == \/ ~undefined /\ (PingAll \/ Complete)
        \/ \E c \in Clients : LoopStep(c) \/ Burial(c) \/ WorkerStep(c)

Spec == Init /\ [][Next]_vars

(* Every queued operation is run (ServerThreads shows that the pool does   *)
(* so), and the server loop calls BuryTheDead on every turn.               *)
FairSpec == /\ Spec
            /\ \A c \in Clients : WF_vars(WorkerStep(c)) /\ WF_vars(Burial(c))

-----------------------------------------------------------------------------
LoginOps(c) == {op \in ops[c] : op.kind = "login"}
LoginCount == completing +
  Cardinality(UNION {{<<c, op>> : op \in LoginOps(c)} : c \in Clients})

(* The limit on concurrent logins is never passed: the requests under way  *)
(* are all counted, and the count does not exceed LoginQueueSize, although *)
(* it is raised by the loop and lowered by workers (loginmanager.cpp       *)
(* 173-176).                                                               *)
LoginsLimited == LoginCount <= processCount /\ processCount <= LoginQueueSize

(* One operation per client: a flag cleared by a drop or a missed ping     *)
(* never lets a second operation of the same client begin (async.hpp 69).  *)
OneOperation == \A c \in Clients : Cardinality(ops[c]) <= 1

(* A client marked as having an operation under way has one, so that       *)
(* BuryTheDead never waits for nothing (socket.cpp 954).                   *)
PendingHasOperation ==
  \A c \in Clients : client[c].asyncPending => ops[c] # {}

(* What is under way is known: to its client, which begins nothing else    *)
(* and waits for nothing else, and to the login manager, which counts it.  *)
OperationsCounted == LoginsLimited /\ OneOperation /\ PendingHasOperation

(* StateCheck follows client->player without a test when the state is      *)
(* LoggedIn (handlers.cpp 36): the player is there, although a worker sets *)
(* the two in several steps; and a player in the world has a character.    *)
StateHasPlayer ==
  \A c \in Clients :
    /\ client[c].state \in {"LoggedIn", "Playing"}
         => client[c].player # NoAccount
    /\ client[c].state = "Playing" => client[c].character

(* A client's player, once loaded, is never replaced by another: the       *)
(* pointer is owned by the client and freed once, with it (eoclient.cpp    *)
(* 450).                                                                   *)
PlayerKept ==
  [][\A c \in Clients :
       client[c].player # NoAccount /\ client'[c].conn # "gone"
         => client'[c].player = client[c].player]_vars

(* A closed client is buried in the end: whatever it was waiting for, its  *)
(* operation ends and clears the flag (socket.cpp 948-967).                *)
ClosedIsBuried == \A c \in Clients :
  client[c].conn = "closed" ~> client[c].conn = "gone" \/ undefined

(* An operation that was begun ends, and with it the wait of the client.   *)
OperationEnds == \A c \in Clients :
  client[c].asyncPending ~> ~client[c].asyncPending \/ undefined

(* Nothing lingers: neither a closed client nor the wait for an operation, *)
(* although each waits for the other (socket.cpp 948-967).                    *)
NothingLingers == ClosedIsBuried /\ OperationEnds

-----------------------------------------------------------------------------
(* What a comment of the code says, and the code does not do.              *)

(* Login.cpp 157: "PlayerOnline will also check for a pending login of     *)
(* 'username', preventing concurrent logins for the same account".         *)
OneSessionPerAccount ==
  \A c, d \in Listed : c # d /\ client[c].player # NoAccount
                         => client[c].player # client[d].player

=============================================================================
