---------------------------- MODULE SessionProofs ----------------------------
(***************************************************************************)
(* Connections and their asynchronous operations, for any number of        *)
(* clients and accounts and any limits.                                    *)
(*                                                                         *)
(* Almost every action changes one client and its operations, so that the  *)
(* invariant is a predicate of the two, Sound, said of every client.  The  *)
(* count of logins is the other part: it relates all clients.              *)
(***************************************************************************)
EXTENDS Session, FiniteSetTheorems, TLAPS

(* A login that has not loaded its player yet.                             *)
BeforePlayer(op) == op.pc = "player" \/ (op.kind = "login" /\ op.pc = "query")

(* What holds of the record r of a client with the operations o.           *)
Sound(r, o) ==
  /\ r.conn = "none" => o = {} /\ r.player = NoAccount
  /\ r.conn = "open" /\ o # {} => r.asyncPending
  /\ r.asyncPending => o # {}
  /\ \A a, b \in o : a = b
  /\ r.state \in {"LoggedIn", "Playing"} => r.player # NoAccount
  /\ r.state = "Playing" => r.character
  /\ \A op \in o : BeforePlayer(op) => op.user \in Accounts
  /\ r.conn # "gone" => \A op \in o :
       /\ BeforePlayer(op) => r.player = NoAccount
       /\ op.pc \in {"unpend", "greet"} => r.player # NoAccount
  /\ r.conn = "open" /\ r.state \notin {"LoggedIn", "Playing"}
     /\ r.player # NoAccount
       => \E op \in o : op.pc \in {"unpend", "greet"}

(* The logins under way, each with its client.                             *)
Logins == UNION {{<<c, op>> : op \in LoginOps(c)} : c \in Clients}

ClientTypes == client \in [Clients -> Client] /\ ops \in [Clients -> SUBSET Op]
OtherTypes  == /\ pendingLogins \in [Accounts -> BOOLEAN]
               /\ undefined \in BOOLEAN
AllSound    == \A c \in Clients : Sound(client[c], ops[c])
Counted     == /\ completing \in Nat /\ processCount \in Nat
               /\ IsFiniteSet(Logins)
               /\ completing + Cardinality(Logins) <= processCount
               /\ processCount <= LoginQueueSize

SessionInv == ClientTypes /\ OtherTypes /\ AllSound /\ Counted

USE SessionAssumption

-----------------------------------------------------------------------------
\* One client at a time

(* A step that changes one client keeps the rest of them sound.            *)
LEMMA OneClient ==
  ASSUME ClientTypes, AllSound, NEW c \in Clients, NEW r \in Client,
         NEW o \in SUBSET Op,
         client' = [client EXCEPT ![c] = r], ops' = [ops EXCEPT ![c] = o],
         Sound(r, o)
  PROVE  ClientTypes' /\ AllSound'
<1>1. ClientTypes'
  BY DEF ClientTypes
<1>2. ASSUME NEW d \in Clients PROVE Sound(client[d], ops[d])'
  <2>1. CASE d = c
    <3>1. client'[d] = r /\ ops'[d] = o
      BY <2>1 DEF ClientTypes
    <3> QED  BY <3>1 DEF Sound
  <2>2. CASE d # c
    <3>1. client'[d] = client[d] /\ ops'[d] = ops[d]
      BY <2>2 DEF ClientTypes
    <3>2. Sound(client[d], ops[d])
      BY DEF AllSound
    <3> QED  BY <3>1, <3>2 DEF Sound
  <2> QED  BY <2>1, <2>2
<1> QED  BY <1>1, <1>2 DEF AllSound

(* The same where the operations stay.                                     *)
LEMMA SameOps ==
  ASSUME ClientTypes, AllSound, NEW c \in Clients, NEW r \in Client,
         SetClient(c, r), UNCHANGED ops, Sound(r, ops[c])
  PROVE  ClientTypes' /\ AllSound'
<1>1. /\ client' = [client EXCEPT ![c] = r]
      /\ ops' = [ops EXCEPT ![c] = ops[c]] /\ ops[c] \in SUBSET Op
  BY DEF SetClient, ClientTypes
<1> QED  BY <1>1, OneClient

(* A new client, a deleted one.                                            *)
LEMMA FreshIsClient ==
  ASSUME NEW conn \in {"none", "open", "closed", "gone"}
  PROVE  /\ Fresh(conn) \in Client
         /\ Fresh(conn).conn = conn /\ Fresh(conn).state = "Uninitialized"
         /\ Fresh(conn).player = NoAccount /\ ~Fresh(conn).asyncPending
BY DEF Fresh, Client, States

LEMMA FreshIsSound ==
  ASSUME NEW o \in SUBSET Op, \A a, b \in o : a = b,
         \A op \in o : BeforePlayer(op) => op.user \in Accounts
  PROVE  Sound(Fresh("gone"), o) /\ (o = {} => Sound(Fresh("open"), o))
BY FreshIsClient DEF Sound

(* Closing a client, with and without clearing the flag, changes nothing   *)
(* its operations rely on.                                                 *)
LEMMA Closes ==
  ASSUME NEW r \in Client
  PROVE  /\ Close(r) \in Client /\ Close(r).conn # "open"
         /\ Close(r).conn \in {r.conn, "closed"}
         /\ r.conn # "open" => Close(r).conn = r.conn
         /\ Close(r).state = r.state /\ Close(r).player = r.player
         /\ Close(r).character = r.character
         /\ Close(r).asyncPending = r.asyncPending
         /\ Close(r).attempts = r.attempts
BY DEF Client, Close

LEMMA CloseIsSound ==
  ASSUME NEW r \in Client, NEW o \in SUBSET Op, Sound(r, o)
  PROVE  Sound(Close(r), o)
BY Closes DEF Sound

LEMMA Drops ==
  ASSUME NEW r \in Client
  PROVE  /\ DropRec(r) \in Client /\ DropRec(r).conn = Close(r).conn
         /\ DropRec(r).state = r.state /\ DropRec(r).player = r.player
         /\ DropRec(r).character = r.character
         /\ ~DropRec(r).asyncPending
<1>1. Close(r) \in Client
  BY Closes
<1>2. /\ DropRec(r) \in Client /\ DropRec(r).conn = Close(r).conn
      /\ DropRec(r).state = Close(r).state
      /\ DropRec(r).player = Close(r).player
      /\ DropRec(r).character = Close(r).character
      /\ DropRec(r).asyncPending = FALSE
  BY <1>1 DEF DropRec, Client
<1> QED  BY <1>2, Closes

LEMMA DropIsSound ==
  ASSUME NEW r \in Client, NEW o \in SUBSET Op, Sound(r, o)
  PROVE  Sound(DropRec(r), o)
BY Closes, Drops DEF Sound

(* A failed login counts, and may close.                                   *)
LEMMA FailedKeeps ==
  ASSUME NEW r \in Client, NEW n \in Nat
  PROVE  /\ Failed(r, n) \in Client
         /\ Failed(r, n).conn \in {r.conn, Close(r).conn}
         /\ Failed(r, n).conn \in {r.conn, "closed"}
         /\ Failed(r, n).state = r.state
         /\ Failed(r, n).player = r.player
         /\ Failed(r, n).character = r.character
         /\ Failed(r, n).asyncPending = r.asyncPending
<1> DEFINE told == [r EXCEPT !.attempts = n]
<1>1. /\ told \in Client /\ told.conn = r.conn /\ told.state = r.state
      /\ told.player = r.player /\ told.character = r.character
      /\ told.asyncPending = r.asyncPending
  BY DEF Client
<1>2. Failed(r, n) \in {told, Close(told)} /\ Close(told).conn = Close(r).conn
  BY <1>1 DEF Failed, Close, Client
<1> HIDE DEF told
<1> QED  BY <1>1, <1>2, Closes

LEMMA FailedIsSound ==
  ASSUME NEW r \in Client, NEW o \in SUBSET Op, NEW n \in Nat, Sound(r, o)
  PROVE  Failed(r, n) \in Client /\ Sound(Failed(r, n), o)
BY FailedKeeps, Closes DEF Sound

-----------------------------------------------------------------------------
\* The count of logins

LEMMA LoginsKept ==
  ASSUME UNCHANGED ops
  PROVE  Logins' = Logins
BY DEF Logins, LoginOps

(* An operation begins at a client that has none.                          *)
LEMMA LoginsBegin ==
  ASSUME ClientTypes, NEW c \in Clients, NEW op \in Op, ops[c] = {},
         ops' = [ops EXCEPT ![c] = {op}], IsFiniteSet(Logins)
  PROVE  /\ IsFiniteSet(Logins')
         /\ Cardinality(Logins') = Cardinality(Logins)
                                   + (IF op.kind = "login" THEN 1 ELSE 0)
<1>1. \A d \in Clients : ops'[d] = IF d = c THEN {op} ELSE ops[d]
  BY DEF ClientTypes
<1>2. CASE op.kind = "login"
  <2>1. Logins' = Logins \cup {<<c, op>>} /\ <<c, op>> \notin Logins
    BY <1>1, <1>2 DEF Logins, LoginOps
  <2> QED  BY <1>2, <2>1, FS_AddElement
<1>3. CASE op.kind # "login"
  <2>1. Logins' = Logins
    BY <1>1, <1>3 DEF Logins, LoginOps
  <2> QED  BY <1>3, <2>1, FS_CardinalityType
<1> QED  BY <1>2, <1>3

(* It ends.                                                                *)
LEMMA LoginsEnd ==
  ASSUME ClientTypes, NEW c \in Clients, NEW op, ops[c] = {op},
         ops' = [ops EXCEPT ![c] = {}], IsFiniteSet(Logins)
  PROVE  /\ IsFiniteSet(Logins')
         /\ Cardinality(Logins') = Cardinality(Logins)
                                   - (IF op.kind = "login" THEN 1 ELSE 0)
<1>1. \A d \in Clients : ops'[d] = IF d = c THEN {} ELSE ops[d]
  BY DEF ClientTypes
<1>2. CASE op.kind = "login"
  <2>1. Logins' = Logins \ {<<c, op>>} /\ <<c, op>> \in Logins
    BY <1>1, <1>2 DEF Logins, LoginOps
  <2> QED  BY <1>2, <2>1, FS_RemoveElement
<1>3. CASE op.kind # "login"
  <2>1. Logins' = Logins
    BY <1>1, <1>3 DEF Logins, LoginOps
  <2> QED  BY <1>3, <2>1, FS_CardinalityType
<1> QED  BY <1>2, <1>3

(* It goes on to its next step.                                            *)
LEMMA LoginsProceed ==
  ASSUME ClientTypes, NEW c \in Clients, NEW op, NEW op2,
         ops[c] = {op}, op2.kind = op.kind,
         ops' = [ops EXCEPT ![c] = {op2}], IsFiniteSet(Logins)
  PROVE  /\ IsFiniteSet(Logins')
         /\ Cardinality(Logins') = Cardinality(Logins)
<1>1. \A d \in Clients : ops'[d] = IF d = c THEN {op2} ELSE ops[d]
  BY DEF ClientTypes
<1>2. CASE op.kind = "login"
  <2> DEFINE Rest == Logins \ {<<c, op>>}
  <2>1. <<c, op>> \in Logins
    BY <1>2 DEF Logins, LoginOps
  <2>2. IsFiniteSet(Rest) /\ Cardinality(Rest) = Cardinality(Logins) - 1
    BY <2>1, FS_RemoveElement
  <2>3. Logins' = Rest \cup {<<c, op2>>} /\ <<c, op2>> \notin Rest
    BY <1>1, <1>2 DEF Logins, LoginOps
  <2>4. IsFiniteSet(Logins') /\ Cardinality(Logins') = Cardinality(Rest) + 1
    BY <2>2, <2>3, FS_AddElement
  <2>5. Cardinality(Logins) \in Nat
    BY FS_CardinalityType
  <2> QED  BY <2>2, <2>4, <2>5
<1>3. CASE op.kind # "login"
  <2>1. Logins' = Logins
    BY <1>1, <1>3 DEF Logins, LoginOps
  <2> QED  BY <2>1
<1> QED  BY <1>2, <1>3

(* What the module calls the number of logins is this number.              *)
LEMMA LoginCountIs == LoginCount = completing + Cardinality(Logins)
BY DEF LoginCount, Logins

(* Nothing about logins changes.                                           *)
LEMMA CountKept ==
  ASSUME Counted, UNCHANGED opVars, UNCHANGED processCount
  PROVE  Counted'
<1>1. Logins' = Logins
  BY LoginsKept DEF opVars
<1> QED  BY <1>1 DEF Counted, opVars

-----------------------------------------------------------------------------
\* The loop

LEMMA QuietLoopSteps ==
  ASSUME SessionInv, NEW c \in Clients,
         \/ Connect(c) \/ Bury(c) \/ Hangup(c) \/ Drop(c) \/ InitInit(c)
         \/ ConnectionAccept(c) \/ ConnectionPing(c)
         \/ WelcomeRequest(c) \/ WelcomeMsg(c)
  PROVE  SessionInv'
<1>1. Sound(client[c], ops[c]) /\ client[c] \in Client /\ ops[c] \in SUBSET Op
  BY DEF SessionInv, ClientTypes, AllSound
<1>2. UNCHANGED <<opVars, loginVars, undefined>>
  BY DEF Connect, Bury, Hangup, Drop, InitInit, ConnectionAccept,
         ConnectionPing, WelcomeRequest, WelcomeMsg
<1>3. OtherTypes' /\ Counted'
  BY <1>2, CountKept DEF SessionInv, OtherTypes, loginVars
<1>4. \E r \in Client : SetClient(c, r) /\ Sound(r, ops[c])
  <2>1. CASE Connect(c)
    BY <1>1, <2>1, FreshIsClient, FreshIsSound DEF Connect, Sound
  <2>2. CASE Bury(c)
    BY <1>1, <2>2, FreshIsClient, FreshIsSound DEF Bury, Sound
  <2>3. CASE Hangup(c)
    BY <1>1, <2>3, Closes, CloseIsSound DEF Hangup
  <2>4. CASE Drop(c)
    BY <1>1, <2>4, Drops, DropIsSound DEF Drop
  <2>5. CASE InitInit(c)
    <3> DEFINE r == [client[c] EXCEPT !.state = "Initialized"]
    <3>1. r \in Client /\ Sound(r, ops[c])
      BY <1>1, <2>5 DEF InitInit, Client, States, Sound
    <3> QED  BY <3>1, <2>5 DEF InitInit
  <2>6. CASE ConnectionAccept(c)
    <3> DEFINE r == [client[c] EXCEPT !.accepted = TRUE]
    <3>1. r \in Client /\ Sound(r, ops[c])
      BY <1>1 DEF Client, Sound
    <3> QED  BY <3>1, <2>6 DEF ConnectionAccept
  <2>7. CASE ConnectionPing(c)
    <3> DEFINE r == [client[c] EXCEPT !.needpong = FALSE]
    <3>1. r \in Client /\ Sound(r, ops[c])
      BY <1>1 DEF Client, Sound
    <3> QED  BY <3>1, <2>7 DEF ConnectionPing
  <2>8. CASE WelcomeRequest(c)
    <3> DEFINE r == [client[c] EXCEPT !.character = TRUE]
    <3>1. r \in Client /\ Sound(r, ops[c])
      BY <1>1 DEF Client, Sound
    <3> QED  BY <3>1, <2>8 DEF WelcomeRequest
  <2>9. CASE WelcomeMsg(c)
    <3> DEFINE r == [client[c] EXCEPT !.state = "Playing"]
    <3>1. r \in Client /\ Sound(r, ops[c])
      BY <1>1, <2>9 DEF WelcomeMsg, LoggingIn, Client, States, Sound
    <3> QED  BY <3>1, <2>9 DEF WelcomeMsg
  <2> QED  BY <2>1, <2>2, <2>3, <2>4, <2>5, <2>6, <2>7, <2>8, <2>9
<1>5. ClientTypes' /\ AllSound'
  BY <1>2, <1>4, SameOps DEF SessionInv, opVars
<1> QED  BY <1>3, <1>5 DEF SessionInv

(* A full list: one client makes room for another.                         *)
LEMMA EvictStep ==
  ASSUME SessionInv, NEW c \in Clients, NEW victim \in Clients,
         Evict(c, victim)
  PROVE  SessionInv'
<1>1. OtherTypes' /\ Counted'
  BY CountKept DEF SessionInv, OtherTypes, loginVars, Evict
<1>2. UNCHANGED ops
  BY DEF Evict, opVars
<1>3. client' = [client EXCEPT ![c] = Fresh("open"), ![victim] = Fresh("gone")]
  BY DEF Evict
<1>4. Fresh("open") \in Client /\ Fresh("gone") \in Client
  BY FreshIsClient
<1>5. ClientTypes'
  BY <1>2, <1>3, <1>4 DEF SessionInv, ClientTypes
<1>6. ASSUME NEW d \in Clients PROVE Sound(client'[d], ops'[d])
  <2>1. client'[d] = IF d = victim THEN Fresh("gone")
                     ELSE IF d = c THEN Fresh("open") ELSE client[d]
    BY <1>3 DEF SessionInv, ClientTypes
  <2>2. Sound(client[d], ops[d]) /\ ops[d] \in SUBSET Op
    BY DEF SessionInv, AllSound, ClientTypes
  <2>3. /\ \A a, b \in ops[d] : a = b
        /\ \A op \in ops[d] : BeforePlayer(op) => op.user \in Accounts
    BY <2>2 DEF Sound
  <2>4. Sound(Fresh("gone"), ops[d])
    BY <2>2, <2>3, FreshIsSound
  <2>5. CASE d = c
    <3>1. ops[d] = {}
      BY <2>2, <2>5 DEF Sound, Evict
    <3> QED  BY <1>2, <2>1, <2>2, <2>3, <2>4, <3>1, FreshIsSound
  <2>6. CASE d # c
    BY <1>2, <2>1, <2>2, <2>4, <2>6
  <2> QED  BY <2>5, <2>6
<1> QED  BY <1>1, <1>5, <1>6 DEF SessionInv, AllSound
(* A missed ping drops a client, whatever it is doing.                     *)
LEMMA PingStep ==
  ASSUME SessionInv, PingAll
  PROVE  SessionInv'
<1>1. OtherTypes' /\ Counted'
  BY CountKept DEF SessionInv, OtherTypes, loginVars, PingAll
<1>2. UNCHANGED ops
  BY DEF PingAll, opVars
<1>3. ASSUME NEW d \in Clients
      PROVE  client'[d] \in Client /\ Sound(client'[d], ops[d])
  <2>1. /\ client[d] \in Client /\ ops[d] \in SUBSET Op
        /\ Sound(client[d], ops[d])
    BY DEF SessionInv, ClientTypes, AllSound
  <2> DEFINE r == [client[d] EXCEPT !.needpong = TRUE]
  <2>2. r \in Client /\ Sound(r, ops[d])
    BY <2>1 DEF Client, Sound
  <2>3. client'[d] \in {client[d], DropRec(client[d]), r}
    BY DEF PingAll
  <2> HIDE DEF r
  <2> QED  BY <2>1, <2>2, <2>3, Drops, DropIsSound
<1>4. DOMAIN client' = Clients /\ client' = [c \in Clients |-> client'[c]]
  BY DEF PingAll
<1>5. ClientTypes'
  BY <1>2, <1>3, <1>4 DEF SessionInv, ClientTypes
<1> QED  BY <1>1, <1>2, <1>3, <1>5 DEF SessionInv, AllSound

(* A login that is refused at once.                                        *)
LEMMA RefusedStep ==
  ASSUME SessionInv, NEW c \in Clients, NEW u \in Accounts,
         LoginRefused(c, u) \/ LoginTooBusy(c, u)
  PROVE  SessionInv'
<1>1. /\ client[c] \in Client /\ ops[c] \in SUBSET Op
      /\ Sound(client[c], ops[c]) /\ client[c].attempts \in Nat
  BY DEF SessionInv, ClientTypes, AllSound, Client
<1>2. UNCHANGED <<opVars, processCount, undefined>>
  BY DEF LoginRefused, LoginTooBusy
<1>3. Counted'
  BY <1>2, CountKept DEF SessionInv
<1>4. OtherTypes'
  BY <1>2 DEF SessionInv, OtherTypes, LoginRefused, LoginTooBusy, Refuse,
              SetPendingLogin
<1>5. \E r \in {DropRec(client[c]),
               Failed(client[c], client[c].attempts + 1)} : SetClient(c, r)
  BY DEF LoginRefused, LoginTooBusy, Refuse
<1>6. client[c].attempts + 1 \in Nat
  BY <1>1
<1>7. \E r \in Client : SetClient(c, r) /\ Sound(r, ops[c])
  BY <1>1, <1>5, <1>6, Drops, DropIsSound, FailedIsSound
<1>8. ClientTypes' /\ AllSound'
  BY <1>2, <1>7, SameOps DEF SessionInv, opVars
<1> QED  BY <1>3, <1>4, <1>8 DEF SessionInv

(* Execute: an operation begins at a client without one, or throws.        *)
LEMMA BeginStep ==
  ASSUME SessionInv, NEW c \in Clients, client[c].conn = "open",
         NEW kind \in {"login", "create", "change"},
         NEW u \in Accounts \cup {NoAccount},
         kind = "login" => /\ u \in Accounts
                           /\ client[c].state \notin {"LoggedIn", "Playing"},
         Begin(c, kind, u)
  PROVE  /\ ClientTypes' /\ AllSound' /\ UNCHANGED completing
         /\ IsFiniteSet(Logins')
         /\ Cardinality(Logins') \in
              {Cardinality(Logins),
               Cardinality(Logins) + (IF kind = "login" THEN 1 ELSE 0)}
<1>1. /\ client[c] \in Client /\ ops[c] \in SUBSET Op
      /\ Sound(client[c], ops[c])
  BY DEF SessionInv, ClientTypes, AllSound
<1>2. CASE client[c].asyncPending
  <2>1. SetClient(c, DropRec(client[c])) /\ UNCHANGED <<ops, completing>>
    BY <1>2 DEF Begin, opVars
  <2>2. ClientTypes' /\ AllSound'
    BY <1>1, <2>1, SameOps, Drops, DropIsSound DEF SessionInv
  <2> QED  BY <2>1, <2>2, LoginsKept DEF SessionInv, Counted
<1>3. CASE ~client[c].asyncPending
  <2> DEFINE r  == [client[c] EXCEPT !.asyncPending = TRUE]
             op == [kind |-> kind, user |-> u, pc |-> "query", read |-> 0]
  <2>1. ops[c] = {}
    BY <1>1, <1>3 DEF Sound
  <2>2. /\ client' = [client EXCEPT ![c] = r]
        /\ ops' = [ops EXCEPT ![c] = {op}] /\ UNCHANGED completing
    <3>1. /\ SetClient(c, r) /\ UNCHANGED completing
          /\ ops' = [ops EXCEPT ![c] = ops[c] \cup {op}]
      BY <1>3 DEF Begin
    <3> HIDE DEF r, op
    <3>2. ops[c] \cup {op} = {op}
      BY <2>1
    <3> QED  BY <3>1, <3>2 DEF SetClient
  <2>3. op \in Op /\ op.kind = kind /\ op.pc = "query" /\ op.user = u
    BY DEF Op
  <2>4. r \in Client /\ Sound(r, {op})
    <3>1. /\ r \in Client /\ r.asyncPending /\ r.conn = "open"
          /\ r.state = client[c].state /\ r.player = client[c].player
          /\ r.character = client[c].character
      BY <1>1 DEF Client
    <3>2. \A o \in {op} : o.kind = kind /\ o.pc = "query" /\ o.user = u
      BY <2>3
    <3> HIDE DEF r, op
    <3> QED  BY <1>1, <2>1, <3>1, <3>2 DEF Sound, BeforePlayer
  <2> HIDE DEF r, op
  <2>5. {op} \in SUBSET Op
    BY <2>3
  <2>6. ClientTypes' /\ AllSound'
    BY <2>2, <2>4, <2>5, OneClient DEF SessionInv
  <2> QED  BY <2>1, <2>2, <2>3, <2>6, LoginsBegin DEF SessionInv, Counted
<1> QED  BY <1>2, <1>3

LEMMA AsyncHandlers ==
  ASSUME SessionInv, NEW c \in Clients,
         \/ AccountCreate(c) \/ AccountAgree(c)
         \/ \E u \in Accounts : LoginBegin(c, u)
  PROVE  SessionInv'
<1>1. CASE AccountCreate(c) \/ AccountAgree(c)
  <2>1. PICK kind \in {"create", "change"} : Begin(c, kind, NoAccount)
    BY <1>1 DEF AccountCreate, AccountAgree
  <2>2. /\ client[c].conn = "open" /\ UNCHANGED <<loginVars, undefined>>
    BY <1>1 DEF AccountCreate, AccountAgree, Menu, CharacterMenu, Connected
  <2>3. OtherTypes'
    BY <2>2 DEF SessionInv, OtherTypes, loginVars
  <2>4. /\ ClientTypes' /\ AllSound' /\ UNCHANGED completing
        /\ IsFiniteSet(Logins')
        /\ Cardinality(Logins') \in {Cardinality(Logins),
                                     Cardinality(Logins) + 0}
    BY <2>1, <2>2, BeginStep
  <2>5. Cardinality(Logins) \in Nat
    BY FS_CardinalityType DEF SessionInv, Counted
  <2> QED  BY <2>2, <2>3, <2>4, <2>5 DEF SessionInv, Counted, loginVars
<1>2. ASSUME NEW u \in Accounts, LoginBegin(c, u) PROVE SessionInv'
  <2>1. /\ Begin(c, "login", u) /\ client[c].conn = "open"
        /\ client[c].state = "Initialized"
        /\ processCount' = processCount + 1 /\ processCount < LoginQueueSize
    BY <1>2 DEF LoginBegin, Menu, Connected, LoginBusy, SessionInv, Counted
  <2>2. OtherTypes'
    BY <1>2 DEF LoginBegin, SetPendingLogin, SessionInv, OtherTypes
  <2>3. /\ ClientTypes' /\ AllSound' /\ UNCHANGED completing
        /\ IsFiniteSet(Logins')
        /\ Cardinality(Logins') \in {Cardinality(Logins),
                                     Cardinality(Logins) + 1}
    BY <2>1, BeginStep
  <2>4. Cardinality(Logins) \in Nat
    BY FS_CardinalityType DEF SessionInv, Counted
  <2> QED  BY <2>1, <2>2, <2>3, <2>4 DEF SessionInv, Counted
<1> QED  BY <1>1, <1>2
-----------------------------------------------------------------------------
\* The workers

(* A worker goes on: its client becomes r, its operation keeps what it was *)
(* begun for.                                                              *)
LEMMA ProceedStep ==
  ASSUME SessionInv, NEW c \in Clients, NEW op \in ops[c],
         NEW pc \in {"player", "unpend", "greet", "refuse", "count", "close",
                     "drop", "clear"},
         NEW n \in Nat, NEW r \in Client,
         Proceed(c, op, pc, n), SetClient(c, r),
         pc = "player" => op.pc = "query" /\ op.kind = "login"
                          /\ r = client[c],
         pc \in {"unpend", "greet"} => r.player # NoAccount,
         r.conn \in {client[c].conn, "closed"},
         r.conn # "none", r.asyncPending = client[c].asyncPending,
         r.state \in {"LoggedIn", "Playing"} => r.player # NoAccount,
         r.state = "Playing" => r.character,
         r.conn = "open" /\ r.state \notin {"LoggedIn", "Playing"}
         /\ r.player # NoAccount => pc \in {"unpend", "greet"},
         pendingLogins' \in [Accounts -> BOOLEAN]
  PROVE  SessionInv'
<1> DEFINE op2 == [op EXCEPT !.pc = pc, !.read = n]
<1>1. /\ client[c] \in Client /\ ops[c] \in SUBSET Op /\ op \in Op
      /\ Sound(client[c], ops[c])
  BY DEF SessionInv, ClientTypes, AllSound
<1>2. /\ ops' = [ops EXCEPT ![c] = (ops[c] \ {op}) \cup {op2}]
      /\ UNCHANGED <<completing, processCount, undefined>>
  BY DEF Proceed
<1>3. /\ op2 \in Op /\ op2.pc = pc /\ op2.kind = op.kind
      /\ op2.user = op.user
  BY <1>1 DEF Op
<1> HIDE DEF op2
<1>4. ops[c] = {op}
  BY <1>1 DEF Sound
<1>5. ops' = [ops EXCEPT ![c] = {op2}]
  <2>1. (ops[c] \ {op}) \cup {op2} = {op2}
    BY <1>4
  <2> QED  BY <1>2, <2>1
<1>6. Sound(r, {op2})
  <2>1. r.conn = "open" => r.asyncPending
    BY <1>1, <1>4 DEF Sound
  <2>2. BeforePlayer(op2) => BeforePlayer(op) /\ r = client[c]
    BY <1>3 DEF BeforePlayer
  <2>3. BeforePlayer(op2) =>
          /\ op2.user \in Accounts
          /\ r.conn # "gone" => r.player = NoAccount
    BY <1>1, <1>3, <2>2 DEF Sound
  <2> QED  BY <1>3, <2>1, <2>3 DEF Sound
<1>7. ClientTypes' /\ AllSound'
  BY <1>3, <1>5, <1>6, OneClient DEF SessionInv, SetClient
<1>8. Counted'
  BY <1>2, <1>3, <1>4, <1>5, LoginsProceed DEF SessionInv, Counted
<1> QED  BY <1>2, <1>7, <1>8 DEF SessionInv, OtherTypes

LEMMA WorkerSteps ==
  ASSUME SessionInv, NEW c \in Clients, NEW op \in ops[c],
         \/ Query(c, op) \/ LoadPlayer(c, op) \/ LoadPlayerThrows(c, op)
         \/ Unpend(c, op) \/ Greet(c, op) \/ OpRefuse(c, op)
         \/ OpCount(c, op) \/ OpClose(c, op) \/ OpDrop(c, op)
  PROVE  SessionInv'
<1>1. /\ client[c] \in Client /\ ops[c] \in SUBSET Op /\ op \in Op
      /\ Sound(client[c], ops[c]) /\ client[c].attempts \in Nat
      /\ op.read \in Nat /\ op.user \in Accounts \cup {NoAccount}
  BY DEF SessionInv, ClientTypes, AllSound, Client, Op
<1>2. /\ client[c].conn # "none"
      /\ client[c].state \in {"LoggedIn", "Playing"}
           => client[c].player # NoAccount
      /\ client[c].state = "Playing" => client[c].character
      /\ ops[c] = {op}
      /\ BeforePlayer(op) => op.user \in Accounts
      /\ client[c].conn # "gone" /\ BeforePlayer(op)
           => client[c].player = NoAccount
      /\ client[c].conn # "gone" /\ op.pc \in {"unpend", "greet"}
           => client[c].player # NoAccount
      /\ client[c].conn = "open" /\ client[c].player # NoAccount
         /\ client[c].state \notin {"LoggedIn", "Playing"}
           => op.pc \in {"unpend", "greet"}
  BY <1>1 DEF Sound
<1>3. pendingLogins' \in [Accounts -> BOOLEAN]
  BY DEF SessionInv, OtherTypes, Query, LoadPlayer, LoadPlayerThrows, Unpend,
         Greet, OpRefuse, OpCount, OpClose, OpDrop, SetPendingLogin
<1>4. UNCHANGED client => SetClient(c, client[c])
  BY DEF SetClient, SessionInv, ClientTypes
<1>5. 0 \in Nat
  OBVIOUS
<1>6. CASE Query(c, op)
  <2>1. PICK pc \in Outcomes(op.kind) : Proceed(c, op, pc, 0)
    BY <1>6 DEF Query
  <2>2. /\ pc \in {"player", "refuse", "drop", "clear"}
        /\ pc = "player" => op.kind = "login"
    BY <1>1, <2>1 DEF Outcomes, Op
  <2> QED  BY <1>1, <1>2, <1>3, <1>4, <1>5, <1>6, <2>1, <2>2, ProceedStep
           DEF Query
<1>7. CASE LoadPlayer(c, op)
  <2> DEFINE r == [client[c] EXCEPT !.player = op.user]
  <2>1. /\ r \in Client /\ r.player = op.user
        /\ r.conn = client[c].conn /\ r.state = client[c].state
        /\ r.character = client[c].character
        /\ r.asyncPending = client[c].asyncPending
    BY <1>1 DEF Client
  <2>2. /\ Proceed(c, op, "unpend", 0) /\ SetClient(c, r)
        /\ BeforePlayer(op)
    BY <1>7 DEF LoadPlayer, At, BeforePlayer
  <2> HIDE DEF r
  <2> QED  BY <1>1, <1>2, <1>3, <1>5, <2>1, <2>2, ProceedStep
<1>8. CASE LoadPlayerThrows(c, op)
  BY <1>1, <1>2, <1>3, <1>4, <1>5, <1>8, ProceedStep
     DEF LoadPlayerThrows, At, BeforePlayer
<1>9. CASE Unpend(c, op)
  BY <1>1, <1>2, <1>3, <1>4, <1>5, <1>9, ProceedStep DEF Unpend, At
<1>10. CASE Greet(c, op)
  <2> DEFINE r == IF Connected(c)
                  THEN [client[c] EXCEPT !.state = "LoggedIn"] ELSE client[c]
  <2>1. /\ r \in Client /\ r.player = client[c].player
        /\ r.conn = client[c].conn
        /\ r.conn = "open" => r.state = "LoggedIn"
        /\ r.state \in {client[c].state, "LoggedIn"}
        /\ r.character = client[c].character
        /\ r.asyncPending = client[c].asyncPending
    BY <1>1 DEF Client, States, Connected
  <2>2. /\ Proceed(c, op, "clear", 0) /\ SetClient(c, r)
        /\ op.pc = "greet" /\ client[c].conn # "gone"
    BY <1>10 DEF Greet, At
  <2> HIDE DEF r
  <2> QED  BY <1>1, <1>2, <1>3, <1>5, <2>1, <2>2, ProceedStep
<1>11. CASE OpRefuse(c, op)
  BY <1>1, <1>2, <1>3, <1>4, <1>5, <1>11, ProceedStep DEF OpRefuse, At
<1>12. CASE OpCount(c, op)
  BY <1>1, <1>2, <1>3, <1>4, <1>12, ProceedStep DEF OpCount, At
<1>13. CASE OpClose(c, op)
  <2> DEFINE r == Failed(client[c], op.read + 1)
  <2>1. op.read + 1 \in Nat
    BY <1>1
  <2>2. /\ r \in Client /\ r.player = client[c].player
        /\ r.conn \in {client[c].conn, "closed"}
        /\ r.state = client[c].state /\ r.character = client[c].character
        /\ r.asyncPending = client[c].asyncPending
    BY <1>1, <2>1, FailedKeeps
  <2>3. Proceed(c, op, "clear", 0) /\ SetClient(c, r) /\ op.pc = "close"
    BY <1>13 DEF OpClose, At
  <2> HIDE DEF r
  <2> QED  BY <1>1, <1>2, <1>3, <1>5, <2>2, <2>3, ProceedStep
<1>14. CASE OpDrop(c, op)
  <2> DEFINE r == Close(client[c])
  <2>1. /\ Proceed(c, op, "clear", 0) /\ SetClient(c, r)
        /\ op.pc = "drop"
    BY <1>14 DEF OpDrop, At
  <2>2. /\ r \in Client /\ r.player = client[c].player
        /\ r.conn \in {client[c].conn, "closed"}
        /\ r.state = client[c].state /\ r.character = client[c].character
        /\ r.asyncPending = client[c].asyncPending
    BY <1>1, Closes
  <2> HIDE DEF r
  <2> QED  BY <1>1, <1>2, <1>3, <1>5, <2>1, <2>2, ProceedStep
<1> QED  BY <1>6, <1>7, <1>8, <1>9, <1>10, <1>11, <1>12, <1>13, <1>14
(* An operation ends, and its client waits no longer.                      *)
LEMMA ClearStep ==
  ASSUME SessionInv, NEW c \in Clients, NEW op \in ops[c], OpClear(c, op)
  PROVE  SessionInv'
<1> DEFINE r == [client[c] EXCEPT !.asyncPending = FALSE]
<1>1. /\ client[c] \in Client /\ ops[c] \in SUBSET Op
      /\ Sound(client[c], ops[c])
  BY DEF SessionInv, ClientTypes, AllSound
<1>2. ops[c] = {op}
  BY <1>1 DEF Sound
<1>3. /\ SetClient(c, r) /\ ops' = [ops EXCEPT ![c] = ops[c] \ {op}]
      /\ completing' = completing + (IF op.kind = "login" THEN 1 ELSE 0)
      /\ op.pc = "clear" /\ client[c].conn # "gone"
      /\ UNCHANGED <<loginVars, undefined>>
  BY DEF OpClear, At, SessionInv, Counted
<1>4. /\ r \in Client /\ r.conn = client[c].conn /\ r.state = client[c].state
      /\ r.player = client[c].player /\ r.character = client[c].character
      /\ ~r.asyncPending
  BY <1>1 DEF Client
<1> HIDE DEF r
<1>5. ops' = [ops EXCEPT ![c] = {}]
  <2>1. ops[c] \ {op} = {}
    BY <1>2
  <2> QED  BY <1>3, <2>1
<1>6. Sound(r, {})
  BY <1>1, <1>2, <1>3, <1>4 DEF Sound
<1>7. ClientTypes' /\ AllSound'
  BY <1>3, <1>4, <1>5, <1>6, OneClient DEF SessionInv, SetClient
<1>8. Counted'
  <2>1. /\ IsFiniteSet(Logins')
        /\ Cardinality(Logins') = Cardinality(Logins)
                                  - (IF op.kind = "login" THEN 1 ELSE 0)
    BY <1>2, <1>5, LoginsEnd DEF SessionInv, Counted
  <2>2. Cardinality(Logins) \in Nat
    BY FS_CardinalityType DEF SessionInv, Counted
  <2> QED  BY <1>3, <2>1, <2>2 DEF SessionInv, Counted, loginVars
<1> QED  BY <1>3, <1>7, <1>8 DEF SessionInv, OtherTypes, loginVars

(* The completion callback of a login lowers the count.                    *)
LEMMA CompleteStep ==
  ASSUME SessionInv, Complete
  PROVE  SessionInv'
<1>1. /\ completing > 0 /\ completing' = completing - 1
      /\ processCount' = processCount - 1
      /\ UNCHANGED <<client, ops, pendingLogins, undefined>>
  BY DEF Complete
<1>2. Logins' = Logins /\ Cardinality(Logins) \in Nat
  BY <1>1, LoginsKept, FS_CardinalityType DEF SessionInv, Counted
<1>3. Counted'
  BY <1>1, <1>2 DEF SessionInv, Counted
<1>4. AllSound'
  BY <1>1 DEF SessionInv, AllSound, Sound
<1> QED  BY <1>1, <1>3, <1>4 DEF SessionInv, ClientTypes, OtherTypes

-----------------------------------------------------------------------------
\* The theorems

LEMMA InitSession == Init => SessionInv
<1> SUFFICES ASSUME Init PROVE SessionInv
  OBVIOUS
<1>1. Fresh("none") \in Client /\ Sound(Fresh("none"), {})
  BY FreshIsClient DEF Sound
<1>2. Logins = {} /\ IsFiniteSet(Logins) /\ Cardinality(Logins) = 0
  <2>1. Logins = {}
    BY DEF Init, Logins, LoginOps
  <2> QED  BY <2>1, FS_EmptySet
<1>3. /\ client = [c \in Clients |-> Fresh("none")]
      /\ ops = [c \in Clients |-> {}]
  BY DEF Init
<1>4. ClientTypes
  BY <1>1, <1>3 DEF ClientTypes
<1>5. AllSound
  <2> SUFFICES ASSUME NEW c \in Clients PROVE Sound(client[c], ops[c])
    BY DEF AllSound
  <2>1. client[c] = Fresh("none") /\ ops[c] = {}
    BY <1>3
  <2> QED  BY <1>1, <2>1
<1>6. Counted
  BY <1>2 DEF Init, Counted
<1>7. OtherTypes
  BY DEF Init, OtherTypes
<1> QED  BY <1>4, <1>5, <1>6, <1>7 DEF SessionInv

LEMMA NextSession == SessionInv /\ [Next]_vars => SessionInv'
<1> SUFFICES ASSUME SessionInv, [Next]_vars PROVE SessionInv'
  OBVIOUS
<1>1. CASE UNCHANGED vars
  <2>1. Logins' = Logins
    BY <1>1, LoginsKept DEF vars, opVars
  <2>2. Counted'
    BY <1>1, <2>1 DEF SessionInv, Counted, vars, opVars, loginVars
  <2>3. AllSound'
    BY <1>1 DEF SessionInv, AllSound, Sound, vars, opVars
  <2> QED  BY <1>1, <2>2, <2>3
           DEF SessionInv, ClientTypes, OtherTypes, vars, opVars, loginVars
<1>2. CASE PingAll \/ Complete
  BY <1>2, PingStep, CompleteStep
<1>3. ASSUME NEW c \in Clients, LoopStep(c) \/ Burial(c) PROVE SessionInv'
  BY <1>3, QuietLoopSteps, EvictStep, RefusedStep, AsyncHandlers
     DEF LoopStep, Burial, Handle
<1>4. ASSUME NEW c \in Clients, WorkerStep(c) PROVE SessionInv'
  <2>1. PICK op \in ops[c] :
          \/ Query(c, op) \/ LoadPlayer(c, op) \/ LoadPlayerThrows(c, op)
          \/ Unpend(c, op) \/ Greet(c, op) \/ OpRefuse(c, op)
          \/ OpCount(c, op) \/ OpClose(c, op) \/ OpDrop(c, op)
          \/ OpClear(c, op) \/ OpOnDeleted(c, op)
    BY <1>4 DEF WorkerStep
  <2>2. CASE OpOnDeleted(c, op)
    <3>1. UNCHANGED <<client, opVars, loginVars>> /\ undefined' = TRUE
      BY <2>2 DEF OpOnDeleted
    <3>2. Counted'
      BY <3>1, CountKept DEF SessionInv, loginVars
    <3>3. AllSound'
      BY <3>1 DEF SessionInv, AllSound, Sound, opVars
    <3> QED  BY <3>1, <3>2, <3>3
             DEF SessionInv, ClientTypes, OtherTypes, opVars, loginVars
  <2> QED  BY <2>1, <2>2, WorkerSteps, ClearStep
<1> QED  BY <1>1, <1>2, <1>3, <1>4 DEF Next

LEMMA SessionInvariant == Spec => []SessionInv
<1>1. Init => SessionInv
  BY InitSession
<1>2. SessionInv /\ [Next]_vars => SessionInv'
  BY NextSession
<1> QED  BY <1>1, <1>2, PTL DEF Spec

(* Clients, operations and the count of logins keep their types: the count *)
(* never falls below zero, for every login that completes was counted.     *)
THEOREM SessionTypes == Spec => []TypeOK
<1>1. SessionInv => TypeOK
  BY DEF SessionInv, ClientTypes, OtherTypes, Counted, TypeOK
<1> QED  BY <1>1, SessionInvariant, PTL

(* The logins under way are counted and limited, a client has one          *)
(* operation at a time, and waits for one only if it has one.              *)
THEOREM OperationsAreCounted == Spec => []OperationsCounted
<1>1. SessionInv => OperationsCounted
  <2> SUFFICES ASSUME SessionInv PROVE OperationsCounted
    OBVIOUS
  <2>1. LoginsLimited
    BY LoginCountIs DEF SessionInv, Counted, LoginsLimited
  <2>2. ASSUME NEW c \in Clients PROVE Cardinality(ops[c]) <= 1
    <3>0. \A a, b \in ops[c] : a = b
      BY DEF SessionInv, AllSound, Sound
    <3>1. ops[c] = {} \/ \E op \in ops[c] : ops[c] = {op}
      BY <3>0
    <3>2. Cardinality({}) = 0
      BY FS_EmptySet
    <3>3. \A op \in ops[c] : Cardinality({op}) = 1
      BY FS_Singleton
    <3> QED  BY <3>1, <3>2, <3>3
  <2>3. PendingHasOperation
    BY DEF SessionInv, AllSound, Sound, PendingHasOperation
  <2> QED  BY <2>1, <2>2, <2>3 DEF OperationsCounted, OneOperation
<1> QED  BY <1>1, SessionInvariant, PTL

(* A client that is logged in has its player, one in the world its         *)
(* character.                                                              *)
THEOREM PlayersAreThere == Spec => []StateHasPlayer
<1>1. SessionInv => StateHasPlayer
  BY DEF SessionInv, AllSound, Sound, StateHasPlayer
<1> QED  BY <1>1, SessionInvariant, PTL
-----------------------------------------------------------------------------
\* The player of a client

(* Only one step gives a client a player, at a client without one.         *)
LEMMA LoadKeeps ==
  ASSUME SessionInv, NEW c \in Clients, NEW op \in ops[c], LoadPlayer(c, op)
  PROVE  client[c].player = NoAccount
BY DEF SessionInv, AllSound, Sound, BeforePlayer, LoadPlayer, At

(* A client's record is replaced by one with the same player.              *)
LEMMA SamePlayer ==
  ASSUME ClientTypes, NEW c \in Clients, NEW r, SetClient(c, r),
         r.player = client[c].player \/ client[c].player = NoAccount
         \/ r.conn = "gone"
  PROVE  \A d \in Clients :
           client[d].player # NoAccount /\ client'[d].conn # "gone"
             => client'[d].player = client[d].player
BY DEF SetClient, ClientTypes

(* The pointer to a client's player is set once.                           *)
THEOREM PlayerIsKept == Spec => PlayerKept
<1> DEFINE Keeps == \A d \in Clients :
             client[d].player # NoAccount /\ client'[d].conn # "gone"
               => client'[d].player = client[d].player
<1>1. SessionInv /\ [Next]_vars => [Keeps]_vars
  <2> SUFFICES ASSUME SessionInv, Next PROVE Keeps
    BY DEF vars
  <2>0. ClientTypes /\ \A c \in Clients : client[c] \in Client
    BY DEF SessionInv, ClientTypes
  <2>1. CASE PingAll
    <3> SUFFICES ASSUME NEW d \in Clients
                 PROVE  client'[d].player = client[d].player
      OBVIOUS
    <3>1. client'[d] \in {client[d], DropRec(client[d]),
                         [client[d] EXCEPT !.needpong = TRUE]}
      BY <2>1 DEF PingAll
    <3>2. [client[d] EXCEPT !.needpong = TRUE].player = client[d].player
      BY <2>0 DEF Client
    <3> QED  BY <2>0, <3>1, <3>2, Drops
  <2>2. CASE Complete
    BY <2>2 DEF Complete
  <2>3. ASSUME NEW c \in Clients, LoopStep(c) \/ Burial(c) PROVE Keeps
    <3>1. CASE Connect(c) \/ Bury(c)
      <4>1. Connect(c) => client[c].player = NoAccount
        BY DEF Connect, SessionInv, AllSound, Sound
      <4>2. PICK conn \in {"open", "gone"} :
              /\ SetClient(c, Fresh(conn))
              /\ conn = "open" => client[c].player = NoAccount
        BY <3>1, <4>1 DEF Connect, Bury
      <4> QED  BY <2>0, <4>2, SamePlayer, FreshIsClient
    <3>2. ASSUME NEW victim \in Clients, Evict(c, victim) PROVE Keeps
      <4>1. /\ client[c].player = NoAccount
            /\ client' = [client EXCEPT ![c] = Fresh("open"),
                                        ![victim] = Fresh("gone")]
        BY <3>2 DEF Evict, SessionInv, AllSound, Sound
      <4> QED  BY <2>0, <4>1, FreshIsClient DEF ClientTypes
    <3>3. CASE Hangup(c) \/ Drop(c)
      BY <2>0, <3>3, SamePlayer, Closes, Drops DEF Hangup, Drop
    <3>4. CASE \/ InitInit(c) \/ ConnectionAccept(c) \/ ConnectionPing(c)
               \/ WelcomeRequest(c) \/ WelcomeMsg(c)
      <4>1. PICK r : SetClient(c, r) /\ r.player = client[c].player
        BY <2>0, <3>4 DEF InitInit, ConnectionAccept, ConnectionPing,
                          WelcomeRequest, WelcomeMsg, Client
      <4> QED  BY <2>0, <4>1, SamePlayer
    <3>5. ASSUME NEW kind, NEW u, Begin(c, kind, u) PROVE Keeps
      <4>1. [client[c] EXCEPT !.asyncPending = TRUE].player
              = client[c].player
        BY <2>0 DEF Client
      <4>2. PICK r : SetClient(c, r) /\ r.player = client[c].player
        BY <2>0, <3>5, <4>1, Drops DEF Begin
      <4> QED  BY <2>0, <4>2, SamePlayer
    <3>6. CASE \/ AccountCreate(c) \/ AccountAgree(c)
               \/ \E u \in Accounts : LoginBegin(c, u)
      BY <3>5, <3>6 DEF AccountCreate, AccountAgree, LoginBegin
    <3>7. ASSUME NEW u \in Accounts, LoginRefused(c, u) \/ LoginTooBusy(c, u)
          PROVE  Keeps
      <4>1. client[c].attempts + 1 \in Nat
        BY <2>0 DEF Client
      <4>2. PICK r \in {DropRec(client[c]),
                       Failed(client[c], client[c].attempts + 1)} :
              SetClient(c, r)
        BY <3>7 DEF LoginRefused, LoginTooBusy, Refuse
      <4>3. r.player = client[c].player
        BY <2>0, <4>1, <4>2, Drops, FailedKeeps
      <4> QED  BY <2>0, <4>2, <4>3, SamePlayer
    <3> QED  BY <2>3, <3>1, <3>2, <3>3, <3>4, <3>6, <3>7
             DEF LoopStep, Burial, Handle
  <2>4. ASSUME NEW c \in Clients, WorkerStep(c) PROVE Keeps
    <3>1. PICK op \in ops[c] :
            \/ Query(c, op) \/ LoadPlayer(c, op) \/ LoadPlayerThrows(c, op)
            \/ Unpend(c, op) \/ Greet(c, op) \/ OpRefuse(c, op)
            \/ OpCount(c, op) \/ OpClose(c, op) \/ OpDrop(c, op)
            \/ OpClear(c, op) \/ OpOnDeleted(c, op)
      BY <2>4 DEF WorkerStep
    <3>2. CASE LoadPlayer(c, op)
      <4>1. client[c].player = NoAccount
        BY <3>2, LoadKeeps
      <4>2. SetClient(c, [client[c] EXCEPT !.player = op.user])
        BY <3>2 DEF LoadPlayer
      <4> QED  BY <2>0, <4>1, <4>2, SamePlayer
    <3>3. CASE Greet(c, op) \/ OpClear(c, op) \/ OpDrop(c, op)
      <4>1. PICK r : SetClient(c, r) /\ r.player = client[c].player
        BY <2>0, <3>3, Closes DEF Greet, OpClear, OpDrop, Client
      <4> QED  BY <2>0, <4>1, SamePlayer
    <3>4. CASE OpClose(c, op)
      <4>1. op.read + 1 \in Nat
        BY DEF SessionInv, ClientTypes, Op
      <4>2. PICK r : SetClient(c, r) /\ r.player = client[c].player
        BY <2>0, <3>4, <4>1, FailedKeeps DEF OpClose
      <4> QED  BY <2>0, <4>2, SamePlayer
    <3>5. CASE \/ Query(c, op) \/ LoadPlayerThrows(c, op) \/ Unpend(c, op)
               \/ OpRefuse(c, op) \/ OpCount(c, op) \/ OpOnDeleted(c, op)
      <4>1. UNCHANGED client
        BY <3>5 DEF Query, LoadPlayerThrows, Unpend, OpRefuse, OpCount,
                    OpOnDeleted
      <4> QED  BY <4>1
    <3> QED  BY <3>1, <3>2, <3>3, <3>4, <3>5
  <2> HIDE DEF Keeps
  <2> QED  BY <2>1, <2>2, <2>3, <2>4 DEF Next
<1>2. SessionInv /\ [Next]_vars =>
        [\A c \in Clients :
           client[c].player # NoAccount /\ client'[c].conn # "gone"
             => client'[c].player = client[c].player]_vars
  BY <1>1
<1> QED  BY <1>2, SessionInvariant, PTL DEF Spec, PlayerKept
=============================================================================
