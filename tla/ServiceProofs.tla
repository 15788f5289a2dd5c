--------------------------- MODULE ServiceProofs ---------------------------
(***************************************************************************)
(* Proofs about the parts of MCService: that both ends of a connection     *)
(* number packets alike, that what is saved survives lost links and        *)
(* restarts, and that what is sent arrives in order, files in one piece    *)
(* among it.  What the world does by timer is in SpellsProofs.             *)
(***************************************************************************)
EXTENDS MCService, SpellsProofs, WellFoundedInduction

-----------------------------------------------------------------------------
\* Counting modulo a number.

\* What is below the modulus is its own remainder.
LEMMA ModBelow == \A W \in Nat \ {0} : \A r \in 0..W-1 : r % W = r
  OBVIOUS

\* Quotient and remainder.
LEMMA DivMod == \A W \in Nat \ {0} : \A n \in Int :
     n % W \in 0..W-1 /\ n \div W \in Int /\ n = W * (n \div W) + (n % W)
  OBVIOUS

\* A positive multiple is no less.
LEMMA AtLeast == \A W \in Nat \ {0} : \A k \in Nat \ {0} : W * k >= W /\ W * k \in Nat
  OBVIOUS

\* There is one remainder.
LEMMA ModUnique ==
  ASSUME NEW W \in Nat \ {0}, NEW p \in Int, NEW q \in Int,
         NEW r \in 0..W-1, NEW s \in 0..W-1, W * p + r = W * q + s
  PROVE  r = s
<1>1. W * (p - q) = s - r /\ W * (q - p) = r - s
  OBVIOUS
<1>2. ~ (p - q > 0)
  <2> SUFFICES ASSUME p - q > 0 PROVE FALSE
    OBVIOUS
  <2>1. W * (p - q) >= W
    BY AtLeast
  <2> QED BY <1>1, <2>1
<1>3. ~ (q - p > 0)
  <2> SUFFICES ASSUME q - p > 0 PROVE FALSE
    OBVIOUS
  <2>1. W * (q - p) >= W
    BY AtLeast
  <2> QED BY <1>1, <2>1
<1> QED BY <1>2, <1>3

\* The modulus may be taken before or after more is added.
LEMMA ModNext ==
  ASSUME NEW W \in Nat \ {0}, NEW n \in Nat, NEW m \in Nat
  PROVE  ((n % W) + m) % W = (n + m) % W
<1> DEFINE r == n % W
           a == n \div W
           b == (r + m) \div W
           c == (n + m) \div W
           x == (r + m) % W
           y == (n + m) % W
<1>1. r \in 0..W-1 /\ a \in Int /\ n = W * a + r
  BY DivMod
<1>2. r + m \in Int /\ n + m \in Int
  BY <1>1
<1>3. x \in 0..W-1 /\ b \in Int /\ r + m = W * b + x
  BY <1>2, DivMod
<1>4. y \in 0..W-1 /\ c \in Int /\ n + m = W * c + y
  BY <1>2, DivMod
<1> HIDE DEF r, a, b, c, x, y
<1>5. W * (a + b) + x = W * c + y
  <2>1. W * (a + b) = W * a + W * b
    BY <1>1, <1>3
  <2>2. W * a \in Int /\ W * b \in Int /\ W * c \in Int
    BY <1>1, <1>3, <1>4
  <2> QED BY <1>1, <1>3, <1>4, <2>1, <2>2
<1>6. a + b \in Int
  BY <1>1, <1>3
<1>7. x = y
  BY <1>3, <1>4, <1>5, <1>6, ModUnique
<1> QED BY <1>7 DEF x, y, r

-----------------------------------------------------------------------------
\* The packet sequence: the inductive invariant.

Pinged(i) == toClient[i].kind = "ping"
Ponged(i) == toServer[i].kind = "pong"

\* What the server will expect of message i: the start in force by then.
InForce(i) == IF \E j \in 1..i : Ponged(j) THEN upcoming_seq_start ELSE seq_start

Uplink == [kind : {"init", "pong", "request", "other"}, number : Int]
Downlink == [kind : {"init", "ping"}, bytes : Int \X Int]
              \cup [kind : {"account"}, bytes : {<<x>> : x \in Int}]

LinkTypes ==
  /\ phase \in {"new", "ready", "closed"}
  /\ seq_start \in Int /\ upcoming_seq_start \in Int /\ seq \in 0..Wrap-1
  /\ needpong \in BOOLEAN /\ refused \in BOOLEAN /\ crossed \in BOOLEAN
  /\ queue \in Seq(Arrivals) /\ toServer \in Seq(Uplink)
  /\ toClient \in Seq(Downlink)
  /\ peer \in [start : Int, seq : 0..Wrap-1,
               mode : {"new", "hello", "free", "waits"}]

\* The two counters are apart by what is on its way.
InStep ==
  /\ peer.seq = (seq + Len(toServer)) % Wrap
  /\ \A i \in DOMAIN toServer :
       toServer[i].kind # "init" =>
         toServer[i].number = InForce(i) + ((seq + i - 1) % Wrap)

\* A ping, then its pong, then its pong in the queue: at most one at a time,
\* and only while needpong is set.
OnePing ==
  /\ \A i \in DOMAIN toClient : Pinged(i) =>
       /\ needpong
       /\ toClient[i].bytes[1] - toClient[i].bytes[2] = upcoming_seq_start
       /\ \A j \in DOMAIN toClient : Pinged(j) => i = j
       /\ \A j \in DOMAIN toServer : ~Ponged(j)
       /\ \A j \in DOMAIN queue : queue[j] # "pong"
  /\ \A i \in DOMAIN toServer : Ponged(i) =>
       /\ needpong
       /\ \A j \in DOMAIN toServer : Ponged(j) => i = j
       /\ \A j \in DOMAIN queue : queue[j] # "pong"
  /\ \A i \in DOMAIN queue : queue[i] = "pong" =>
       /\ needpong
       /\ \A j \in DOMAIN queue : queue[j] = "pong" => i = j

\* One question at a time, on its way, in the queue or answered.
OneQuestion(asks, says, mode) ==
  /\ \A i \in DOMAIN toServer : toServer[i].kind = asks =>
       /\ peer.mode = mode
       /\ \A j \in DOMAIN toServer : toServer[j].kind = asks => i = j
       /\ \A j \in DOMAIN queue : queue[j] # asks
       /\ \A j \in DOMAIN toClient : toClient[j].kind # says
  /\ \A i \in DOMAIN queue : queue[i] = asks =>
       /\ peer.mode = mode
       /\ \A j \in DOMAIN queue : queue[j] = asks => i = j
       /\ \A j \in DOMAIN toClient : toClient[j].kind # says
  /\ \A i \in DOMAIN toClient : toClient[i].kind = says =>
       /\ peer.mode = mode
       /\ \A j \in DOMAIN toClient : toClient[j].kind = says => i = j

\* While the client waits nothing follows its question but a pong; an answer
\* finds the line empty, gives the start in force, and no ping precedes that
\* of an account.
Answers ==
  /\ \A i \in DOMAIN toServer : toServer[i].kind \in {"init", "request"} =>
       \A j \in DOMAIN toServer : j > i => Ponged(j)
  /\ \A i \in DOMAIN queue : queue[i] \in {"init", "request"} =>
       \A j \in DOMAIN toServer : Ponged(j)
  /\ \A i \in DOMAIN toClient : toClient[i].kind # "ping" => toServer = <<>>
  /\ \A i \in DOMAIN toClient : toClient[i].kind = "init" =>
       /\ phase # "new"
       /\ toClient[i].bytes[1] * 7 + toClient[i].bytes[2] - 13 = seq_start
  /\ \A i \in DOMAIN toClient : toClient[i].kind = "account" =>
       /\ toClient[i].bytes[1] = seq_start
       /\ \A j \in DOMAIN toClient : Pinged(j) => i < j

\* Who knows a start knows the one in force when its next packet arrives.
Knows ==
  /\ peer.mode = "new" => toServer = <<>>
  /\ peer.mode = "hello" => \A i \in DOMAIN toServer : toServer[i].kind = "init"
  /\ peer.mode \in {"free", "waits"} =>
       /\ phase # "new"
       /\ \A i \in DOMAIN toServer : toServer[i].kind # "init"
       /\ (\A i \in DOMAIN toClient : toClient[i].kind # "account") =>
            peer.start = InForce(Len(toServer))

Uncrossed ==
  /\ InStep /\ OnePing /\ Answers /\ Knows
  /\ OneQuestion("init", "init", "hello")
  /\ OneQuestion("request", "account", "waits")

\* Unless a request was answered across a ping, both sides are together until
\* the connection is closed, so nobody is refused.
SequenceInv ==
  /\ LinkTypes
  /\ phase # "closed" /\ ~crossed => ~refused /\ Uncrossed
  /\ refused => crossed

\* What is left of a sequence without its first.
LEMMA TailOf ==
  ASSUME NEW S, NEW s \in Seq(S), s # <<>>
  PROVE  /\ Tail(s) \in Seq(S) /\ Head(s) = s[1] /\ Head(s) \in S
         /\ Len(s) \in Nat \ {0} /\ Len(Tail(s)) = Len(s) - 1
         /\ DOMAIN s = 1..Len(s) /\ DOMAIN Tail(s) = 1..Len(s)-1
         /\ \A i \in 1..Len(s)-1 : Tail(s)[i] = s[i+1]
  OBVIOUS

\* One more at the end.
LEMMA AppendOf ==
  ASSUME NEW S, NEW s \in Seq(S), NEW e \in S
  PROVE  /\ Append(s, e) \in Seq(S) /\ Len(s) \in Nat
         /\ Len(Append(s, e)) = Len(s) + 1
         /\ DOMAIN s = 1..Len(s) /\ DOMAIN Append(s, e) = 1..Len(s)+1
         /\ \A i \in 1..Len(s) : Append(s, e)[i] = s[i]
         /\ Append(s, e)[Len(s) + 1] = e
  OBVIOUS

\* A sequence without an element.
LEMMA EmptySeq ==
  ASSUME NEW S, NEW s \in Seq(S), DOMAIN s = {} \/ Len(s) = 0
  PROVE  s = <<>>
  OBVIOUS

\* One more on its way to the server, of the number its sender takes it for.
LEMMA SendStep ==
  ASSUME SequenceInv, NEW kind \in {"init", "pong", "request", "other"},
         NEW n \in Int, toServer' = Append(toServer, [kind |-> kind, number |-> n])
  PROVE  /\ toServer' \in Seq(Uplink)
         /\ Len(toServer) \in Nat /\ Len(toServer') = Len(toServer) + 1
         /\ DOMAIN toServer = 1..Len(toServer)
         /\ DOMAIN toServer' = 1..Len(toServer)+1
         /\ \A i \in 1..Len(toServer) : toServer'[i] = toServer[i]
         /\ toServer'[Len(toServer) + 1] = [kind |-> kind, number |-> n]
<1>1. [kind |-> kind, number |-> n] \in Uplink
  BY DEF Uplink
<1>2. toServer \in Seq(Uplink)
  BY DEF SequenceInv, LinkTypes
<1> QED
  BY <1>1, <1>2, AppendOf

\* The counters of both sides go on by one.
LEMMA CountOn ==
  ASSUME LinkTypes
  PROVE  /\ seq \in Nat /\ seq % Wrap = seq /\ (seq + 1) % Wrap \in 0..Wrap-1
         /\ (peer.seq + 1) % Wrap \in 0..Wrap-1
         /\ \A m \in Nat : (((seq + 1) % Wrap) + m) % Wrap = (seq + 1 + m) % Wrap
         /\ \A m \in Nat : (((seq + m) % Wrap) + 1) % Wrap = (seq + m + 1) % Wrap
<1>1. Wrap \in Nat \ {0} /\ seq \in 0..Wrap-1 /\ peer.seq \in 0..Wrap-1
  BY SequenceAssumption DEF LinkTypes
<1>2. seq % Wrap = seq
  BY <1>1, ModBelow
<1>3. (seq + 1) % Wrap \in 0..Wrap-1 /\ (peer.seq + 1) % Wrap \in 0..Wrap-1
  <2>1. seq + 1 \in Int /\ peer.seq + 1 \in Int
    BY <1>1
  <2> QED BY <1>1, <2>1, DivMod
<1>4. \A m \in Nat : (((seq + 1) % Wrap) + m) % Wrap = (seq + 1 + m) % Wrap
  <2> TAKE m \in Nat
  <2>1. seq + 1 \in Nat
    BY <1>1
  <2> QED BY <1>1, <2>1, ModNext
<1>5. \A m \in Nat : (((seq + m) % Wrap) + 1) % Wrap = (seq + m + 1) % Wrap
  <2> TAKE m \in Nat
  <2>1. seq + m \in Nat
    BY <1>1
  <2> QED BY <1>1, <2>1, ModNext
<1> QED
  BY <1>1, <1>2, <1>3, <1>4, <1>5

-----------------------------------------------------------------------------
\* The client's packets.

\* What the client sends has the number that will be expected: ClientHello,
\* ClientPacket and ClientRequest.
LEMMA ClientSendsKeeps ==
  ASSUME SequenceInv,
         NEW kind \in {"init", "request", "other"},
         NEW mode \in {"new", "hello", "free", "waits"},
         ClientSends(kind, mode),
         \/ kind = "init" /\ peer.mode = "new" /\ mode = "hello"
         \/ kind = "request" /\ peer.mode = "free" /\ mode = "waits"
         \/ kind = "other" /\ peer.mode = "free" /\ mode = "free"
  PROVE  SequenceInv'
<1> PICK n : n = peer.start + peer.seq
  OBVIOUS
<1> PICK L : L = Len(toServer)
  OBVIOUS
<1>1. LinkTypes /\ n \in Int
  BY DEF SequenceInv, LinkTypes
<1>2. /\ toServer' = Append(toServer, [kind |-> kind, number |-> n])
      /\ peer' = [peer EXCEPT !.seq = (peer.seq + 1) % Wrap, !.mode = mode]
      /\ UNCHANGED <<phase, seq_start, upcoming_seq_start, seq, needpong, queue,
                     toClient, refused, crossed>>
  BY DEF ClientSends, Sent, starts
<1>3. /\ peer'.start = peer.start /\ peer'.mode = mode
      /\ peer'.seq = (peer.seq + 1) % Wrap
  BY <1>1, <1>2 DEF LinkTypes
<1>4. /\ toServer' \in Seq(Uplink)
      /\ L \in Nat /\ Len(toServer') = L + 1
      /\ DOMAIN toServer = 1..L /\ DOMAIN toServer' = 1..L+1
      /\ \A i \in 1..L : toServer'[i] = toServer[i]
      /\ toServer'[L + 1] = [kind |-> kind, number |-> n]
  BY <1>1, <1>2, SendStep
<1>5. LinkTypes'
  <2>1. peer' \in [start : Int, seq : 0..Wrap-1,
                   mode : {"new", "hello", "free", "waits"}]
    BY <1>1, <1>2, CountOn DEF LinkTypes
  <2> QED
    BY <1>1, <1>2, <1>4, <2>1 DEF LinkTypes
<1>6. ASSUME phase' # "closed", ~crossed' PROVE ~refused' /\ Uncrossed'
  <2>1. ~refused /\ Uncrossed
    BY <1>2, <1>6 DEF SequenceInv
  <2>2. \A i \in 1..L : Ponged(i)' <=> Ponged(i)
    BY <1>4 DEF Ponged
  <2>3. ~ Ponged(L+1)'
    BY <1>4 DEF Ponged
  <2>4. \A i \in 1..L : InForce(i)' = InForce(i)
    BY <1>2, <1>4, <2>2 DEF InForce
  <2>5. InForce(L)' = InForce(L) /\ InForce(L+1)' = InForce(L)
    BY <1>2, <1>4, <2>2, <2>3 DEF InForce
  <2>6. InStep'
    <3>1. peer.seq = (seq + L) % Wrap
      BY <2>1 DEF Uncrossed, InStep
    <3>2. peer'.seq = (seq + (L + 1)) % Wrap
      <4>1. (((seq + L) % Wrap) + 1) % Wrap = (seq + L + 1) % Wrap
        BY <1>1, <1>4, CountOn
      <4>2. seq + L + 1 = seq + (L + 1)
        BY <1>1, <1>4 DEF LinkTypes
      <4> QED
        BY <1>3, <3>1, <4>1, <4>2
    <3>3. ASSUME NEW i \in 1..L+1, toServer'[i].kind # "init"
          PROVE  toServer'[i].number = InForce(i)' + ((seq + i - 1) % Wrap)
      <4>1. CASE i \in 1..L
        BY <1>4, <2>1, <2>4, <3>3, <4>1 DEF Uncrossed, InStep
      <4>2. CASE i = L + 1
        <5>1. toServer'[i].number = n /\ peer.mode = "free"
          BY <1>4, <3>3, <4>2
        <5>2. \A j \in DOMAIN toClient : toClient[j].kind # "account"
          BY <2>1, <5>1 DEF Uncrossed, OneQuestion
        <5>3. peer.start = InForce(L)
          BY <2>1, <5>1, <5>2 DEF Uncrossed, Knows
        <5>4. seq + i - 1 = seq + L
          BY <1>1, <1>4, <4>2 DEF LinkTypes
        <5> QED
          BY <2>5, <3>1, <4>2, <5>1, <5>3, <5>4
      <4> QED
        BY <1>4, <4>1, <4>2
    <3> QED
      BY <1>2, <1>4, <3>2, <3>3 DEF InStep
  <2>7. OnePing'
    BY <1>2, <1>4, <2>1, <2>2, <2>3 DEF Uncrossed, OnePing, Pinged
  <2>8. Answers'
    <3>1. /\ \A j \in DOMAIN queue : queue[j] \notin {"init", "request"}
          /\ \A j \in DOMAIN toServer : toServer[j].kind \notin {"init", "request"}
          /\ \A j \in DOMAIN toClient : toClient[j].kind = "ping"
      BY <1>1, <2>1 DEF Uncrossed, OneQuestion, LinkTypes, Downlink
    <3>2. \A i \in 1..L+1 : toServer'[i].kind \in {"init", "request"} =>
            \A j \in 1..L+1 : j > i => Ponged(j)'
      BY <1>4, <3>1
    <3> QED
      BY <1>2, <1>4, <3>1, <3>2 DEF Answers
  <2>9. Knows'
    BY <1>2, <1>3, <1>4, <2>1, <2>5 DEF Uncrossed, OneQuestion, Knows
  <2>10. /\ OneQuestion("init", "init", "hello")'
         /\ OneQuestion("request", "account", "waits")'
    BY <1>2, <1>3, <1>4, <2>1 DEF Uncrossed, OneQuestion, Knows
  <2> QED
    BY <1>2, <2>1, <2>6, <2>7, <2>8, <2>9, <2>10 DEF Uncrossed
<1> QED
  BY <1>2, <1>5, <1>6 DEF SequenceInv

\* One less on its way to the client.
LEMMA ReceiveStep ==
  ASSUME SequenceInv, toClient # <<>>, toClient' = Tail(toClient)
  PROVE  /\ toClient' \in Seq(Downlink) /\ Head(toClient) = toClient[1]
         /\ Head(toClient) \in Downlink
         /\ Len(toClient) \in Nat \ {0}
         /\ DOMAIN toClient = 1..Len(toClient)
         /\ DOMAIN toClient' = 1..Len(toClient)-1
         /\ \A i \in 1..Len(toClient)-1 : toClient'[i] = toClient[i+1]
<1>1. toClient \in Seq(Downlink)
  BY DEF SequenceInv, LinkTypes
<1> QED
  BY <1>1, TailOf

\* An answer, or a ping that the client does not understand yet.
LEMMA ReceivesAnswer ==
  ASSUME SequenceInv, ClientReceives,
         ~ (Head(toClient).kind = "ping" /\ peer.mode \in {"free", "waits"})
  PROVE  SequenceInv'
<1> PICK m : m = Head(toClient)
  OBVIOUS
<1> PICK N : N = Len(toClient)
  OBVIOUS
<1>1. /\ toClient # <<>> /\ toClient' = Tail(toClient)
      /\ UNCHANGED <<toServer, phase, seq_start, upcoming_seq_start, seq, needpong,
                     queue, refused, crossed>>
  BY DEF ClientReceives, starts
<1>2. /\ toClient' \in Seq(Downlink) /\ m = toClient[1] /\ m \in Downlink
      /\ N \in Nat \ {0} /\ DOMAIN toClient = 1..N /\ DOMAIN toClient' = 1..N-1
      /\ \A i \in 1..N-1 : toClient'[i] = toClient[i+1] /\ i + 1 \in 1..N
                           /\ i + 1 # 1
  BY <1>1, ReceiveStep
<1>3. LinkTypes
  BY DEF SequenceInv
<1>4. /\ m.kind \in {"init", "account", "ping"}
      /\ m.kind \in {"init", "ping"} => m.bytes[1] \in Int /\ m.bytes[2] \in Int
      /\ m.kind = "account" => m.bytes[1] \in Int
  BY <1>2 DEF Downlink
<1>5. /\ m.kind = "init" =>
           peer' = [peer EXCEPT !.start = m.bytes[1] * 7 + m.bytes[2] - 13,
                                !.mode = "free"]
      /\ m.kind = "account" =>
           peer' = [peer EXCEPT !.start = m.bytes[1], !.mode = "free"]
      /\ m.kind = "ping" => peer' = peer
  BY <1>4 DEF ClientReceives, FromInit
<1>6. /\ m.kind = "init" => /\ peer'.start = m.bytes[1] * 7 + m.bytes[2] - 13
                            /\ peer'.mode = "free" /\ peer'.seq = peer.seq
      /\ m.kind = "account" => /\ peer'.start = m.bytes[1]
                               /\ peer'.mode = "free" /\ peer'.seq = peer.seq
      /\ peer' \in [start : Int, seq : 0..Wrap-1,
                    mode : {"new", "hello", "free", "waits"}]
  <2>1. CASE m.kind = "init"
    <3>1. m.bytes[1] * 7 + m.bytes[2] - 13 \in Int
      BY <1>4, <2>1
    <3> PICK x \in Int : x = m.bytes[1] * 7 + m.bytes[2] - 13
      BY <3>1
    <3>2. peer' = [peer EXCEPT !.start = x, !.mode = "free"]
      BY <1>5, <2>1
    <3> QED
      BY <1>3, <2>1, <3>2 DEF LinkTypes
  <2>2. CASE m.kind = "account"
    BY <1>3, <1>4, <1>5, <2>2 DEF LinkTypes
  <2>3. CASE m.kind = "ping"
    BY <1>3, <1>5, <2>3 DEF LinkTypes
  <2> QED
    BY <1>4, <2>1, <2>2, <2>3
<1>7. LinkTypes'
  BY <1>1, <1>2, <1>3, <1>6 DEF LinkTypes
<1>8. ASSUME phase' # "closed", ~crossed' PROVE ~refused' /\ Uncrossed'
  <2>1. ~refused /\ Uncrossed
    BY <1>1, <1>8 DEF SequenceInv
  <2>2. InStep'
    BY <1>1, <1>4, <1>5, <1>6, <2>1 DEF Uncrossed, InStep, InForce, Ponged
  <2>3. OnePing'
    BY <1>1, <1>2, <2>1 DEF Uncrossed, OnePing, Pinged, Ponged
  <2>4. Answers'
    <3>1. \A i \in DOMAIN toClient' : toClient'[i].kind # "ping" => toServer = <<>>
      BY <1>2, <2>1 DEF Uncrossed, Answers
    <3>2. \A i \in DOMAIN toClient' : toClient'[i].kind = "init" =>
       /\ phase # "new"
       /\ toClient'[i].bytes[1] * 7 + toClient'[i].bytes[2] - 13 = seq_start
      <4> SUFFICES ASSUME NEW i \in 1..N-1, toClient'[i].kind = "init"
            PROVE  /\ phase # "new"
                   /\ toClient'[i].bytes[1] * 7 + toClient'[i].bytes[2] - 13
                        = seq_start
        BY <1>2
      <4> QED
        BY <1>2, <2>1 DEF Uncrossed, Answers
    <3>3. \A i \in DOMAIN toClient' : toClient'[i].kind = "account" =>
       /\ toClient'[i].bytes[1] = seq_start
       /\ \A j \in DOMAIN toClient' : toClient'[j].kind = "ping" => i < j
      <4> SUFFICES ASSUME NEW i \in 1..N-1, toClient'[i].kind = "account"
            PROVE  /\ toClient'[i].bytes[1] = seq_start
                   /\ \A j \in 1..N-1 : toClient'[j].kind = "ping" => i < j
        BY <1>2
      <4>1. /\ toClient[i+1].bytes[1] = seq_start
            /\ \A j \in 1..N : toClient[j].kind = "ping" => i + 1 < j
        BY <1>2, <2>1 DEF Uncrossed, Answers, Pinged
      <4>2. \A j \in 1..N-1 : toClient'[j].kind = "ping" => i + 1 < j + 1
        BY <1>2, <4>1
      <4> QED
        BY <1>2, <4>1, <4>2
    <3> QED
      BY <1>1, <2>1, <3>1, <3>2, <3>3 DEF Uncrossed, Answers, Pinged, Ponged
  <2>5. OneQuestion("init", "init", "hello")'
    BY <1>1, <1>2, <1>4, <1>5, <1>6, <2>1 DEF Uncrossed, OneQuestion
  <2>6. OneQuestion("request", "account", "waits")'
    BY <1>1, <1>2, <1>4, <1>5, <1>6, <2>1 DEF Uncrossed, OneQuestion
  <2>7. Knows'
    <3>1. CASE m.kind = "init"
      <4>1. /\ toServer = <<>> /\ phase # "new"
            /\ m.bytes[1] * 7 + m.bytes[2] - 13 = seq_start
        BY <1>2, <2>1, <3>1 DEF Uncrossed, Answers
      <4>2. InForce(0)' = seq_start /\ Len(toServer') = 0
        BY <1>1, <4>1 DEF InForce
      <4>3. Len(toServer)' = 0 /\ InForce(Len(toServer))' = seq_start
        BY <1>1, <4>1 DEF InForce
      <4> QED
        BY <1>1, <1>6, <3>1, <4>1, <4>3 DEF Knows
    <3>2. CASE m.kind = "account"
      <4>1. toServer = <<>> /\ m.bytes[1] = seq_start /\ peer.mode = "waits"
        BY <1>2, <2>1, <3>2 DEF Uncrossed, Answers, OneQuestion
      <4>2. phase # "new"
        BY <2>1, <4>1 DEF Uncrossed, Knows
      <4>3. Len(toServer)' = 0 /\ InForce(Len(toServer))' = seq_start
        BY <1>1, <4>1 DEF InForce
      <4> QED
        BY <1>1, <1>6, <3>2, <4>1, <4>2, <4>3 DEF Knows
    <3>3. CASE m.kind = "ping"
      <4>1. peer' = peer /\ peer.mode \notin {"free", "waits"}
        BY <1>5, <3>3
      <4> QED
        BY <1>1, <2>1, <4>1 DEF Uncrossed, Knows
    <3> QED
      BY <1>4, <3>1, <3>2, <3>3
  <2> QED
    BY <1>1, <2>1, <2>2, <2>3, <2>4, <2>5, <2>6, <2>7 DEF Uncrossed
<1> QED
  BY <1>1, <1>7, <1>8 DEF SequenceInv

\* A ping brings a new start, and its pong carries it.
LEMMA ReceivesPing ==
  ASSUME SequenceInv, ClientReceives,
         Head(toClient).kind = "ping", peer.mode \in {"free", "waits"}
  PROVE  SequenceInv'
<1> PICK m : m = Head(toClient)
  OBVIOUS
<1> PICK N : N = Len(toClient)
  OBVIOUS
<1> PICK L : L = Len(toServer)
  OBVIOUS
<1> PICK s : s = m.bytes[1] - m.bytes[2]
  OBVIOUS
<1> PICK n : n = s + peer.seq
  OBVIOUS
<1>1. /\ toClient # <<>> /\ toClient' = Tail(toClient)
      /\ UNCHANGED <<phase, seq_start, upcoming_seq_start, seq, needpong,
                     queue, refused, crossed>>
  BY DEF ClientReceives, starts
<1>2. /\ toClient' \in Seq(Downlink) /\ m = toClient[1] /\ m \in Downlink
      /\ N \in Nat \ {0} /\ DOMAIN toClient = 1..N /\ DOMAIN toClient' = 1..N-1
      /\ \A i \in 1..N-1 : toClient'[i] = toClient[i+1] /\ i + 1 \in 1..N
                           /\ i + 1 # 1
  BY <1>1, ReceiveStep
<1>3. LinkTypes
  BY DEF SequenceInv
<1>4. m.kind = "ping" /\ s \in Int
  BY <1>2 DEF Downlink
<1>5. peer' = [peer EXCEPT !.start = s, !.seq = (peer.seq + 1) % Wrap]
  BY <1>4 DEF ClientReceives, FromUpdate
<1>6. toServer' = Append(toServer, [kind |-> "pong", number |-> n])
  BY <1>4 DEF ClientReceives, FromUpdate, Sent
<1>7. /\ peer'.start = s /\ peer'.mode = peer.mode
      /\ peer'.seq = (peer.seq + 1) % Wrap
      /\ peer' \in [start : Int, seq : 0..Wrap-1,
                    mode : {"new", "hello", "free", "waits"}]
      /\ n \in Int
  <2>1. (peer.seq + 1) % Wrap \in 0..Wrap-1
    BY <1>3, CountOn
  <2>2. peer.seq \in Int /\ n \in Int
    BY <1>3, <1>4, SequenceAssumption DEF LinkTypes
  <2> QED
    BY <1>3, <1>4, <1>5, <2>1, <2>2 DEF LinkTypes
<1>8. /\ toServer' \in Seq(Uplink)
      /\ L \in Nat /\ Len(toServer') = L + 1
      /\ DOMAIN toServer = 1..L /\ DOMAIN toServer' = 1..L+1
      /\ \A i \in 1..L : toServer'[i] = toServer[i]
      /\ toServer'[L + 1] = [kind |-> "pong", number |-> n]
  BY <1>6, <1>7, SendStep
<1>9. LinkTypes'
  BY <1>1, <1>2, <1>3, <1>7, <1>8 DEF LinkTypes
<1>10. ASSUME phase' # "closed", ~crossed' PROVE ~refused' /\ Uncrossed'
  <2>1. ~refused /\ Uncrossed
    BY <1>1, <1>10 DEF SequenceInv
  <2>2. /\ needpong /\ s = upcoming_seq_start
        /\ \A j \in 2..N : toClient[j].kind # "ping"
        /\ \A j \in 1..L : toServer[j].kind # "pong"
        /\ \A j \in DOMAIN queue : queue[j] # "pong"
    <3>1. 1 \in DOMAIN toClient /\ Pinged(1)
      BY <1>2, <1>4 DEF Pinged
    <3>2. toClient[1].bytes[1] - toClient[1].bytes[2] = upcoming_seq_start
          /\ needpong /\ (\A j \in DOMAIN toClient : Pinged(j) => 1 = j)
          /\ (\A j \in DOMAIN toServer : ~Ponged(j))
          /\ (\A j \in DOMAIN queue : queue[j] # "pong")
      BY <2>1, <3>1 DEF Uncrossed, OnePing
    <3>3. \A j \in 2..N : toClient[j].kind # "ping"
      BY <1>2, <3>2 DEF Pinged
    <3> QED
      BY <1>2, <1>8, <3>2, <3>3 DEF Ponged
  <2>3. \A j \in 1..N : toClient[j].kind = "ping"
    <3>1. \A j \in 1..N : toClient[j].kind \notin {"init", "account"}
      BY <1>2, <1>4, <2>1 DEF Uncrossed, Answers, Pinged, OneQuestion
    <3>2. \A j \in 1..N : toClient[j] \in Downlink
      BY <1>2, <1>3 DEF LinkTypes
    <3> QED
      BY <3>1, <3>2 DEF Downlink
  <2>4. DOMAIN toClient' = {}
    BY <1>2, <2>2, <2>3
  <2>5. \A i \in 1..L : InForce(i)' = seq_start /\ InForce(i) = seq_start
    <3> SUFFICES ASSUME NEW i \in 1..L
                 PROVE  InForce(i)' = seq_start /\ InForce(i) = seq_start
      OBVIOUS
    <3>1. \A j \in 1..i : ~Ponged(j)
      BY <1>8, <2>2 DEF Ponged
    <3>2. \A j \in 1..i : ~Ponged(j)'
      BY <1>8, <2>2 DEF Ponged
    <3> QED
      BY <1>1, <3>1, <3>2 DEF InForce
  <2>6. InForce(L+1)' = s
    BY <1>1, <1>8, <2>2 DEF InForce, Ponged
  <2>7. InStep'
    <3>1. peer.seq = (seq + L) % Wrap
      BY <2>1 DEF Uncrossed, InStep
    <3>2. peer'.seq = (seq + (L + 1)) % Wrap
      <4>1. (((seq + L) % Wrap) + 1) % Wrap = (seq + L + 1) % Wrap
        BY <1>3, <1>8, CountOn
      <4>2. seq + L + 1 = seq + (L + 1)
        BY <1>3, <1>8 DEF LinkTypes
      <4> QED
        BY <1>7, <3>1, <4>1, <4>2
    <3>3. ASSUME NEW i \in 1..L+1, toServer'[i].kind # "init"
          PROVE  toServer'[i].number = InForce(i)' + ((seq + i - 1) % Wrap)
      <4>1. CASE i \in 1..L
        BY <1>8, <2>1, <2>5, <3>3, <4>1 DEF Uncrossed, InStep
      <4>2. CASE i = L + 1
        <5>1. toServer'[i].number = n
          BY <1>8, <4>2
        <5>2. seq + i - 1 = seq + L
          BY <1>3, <1>8, <4>2 DEF LinkTypes
        <5> QED
          BY <2>6, <3>1, <4>2, <5>1, <5>2
      <4> QED
        BY <1>8, <4>1, <4>2
    <3> QED
      BY <1>1, <1>8, <3>2, <3>3 DEF InStep
  <2>8. OnePing'
    <3>1. \A i \in 1..L+1 : toServer'[i].kind = "pong" => i = L + 1
      <4>1. \A i \in 1..L+1 : i \in 1..L \/ i = L + 1
        BY <1>8
      <4>2. \A i \in 1..L : toServer'[i].kind # "pong"
        BY <1>8, <2>2 DEF Ponged
      <4> QED
        BY <4>1, <4>2
    <3>2. \A i, j \in 1..L+1 :
            toServer'[i].kind = "pong" /\ toServer'[j].kind = "pong" => i = j
      BY <3>1
    <3>3. needpong' /\ \A j \in DOMAIN queue' : queue'[j] # "pong"
      BY <1>1, <2>2
    <3>4. DOMAIN toServer' = 1..L+1
      BY <1>8
    <3> QED
      BY <2>4, <3>2, <3>3, <3>4 DEF OnePing, Pinged, Ponged
  <2>9. Answers'
    <3>1. \A i \in 1..L+1 : toServer'[i].kind \in {"init", "request"} =>
            \A j \in 1..L+1 : j > i => toServer'[j].kind = "pong"
      <4> SUFFICES ASSUME NEW i \in 1..L+1, toServer'[i].kind \in {"init", "request"},
                          NEW j \in 1..L+1, j > i
                   PROVE  toServer'[j].kind = "pong"
        OBVIOUS
      <4>1. CASE j = L + 1
        BY <1>8, <4>1
      <4>2. CASE j \in 1..L
        <5>1. i \in 1..L
          BY <1>8, <4>2
        <5> QED
          BY <1>8, <2>1, <4>2, <5>1 DEF Uncrossed, Answers, Ponged
      <4> QED
        BY <1>8, <4>1, <4>2
    <3>2. \A i \in DOMAIN queue : queue[i] \in {"init", "request"} =>
            \A j \in 1..L+1 : toServer'[j].kind = "pong"
      BY <1>8, <2>1 DEF Uncrossed, Answers, Ponged
    <3> QED
      BY <1>1, <1>8, <2>4, <3>1, <3>2 DEF Answers, Ponged
  <2>10. Knows'
    <3>1. Len(toServer)' = L + 1 /\ InForce(Len(toServer))' = s
      BY <1>8, <2>6
    <3> QED
      <4>1. phase # "new" /\ \A i \in 1..L+1 : toServer'[i].kind # "init"
        <5>1. phase # "new" /\ \A i \in DOMAIN toServer : toServer[i].kind # "init"
          BY <2>1 DEF Uncrossed, Knows
        <5>2. \A i \in 1..L+1 : i \in 1..L \/ i = L + 1
          BY <1>8
        <5>3. \A i \in 1..L : toServer'[i].kind # "init"
          BY <1>8, <5>1
        <5>4. toServer'[L + 1].kind # "init"
          BY <1>8
        <5> QED
          BY <5>1, <5>2, <5>3, <5>4
      <4> QED
        BY <1>1, <1>7, <1>8, <3>1, <4>1 DEF Knows
  <2>11. /\ OneQuestion("init", "init", "hello")'
         /\ OneQuestion("request", "account", "waits")'
    <3>1. \A i \in 1..L+1 : /\ toServer'[i].kind # "init"
                             /\ toServer'[i].kind = "request" => i \in 1..L
      BY <1>8, <2>1 DEF Uncrossed, Knows
    <3>2. OneQuestion("init", "init", "hello")'
      BY <1>1, <1>7, <1>8, <2>1, <2>4, <3>1 DEF Uncrossed, OneQuestion
    <3>3. OneQuestion("request", "account", "waits")'
      BY <1>1, <1>7, <1>8, <2>1, <2>4, <3>1 DEF Uncrossed, OneQuestion
    <3> QED
      BY <3>2, <3>3
  <2> QED
    BY <1>1, <2>1, <2>7, <2>8, <2>9, <2>10, <2>11 DEF Uncrossed
<1> QED
  BY <1>1, <1>9, <1>10 DEF SequenceInv

-----------------------------------------------------------------------------
\* The server's steps.

\* What arrives has the number that is expected, and goes to the queue.
LEMMA ExecuteKeeps ==
  ASSUME SequenceInv, Execute
  PROVE  SequenceInv'
<1> PICK packet : packet = Head(toServer)
  OBVIOUS
<1> PICK L : L = Len(toServer)
  OBVIOUS
<1> PICK Q : Q = Len(queue)
  OBVIOUS
<1>1. /\ phase # "closed" /\ toServer # <<>> /\ toServer' = Tail(toServer)
      /\ seq_start' = IF packet.kind = "pong" THEN upcoming_seq_start ELSE seq_start
      /\ seq' = (seq + 1) % Wrap
      /\ UNCHANGED <<upcoming_seq_start, needpong, peer, toClient, crossed>>
      /\ IF packet.kind # "init" /\ packet.number # seq_start' + seq
         THEN phase' = "closed" /\ refused' = TRUE /\ UNCHANGED queue
         ELSE queue' = Append(queue, packet.kind) /\ UNCHANGED <<phase, refused>>
  BY DEF Execute, GenSequence
<1>2. LinkTypes
  BY DEF SequenceInv
<1>3. /\ toServer' \in Seq(Uplink) /\ packet = toServer[1] /\ packet \in Uplink
      /\ L \in Nat \ {0} /\ DOMAIN toServer = 1..L /\ DOMAIN toServer' = 1..L-1
      /\ Len(toServer') = L - 1
      /\ \A i \in 1..L-1 : toServer'[i] = toServer[i+1]
  <2>1. toServer \in Seq(Uplink)
    BY <1>2 DEF LinkTypes
  <2> QED
    BY <1>1, <2>1, TailOf
<1>4. \A i \in 1..L-1 : i + 1 \in 1..L /\ i + 1 # 1
  BY <1>3
<1>5. packet.kind \in {"init", "pong", "request", "other"}
  BY <1>3 DEF Uplink
<1>6. /\ queue \in Seq(Arrivals) /\ packet.kind \in Arrivals
      /\ Append(queue, packet.kind) \in Seq(Arrivals) /\ Q \in Nat
      /\ DOMAIN queue = 1..Q /\ DOMAIN Append(queue, packet.kind) = 1..Q+1
      /\ \A i \in 1..Q : Append(queue, packet.kind)[i] = queue[i]
      /\ Append(queue, packet.kind)[Q + 1] = packet.kind
  <2>1. queue \in Seq(Arrivals) /\ packet.kind \in Arrivals
    BY <1>2, <1>5 DEF LinkTypes, Arrivals
  <2> QED
    BY <2>1, AppendOf
<1>7. LinkTypes'
  <2>1. seq' \in 0..Wrap-1 /\ seq_start' \in Int /\ queue' \in Seq(Arrivals)
    BY <1>1, <1>2, <1>6, CountOn DEF LinkTypes
  <2>2. phase' \in {"new", "ready", "closed"} /\ refused' \in BOOLEAN
    BY <1>1, <1>2 DEF LinkTypes
  <2> QED
    BY <1>1, <1>2, <1>3, <2>1, <2>2 DEF LinkTypes
<1>8. ASSUME ~crossed PROVE ~refused /\ Uncrossed
  BY <1>1, <1>8 DEF SequenceInv
<1>9. ASSUME ~crossed, packet.kind # "init" PROVE packet.number = seq_start' + seq
  <2>1. 1 \in DOMAIN toServer /\ toServer[1].kind # "init"
    BY <1>3, <1>9
  <2>2. packet.number = InForce(1) + ((seq + 1 - 1) % Wrap)
    BY <1>3, <1>8, <1>9, <2>1 DEF Uncrossed, InStep
  <2>3. seq + 1 - 1 = seq /\ seq % Wrap = seq
    BY <1>2, CountOn
  <2>4. InForce(1) = seq_start'
    BY <1>1, <1>3 DEF InForce, Ponged
  <2> QED
    BY <2>2, <2>3, <2>4
<1>10. ASSUME phase' # "closed", ~crossed' PROVE ~refused' /\ Uncrossed'
  <2>1. ~refused /\ Uncrossed /\ ~crossed
    BY <1>1, <1>8, <1>10
  <2>2. /\ queue' = Append(queue, packet.kind) /\ UNCHANGED <<phase, refused>>
    BY <1>1, <1>10
  <2>3. /\ DOMAIN queue = 1..Q /\ DOMAIN queue' = 1..Q+1
        /\ \A i \in 1..Q : queue'[i] = queue[i]
        /\ queue'[Q + 1] = packet.kind
        /\ Q \in Nat /\ \A i \in 1..Q+1 : i \in 1..Q \/ i = Q + 1
    BY <1>6, <2>2
  <2>4. \A i \in DOMAIN toClient : toClient[i].kind = "ping"
    <3>1. \A i \in DOMAIN toClient : toClient[i].kind # "ping" => toServer = <<>>
      BY <2>1 DEF Uncrossed, Answers
    <3> QED
      BY <1>1, <3>1
  <2>5. \A i \in 0..L-1 : InForce(i)' = InForce(i+1)
    <3> SUFFICES ASSUME NEW i \in 0..L-1 PROVE InForce(i)' = InForce(i+1)
      OBVIOUS
    <3>1. \A j \in 1..i : Ponged(j)' <=> Ponged(j+1)
      BY <1>3 DEF Ponged
    <3>2. CASE packet.kind = "pong"
      <4>1. 1 \in 1..i+1 /\ Ponged(1)
        BY <1>3, <3>2 DEF Ponged
      <4>2. InForce(i+1) = upcoming_seq_start
        BY <4>1 DEF InForce
      <4>3. seq_start' = upcoming_seq_start /\ upcoming_seq_start' = upcoming_seq_start
        BY <1>1, <3>2
      <4> QED
        BY <4>2, <4>3 DEF InForce
    <3>3. CASE packet.kind # "pong"
      <4>1. seq_start' = seq_start /\ upcoming_seq_start' = upcoming_seq_start
        BY <1>1, <3>3
      <4>2. ~Ponged(1)
        BY <1>3, <3>3 DEF Ponged
      <4>3. \A j \in 1..i+1 : Ponged(j) => j - 1 \in 1..i /\ (j - 1) + 1 = j
        <5> SUFFICES ASSUME NEW j \in 1..i+1, Ponged(j)
                     PROVE  j - 1 \in 1..i /\ (j - 1) + 1 = j
          OBVIOUS
        <5>1. j # 1
          BY <4>2
        <5> QED
          BY <5>1
      <4>4. (\E j \in 1..i : Ponged(j)') <=> (\E j \in 1..i+1 : Ponged(j))
        <5>1. ASSUME NEW j \in 1..i, Ponged(j)' PROVE \E x \in 1..i+1 : Ponged(x)
          <6>1. j + 1 \in 1..i+1 /\ Ponged(j+1)
            BY <3>1, <5>1
          <6> QED BY <6>1
        <5>2. ASSUME NEW j \in 1..i+1, Ponged(j) PROVE \E x \in 1..i : Ponged(x)'
          <6> PICK x : x = j - 1
            OBVIOUS
          <6>1. x \in 1..i /\ Ponged(x+1)
            BY <4>3, <5>2
          <6>2. Ponged(x)'
            BY <3>1, <6>1
          <6> QED BY <6>1, <6>2
        <5> QED
          BY <5>1, <5>2
      <4> QED
        BY <4>1, <4>4 DEF InForce
    <3> QED
      BY <3>2, <3>3
  <2>6. InStep'
    <3>1. peer.seq = (seq + L) % Wrap
      BY <2>1 DEF Uncrossed, InStep
    <3>2. \A m \in Nat : (seq' + m) % Wrap = (seq + 1 + m) % Wrap
      BY <1>1, <1>2, CountOn
    <3>3. peer.seq = (seq' + (L - 1)) % Wrap
      <4>1. L - 1 \in Nat /\ seq + 1 + (L - 1) = seq + L
        <5>1. seq \in Nat
          BY <1>2, CountOn
        <5> QED
          BY <1>3, <5>1
      <4> QED
        BY <3>1, <3>2, <4>1
    <3>4. ASSUME NEW i \in 1..L-1, toServer'[i].kind # "init"
          PROVE  toServer'[i].number = InForce(i)' + ((seq' + i - 1) % Wrap)
      <4>1. i + 1 \in DOMAIN toServer /\ toServer[i+1].kind # "init"
        BY <1>3, <1>4, <3>4
      <4>2. toServer[i+1].number = InForce(i+1) + ((seq + (i + 1) - 1) % Wrap)
        BY <2>1, <4>1 DEF Uncrossed, InStep
      <4>3. InForce(i)' = InForce(i+1)
        BY <1>3, <2>5
      <4>4. /\ i - 1 \in Nat /\ seq' + i - 1 = seq' + (i - 1)
            /\ seq + 1 + (i - 1) = seq + (i + 1) - 1
        BY <1>2, <1>3, <1>7, CountOn DEF LinkTypes
      <4>5. (seq' + i - 1) % Wrap = (seq + (i + 1) - 1) % Wrap
        BY <3>2, <4>4
      <4> QED
        BY <1>3, <4>2, <4>3, <4>5
    <3> QED
      BY <1>1, <1>3, <3>3, <3>4 DEF InStep
  <2>7. OnePing'
    <3>1. ASSUME packet.kind = "pong"
          PROVE  /\ needpong /\ \A j \in 1..L-1 : toServer'[j].kind # "pong"
                 /\ \A j \in 1..Q : queue[j] # "pong"
                 /\ \A j \in DOMAIN toClient : toClient[j].kind # "ping"
      <4>1. 1 \in DOMAIN toServer /\ Ponged(1)
        BY <1>3, <3>1 DEF Ponged
      <4>2. needpong /\ (\A j \in DOMAIN toServer : Ponged(j) => 1 = j)
            /\ (\A j \in DOMAIN queue : queue[j] # "pong")
            /\ (\A j \in DOMAIN toClient : ~Pinged(j))
        BY <2>1, <4>1 DEF Uncrossed, OnePing
      <4>3. \A j \in 1..L-1 : toServer[j+1].kind # "pong"
        BY <1>3, <1>4, <4>2 DEF Ponged
      <4> QED
        BY <1>3, <2>3, <4>2, <4>3 DEF Pinged
    <3>2. \A i \in DOMAIN toClient : Pinged(i) =>
             /\ needpong
             /\ toClient[i].bytes[1] - toClient[i].bytes[2] = upcoming_seq_start
             /\ \A j \in DOMAIN toClient : Pinged(j) => i = j
             /\ \A j \in 1..L-1 : ~Ponged(j)'
             /\ \A j \in 1..Q+1 : queue'[j] # "pong"
      <4> SUFFICES ASSUME NEW i \in DOMAIN toClient, Pinged(i)
            PROVE  /\ needpong
                   /\ toClient[i].bytes[1] - toClient[i].bytes[2] = upcoming_seq_start
                   /\ \A j \in DOMAIN toClient : Pinged(j) => i = j
                   /\ \A j \in 1..L-1 : ~Ponged(j)'
                   /\ \A j \in 1..Q+1 : queue'[j] # "pong"
        OBVIOUS
      <4>1. /\ needpong
            /\ toClient[i].bytes[1] - toClient[i].bytes[2] = upcoming_seq_start
            /\ \A j \in DOMAIN toClient : Pinged(j) => i = j
            /\ \A j \in DOMAIN toServer : ~Ponged(j)
            /\ \A j \in DOMAIN queue : queue[j] # "pong"
        BY <2>1 DEF Uncrossed, OnePing
      <4>2. packet.kind # "pong"
        BY <1>3, <4>1 DEF Ponged
      <4>3. \A j \in 1..L-1 : ~Ponged(j)'
        BY <1>3, <1>4, <4>1 DEF Ponged
      <4>4. \A j \in 1..Q+1 : queue'[j] # "pong"
        BY <2>3, <4>1, <4>2
      <4> QED
        BY <4>1, <4>3, <4>4
    <3>3. ASSUME NEW i \in 1..L-1, Ponged(i)'
          PROVE  /\ needpong /\ \A j \in 1..L-1 : Ponged(j)' => i = j
                 /\ \A j \in 1..Q+1 : queue'[j] # "pong"
      <4>1. i + 1 \in DOMAIN toServer /\ Ponged(i+1)
        BY <1>3, <1>4, <3>3 DEF Ponged
      <4>2. needpong /\ (\A j \in DOMAIN toServer : Ponged(j) => i + 1 = j)
            /\ (\A j \in DOMAIN queue : queue[j] # "pong")
        BY <2>1, <4>1 DEF Uncrossed, OnePing
      <4>3. packet.kind # "pong"
        BY <1>3, <1>4, <4>2 DEF Ponged
      <4>4. \A j \in 1..L-1 : Ponged(j)' => i + 1 = j + 1
        BY <1>3, <1>4, <4>2 DEF Ponged
      <4>5. \A j \in 1..L-1 : i + 1 = j + 1 => i = j
        BY <1>3
      <4>6. \A j \in 1..Q+1 : queue'[j] # "pong"
        BY <2>3, <4>2, <4>3
      <4> QED
        BY <4>2, <4>4, <4>5, <4>6
    <3>4. ASSUME NEW i \in 1..Q+1, queue'[i] = "pong"
          PROVE  needpong /\ \A j \in 1..Q+1 : queue'[j] = "pong" => i = j
      <4>1. CASE i \in 1..Q
        <5>1. needpong /\ (\A j \in DOMAIN queue : queue[j] = "pong" => i = j)
          BY <2>1, <2>3, <3>4, <4>1 DEF Uncrossed, OnePing
        <5>2. packet.kind # "pong"
          BY <2>3, <3>1, <3>4, <4>1
        <5> QED
          BY <2>3, <5>1, <5>2
      <4>2. CASE i = Q + 1
        BY <2>3, <3>1, <3>4, <4>2
      <4> QED
        BY <2>3, <4>1, <4>2
    <3> QED
      BY <1>1, <1>3, <2>3, <3>2, <3>3, <3>4 DEF OnePing, Pinged
  <2>8. Answers'
    <3>1. \A i \in 1..L-1 : toServer'[i].kind \in {"init", "request"} =>
            \A j \in 1..L-1 : j > i => Ponged(j)'
      <4> SUFFICES ASSUME NEW i \in 1..L-1, toServer'[i].kind \in {"init", "request"},
                          NEW j \in 1..L-1, j > i
                   PROVE  Ponged(j)'
        OBVIOUS
      <4>1. Ponged(j+1)
        <5>1. i + 1 \in DOMAIN toServer /\ j + 1 \in DOMAIN toServer /\ j + 1 > i + 1
          BY <1>3, <1>4
        <5> QED
          BY <1>3, <2>1, <5>1 DEF Uncrossed, Answers
      <4> QED
        BY <1>3, <4>1 DEF Ponged
    <3>2. ASSUME NEW i \in 1..Q+1, queue'[i] \in {"init", "request"},
                 NEW j \in 1..L-1
          PROVE  Ponged(j)'
      <4>1. j + 1 \in DOMAIN toServer /\ j + 1 > 1 /\ 1 \in DOMAIN toServer
        BY <1>3, <1>4
      <4>2. Ponged(j+1)
        <5>1. CASE i \in 1..Q
          BY <2>1, <2>3, <3>2, <4>1, <5>1 DEF Uncrossed, Answers
        <5>2. CASE i = Q + 1
          BY <1>3, <2>1, <2>3, <3>2, <4>1, <5>2 DEF Uncrossed, Answers
        <5> QED
          BY <2>3, <5>1, <5>2
      <4> QED
        BY <1>3, <4>2 DEF Ponged
    <3> QED
      BY <1>1, <1>3, <2>3, <2>4, <3>1, <3>2 DEF Answers
  <2>9. Knows'
    <3>1. InForce(L-1)' = InForce(L)
      <4>1. L - 1 \in 0..L-1 /\ (L - 1) + 1 = L
        BY <1>3
      <4> QED
        BY <2>5, <4>1
    <3>2. peer.mode # "new"
      BY <1>1, <2>1 DEF Uncrossed, Knows
    <3>3. peer.mode = "hello" => \A i \in 1..L-1 : toServer'[i].kind = "init"
      BY <1>3, <1>4, <2>1 DEF Uncrossed, Knows
    <3>4. ASSUME peer.mode \in {"free", "waits"}
          PROVE  /\ phase # "new" /\ \A i \in 1..L-1 : toServer'[i].kind # "init"
                 /\ peer.start = InForce(L)
      BY <1>3, <1>4, <2>1, <2>4, <3>4 DEF Uncrossed, Knows
    <3>5. InForce(Len(toServer))' = InForce(L) 
      BY <1>3, <3>1
    <3> QED
      BY <1>1, <1>3, <2>2, <3>2, <3>3, <3>4, <3>5 DEF Knows
  <2>10. ASSUME NEW asks \in {"init", "request"}, NEW says \in {"init", "account"},
                NEW mode, OneQuestion(asks, says, mode)
         PROVE  OneQuestion(asks, says, mode)'
    <3>1. ASSUME NEW i \in 1..L-1, toServer'[i].kind = asks
          PROVE  /\ peer.mode = mode
                 /\ \A j \in 1..L-1 : toServer'[j].kind = asks => i = j
                 /\ \A j \in 1..Q+1 : queue'[j] # asks
      <4>1. i + 1 \in DOMAIN toServer /\ toServer[i+1].kind = asks
        BY <1>3, <1>4, <3>1
      <4>2. /\ peer.mode = mode
            /\ \A j \in DOMAIN toServer : toServer[j].kind = asks => i + 1 = j
            /\ \A j \in DOMAIN queue : queue[j] # asks
        BY <2>10, <4>1 DEF OneQuestion
      <4>3. packet.kind # asks
        BY <1>3, <1>4, <4>2
      <4>4. \A j \in 1..L-1 : toServer'[j].kind = asks => i + 1 = j + 1
        BY <1>3, <1>4, <4>2
      <4>5. \A j \in 1..L-1 : i + 1 = j + 1 => i = j
        BY <1>3
      <4> QED
        BY <2>3, <4>2, <4>3, <4>4, <4>5
    <3>2. ASSUME NEW i \in 1..Q+1, queue'[i] = asks
          PROVE  /\ peer.mode = mode
                 /\ \A j \in 1..Q+1 : queue'[j] = asks => i = j
      <4>1. CASE packet.kind = asks
        <5>1. 1 \in DOMAIN toServer /\ toServer[1].kind = asks
          BY <1>3, <4>1
        <5>2. peer.mode = mode /\ \A j \in DOMAIN queue : queue[j] # asks
          BY <2>10, <5>1 DEF OneQuestion
        <5> QED
          BY <2>3, <3>2, <5>2
      <4>2. CASE packet.kind # asks
        <5>1. i \in DOMAIN queue /\ queue[i] = asks
          BY <2>3, <3>2, <4>2
        <5>2. peer.mode = mode /\ \A j \in DOMAIN queue : queue[j] = asks => i = j
          BY <2>10, <5>1 DEF OneQuestion
        <5> QED
          BY <2>3, <4>2, <5>2
      <4> QED
        BY <4>1, <4>2
    <3>3. \A i \in DOMAIN toClient : toClient[i].kind # says
      BY <2>4
    <3> QED
      BY <1>1, <1>3, <2>3, <3>1, <3>2, <3>3 DEF OneQuestion
  <2>11. /\ OneQuestion("init", "init", "hello")'
         /\ OneQuestion("request", "account", "waits")'
    BY <2>1, <2>10 DEF Uncrossed
  <2> QED
    BY <2>1, <2>2, <2>6, <2>7, <2>8, <2>9, <2>11 DEF Uncrossed
<1>11. refused' => crossed'
  <2>1. CASE crossed
    BY <1>1, <2>1
  <2>2. CASE ~crossed
    BY <1>1, <1>8, <1>9, <2>2
  <2> QED
    BY <2>1, <2>2
<1> QED
  BY <1>7, <1>10, <1>11 DEF SequenceInv

\* What is handled leaves the queue; what is meant for a character comes
\* again at its end, as another kind.
LEMMA QueueStep ==
  ASSUME SequenceInv, queue # <<>>,
         queue' = IF Head(queue) = "other" THEN Append(Tail(queue), "again")
                                           ELSE Tail(queue)
  PROVE  /\ queue' \in Seq(Arrivals) /\ Head(queue) \in Arrivals
         /\ 1 \in DOMAIN queue /\ queue[1] = Head(queue)
         /\ \A i \in DOMAIN queue' :
              queue'[i] = "again" \/ /\ i + 1 \in DOMAIN queue /\ i + 1 # 1
                                     /\ queue'[i] = queue[i+1]
         /\ \A i, j \in DOMAIN queue' : i + 1 = j + 1 => i = j
<1> PICK Q : Q = Len(queue)
  OBVIOUS
<1> PICK t : t = Tail(queue)
  OBVIOUS
<1>1. queue \in Seq(Arrivals) /\ "again" \in Arrivals
  BY DEF SequenceInv, LinkTypes, Arrivals
<1>2. /\ t \in Seq(Arrivals) /\ Head(queue) = queue[1] /\ Head(queue) \in Arrivals
      /\ Q \in Nat \ {0} /\ Len(t) = Q - 1
      /\ DOMAIN queue = 1..Q /\ DOMAIN t = 1..Q-1
      /\ \A i \in 1..Q-1 : t[i] = queue[i+1]
  BY <1>1, TailOf
<1>3. /\ Append(t, "again") \in Seq(Arrivals)
      /\ DOMAIN Append(t, "again") = 1..Len(t)+1
      /\ \A i \in 1..Len(t) : Append(t, "again")[i] = t[i]
      /\ Append(t, "again")[Len(t) + 1] = "again"
  BY <1>1, <1>2, AppendOf
<1>4. \A i \in 1..Q-1 : i + 1 \in 1..Q /\ i + 1 # 1
  BY <1>2
<1>5. CASE Head(queue) = "other"
  <2>1. queue' = Append(t, "again") /\ Len(t) + 1 = Q
    BY <1>2, <1>5
  <2>2. /\ queue' \in Seq(Arrivals) /\ DOMAIN queue' = 1..Q
        /\ \A i \in 1..Q-1 : queue'[i] = t[i]
        /\ queue'[Q] = "again"
    BY <1>2, <1>3, <2>1
  <2>3. \A i \in 1..Q : i = Q \/ i \in 1..Q-1
    BY <1>2
  <2> QED
    BY <1>2, <1>4, <2>2, <2>3
<1>6. CASE Head(queue) # "other"
  BY <1>2, <1>4, <1>6
<1> QED
  BY <1>5, <1>6

\* A handled packet leaves what was said of the questions still unanswered.
LEMMA QuestionsLeft ==
  ASSUME SequenceInv, queue # <<>>,
         queue' = IF Head(queue) = "other" THEN Append(Tail(queue), "again")
                                           ELSE Tail(queue),
         UNCHANGED <<toServer, toClient, peer>>,
         NEW asks \in {"init", "request"}, NEW says, NEW mode,
         OneQuestion(asks, says, mode)
  PROVE  OneQuestion(asks, says, mode)'
<1>1. /\ \A i \in DOMAIN queue' :
              queue'[i] = "again" \/ /\ i + 1 \in DOMAIN queue
                                     /\ queue'[i] = queue[i+1]
      /\ \A i, j \in DOMAIN queue' : i + 1 = j + 1 => i = j
  BY QueueStep
<1>2. \A i \in DOMAIN queue' : queue'[i] = asks =>
        i + 1 \in DOMAIN queue /\ queue[i+1] = asks
  BY <1>1
<1>3. ASSUME NEW i \in DOMAIN queue', queue'[i] = asks
      PROVE  /\ peer.mode = mode
             /\ \A j \in DOMAIN queue' : queue'[j] = asks => i = j
             /\ \A j \in DOMAIN toClient : toClient[j].kind # says
  <2>1. i + 1 \in DOMAIN queue /\ queue[i+1] = asks
    BY <1>2, <1>3
  <2>2. /\ peer.mode = mode
        /\ \A j \in DOMAIN queue : queue[j] = asks => i + 1 = j
        /\ \A j \in DOMAIN toClient : toClient[j].kind # says
    BY <2>1 DEF OneQuestion
  <2>3. \A j \in DOMAIN queue' : queue'[j] = asks => i + 1 = j + 1
    BY <1>2, <2>2
  <2> QED
    BY <1>1, <2>2, <2>3
<1>4. ASSUME NEW i \in DOMAIN toServer, toServer[i].kind = asks
      PROVE  /\ peer.mode = mode
             /\ \A j \in DOMAIN toServer : toServer[j].kind = asks => i = j
             /\ \A j \in DOMAIN queue' : queue'[j] # asks
             /\ \A j \in DOMAIN toClient : toClient[j].kind # says
  <2>1. \A j \in DOMAIN queue : queue[j] # asks
    BY <1>4 DEF OneQuestion
  <2>2. \A j \in DOMAIN queue' : queue'[j] # asks
    BY <1>2, <2>1
  <2> QED
    BY <1>4, <2>2 DEF OneQuestion
<1>5. \A i \in DOMAIN toClient : toClient[i].kind = says =>
        /\ peer.mode = mode
        /\ \A j \in DOMAIN toClient : toClient[j].kind = says => i = j
  BY DEF OneQuestion
<1> QED
  BY <1>3, <1>4, <1>5 DEF OneQuestion

\* One more on its way to the client.
LEMMA TellStep ==
  ASSUME SequenceInv, NEW m \in Downlink, toClient' = Append(toClient, m)
  PROVE  /\ toClient' \in Seq(Downlink)
         /\ \E N \in Nat : /\ DOMAIN toClient = 1..N /\ DOMAIN toClient' = 1..N+1
                           /\ N + 1 \notin 1..N /\ N + 1 \in 1..N+1
                           /\ \A i \in 1..N+1 : i \in 1..N \/ i = N + 1
                           /\ \A i \in 1..N : i \in 1..N+1 /\ i < N + 1
                                              /\ toClient'[i] = toClient[i]
                           /\ toClient'[N + 1] = m
<1> PICK N : N = Len(toClient)
  OBVIOUS
<1>1. toClient \in Seq(Downlink)
  BY DEF SequenceInv, LinkTypes
<1>2. /\ toClient' \in Seq(Downlink) /\ N \in Nat
      /\ DOMAIN toClient = 1..N /\ DOMAIN toClient' = 1..N+1
      /\ \A i \in 1..N : toClient'[i] = toClient[i]
      /\ toClient'[N + 1] = m
  BY <1>1, AppendOf
<1>3. /\ N + 1 \notin 1..N /\ N + 1 \in 1..N+1
      /\ \A i \in 1..N+1 : i \in 1..N \/ i = N + 1
      /\ \A i \in 1..N : i \in 1..N+1 /\ i < N + 1
  BY <1>2
<1> QED
  BY <1>2, <1>3

\* Nothing is on its way to the server: what was said of it holds of a start
\* given now.
LEMMA QuietLine ==
  ASSUME LinkTypes, LinkTypes', InStep, toServer = <<>>,
         UNCHANGED <<toServer, peer, seq>>
  PROVE  InStep'
<1>1. Len(toServer) = Len(toServer') /\ DOMAIN toServer' = {}
  OBVIOUS
<1> QED
  BY <1>1 DEF InStep

\* What the client makes of the two bytes of an INIT reply is the start.
LEMMA InitBytesGive ==
  ASSUME NEW s \in Int, NEW b \in InitBytes(s)
  PROVE  b \in Int \X Int /\ b[1] * 7 + b[2] - 13 = s
<1>1. PICK x \in Int : b = <<x, s - x * 7 + 13>>
  <2>1. (s + 13) \div 7 \in Int /\ (s - 252 + 13 + 6) \div 7 \in Int
    <3>1. s + 13 \in Int /\ s - 252 + 13 + 6 \in Int /\ 7 \in Nat \ {0}
      OBVIOUS
    <3> QED
      BY <3>1, DivMod
  <2>2. PICK x : /\ x \in {IF (s - 252 + 13 + 6) \div 7 > 0
                           THEN (s - 252 + 13 + 6) \div 7 ELSE 0,
                           (s + 13) \div 7}
                 /\ b = <<x, s - x * 7 + 13>>
    BY DEF InitBytes
  <2>3. x \in Int
    BY <2>1, <2>2
  <2> QED
    BY <2>2, <2>3
<1>2. PICK y \in Int : y = s - x * 7 + 13
  BY <1>1
<1>3. b = <<x, y>> /\ x * 7 + y - 13 = s
  BY <1>1, <1>2
<1> QED
  BY <1>3

\* ... and of the two of a ping.
LEMMA UpdateBytesGive ==
  ASSUME NEW s \in Int, NEW b \in UpdateBytes(s)
  PROVE  b \in Int \X Int /\ b[1] - b[2] = s
<1>1. PICK x \in Int : b = <<x, x - s>>
  BY DEF UpdateBytes
<1> QED
  BY <1>1

\* What rand returns is a number.
LEMMA StartsAreInt == Starts \subseteq Int /\ AccountStarts \subseteq Int
  BY SequenceAssumption

\* The first packet is answered with a start: both sides agree on it.
LEMMA InitKeeps ==
  ASSUME SequenceInv, queue # <<>>, Head(queue) = "init", queue' = Tail(queue),
         InitReply, UNCHANGED <<peer, toServer, seq, refused>>
  PROVE  SequenceInv'
<1> PICK s \in Int : seq_start' = s /\ Tells("init", InitBytes(s))
  BY StartsAreInt DEF InitReply
<1>1. PICK b \in InitBytes(s) :
        /\ phase = "new" /\ phase' = "ready" /\ seq_start' = s
        /\ toClient' = Append(toClient, [kind |-> "init", bytes |-> b])
        /\ UNCHANGED <<upcoming_seq_start, needpong, crossed>>
  BY DEF InitReply, Tells
<1>2. b \in Int \X Int /\ b[1] * 7 + b[2] - 13 = s
  BY InitBytesGive
<1> PICK m : m = [kind |-> "init", bytes |-> b]
  OBVIOUS
<1>3. m \in Downlink /\ m.kind = "init" /\ m.bytes = b
  BY <1>2 DEF Downlink
<1>4. PICK N \in Nat :
        /\ toClient' \in Seq(Downlink)
        /\ DOMAIN toClient = 1..N /\ DOMAIN toClient' = 1..N+1
        /\ N + 1 \notin 1..N /\ N + 1 \in 1..N+1
        /\ \A i \in 1..N+1 : i \in 1..N \/ i = N + 1
        /\ \A i \in 1..N : i \in 1..N+1 /\ i < N + 1 /\ toClient'[i] = toClient[i]
        /\ toClient'[N + 1] = m
  BY <1>1, <1>3, TellStep
<1>5. /\ queue' \in Seq(Arrivals) /\ 1 \in DOMAIN queue /\ queue[1] = "init"
      /\ \A i \in DOMAIN queue' :
           queue'[i] = "again" \/ /\ i + 1 \in DOMAIN queue /\ i + 1 # 1
                                  /\ queue'[i] = queue[i+1]
      /\ \A i, j \in DOMAIN queue' : i + 1 = j + 1 => i = j
  BY QueueStep
<1>6. LinkTypes
  BY DEF SequenceInv
<1>7. LinkTypes'
  BY <1>1, <1>4, <1>5, <1>6 DEF LinkTypes
<1>8. ASSUME phase' # "closed", ~crossed' PROVE ~refused' /\ Uncrossed'
  <2>1. ~refused /\ Uncrossed
    BY <1>1, <1>8 DEF SequenceInv
  <2>2. /\ peer.mode = "hello"
        /\ \A j \in DOMAIN queue : queue[j] = "init" => 1 = j
        /\ \A j \in DOMAIN toClient : toClient[j].kind # "init"
    BY <1>5, <2>1 DEF Uncrossed, OneQuestion
  <2>3. toServer = <<>>
    <3>1. \A j \in DOMAIN toServer : Ponged(j) /\ toServer[j].kind = "init"
      BY <1>5, <2>1, <2>2 DEF Uncrossed, Answers, Knows
    <3>2. DOMAIN toServer = {}
      BY <3>1 DEF Ponged
    <3> QED
      BY <1>6, <3>2, EmptySeq DEF LinkTypes
  <2>4. \A j \in DOMAIN toClient : toClient[j].kind # "account"
    BY <2>1, <2>2 DEF Uncrossed, OneQuestion
  <2>5. \A j \in DOMAIN queue : queue[j] # "request"
    BY <2>1, <2>2 DEF Uncrossed, OneQuestion
  <2>6. \A j \in DOMAIN queue' : queue'[j] \notin {"init", "request"}
    BY <1>5, <2>2, <2>5
  <2>7. InStep'
    BY <1>1, <1>6, <1>7, <2>1, <2>3, QuietLine DEF Uncrossed
  <2>8. DOMAIN toServer' = {}
    BY <2>3
  <2>9. OnePing'
    <3>1. ASSUME NEW i \in 1..N+1, toClient'[i].kind = "ping"
          PROVE  /\ needpong
                 /\ toClient'[i].bytes[1] - toClient'[i].bytes[2] = upcoming_seq_start
                 /\ \A j \in 1..N+1 : toClient'[j].kind = "ping" => i = j
                 /\ \A j \in DOMAIN queue' : queue'[j] # "pong"
      <4>1. i \in 1..N /\ Pinged(i)
        BY <1>3, <1>4, <3>1 DEF Pinged
      <4>2. /\ needpong
            /\ toClient[i].bytes[1] - toClient[i].bytes[2] = upcoming_seq_start
            /\ \A j \in DOMAIN toClient : Pinged(j) => i = j
            /\ \A j \in DOMAIN queue : queue[j] # "pong"
        BY <1>4, <2>1, <4>1 DEF Uncrossed, OnePing
      <4>3. \A j \in 1..N+1 : toClient'[j].kind = "ping" => i = j
        BY <1>3, <1>4, <4>2 DEF Pinged
      <4> QED
        BY <1>4, <1>5, <4>1, <4>2, <4>3
    <3>2. ASSUME NEW i \in DOMAIN queue', queue'[i] = "pong"
          PROVE  needpong /\ \A j \in DOMAIN queue' : queue'[j] = "pong" => i = j
      <4>1. i + 1 \in DOMAIN queue /\ queue[i+1] = "pong"
        BY <1>5, <3>2
      <4>2. needpong /\ \A j \in DOMAIN queue : queue[j] = "pong" => i + 1 = j
        BY <2>1, <4>1 DEF Uncrossed, OnePing
      <4>3. \A j \in DOMAIN queue' : queue'[j] = "pong" => i + 1 = j + 1
        BY <1>5, <4>2
      <4> QED
        BY <1>5, <4>2, <4>3
    <3> QED
      BY <1>1, <1>4, <2>8, <3>1, <3>2 DEF OnePing, Pinged, Ponged
  <2>10. Answers'
    BY <1>1, <1>2, <1>3, <1>4, <2>2, <2>3, <2>4, <2>6, <2>8
    DEF Answers, Pinged, Ponged
  <2>11. Knows'
    BY <2>2, <2>8 DEF Knows
  <2>12. OneQuestion("init", "init", "hello")'
    BY <1>3, <1>4, <2>2, <2>6, <2>8 DEF OneQuestion
  <2>13. OneQuestion("request", "account", "waits")'
    BY <1>3, <1>4, <2>4, <2>6, <2>8 DEF OneQuestion
  <2> QED
    BY <2>1, <2>7, <2>9, <2>10, <2>11, <2>12, <2>13 DEF Uncrossed
<1> QED
  BY <1>1, <1>7, <1>8 DEF SequenceInv

\* A request is answered with the start in force, at once: crossed unless no
\* ping is unanswered.
LEMMA AccountKeeps ==
  ASSUME SequenceInv, queue # <<>>, Head(queue) = "request", queue' = Tail(queue),
         AccountReply, UNCHANGED <<peer, toServer, seq, refused>>
  PROVE  SequenceInv'
<1> PICK s : s = seq_start'
  OBVIOUS
<1>1. /\ phase = "ready" /\ phase' = "ready" /\ s \in Int /\ seq_start' = s
      /\ toClient' = Append(toClient, [kind |-> "account", bytes |-> <<s>>])
      /\ crossed' = (crossed \/ needpong)
      /\ UNCHANGED <<upcoming_seq_start, needpong>>
  <2>1. seq_start \in Int
    BY DEF SequenceInv, LinkTypes
  <2>2. s \in Int
    BY <2>1, StartsAreInt DEF AccountReply
  <2> QED
    BY <2>2 DEF AccountReply, Tells
<1> PICK m : m = [kind |-> "account", bytes |-> <<s>>]
  OBVIOUS
<1>2. m \in Downlink /\ m.kind = "account" /\ m.bytes = <<s>> /\ m.bytes[1] = s
  BY <1>1 DEF Downlink
<1>4. PICK N \in Nat :
        /\ toClient' \in Seq(Downlink)
        /\ DOMAIN toClient = 1..N /\ DOMAIN toClient' = 1..N+1
        /\ N + 1 \notin 1..N /\ N + 1 \in 1..N+1
        /\ \A i \in 1..N+1 : i \in 1..N \/ i = N + 1
        /\ \A i \in 1..N : i \in 1..N+1 /\ i < N + 1 /\ toClient'[i] = toClient[i]
        /\ toClient'[N + 1] = m
  BY <1>1, <1>2, TellStep
<1>5. /\ queue' \in Seq(Arrivals) /\ 1 \in DOMAIN queue /\ queue[1] = "request"
      /\ \A i \in DOMAIN queue' :
           queue'[i] = "again" \/ /\ i + 1 \in DOMAIN queue /\ i + 1 # 1
                                  /\ queue'[i] = queue[i+1]
  BY QueueStep
<1>6. LinkTypes
  BY DEF SequenceInv
<1>7. LinkTypes'
  <2>1. crossed' \in BOOLEAN
    BY <1>1
  <2> QED
    BY <1>1, <1>4, <1>5, <1>6, <2>1 DEF LinkTypes
<1>8. ASSUME phase' # "closed", ~crossed' PROVE ~refused' /\ Uncrossed'
  <2>1. ~refused /\ Uncrossed /\ ~needpong
    BY <1>1, <1>8 DEF SequenceInv
  <2>2. /\ peer.mode = "waits"
        /\ \A j \in DOMAIN queue : queue[j] = "request" => 1 = j
        /\ \A j \in DOMAIN toClient : toClient[j].kind # "account"
    BY <1>5, <2>1 DEF Uncrossed, OneQuestion
  <2>3. /\ \A j \in DOMAIN toClient : ~Pinged(j)
        /\ \A j \in DOMAIN toServer : ~Ponged(j)
        /\ \A j \in DOMAIN queue : queue[j] # "pong"
    BY <2>1 DEF Uncrossed, OnePing
  <2>4. toServer = <<>>
    <3>1. \A j \in DOMAIN toServer : Ponged(j)
      BY <1>5, <2>1 DEF Uncrossed, Answers
    <3>2. DOMAIN toServer = {}
      BY <2>3, <3>1
    <3> QED
      BY <1>6, <3>2, EmptySeq DEF LinkTypes
  <2>5. \A j \in DOMAIN toClient : toClient[j].kind # "init"
    BY <2>1, <2>2 DEF Uncrossed, OneQuestion
  <2>6. \A j \in DOMAIN queue : queue[j] # "init"
    BY <2>1, <2>2 DEF Uncrossed, OneQuestion
  <2>7. \A j \in DOMAIN queue' : queue'[j] \notin {"init", "request", "pong"}
    BY <1>5, <2>2, <2>3, <2>6
  <2>8. DOMAIN toServer' = {}
    BY <2>4
  <2>9. InStep'
    BY <1>1, <1>6, <1>7, <2>1, <2>4, QuietLine DEF Uncrossed
  <2>10. OnePing'
    BY <1>2, <1>4, <2>3, <2>7, <2>8 DEF OnePing, Pinged, Ponged
  <2>11. Answers'
    BY <1>1, <1>2, <1>4, <2>2, <2>3, <2>4, <2>5, <2>7, <2>8
    DEF Answers, Pinged, Ponged
  <2>12. Knows'
    <3>1. ~ \A i \in DOMAIN toClient' : toClient'[i].kind # "account"
      BY <1>2, <1>4
    <3> QED
      BY <1>1, <2>2, <2>8, <3>1 DEF Knows
  <2>13. OneQuestion("init", "init", "hello")'
    BY <1>2, <1>4, <2>5, <2>7, <2>8 DEF OneQuestion
  <2>14. OneQuestion("request", "account", "waits")'
    BY <1>2, <1>4, <2>2, <2>7, <2>8 DEF OneQuestion
  <2> QED
    BY <2>1, <2>9, <2>10, <2>11, <2>12, <2>13, <2>14 DEF Uncrossed
<1>9. refused' => crossed'
  BY <1>1 DEF SequenceInv
<1> QED
  BY <1>7, <1>8, <1>9 DEF SequenceInv

\* Any other packet that is handled says nothing to the client.
LEMMA HandledKeeps ==
  ASSUME SequenceInv, queue # <<>>, Head(queue) \notin {"init", "request"},
         queue' = IF Head(queue) = "other" THEN Append(Tail(queue), "again")
                                           ELSE Tail(queue),
         needpong' = IF Head(queue) = "pong" THEN FALSE ELSE needpong,
         UNCHANGED <<phase, seq_start, upcoming_seq_start, toClient, crossed,
                     peer, toServer, seq, refused>>
  PROVE  SequenceInv'
<1>1. /\ queue' \in Seq(Arrivals) /\ 1 \in DOMAIN queue /\ queue[1] = Head(queue)
      /\ \A i \in DOMAIN queue' :
           queue'[i] = "again" \/ /\ i + 1 \in DOMAIN queue /\ i + 1 # 1
                                  /\ queue'[i] = queue[i+1]
      /\ \A i, j \in DOMAIN queue' : i + 1 = j + 1 => i = j
  BY QueueStep
<1>2. LinkTypes
  BY DEF SequenceInv
<1>3. LinkTypes'
  <2>1. needpong' \in BOOLEAN
    BY <1>2 DEF LinkTypes
  <2> QED
    BY <1>1, <1>2, <2>1 DEF LinkTypes
<1>4. ASSUME phase' # "closed", ~crossed' PROVE ~refused' /\ Uncrossed'
  <2>1. ~refused /\ Uncrossed
    BY <1>4 DEF SequenceInv
  <2>2. InStep'
    BY <2>1 DEF Uncrossed, InStep, InForce, Ponged
  <2>3. OnePing'
    <3>1. ASSUME Head(queue) = "pong"
          PROVE  /\ \A j \in DOMAIN toClient : ~Pinged(j)
                 /\ \A j \in DOMAIN toServer : ~Ponged(j)
                 /\ \A j \in DOMAIN queue' : queue'[j] # "pong"
      <4>1. /\ \A j \in DOMAIN toClient : ~Pinged(j)
            /\ \A j \in DOMAIN toServer : ~Ponged(j)
            /\ \A j \in DOMAIN queue : queue[j] = "pong" => 1 = j
        BY <1>1, <2>1, <3>1 DEF Uncrossed, OnePing
      <4> QED
        BY <1>1, <4>1
    <3>2. ASSUME NEW i \in DOMAIN toClient, Pinged(i)
          PROVE  /\ needpong'
                 /\ toClient[i].bytes[1] - toClient[i].bytes[2] = upcoming_seq_start
                 /\ \A j \in DOMAIN toClient : Pinged(j) => i = j
                 /\ \A j \in DOMAIN toServer : ~Ponged(j)
                 /\ \A j \in DOMAIN queue' : queue'[j] # "pong"
      BY <1>1, <2>1, <3>1, <3>2 DEF Uncrossed, OnePing
    <3>3. ASSUME NEW i \in DOMAIN toServer, Ponged(i)
          PROVE  /\ needpong'
                 /\ \A j \in DOMAIN toServer : Ponged(j) => i = j
                 /\ \A j \in DOMAIN queue' : queue'[j] # "pong"
      BY <1>1, <2>1, <3>1, <3>3 DEF Uncrossed, OnePing
    <3>4. ASSUME NEW i \in DOMAIN queue', queue'[i] = "pong"
          PROVE  needpong' /\ \A j \in DOMAIN queue' : queue'[j] = "pong" => i = j
      <4>1. i + 1 \in DOMAIN queue /\ queue[i+1] = "pong" /\ Head(queue) # "pong"
        BY <1>1, <3>1, <3>4
      <4>2. needpong /\ \A j \in DOMAIN queue : queue[j] = "pong" => i + 1 = j
        BY <2>1, <4>1 DEF Uncrossed, OnePing
      <4>3. \A j \in DOMAIN queue' : queue'[j] = "pong" => i + 1 = j + 1
        BY <1>1, <4>2
      <4> QED
        BY <1>1, <4>1, <4>2, <4>3
    <3> QED
      BY <3>2, <3>3, <3>4 DEF OnePing, Pinged, Ponged
  <2>4. Answers'
    <3>1. \A i \in DOMAIN queue' : queue'[i] \in {"init", "request"} =>
            \A j \in DOMAIN toServer : Ponged(j)
      <4> SUFFICES ASSUME NEW i \in DOMAIN queue', queue'[i] \in {"init", "request"}
                   PROVE  \A j \in DOMAIN toServer : Ponged(j)
        OBVIOUS
      <4>1. i + 1 \in DOMAIN queue /\ queue[i+1] \in {"init", "request"}
        BY <1>1
      <4> QED
        BY <2>1, <4>1 DEF Uncrossed, Answers
    <3> QED
      BY <2>1, <3>1 DEF Uncrossed, Answers, Ponged, Pinged
  <2>5. Knows'
    BY <2>1 DEF Uncrossed, Knows, InForce, Ponged
  <2>6. OneQuestion("init", "init", "hello")'
    BY <2>1, QuestionsLeft DEF Uncrossed
  <2>7. OneQuestion("request", "account", "waits")'
    BY <2>1, QuestionsLeft DEF Uncrossed
  <2> QED
    BY <2>1, <2>2, <2>3, <2>4, <2>5, <2>6, <2>7 DEF Uncrossed
<1> QED
  BY <1>3, <1>4 DEF SequenceInv

\* Nothing matters to a client that is cut off.
LEMMA ShutKeeps ==
  ASSUME SequenceInv, Shut,
         UNCHANGED <<toClient, crossed, peer, toServer, refused>>
  PROVE  SequenceInv'
BY DEF SequenceInv, Shut, starts, LinkTypes

\* server_pump_queue handles one packet, or gives up.
LEMMA PumpKeeps ==
  ASSUME SequenceInv, Pump
  PROVE  SequenceInv'
<1>1. queue # <<>> /\ UNCHANGED <<peer, toServer, refused>>
  BY DEF Pump
<1>2. CASE Len(queue) > PacketQueueMax
  BY <1>1, <1>2, ShutKeeps DEF Pump
<1>3. CASE ~ (Len(queue) > PacketQueueMax)
  <2>1. /\ queue' = IF Head(queue) = "other" THEN Append(Tail(queue), "again")
                                             ELSE Tail(queue)
        /\ UNCHANGED seq
    BY <1>3 DEF Pump
  <2>2. CASE Head(queue) = "init"
    BY <1>1, <1>3, <2>1, <2>2, InitKeeps DEF Pump
  <2>3. CASE Head(queue) = "request"
    BY <1>1, <1>3, <2>1, <2>3, AccountKeeps DEF Pump
  <2>4. CASE Head(queue) = "pong"
    <3>1. /\ needpong' = FALSE
          /\ UNCHANGED <<phase, seq_start, upcoming_seq_start, toClient, crossed>>
      BY <1>3, <2>4 DEF Pump, PongHandled, starts
    <3> QED
      BY <1>1, <2>1, <2>4, <3>1, HandledKeeps
  <2>5. CASE Head(queue) \notin {"init", "request", "pong"}
    <3>1. UNCHANGED <<phase, seq_start, upcoming_seq_start, needpong, toClient,
                      crossed>>
      BY <1>3, <2>5 DEF Pump, starts
    <3> QED
      BY <1>1, <2>1, <2>5, <3>1, HandledKeeps
  <2> QED
    BY <2>2, <2>3, <2>4, <2>5
<1> QED
  BY <1>2, <1>3

\* A ping is sent when none is unanswered, so it is the only one.
LEMMA PingAllKeeps ==
  ASSUME SequenceInv, PingAll
  PROVE  SequenceInv'
<1>1. UNCHANGED <<peer, toServer, refused, crossed>>
  BY DEF PingAll
<1>2. CASE needpong
  BY <1>1, <1>2, ShutKeeps DEF PingAll
<1>3. CASE ~needpong
  <2> PICK s \in Int : PingNewSequence(s) /\ Tells("ping", UpdateBytes(s))
    BY <1>3, StartsAreInt DEF PingAll
  <2>1. PICK b \in UpdateBytes(s) :
          /\ upcoming_seq_start' = s /\ needpong' = TRUE
          /\ toClient' = Append(toClient, [kind |-> "ping", bytes |-> b])
          /\ UNCHANGED <<phase, seq_start, seq, queue>>
    BY <1>3 DEF PingAll, PingNewSequence, Tells
  <2>2. b \in Int \X Int /\ b[1] - b[2] = s
    BY UpdateBytesGive
  <2> PICK m : m = [kind |-> "ping", bytes |-> b]
    OBVIOUS
  <2>3. m \in Downlink /\ m.kind = "ping" /\ m.bytes = b
    BY <2>2 DEF Downlink
  <2>4. PICK N \in Nat :
          /\ toClient' \in Seq(Downlink)
          /\ DOMAIN toClient = 1..N /\ DOMAIN toClient' = 1..N+1
          /\ N + 1 \notin 1..N /\ N + 1 \in 1..N+1
          /\ \A i \in 1..N+1 : i \in 1..N \/ i = N + 1
          /\ \A i \in 1..N : i \in 1..N+1 /\ i < N + 1 /\ toClient'[i] = toClient[i]
          /\ toClient'[N + 1] = m
    BY <2>1, <2>3, TellStep
  <2>5. LinkTypes /\ LinkTypes'
    BY <1>1, <2>1, <2>4 DEF SequenceInv, LinkTypes
  <2>6. ASSUME phase' # "closed", ~crossed' PROVE ~refused' /\ Uncrossed'
    <3>1. ~refused /\ Uncrossed
      BY <1>1, <2>1, <2>6 DEF SequenceInv
    <3>2. /\ \A j \in DOMAIN toClient : ~Pinged(j)
          /\ \A j \in DOMAIN toServer : ~Ponged(j)
          /\ \A j \in DOMAIN queue : queue[j] # "pong"
      BY <1>3, <3>1 DEF Uncrossed, OnePing
    <3>3. toServer \in Seq(Uplink) /\ Len(toServer) \in Nat
          /\ DOMAIN toServer = 1..Len(toServer)
      BY <2>5 DEF LinkTypes
    <3>4. \A i \in 0..Len(toServer) : InForce(i) = seq_start /\ InForce(i)' = seq_start
      BY <1>1, <2>1, <3>2, <3>3 DEF InForce, Ponged
    <3>5. InStep'
      BY <1>1, <2>1, <3>1, <3>3, <3>4 DEF Uncrossed, InStep
    <3>6. OnePing'
      BY <1>1, <2>1, <2>2, <2>3, <2>4, <3>2 DEF OnePing, Pinged, Ponged
    <3>7. Answers'
      <4>1. \A i \in 1..N+1 : toClient'[i].kind # "ping" => i \in 1..N
        BY <2>3, <2>4
      <4>2. ASSUME NEW i \in 1..N+1, toClient'[i].kind = "account"
            PROVE  /\ toClient'[i].bytes[1] = seq_start
                   /\ \A j \in 1..N+1 : toClient'[j].kind = "ping" => i < j
        <5>1. i \in 1..N /\ toClient[i].kind = "account"
          BY <2>4, <4>1, <4>2
        <5>2. toClient[i].bytes[1] = seq_start
          BY <2>4, <3>1, <5>1 DEF Uncrossed, Answers
        <5>3. \A j \in 1..N+1 : toClient'[j].kind = "ping" => j = N + 1
          BY <2>4, <3>2 DEF Pinged
        <5> QED
          BY <2>4, <5>1, <5>2, <5>3
      <4> QED
        BY <1>1, <2>1, <2>4, <3>1, <4>1, <4>2
        DEF Uncrossed, Answers, Pinged, Ponged
    <3>8. Knows'
      <4>1. (\A i \in DOMAIN toClient' : toClient'[i].kind # "account")
              => \A i \in DOMAIN toClient : toClient[i].kind # "account"
        BY <2>4
      <4>2. InForce(Len(toServer))' = InForce(Len(toServer))
        BY <1>1, <3>3, <3>4
      <4> QED
        BY <1>1, <2>1, <3>1, <4>1, <4>2 DEF Uncrossed, Knows
    <3>9. OneQuestion("init", "init", "hello")'
      BY <1>1, <2>1, <2>3, <2>4, <3>1 DEF Uncrossed, OneQuestion
    <3>10. OneQuestion("request", "account", "waits")'
      BY <1>1, <2>1, <2>3, <2>4, <3>1 DEF Uncrossed, OneQuestion
    <3> QED
      BY <1>1, <3>1, <3>5, <3>6, <3>7, <3>8, <3>9, <3>10 DEF Uncrossed
  <2> QED
    BY <1>1, <2>5, <2>6 DEF SequenceInv
<1> QED
  BY <1>2, <1>3

\* A connection begins with nothing on its way.
LEMMA SequenceStart == SequenceInit => SequenceInv
<1> SUFFICES ASSUME SequenceInit PROVE SequenceInv
  OBVIOUS
<1>1. 0 \in 0..Wrap-1 /\ 0 % Wrap = 0
  BY SequenceAssumption, ModBelow
<1>2. LinkTypes
  <2>1. peer \in [start : Int, seq : 0..Wrap-1,
                  mode : {"new", "hello", "free", "waits"}]
    BY <1>1 DEF SequenceInit
  <2>2. /\ queue \in Seq(Arrivals) /\ toServer \in Seq(Uplink)
        /\ toClient \in Seq(Downlink)
    BY DEF SequenceInit
  <2>3. /\ phase \in {"new", "ready", "closed"} /\ seq_start \in Int
        /\ upcoming_seq_start \in Int /\ seq \in 0..Wrap-1
    BY <1>1 DEF SequenceInit
  <2>4. needpong \in BOOLEAN /\ refused \in BOOLEAN /\ crossed \in BOOLEAN
    BY DEF SequenceInit
  <2> QED
    BY <2>1, <2>2, <2>3, <2>4 DEF LinkTypes
<1>3. InStep
  BY <1>1 DEF SequenceInit, InStep
<1>4. OnePing /\ Answers /\ Knows
  BY DEF SequenceInit, OnePing, Answers, Knows
<1>5. /\ OneQuestion("init", "init", "hello")
      /\ OneQuestion("request", "account", "waits")
  BY DEF SequenceInit, OneQuestion
<1> QED
  BY <1>2, <1>3, <1>4, <1>5 DEF SequenceInit, SequenceInv, Uncrossed

\* Every step keeps the two sides together.
LEMMA SequenceStep ==
  SequenceInv /\ [SequenceNext]_sequenceVars => SequenceInv'
<1> SUFFICES ASSUME SequenceInv, [SequenceNext]_sequenceVars PROVE SequenceInv'
  OBVIOUS
<1>1. CASE ClientHello
  BY <1>1, ClientSendsKeeps DEF ClientHello
<1>2. CASE ClientPacket
  BY <1>2, ClientSendsKeeps DEF ClientPacket
<1>3. CASE ClientRequest
  BY <1>3, ClientSendsKeeps DEF ClientRequest
<1>4. CASE ClientReceives
  BY <1>4, ReceivesAnswer, ReceivesPing
<1>5. CASE Execute
  BY <1>5, ExecuteKeeps
<1>6. CASE Pump
  BY <1>6, PumpKeeps
<1>7. CASE PingAll
  BY <1>7, PingAllKeeps
<1>8. CASE UNCHANGED sequenceVars
  BY <1>8 DEF sequenceVars, starts, SequenceInv, LinkTypes, Uncrossed, InStep,
              InForce, OnePing, Pinged, Ponged, OneQuestion, Answers, Knows
<1> QED
  BY <1>1, <1>2, <1>3, <1>4, <1>5, <1>6, <1>7, <1>8 DEF SequenceNext

\* An honest client is cut off for a wrong number (EOClient::Execute) only
\* when an account reply was sent while a ping was unanswered.
THEOREM HonestClientsStay == SequenceSpec => []HonestStay
<1>1. SequenceInv => HonestStay
  BY DEF SequenceInv, HonestStay
<1> QED
  BY <1>1, SequenceStart, SequenceStep, PTL DEF SequenceSpec

-----------------------------------------------------------------------------
\* The rest of the types of Sequence: every start is one that was drawn, and
\* no more packets are on their way or queued than were sent.

Drawn == 0..1757
Given(m) == CASE m.kind = "init" -> FromInit(m.bytes)
              [] m.kind = "account" -> m.bytes[1]
              [] m.kind = "ping" -> FromUpdate(m.bytes)

StartsDrawn ==
  /\ seq_start \in Drawn /\ upcoming_seq_start \in Drawn \cup {-1}
  /\ peer.start \in Drawn
  /\ \A i \in DOMAIN toClient : /\ Given(toClient[i]) \in Drawn
                                /\ Pinged(i) => upcoming_seq_start \in Drawn
  /\ \A i \in DOMAIN toServer : Ponged(i) => upcoming_seq_start \in Drawn

PingsIn(s) == {i \in DOMAIN s : s[i].kind = "ping"}
Unread == Cardinality(PingsIn(toClient))

SentIsCounted ==
  /\ sends \in Nat /\ pings \in 0..MaxPings
  /\ Len(queue) + Len(toServer) <= sends
  /\ sends + Unread <= MaxPackets + pings /\ Unread <= pings

LEMMA PingsFinite ==
  ASSUME NEW s \in Seq(Downlink)
  PROVE  IsFiniteSet(PingsIn(s)) /\ Cardinality(PingsIn(s)) \in Nat
<1>1. Len(s) \in Nat /\ DOMAIN s = 1..Len(s)
  OBVIOUS
<1>2. IsFiniteSet(1..Len(s))
  BY <1>1, FS_Interval
<1>3. PingsIn(s) \subseteq 1..Len(s)
  BY <1>1 DEF PingsIn
<1> QED BY <1>2, <1>3, FS_Subset, FS_CardinalityType

LEMMA PingRead ==
  ASSUME NEW s \in Seq(Downlink), s # <<>>
  PROVE  /\ Cardinality(PingsIn(Tail(s))) <= Cardinality(PingsIn(s))
         /\ Head(s).kind = "ping" =>
              Cardinality(PingsIn(Tail(s))) + 1 <= Cardinality(PingsIn(s))
<1> DEFINE N == Len(s)
           S == PingsIn(s)
           T == PingsIn(Tail(s))
           f == [i \in S \ {1} |-> i - 1]
<1>1. /\ Head(s) = s[1] /\ N \in Nat \ {0} /\ DOMAIN s = 1..N
      /\ DOMAIN Tail(s) = 1..N-1 /\ \A i \in 1..N-1 : Tail(s)[i] = s[i+1]
  BY TailOf
<1>2. /\ \A i \in S : i \in 1..N /\ s[i].kind = "ping"
      /\ \A i \in T : i \in 1..N-1 /\ s[i+1].kind = "ping"
      /\ \A i \in 1..N : s[i].kind = "ping" => i \in S
      /\ \A i \in 1..N-1 : s[i+1].kind = "ping" => i \in T
  BY <1>1 DEF PingsIn
<1>3. Tail(s) \in Seq(Downlink)
  BY TailOf
<1>4. IsFiniteSet(S) /\ IsFiniteSet(T) /\ Cardinality(S) \in Nat /\ Cardinality(T) \in Nat
  BY <1>3, PingsFinite
<1>b. 1 \in S <=> Head(s).kind = "ping"
  BY <1>1, <1>2
<1> HIDE DEF N, S, T
<1>5. f \in Surjection(S \ {1}, T)
  <2>1. ASSUME NEW i \in S \ {1} PROVE i - 1 \in T
    <3>1. i \in 1..N /\ i # 1 /\ s[i].kind = "ping"
      BY <1>2
    <3>2. i - 1 \in 1..N-1 /\ (i - 1) + 1 = i
      BY <1>1, <3>1
    <3> QED BY <1>2, <3>1, <3>2
  <2>2. ASSUME NEW i \in T PROVE \E j \in S \ {1} : f[j] = i
    <3>1. i \in 1..N-1 /\ s[i+1].kind = "ping"
      BY <1>2
    <3>2. i + 1 \in 1..N /\ i + 1 # 1 /\ (i + 1) - 1 = i
      BY <1>1, <3>1
    <3>3. i + 1 \in S \ {1}
      BY <1>2, <3>1, <3>2
    <3> QED BY <3>2, <3>3
  <2>3. f \in [S \ {1} -> T]
    BY <2>1
  <2> HIDE DEF f
  <2> QED BY <2>2, <2>3 DEF Surjection
<1> HIDE DEF f
<1>6. /\ IsFiniteSet(S \ {1})
      /\ Cardinality(S \ {1}) = IF 1 \in S THEN Cardinality(S) - 1 ELSE Cardinality(S)
  BY <1>4, FS_RemoveElement
<1>7. Cardinality(T) <= Cardinality(S \ {1})
  BY <1>5, <1>6, FS_Surjection
<1> QED BY <1>4, <1>6, <1>7, <1>b DEF S, T

LEMMA PingSent ==
  ASSUME NEW s \in Seq(Downlink), NEW m \in Downlink
  PROVE  /\ m.kind # "ping" => Cardinality(PingsIn(Append(s, m))) = Cardinality(PingsIn(s))
         /\ Cardinality(PingsIn(Append(s, m))) <= Cardinality(PingsIn(s)) + 1
<1> DEFINE N == Len(s)
           S == PingsIn(s)
           T == PingsIn(Append(s, m))
<1>1. /\ N \in Nat /\ DOMAIN s = 1..N /\ DOMAIN Append(s, m) = 1..N+1
      /\ \A i \in 1..N : Append(s, m)[i] = s[i]
      /\ Append(s, m)[N + 1] = m
  BY AppendOf
<1>2. IsFiniteSet(S) /\ Cardinality(S) \in Nat
  BY PingsFinite
<1>3. 1..N+1 = (1..N) \cup {N+1}
  BY <1>1
<1>4. T = IF m.kind = "ping" THEN S \cup {N+1} ELSE S
  BY <1>1, <1>3 DEF PingsIn
<1>5. Cardinality(S \cup {N+1}) = IF N+1 \in S THEN Cardinality(S) ELSE Cardinality(S) + 1
  BY <1>2, FS_AddElement
<1> HIDE DEF S, T, N
<1> QED BY <1>2, <1>4, <1>5 DEF S, T

LEMMA GivenStays ==
  ASSUME StartsDrawn, NEW i \in DOMAIN toClient
  PROVE  Given(toClient[i]) \in Drawn
  BY DEF StartsDrawn

LEMMA OneMore ==
  ASSUME NEW a \in Nat, NEW u \in Nat, NEW v \in Nat, NEW m \in Nat, NEW p \in Nat,
         a + u <= m + p, u <= p, v <= u + 1
  PROVE  a + v <= m + (p + 1) /\ v <= p + 1
  OBVIOUS

LEMMA LessRead ==
  ASSUME NEW s \in Nat, NEW u \in Nat, NEW v \in Nat, NEW p \in Nat, NEW m \in Nat,
         v <= u, s + u <= m + p, u <= p
  PROVE  s + v <= m + p /\ v <= p
OBVIOUS

LEMMA OneSent ==
  ASSUME NEW s \in Nat, NEW u \in Nat, NEW p \in Nat, NEW m \in Nat, s < m, u <= p
  PROVE  s + 1 + u <= m + p
OBVIOUS

LEMMA OneRead ==
  ASSUME NEW s \in Nat, NEW u \in Nat, NEW v \in Nat, NEW p \in Nat, NEW m \in Nat,
         v + 1 <= u, s + u <= m + p, u <= p
  PROVE  s + 1 + v <= m + p /\ v <= p
OBVIOUS

LEMMA SequenceTypesKept ==
  SequenceInv /\ StartsDrawn /\ SentIsCounted /\ [SequenceNext]_sequenceVars
    => StartsDrawn' /\ SentIsCounted'
<1> SUFFICES ASSUME SequenceInv, StartsDrawn, SentIsCounted,
                    [SequenceNext]_sequenceVars
             PROVE  StartsDrawn' /\ SentIsCounted'
  OBVIOUS
<1>0. /\ LinkTypes /\ toClient \in Seq(Downlink) /\ toServer \in Seq(Uplink)
      /\ queue \in Seq(Arrivals) /\ Starts \subseteq Drawn /\ AccountStarts \subseteq Drawn
      /\ MaxPackets \in Nat /\ MaxPings \in Nat
      /\ Len(queue) \in Nat /\ Len(toServer) \in Nat
  BY SequenceAssumption DEF SequenceInv, LinkTypes, Drawn
<1>1. sends \in Nat /\ pings \in Nat /\ Unread \in Nat
  BY <1>0, PingsFinite DEF SentIsCounted, Unread
\* What is sent, and by whom.
<1>2. ASSUME NEW kind \in {"init", "pong", "request", "other"}, NEW n \in Int,
             Sent(kind, n), kind = "pong" => upcoming_seq_start \in Drawn,
             upcoming_seq_start' = upcoming_seq_start, UNCHANGED queue
      PROVE  /\ \A i \in DOMAIN toServer' : Ponged(i)' => upcoming_seq_start' \in Drawn
             /\ sends' = sends + 1 /\ Len(queue') + Len(toServer') <= sends'
  <2>1. peer.seq \in Int
    <3>1. peer.seq \in 0..Wrap-1 /\ Wrap \in Int
      BY <1>0, SequenceAssumption DEF LinkTypes
    <3> QED BY <3>1
  <2>2. /\ toServer' = Append(toServer, [kind |-> kind, number |-> n + peer.seq])
        /\ sends' = sends + 1 /\ n + peer.seq \in Int
    BY <1>2, <2>1 DEF Sent
  <2>3. /\ Len(toServer') = Len(toServer) + 1
        /\ DOMAIN toServer = 1..Len(toServer) /\ DOMAIN toServer' = 1..Len(toServer)+1
        /\ \A i \in 1..Len(toServer) : toServer'[i] = toServer[i]
        /\ toServer'[Len(toServer) + 1] = [kind |-> kind, number |-> n + peer.seq]
    BY <2>2, SendStep
  <2>4. 1..Len(toServer)+1 = (1..Len(toServer)) \cup {Len(toServer)+1}
    BY <1>0
  <2>5. ASSUME NEW i \in DOMAIN toServer', Ponged(i)'
        PROVE  upcoming_seq_start' \in Drawn
    <3>1. CASE i \in 1..Len(toServer)
      BY <1>2, <2>3, <2>5, <3>1 DEF StartsDrawn, Ponged
    <3>2. CASE i = Len(toServer) + 1
      BY <1>2, <2>3, <2>5, <3>2 DEF Ponged
    <3> QED BY <2>3, <2>4, <3>1, <3>2
  <2> QED BY <1>0, <1>1, <1>2, <2>2, <2>3, <2>5 DEF SentIsCounted
<1>3. ASSUME NEW kind \in {"init", "request", "other"}, NEW mode,
             ClientSends(kind, mode)
      PROVE  StartsDrawn' /\ SentIsCounted'
  <2>1. /\ sends < MaxPackets /\ Sent(kind, peer.start)
        /\ peer' = [peer EXCEPT !.seq = (@ + 1) % Wrap, !.mode = mode]
        /\ UNCHANGED <<seq_start, upcoming_seq_start, queue, toClient, pings>>
    BY <1>3 DEF ClientSends, starts
  <2>2. peer'.start = peer.start /\ peer.start \in Int
    BY <1>0, <2>1 DEF LinkTypes
  <2>3. /\ \A i \in DOMAIN toServer' : Ponged(i)' => upcoming_seq_start' \in Drawn
        /\ sends' = sends + 1 /\ Len(queue') + Len(toServer') <= sends'
    BY <1>2, <2>1, <2>2
  <2>4. StartsDrawn'
    BY <2>1, <2>2, <2>3 DEF StartsDrawn, Pinged
  <2>5. Unread' = Unread
    BY <2>1 DEF Unread
  <2>6. sends' + Unread' <= MaxPackets + pings /\ Unread' <= pings
    <3> PICK u : u = Unread
      OBVIOUS
    <3>1. /\ sends' = sends + 1 /\ sends < MaxPackets /\ u <= pings /\ u \in Nat
          /\ sends \in Nat /\ pings \in Nat /\ MaxPackets \in Nat
      BY <1>0, <1>1, <2>1, <2>3 DEF SentIsCounted
    <3> HIDE DEF Unread
    <3>2. sends + 1 + u <= MaxPackets + pings
      BY <3>1, OneSent
    <3>3. sends' + u <= MaxPackets + pings
      BY <3>1, <3>2
    <3> QED BY <2>5, <3>1, <3>3
  <2>7. SentIsCounted'
    BY <1>0, <1>1, <2>1, <2>3, <2>6 DEF SentIsCounted
  <2> QED BY <2>4, <2>7
<1>4. CASE ClientReceives
  <2> DEFINE m == Head(toClient)
             answers == m.kind = "ping" /\ peer.mode \in {"free", "waits"}
  <2>1. /\ toClient # <<>> /\ toClient' = Tail(toClient)
        /\ UNCHANGED <<seq_start, upcoming_seq_start, queue, pings>>
        /\ CASE m.kind = "init" -> peer' = [peer EXCEPT !.start = FromInit(m.bytes),
                                                        !.mode = "free"]
             [] m.kind = "account" -> peer' = [peer EXCEPT !.start = m.bytes[1],
                                                           !.mode = "free"]
             [] answers -> peer' = [peer EXCEPT !.start = FromUpdate(m.bytes),
                                                !.seq = (@ + 1) % Wrap]
             [] OTHER -> UNCHANGED peer
        /\ IF answers THEN Sent("pong", FromUpdate(m.bytes))
                      ELSE UNCHANGED <<toServer, sends>>
    BY <1>4 DEF ClientReceives, starts
  <2>2. /\ Head(toClient) = toClient[1] /\ Head(toClient) \in Downlink
        /\ Len(toClient) \in Nat \ {0} /\ DOMAIN toClient = 1..Len(toClient)
        /\ DOMAIN toClient' = 1..Len(toClient)-1
        /\ \A i \in 1..Len(toClient)-1 : toClient'[i] = toClient[i+1]
    BY <2>1, ReceiveStep
  <2>3. /\ m.kind \in {"init", "account", "ping"} /\ Given(m) \in Drawn
        /\ m.kind = "ping" => upcoming_seq_start \in Drawn
    <3>1. 1 \in DOMAIN toClient
      BY <2>2
    <3>2. m.kind \in {"init", "account", "ping"}
      BY <2>2 DEF Downlink
    <3> QED BY <2>2, <3>1, <3>2 DEF StartsDrawn, Pinged
  <2>4. \A i \in DOMAIN toClient' : /\ Given(toClient'[i]) \in Drawn
                                    /\ Pinged(i)' => upcoming_seq_start' \in Drawn
    <3> SUFFICES ASSUME NEW i \in DOMAIN toClient'
                 PROVE  /\ Given(toClient'[i]) \in Drawn
                        /\ Pinged(i)' => upcoming_seq_start' \in Drawn
      OBVIOUS
    <3>1. i + 1 \in DOMAIN toClient /\ toClient'[i] = toClient[i+1]
      BY <2>2
    <3>2. Given(toClient[i+1]) \in Drawn /\ (Pinged(i+1) => upcoming_seq_start \in Drawn)
      BY <3>1 DEF StartsDrawn
    <3> QED BY <2>1, <3>1, <3>2 DEF Pinged
  <2>5. /\ m.kind = "init" => Given(m) = FromInit(m.bytes)
        /\ m.kind = "account" => Given(m) = m.bytes[1]
        /\ m.kind = "ping" => Given(m) = FromUpdate(m.bytes)
    BY DEF Given
  <2>6. peer'.start \in Drawn
    <3>a. peer \in [start : Int, seq : 0..Wrap-1, mode : {"new", "hello", "free", "waits"}]
          /\ peer.start \in Drawn
      BY <1>0 DEF LinkTypes, StartsDrawn
    <3>1. CASE m.kind = "init"
      BY <2>1, <2>3, <2>5, <3>1, <3>a
    <3>2. CASE m.kind = "account"
      BY <2>1, <2>3, <2>5, <3>2, <3>a
    <3>3. CASE m.kind = "ping"
      BY <2>1, <2>3, <2>5, <3>3, <3>a
    <3> QED BY <2>3, <3>1, <3>2, <3>3
  <2>7. /\ Unread' \in Nat /\ Unread' <= Unread
        /\ m.kind = "ping" => Unread' + 1 <= Unread
    <3>1. toClient' \in Seq(Downlink)
      BY <1>0, <2>1, TailOf
    <3> QED BY <1>0, <2>1, <3>1, PingRead, PingsFinite DEF Unread
  <2>8. CASE answers
    <3>1. /\ Sent("pong", FromUpdate(m.bytes)) /\ FromUpdate(m.bytes) \in Int
          /\ upcoming_seq_start \in Drawn /\ m.kind = "ping"
      BY <2>1, <2>3, <2>5, <2>8 DEF Drawn
    <3>2. /\ \A i \in DOMAIN toServer' : Ponged(i)' => upcoming_seq_start' \in Drawn
          /\ sends' = sends + 1 /\ Len(queue') + Len(toServer') <= sends'
      BY <1>2, <2>1, <3>1
    <3>3. StartsDrawn'
      BY <2>1, <2>4, <2>6, <3>2 DEF StartsDrawn
    <3>a. /\ pings' = pings /\ pings \in 0..MaxPings /\ MaxPackets \in Nat
          /\ sends \in Nat /\ Unread \in Nat /\ Unread' \in Nat
          /\ sends' = sends + 1 /\ Unread' + 1 <= Unread
          /\ sends + Unread <= MaxPackets + pings /\ Unread <= pings
          /\ Len(queue') + Len(toServer') <= sends'
      BY <1>0, <1>1, <2>1, <2>7, <3>1, <3>2 DEF SentIsCounted
    <3>4. /\ sends' \in Nat /\ sends' + Unread' <= MaxPackets + pings
          /\ Unread' <= pings
      <4> PICK u, v : u = Unread /\ v = Unread'
        OBVIOUS
      <4>1. pings \in Nat /\ u \in Nat /\ v \in Nat /\ v + 1 <= u
            /\ sends + u <= MaxPackets + pings /\ u <= pings
        BY <1>1, <3>a
      <4> HIDE DEF Unread
      <4>2. sends + 1 + v <= MaxPackets + pings /\ v <= pings
        BY <3>a, <4>1, OneRead
      <4>3. sends' = sends + 1 /\ sends \in Nat
        BY <3>a
      <4>4. sends' + v <= MaxPackets + pings
        BY <4>2, <4>3
      <4>5. sends' \in Nat
        BY <4>3
      <4> QED BY <4>2, <4>4, <4>5
    <3>5. SentIsCounted'
      BY <3>a, <3>4 DEF SentIsCounted
    <3> QED BY <3>3, <3>5
  <2>9. CASE ~answers
    <3>1. UNCHANGED <<toServer, sends>>
      BY <2>1, <2>9
    <3>2. StartsDrawn'
      BY <2>1, <2>4, <2>6, <3>1 DEF StartsDrawn, Ponged
    <3>3. sends + Unread' <= MaxPackets + pings /\ Unread' <= pings
      <4> PICK u, v : u = Unread /\ v = Unread'
        OBVIOUS
      <4>1. /\ u \in Nat /\ v \in Nat /\ v <= u /\ u <= pings /\ pings \in Nat
            /\ sends \in Nat /\ MaxPackets \in Nat
            /\ sends + u <= MaxPackets + pings
        BY <1>0, <1>1, <2>7 DEF SentIsCounted
      <4> HIDE DEF Unread
      <4>2. sends + v <= MaxPackets + pings /\ v <= pings
        BY <4>1, LessRead
      <4> QED BY <4>2
    <3>4. SentIsCounted'
      BY <1>0, <1>1, <2>1, <3>1, <3>3 DEF SentIsCounted
    <3> QED BY <3>2, <3>4
  <2> QED BY <2>8, <2>9
<1>5. CASE Execute
  <2>1. /\ toServer # <<>> /\ toServer' = Tail(toServer)
        /\ seq_start' = IF Head(toServer).kind = "pong" THEN upcoming_seq_start
                                                       ELSE seq_start
        /\ queue' \in {queue, Append(queue, Head(toServer).kind)}
        /\ UNCHANGED <<upcoming_seq_start, peer, toClient, sends, pings>>
    BY <1>5 DEF Execute
  <2>2. /\ Head(toServer) = toServer[1] /\ Head(toServer) \in Uplink
        /\ Len(toServer) \in Nat \ {0} /\ Len(toServer') = Len(toServer) - 1
        /\ DOMAIN toServer = 1..Len(toServer)
        /\ DOMAIN toServer' = 1..Len(toServer)-1
        /\ \A i \in 1..Len(toServer)-1 : toServer'[i] = toServer[i+1]
    BY <1>0, <2>1, TailOf
  <2>3. seq_start' \in Drawn
    <3>1. 1 \in DOMAIN toServer
      BY <2>2
    <3> QED BY <2>1, <2>2, <3>1 DEF StartsDrawn, Ponged
  <2>4. \A i \in DOMAIN toServer' : i + 1 \in DOMAIN toServer /\ toServer'[i] = toServer[i+1]
    BY <2>2
  <2>5. Head(toServer).kind \in Arrivals
    BY <2>2 DEF Uplink, Arrivals
  <2>6. Len(queue') <= Len(queue) + 1 /\ Len(queue') \in Nat
    <3>1. CASE queue' = queue
      BY <1>0, <3>1
    <3>2. CASE queue' = Append(queue, Head(toServer).kind)
      BY <1>0, <2>5, <3>2, AppendOf
    <3> QED BY <2>1, <3>1, <3>2
  <2>7. StartsDrawn'
    BY <2>1, <2>3, <2>4 DEF StartsDrawn, Ponged, Pinged
  <2>8. SentIsCounted'
    <3>1. Unread' = Unread
      BY <2>1 DEF Unread
    <3> QED BY <1>0, <1>1, <2>1, <2>2, <2>6, <3>1 DEF SentIsCounted
  <2> QED BY <2>7, <2>8
<1>6. ASSUME NEW m \in Downlink, toClient' = Append(toClient, m), Given(m) \in Drawn,
             m.kind = "ping" => upcoming_seq_start' \in Drawn,
             upcoming_seq_start \in Drawn => upcoming_seq_start' \in Drawn,
             upcoming_seq_start' \in Drawn \cup {-1},
             seq_start' \in Drawn, UNCHANGED <<peer, toServer>>
      PROVE  StartsDrawn'
  <2>1. /\ \A i \in DOMAIN toClient' : i \in DOMAIN toClient \/ i = Len(toClient) + 1
        /\ \A i \in DOMAIN toClient : toClient'[i] = toClient[i]
        /\ toClient'[Len(toClient) + 1] = m
    <3>1. /\ Len(toClient) \in Nat /\ DOMAIN toClient = 1..Len(toClient)
          /\ DOMAIN toClient' = 1..Len(toClient)+1
          /\ \A i \in 1..Len(toClient) : toClient'[i] = toClient[i]
          /\ toClient'[Len(toClient) + 1] = m
      BY <1>0, <1>6, AppendOf
    <3> QED BY <3>1
  <2>2. ASSUME NEW i \in DOMAIN toClient'
        PROVE  /\ Given(toClient'[i]) \in Drawn
               /\ Pinged(i)' => upcoming_seq_start' \in Drawn
    <3>1. CASE i \in DOMAIN toClient
      <4>1. Given(toClient[i]) \in Drawn /\ (Pinged(i) => upcoming_seq_start \in Drawn)
        BY <3>1 DEF StartsDrawn
      <4> QED BY <1>6, <2>1, <3>1, <4>1 DEF Pinged
    <3>2. CASE i = Len(toClient) + 1
      BY <1>6, <2>1, <3>2 DEF Pinged
    <3> QED BY <2>1, <2>2, <3>1, <3>2
  <2>3. \A i \in DOMAIN toServer' : Ponged(i)' => upcoming_seq_start' \in Drawn
    BY <1>6 DEF StartsDrawn, Ponged
  <2> QED BY <1>6, <2>2, <2>3 DEF StartsDrawn
<1>7. CASE Pump
  <2>1. queue # <<>> /\ UNCHANGED <<peer, toServer, sends, pings>>
    BY <1>7 DEF Pump
  <2>2. Len(queue') <= Len(queue) /\ Len(queue') \in Nat
    <3>1. /\ Tail(queue) \in Seq(Arrivals) /\ Len(Tail(queue)) = Len(queue) - 1
          /\ Len(queue) \in Nat \ {0}
      BY <1>0, <2>1, TailOf
    <3>2. /\ Append(Tail(queue), "again") \in Seq(Arrivals)
          /\ Len(Append(Tail(queue), "again")) = Len(queue) - 1 + 1
      BY <3>1, AppendOf DEF Arrivals
    <3>3. queue' \in {queue, Tail(queue), Append(Tail(queue), "again")}
      BY <1>7 DEF Pump, Shut
    <3> QED BY <3>1, <3>2, <3>3
  <2>3. ASSUME StartsDrawn', Unread' = Unread
        PROVE  StartsDrawn' /\ SentIsCounted'
    BY <1>0, <1>1, <2>1, <2>2, <2>3 DEF SentIsCounted
  <2>4. CASE UNCHANGED <<starts, toClient>>
    <3>1. StartsDrawn' /\ Unread' = Unread
      BY <2>1, <2>4 DEF StartsDrawn, Pinged, Ponged, Unread, starts
    <3> QED BY <2>3, <3>1
  <2>5. ASSUME NEW kind \in {"init", "account"}, NEW b,
               [kind |-> kind, bytes |-> b] \in Downlink,
               Given([kind |-> kind, bytes |-> b]) \in Drawn,
               toClient' = Append(toClient, [kind |-> kind, bytes |-> b]),
               seq_start' \in Drawn, UNCHANGED upcoming_seq_start
        PROVE  StartsDrawn' /\ SentIsCounted'
    <3> DEFINE m == [kind |-> kind, bytes |-> b]
    <3>1. m.kind # "ping" /\ m \in Downlink
      BY <2>5
    <3> HIDE DEF m
    <3>2. toClient' = Append(toClient, m) /\ Given(m) \in Drawn
      BY <2>5 DEF m
    <3>3. StartsDrawn'
      BY <1>6, <2>1, <2>5, <3>1, <3>2 DEF StartsDrawn
    <3>4. Unread' = Unread
      BY <1>0, <3>1, <3>2, PingSent DEF Unread
    <3> QED BY <2>3, <3>3, <3>4
  <2>6. ASSUME InitReply
        PROVE  StartsDrawn' /\ SentIsCounted'
    <3>1. PICK s \in Starts : /\ seq_start' = s /\ UNCHANGED upcoming_seq_start
                              /\ Tells("init", InitBytes(s))
      BY <2>6 DEF InitReply
    <3>2. PICK b \in InitBytes(s) : toClient' = Append(toClient, [kind |-> "init", bytes |-> b])
      BY <3>1 DEF Tells
    <3>3. s \in Int /\ s \in Drawn
      BY <1>0, StartsAreInt
    <3>4. b \in Int \X Int /\ b[1] * 7 + b[2] - 13 = s
      BY <3>3, InitBytesGive
    <3>5. [kind |-> "init", bytes |-> b] \in Downlink
      BY <3>4 DEF Downlink
    <3>6. Given([kind |-> "init", bytes |-> b]) = s
      BY <3>4 DEF Given, FromInit
    <3> QED BY <2>5, <3>1, <3>2, <3>3, <3>5, <3>6
  <2>7. ASSUME AccountReply
        PROVE  StartsDrawn' /\ SentIsCounted'
    <3>1. /\ seq_start' \in Drawn /\ UNCHANGED upcoming_seq_start
          /\ toClient' = Append(toClient, [kind |-> "account", bytes |-> <<seq_start'>>])
      BY <1>0, <2>7 DEF AccountReply, Tells, StartsDrawn
    <3>2. PICK s : s = seq_start'
      OBVIOUS
    <3>3. s \in Int
      BY <3>1, <3>2 DEF Drawn
    <3>4. [kind |-> "account", bytes |-> <<s>>] \in Downlink
      BY <3>3 DEF Downlink
    <3>5. Given([kind |-> "account", bytes |-> <<s>>]) = s
      BY DEF Given
    <3> QED BY <2>5, <3>1, <3>2, <3>4, <3>5
  <2>8. InitReply \/ AccountReply \/ UNCHANGED <<starts, toClient>>
    BY <1>7 DEF Pump, Shut, PongHandled
  <2> QED BY <2>4, <2>6, <2>7, <2>8
<1>8. CASE PingAll
  <2>1. pings < MaxPings /\ pings' = pings + 1 /\ UNCHANGED <<peer, toServer, sends>>
    BY <1>8 DEF PingAll
  <2>2. CASE needpong
    <3>1. UNCHANGED <<starts, toClient, queue>>
      BY <1>8, <2>2 DEF PingAll, Shut
    <3>2. StartsDrawn' /\ Unread' = Unread
      BY <2>1, <3>1 DEF StartsDrawn, Pinged, Ponged, Unread, starts
    <3> QED BY <1>0, <1>1, <2>1, <3>1, <3>2 DEF SentIsCounted
  <2>3. CASE ~needpong
    <3>1. PICK s \in Starts : PingNewSequence(s) /\ Tells("ping", UpdateBytes(s))
      BY <1>8, <2>3 DEF PingAll
    <3>2. PICK b \in UpdateBytes(s) : toClient' = Append(toClient, [kind |-> "ping", bytes |-> b])
      BY <3>1 DEF Tells
    <3>3. s \in Int /\ s \in Drawn /\ UNCHANGED queue
      BY <1>0, <1>8, <2>3, StartsAreInt DEF PingAll
    <3>4. b \in Int \X Int /\ b[1] - b[2] = s
      BY <3>3, UpdateBytesGive
    <3> DEFINE m == [kind |-> "ping", bytes |-> b]
    <3>5. m \in Downlink
      BY <3>4 DEF Downlink
    <3>6. Given(m) = s
      BY <3>4 DEF Given, FromUpdate
    <3> HIDE DEF m
    <3>7. toClient' = Append(toClient, m)
      BY <3>2 DEF m
    <3>8. upcoming_seq_start' = s /\ seq_start' = seq_start
      BY <3>1 DEF PingNewSequence
    <3>9. StartsDrawn'
      BY <1>6, <2>1, <3>3, <3>5, <3>6, <3>7, <3>8 DEF StartsDrawn
    <3>10. Unread' <= Unread + 1 /\ Unread' \in Nat
      <4>1. toClient' \in Seq(Downlink)
        BY <1>0, <3>5, <3>7, AppendOf
      <4> QED BY <1>0, <3>5, <3>7, <4>1, PingSent, PingsFinite DEF Unread
    <3>11. /\ Len(queue) + Len(toServer) <= sends
           /\ sends + Unread <= MaxPackets + pings /\ Unread <= pings
      BY DEF SentIsCounted
    <3>12. /\ sends' = sends /\ pings' \in 0..MaxPings
           /\ Len(queue') + Len(toServer') <= sends'
      BY <1>0, <1>1, <2>1, <3>3, <3>11
    <3>13. sends + Unread' <= MaxPackets + (pings + 1) /\ Unread' <= pings + 1
      BY <1>0, <1>1, <3>10, <3>11, OneMore
    <3> QED BY <1>1, <2>1, <3>9, <3>12, <3>13 DEF SentIsCounted
  <2> QED BY <2>2, <2>3
<1>9. CASE UNCHANGED sequenceVars
  <2>1. UNCHANGED <<seq_start, upcoming_seq_start, peer, toClient, toServer,
                    queue, sends, pings>>
    BY <1>9 DEF sequenceVars, starts
  <2> QED BY <2>1 DEF StartsDrawn, SentIsCounted, Unread, Pinged, Ponged
<1>10. CASE ClientHello \/ ClientPacket \/ ClientRequest
  BY <1>3, <1>10 DEF ClientHello, ClientPacket, ClientRequest
<1> QED
  BY <1>4, <1>5, <1>7, <1>8, <1>9, <1>10 DEF SequenceNext

\* The type invariant of Sequence, for any starts and modulus: both sides only
\* ever number from a start that rand returned (EOClient::InitNewSequence,
\* PingNewSequence), and the queue holds no more than was sent.
THEOREM SequencesAreTyped == SequenceSpec => []SequenceTypeOK
<1>1. SequenceInit => StartsDrawn /\ SentIsCounted
  <2> SUFFICES ASSUME SequenceInit PROVE StartsDrawn /\ SentIsCounted
    OBVIOUS
  <2>1. PingsIn(toClient) = {}
    BY DEF SequenceInit, PingsIn
  <2>2. Unread = 0
    BY <2>1, FS_EmptySet DEF Unread
  <2>3. Len(queue) = 0 /\ Len(toServer) = 0 /\ MaxPackets \in Nat /\ MaxPings \in Nat
    BY SequenceAssumption DEF SequenceInit
  <2>4. SentIsCounted
    BY <2>2, <2>3 DEF SequenceInit, SentIsCounted
  <2> QED BY <2>4 DEF SequenceInit, StartsDrawn, Drawn
<1>2. SequenceInv /\ StartsDrawn /\ SentIsCounted => SequenceTypeOK
  <2> SUFFICES ASSUME SequenceInv, StartsDrawn, SentIsCounted PROVE SequenceTypeOK
    OBVIOUS
  <2>1. LinkTypes /\ queue \in Seq(Arrivals) /\ toServer \in Seq(Uplink)
        /\ toClient \in Seq(Downlink) /\ MaxPackets \in Nat /\ MaxPings \in Nat
    BY SequenceAssumption DEF SequenceInv, LinkTypes
  <2>2. Len(queue) \in Nat /\ Len(toServer) \in Nat /\ Unread \in Nat
    BY <2>1, PingsFinite DEF Unread
  <2>3. Len(queue) <= MaxPackets + MaxPings
    BY <2>1, <2>2 DEF SentIsCounted
  <2>4. peer \in [start : 0..1757, seq : 0..Wrap-1, mode : {"new", "hello", "free", "waits"}]
    BY <2>1 DEF LinkTypes, StartsDrawn, Drawn
  <2>5. seq_start \in 0..1757 /\ upcoming_seq_start \in -1..1757
    BY DEF StartsDrawn, Drawn
  <2> QED BY <2>1, <2>3, <2>4, <2>5 DEF LinkTypes, SequenceTypeOK
<1> QED
  BY <1>1, <1>2, SequenceStart, SequenceStep, SequenceTypesKept, PTL DEF SequenceSpec

-----------------------------------------------------------------------------
(***************************************************************************)
(* The database and the saves: the rows as the process sees them (Current) *)
(* run ahead of what is stored only through the transaction that is open,  *)
(* whether the link to the server is up or being made again; nothing that  *)
(* is asked for or played is behind them.                                  *)
(***************************************************************************)

Current == IF in_transaction THEN Replay(stored) ELSE stored

\* The server has this process's transaction open, when there is a link.
Linked == /\ attempt = 0 <=> session.up
          /\ attempt # 0 => asked # NoQuery /\ reply = "none"
          /\ session.up => session.open = in_transaction
          /\ session.up /\ in_transaction => session.rows = Replay(stored)
          /\ ~in_transaction => transaction_log = <<>>
          /\ asked = Begin /\ reply = "none" => ~in_transaction

\* What is stored, logged, asked for and played: in this order.
Ordered ==
  /\ \A r \in Records : stored[r].usage <= Current[r].usage
  /\ asked.op = "write" => Current[asked.key].usage <= asked.value.usage
  /\ \A c \in Online : Current[c].usage <= live[c].usage
  /\ \A c \in Online : asked.op = "write" /\ asked.key = c =>
                         asked.value.usage <= live[c].usage

\* Who the task has still to come to is there.
Agenda ==
  /\ task \in {"begin", "save", "cleanup"} => agenda \subseteq Online
  /\ task \in {"open", "restore", "keep", "undo"} =>
       Online = {} /\ agenda \subseteq DOMAIN dumped

SavingInv == /\ SavingTypeOK
             /\ process = "up" => Linked /\ Ordered /\ Agenda

-----------------------------------------------------------------------------
\* What the queries are.

LEMMA QueryKinds ==
  \A q \in Queries :
    /\ (q.op = "begin" <=> q = Begin) /\ (q.op = "none" => q = NoQuery)
    /\ q.op = "write" => q \in Writes /\ q.key \in Records /\ q.value \in Values
    /\ q.op \in {"begin", "commit", "rollback", "none", "write"}
BY DEF Queries, Writes, Write, Begin, Commit, Rollback, NoQuery

LEMMA WriteKinds ==
  \A q \in Writes : q.op = "write" /\ q.key \in Records /\ q.value \in Values
BY DEF Writes, Write

LEMMA RowFields ==
  \A v \in Values : /\ v.usage \in 0..LastMinute /\ v.version \in 0..LastVersion
                    /\ v.usage \in Nat
BY SavingAssumption

\* A finite set of naturals that is not empty has a last element.
LEMMA LastOf ==
  ASSUME NEW L \in Nat, NEW W \in SUBSET (1..L), W # {}
  PROVE  Max(W) \in W /\ \A j \in W : j <= Max(W)
<1> DEFINE Above(i) == {j \in W : j > i}
           T == {U \in SUBSET W : \E i \in W : U = Above(i)}
<1>1. IsFiniteSet(W)
  <2>1. IsFiniteSet(1..L)
    BY FS_Interval
  <2> QED BY <2>1, FS_Subset
<1>2. PICK U \in T : \A V \in T : ~ (<<V, U>> \in StrictSubsetOrdering(W))
  <2>1. T \subseteq SUBSET W
    OBVIOUS
  <2>2. T # {}
    <3> PICK i \in W : TRUE
      OBVIOUS
    <3> Above(i) \in T
      OBVIOUS
    <3> QED OBVIOUS
  <2> HIDE DEF T
  <2> QED BY <1>1, <2>1, <2>2, FS_StrictSubsetOrderingWellFounded,
             FS_FiniteSubsetsOfFinite, WFMin
<1>3. PICK i \in W : U = Above(i)
  OBVIOUS
<1>4. ASSUME NEW j \in W, j > i
      PROVE  FALSE
  <2>1. Above(j) \in T
    OBVIOUS
  <2>2. Above(j) \subseteq U /\ j \in U /\ j \notin Above(j)
    <3>1. W \subseteq Nat /\ \A k \in W : k > j => k > i
      <4> W \subseteq Nat
        OBVIOUS
      <4> QED BY <1>3, <1>4
    <3>2. ~ (j > j)
      BY <3>1
    <3>3. Above(j) \subseteq Above(i)
      BY <3>1
    <3>4. j \in Above(i) /\ j \notin Above(j)
      BY <3>2, <1>4
    <3> HIDE DEF Above
    <3> QED BY <3>3, <3>4, <1>3
  <2> <<Above(j), U>> \in StrictSubsetOrdering(W)
    BY <2>1, <2>2 DEF StrictSubsetOrdering
  <2> QED BY <1>2, <2>1
<1>5. \A j \in W : i >= j
  BY <1>4
<1>6. Max(W) \in W /\ \A j \in W : Max(W) >= j
  BY <1>5 DEF Max
<1> QED BY <1>6

-----------------------------------------------------------------------------
\* The replay

LEMMA WritesAre ==
  ASSUME transaction_log \in Seq(Writes)
  PROVE  \A r : /\ WritesOf(r) \in SUBSET (1..Len(transaction_log))
                /\ WritesOf(r) # {} =>
                     /\ Max(WritesOf(r)) \in WritesOf(r)
                     /\ Max(WritesOf(r)) \in 1..Len(transaction_log)
                     /\ transaction_log[Max(WritesOf(r))].value \in Values
<1> SUFFICES ASSUME NEW r
             PROVE  /\ WritesOf(r) \in SUBSET (1..Len(transaction_log))
                    /\ WritesOf(r) # {} =>
                         /\ Max(WritesOf(r)) \in WritesOf(r)
                         /\ Max(WritesOf(r)) \in 1..Len(transaction_log)
                         /\ transaction_log[Max(WritesOf(r))].value \in Values
  OBVIOUS
<1>1. WritesOf(r) \in SUBSET (1..Len(transaction_log))
  BY DEF WritesOf
<1>2. ASSUME WritesOf(r) # {}
      PROVE  /\ Max(WritesOf(r)) \in WritesOf(r)
             /\ Max(WritesOf(r)) \in 1..Len(transaction_log)
             /\ transaction_log[Max(WritesOf(r))].value \in Values
  <2>1. Max(WritesOf(r)) \in WritesOf(r)
    <3> Len(transaction_log) \in Nat
      OBVIOUS
    <3> QED BY <1>1, <1>2, LastOf
  <2>2. Max(WritesOf(r)) \in 1..Len(transaction_log)
    BY <1>1, <2>1
  <2> QED BY <2>1, <2>2, WriteKinds
<1> QED BY <1>1, <1>2

LEMMA ReplayRows ==
  ASSUME transaction_log \in Seq(Writes), NEW rows \in [Records -> Values]
  PROVE  Replay(rows) \in [Records -> Values]
BY WritesAre DEF Replay

LEMMA ReplayNothing ==
  ASSUME transaction_log = <<>>, NEW rows \in [Records -> Values]
  PROVE  Replay(rows) = rows
BY DEF Replay, WritesOf

\* To replay on what was already replayed changes nothing.
LEMMA ReplayTwice ==
  ASSUME NEW rows
  PROVE  Replay(Replay(rows)) = Replay(rows)
BY DEF Replay

\* One query more in the log, one write more in the rows.
LEMMA ReplayMore ==
  ASSUME transaction_log \in Seq(Writes), asked \in Writes,
         transaction_log' = Append(transaction_log, asked),
         stored' = stored, stored \in [Records -> Values]
  PROVE  (Replay(stored))' = Apply(Replay(stored), asked)
<1> DEFINE L == Len(transaction_log)
           log == transaction_log
           next == Append(log, asked)
<1>1. /\ L \in Nat /\ DOMAIN next = 1..L+1 /\ DOMAIN log = 1..L
      /\ next[L+1] = asked /\ \A i \in 1..L : next[i] = log[i]
  OBVIOUS
<1>2. asked.key \in Records
  BY WriteKinds
<1> DEFINE Of(r) == {i \in DOMAIN next : next[i].key = r}
<1>3. \A r : WritesOf(r)' = Of(r)
  BY DEF WritesOf
<1>4. \A r : r # asked.key => Of(r) = WritesOf(r)
  <2> SUFFICES ASSUME NEW r, r # asked.key PROVE Of(r) = WritesOf(r)
    OBVIOUS
  <2> HIDE DEF next, L
  <2>1. Of(r) = {i \in 1..L+1 : next[i].key = r}
    BY <1>1
  <2>2. WritesOf(r) = {i \in 1..L : log[i].key = r}
    BY <1>1 DEF WritesOf
  <2>3. \A i \in 1..L+1 : i \in 1..L \/ i = L + 1
    BY <1>1
  <2>4. \A i \in 1..L : i \in 1..L+1
    BY <1>1
  <2> QED BY <1>1, <2>1, <2>2, <2>3, <2>4
<1>5. Of(asked.key) # {} /\ Max(Of(asked.key)) = L + 1
  <2> DEFINE W == Of(asked.key)
  <2>1. L + 1 \in W /\ W \in SUBSET (1..L+1)
    BY <1>1
  <2>2. W # {} /\ L + 1 \in Nat
    BY <1>1, <2>1
  <2> HIDE DEF W, L
  <2>3. Max(W) \in W /\ \A j \in W : j <= Max(W)
    BY <2>1, <2>2, LastOf
  <2>4. Max(W) = L + 1
    <3>1. Max(W) \in 1..L+1 /\ L + 1 <= Max(W)
      BY <2>1, <2>3
    <3> QED BY <3>1, <1>1
  <2> QED BY <2>2, <2>4 DEF W
<1>6. \A r \in Records : r # asked.key =>
        (IF Of(r) = {} THEN stored[r] ELSE next[Max(Of(r))].value) = Replay(stored)[r]
  <2> SUFFICES ASSUME NEW r \in Records, r # asked.key
               PROVE  (IF Of(r) = {} THEN stored[r] ELSE next[Max(Of(r))].value)
                         = Replay(stored)[r]
    OBVIOUS
  <2>1. Of(r) = WritesOf(r)
    BY <1>4
  <2>2. WritesOf(r) # {} => next[Max(WritesOf(r))] = log[Max(WritesOf(r))]
    <3> WritesOf(r) # {} => Max(WritesOf(r)) \in 1..L
      BY WritesAre
    <3> QED BY <1>1
  <2> HIDE DEF Of, next
  <2> QED BY <2>1, <2>2 DEF Replay
<1>7. (IF Of(asked.key) = {} THEN stored[asked.key]
       ELSE next[Max(Of(asked.key))].value) = asked.value
  <2> HIDE DEF Of, next, L
  <2> QED BY <1>1, <1>5
<1>8. (Replay(stored))' = [r \in Records |-> IF Of(r) = {} THEN stored[r]
                                            ELSE next[Max(Of(r))].value]
  <2>1. (Replay(stored))' = [r \in Records |-> IF WritesOf(r)' = {} THEN stored[r]
                                            ELSE next[Max(WritesOf(r)')].value]
    BY DEF Replay
  <2> HIDE DEF Of, next
  <2> QED BY <2>1, <1>3
<1>9. Apply(Replay(stored), asked) =
        [r \in Records |-> IF r = asked.key THEN asked.value ELSE Replay(stored)[r]]
  <2> DOMAIN Replay(stored) = Records
    BY DEF Replay
  <2> QED BY DEF Apply
<1> HIDE DEF Of, next
<1> QED BY <1>6, <1>7, <1>8, <1>9

-----------------------------------------------------------------------------
\* The server

Rows == [Records -> Values]
Sessions == [up : BOOLEAN, open : BOOLEAN, db : {Configured.db, Blank},
             rows : Rows]

LEMMA ApplyRows ==
  ASSUME NEW rows \in Rows, NEW q \in Writes
  PROVE  /\ Apply(rows, q) \in Rows
         /\ \A r \in Records :
              Apply(rows, q)[r] = IF r = q.key THEN q.value ELSE rows[r]
BY WriteKinds DEF Apply, Rows

LEMMA SeenRows ==
  ASSUME stored \in Rows, session \in Sessions
  PROVE  Seen \in Rows
BY DEF Seen, Sessions

LEMMA StoredAfterIs ==
  ASSUME stored \in Rows, session \in Sessions, NEW q \in Queries
  PROVE  /\ StoredAfter(q) \in Rows
         /\ q.op = "write" /\ ~session.open =>
              StoredAfter(q) = Apply(stored, q)
         /\ q.op = "commit" => StoredAfter(q) = Seen
         /\ q.op \in {"begin", "rollback", "none"} => StoredAfter(q) = stored
         /\ q.op = "write" /\ session.open => StoredAfter(q) = stored
<1>1. q.op = "write" => q \in Writes
  BY QueryKinds
<1>2. /\ q.op = "write" /\ ~session.open => StoredAfter(q) = Apply(stored, q)
      /\ q.op = "commit" => StoredAfter(q) = Seen
      /\ q.op \in {"begin", "rollback", "none"} => StoredAfter(q) = stored
      /\ q.op = "write" /\ session.open => StoredAfter(q) = stored
  BY DEF StoredAfter
<1>3. session.open \in BOOLEAN
  BY DEF Sessions
<1> QED BY <1>1, <1>2, <1>3, ApplyRows, SeenRows, QueryKinds

LEMMA SessionAfterIs ==
  ASSUME stored \in Rows, session \in Sessions, NEW q \in Queries
  PROVE  /\ SessionAfter(q) \in Sessions
         /\ SessionAfter(q).up = session.up
         /\ q.op = "begin" => /\ SessionAfter(q).open
                              /\ SessionAfter(q).rows = stored
         /\ q.op \in {"commit", "rollback"} => ~SessionAfter(q).open
         /\ q.op = "write" /\ session.open =>
              /\ SessionAfter(q).open
              /\ SessionAfter(q).rows = Apply(session.rows, q)
         /\ q.op = "write" /\ ~session.open => ~SessionAfter(q).open
         /\ q.op = "none" => SessionAfter(q) = session
<1> Start \in Rows
  BY DatabaseAssumption DEF Rows
<1>0. session.open \in BOOLEAN /\ session.up \in BOOLEAN /\ session.rows \in Rows
  BY DEF Sessions
<1>1. CASE q.op = "begin"
  <2>1. SessionAfter(q) = [session EXCEPT !.open = TRUE, !.rows = stored]
    BY <1>1 DEF SessionAfter
  <2> QED BY <1>1, <2>1 DEF Sessions
<1>2. CASE q.op \in {"commit", "rollback"}
  <2>1. SessionAfter(q) = [session EXCEPT !.open = FALSE, !.rows = Start]
    BY <1>2 DEF SessionAfter
  <2> QED BY <1>2, <2>1 DEF Sessions
<1>3. CASE q.op = "write" /\ session.open
  <2>1. SessionAfter(q) = [session EXCEPT !.rows = Apply(session.rows, q)]
    <3> SessionAfter(q) = [session EXCEPT !.rows = Apply(@, q)]
      BY <1>3 DEF SessionAfter
    <3> QED BY DEF Sessions
  <2>2. Apply(session.rows, q) \in Rows
    BY <1>0, <1>3, QueryKinds, ApplyRows
  <2> QED BY <1>3, <2>1, <2>2 DEF Sessions
<1>4. CASE q.op = "none" \/ (q.op = "write" /\ ~session.open)
  <2>1. SessionAfter(q) = session
    BY <1>4 DEF SessionAfter
  <2> QED BY <1>4, <2>1
<1> QED BY <1>0, <1>1, <1>2, <1>3, <1>4, QueryKinds

\* While the connection is up the process sees the rows it takes for current.
LEMMA SeenIsCurrent ==
  ASSUME Linked, session.up
  PROVE  Seen = Current
BY DEF Linked, Seen, Current

LEMMA CurrentRows ==
  ASSUME DatabaseTypeOK
  PROVE  Current \in Rows /\ stored \in Rows /\ session \in Sessions
<1>1. stored \in Rows /\ session \in Sessions /\ transaction_log \in Seq(Writes)
  BY DEF DatabaseTypeOK, Rows, Sessions
<1> QED BY <1>1, ReplayRows DEF Current, Rows

LEMMA CurrentStays ==
  ASSUME UNCHANGED <<transaction, stored>>
  PROVE  Current' = Current
BY DEF transaction, Current, Replay, WritesOf

-----------------------------------------------------------------------------
\* The steps of the database keep the invariant.

\* The parts of the invariant that a step of the database leaves alone.
LEMMA OthersStay ==
  ASSUME SavingInv, UNCHANGED savingVars, asked' = asked, DatabaseTypeOK'
  PROVE  SavingTypeOK' /\ (Agenda => Agenda')
<1>1. Online' = Online
  BY DEF savingVars, Online
<1> QED BY <1>1 DEF SavingInv, SavingTypeOK, Agenda, savingVars, Row, Idle

\* A query that is executed leaves the link as it should be, and the order.
LEMMA ExecutedTypes ==
  ASSUME DatabaseTypeOK, RawQuery
  PROVE  DatabaseTypeOK'
<1>1. stored \in Rows /\ session \in Sessions /\ asked \in Queries
  BY CurrentRows DEF DatabaseTypeOK
<1>2. stored' \in Rows /\ session' \in Sessions
  BY <1>1, StoredAfterIs, SessionAfterIs DEF RawQuery
<1>3. in_transaction' \in BOOLEAN /\ transaction_log' \in Seq(Writes)
  <2>1. asked.op \in {"commit", "rollback"} =>
          in_transaction' = FALSE /\ transaction_log' = <<>>
    BY DEF RawQuery, Returned, EndTransaction
  <2>2. asked.op \notin {"commit", "rollback"} =>
          /\ in_transaction' = (in_transaction \/ asked.op = "begin")
          /\ transaction_log' = Logged
    BY DEF RawQuery, Returned
  <2>3. Logged \in Seq(Writes)
    BY <1>1, QueryKinds DEF Logged, DatabaseTypeOK
  <2>4. <<>> \in Seq(Writes)
    OBVIOUS
  <2>5. CASE asked.op \in {"commit", "rollback"}
    BY <2>1, <2>4, <2>5
  <2>6. CASE asked.op \notin {"commit", "rollback"}
    BY <2>2, <2>3, <2>6
  <2> QED BY <2>5, <2>6
<1>4. UNCHANGED <<process, login, attempt, asked, losses, errors>> /\ reply' = "done"
  BY DEF RawQuery
<1> QED BY <1>2, <1>3, <1>4 DEF DatabaseTypeOK, Rows, Sessions

\* What a query that is executed makes of the transaction and the rows.
LEMMA Executed ==
  ASSUME DatabaseTypeOK, Linked, RawQuery
  PROVE  /\ Linked'
         /\ asked.op = "begin" => stored' = stored /\ Current' = Current
         /\ asked.op = "commit" => stored' = Current /\ Current' = Current
         /\ asked.op = "rollback" => stored' = stored /\ Current' = stored
         /\ asked.op = "write" => Current' = Apply(Current, asked)
         /\ asked.op = "write" /\ in_transaction => stored' = stored
         /\ asked.op = "write" /\ ~in_transaction => stored' = Current'
<1>1. /\ stored \in Rows /\ session \in Sessions /\ asked \in Queries
      /\ Current \in Rows /\ in_transaction \in BOOLEAN
      /\ transaction_log \in Seq(Writes)
  BY CurrentRows DEF DatabaseTypeOK
<1>2. /\ session.up /\ attempt = 0 /\ reply = "none"
      /\ session.open = in_transaction /\ Seen = Current
  BY SeenIsCurrent DEF Linked, RawQuery, Running
<1>3. /\ attempt' = attempt /\ asked' = asked /\ reply' = "done"
      /\ stored' = StoredAfter(asked) /\ session' = SessionAfter(asked)
      /\ session'.up = session.up
  BY <1>1, SessionAfterIs DEF RawQuery
<1>4. asked.op \in {"begin", "commit", "rollback", "write"}
  BY <1>1, QueryKinds DEF RawQuery, Running
<1>5. asked.op \notin {"commit", "rollback"} =>
        /\ in_transaction' = (in_transaction \/ asked.op = "begin")
        /\ transaction_log' = Logged
  BY DEF RawQuery, Returned
<1>6. CASE asked.op = "begin"
  <2>1. ~in_transaction /\ transaction_log = <<>>
    BY <1>1, <1>2, <1>6, QueryKinds DEF Linked
  <2>2. in_transaction' /\ transaction_log' = <<>>
    BY <1>5, <1>6, <2>1 DEF Logged
  <2>3. stored' = stored /\ session'.open /\ session'.rows = stored
    BY <1>1, <1>3, <1>6, StoredAfterIs, SessionAfterIs
  <2>4. (Replay(stored))' = stored
    BY <2>2, <2>3, <1>1 DEF Replay, WritesOf, Rows
  <2>5. Current' = Current
    BY <2>1, <2>2, <2>4 DEF Current
  <2>6. Linked'
    BY <1>2, <1>3, <2>2, <2>3, <2>4 DEF Linked
  <2> QED BY <1>6, <2>3, <2>5, <2>6
<1>7. CASE asked.op \in {"commit", "rollback"}
  <2>1. in_transaction' = FALSE /\ transaction_log' = <<>>
    BY <1>7 DEF RawQuery, Returned, EndTransaction
  <2>2. session'.open = FALSE
    BY <1>1, <1>3, <1>7, SessionAfterIs DEF Sessions
  <2>3. Linked'
    BY <1>2, <1>3, <2>1, <2>2 DEF Linked
  <2>4. Current' = stored'
    BY <2>1 DEF Current
  <2>5. stored' = IF asked.op = "commit" THEN Current ELSE stored
    BY <1>1, <1>2, <1>3, <1>7, StoredAfterIs
  <2> QED BY <1>7, <2>3, <2>4, <2>5
<1>8. CASE asked.op = "write" /\ in_transaction
  <2>1. asked \in Writes
    BY <1>1, <1>8, QueryKinds
  <2>2. in_transaction' = TRUE /\ transaction_log' = Append(transaction_log, asked)
    BY <1>5, <1>8 DEF Logged
  <2>3. /\ stored' = stored /\ session'.open
        /\ session'.rows = Apply(session.rows, asked)
    BY <1>1, <1>2, <1>3, <1>8, StoredAfterIs, SessionAfterIs
  <2>4. (Replay(stored))' = Apply(Replay(stored), asked)
    BY <1>1, <2>1, <2>2, <2>3, ReplayMore DEF Rows
  <2>5. session.rows = Replay(stored)
    BY <1>2, <1>8 DEF Linked
  <2>6. session'.open = TRUE
    BY <1>1, <2>3, <1>3, SessionAfterIs DEF Sessions
  <2>7. Linked'
    BY <1>2, <1>3, <2>2, <2>3, <2>4, <2>5, <2>6 DEF Linked
  <2>8. Current' = Apply(Current, asked)
    BY <1>8, <2>2, <2>4 DEF Current
  <2> QED BY <1>8, <2>3, <2>7, <2>8
<1>9. CASE asked.op = "write" /\ ~in_transaction
  <2>1. in_transaction' = FALSE /\ transaction_log' = <<>>
    BY <1>1, <1>5, <1>9 DEF Logged, Linked
  <2>2. session'.open = FALSE
    BY <1>1, <1>2, <1>3, <1>9, SessionAfterIs DEF Sessions
  <2>3. stored' = Apply(stored, asked) /\ Current' = stored' /\ Current = stored
    BY <1>1, <1>2, <1>3, <1>9, <2>1, StoredAfterIs DEF Current
  <2>4. Linked'
    BY <1>2, <1>3, <2>1, <2>2 DEF Linked
  <2> QED BY <1>9, <2>3, <2>4
<1> QED BY <1>1, <1>4, <1>6, <1>7, <1>8, <1>9

\* The order is kept where the rows are those that were current, or those
\* that were stored, or those with what was asked for written to them.
LEMMA RowsKeepOrder ==
  ASSUME DatabaseTypeOK, Ordered, asked' = asked, live' = live,
         \A c \in Online : c \in Records /\ live[c].usage \in Nat,
         \/ stored' = stored /\ Current' = Current
         \/ stored' = Current /\ Current' = Current
         \/ stored' = stored /\ Current' = stored
         \/ asked.op = "write" /\ stored' = stored /\ Current' = Apply(Current, asked)
         \/ /\ asked.op = "write" /\ stored' = Apply(Current, asked)
            /\ Current' = Apply(Current, asked)
  PROVE  Ordered' /\ \A r \in Records : stored'[r].usage >= stored[r].usage
<1>1. stored \in Rows /\ Current \in Rows /\ asked \in Queries
  BY CurrentRows DEF DatabaseTypeOK
<1>2. \A r \in Records : stored[r].usage \in Nat /\ Current[r].usage \in Nat
  BY <1>1, RowFields DEF Rows
<1>3. asked.op = "write" => asked.key \in Records /\ asked.value.usage \in Nat
  BY <1>1, QueryKinds, RowFields
<1>4. Online' = Online
  BY DEF Online
<1>5. CASE stored' = stored /\ Current' = Current
  BY <1>2, <1>4, <1>5 DEF Ordered
<1>6. CASE stored' = Current /\ Current' = Current
  BY <1>2, <1>4, <1>6 DEF Ordered
<1>7. CASE stored' = stored /\ Current' = stored
  BY <1>2, <1>3, <1>4, <1>7 DEF Ordered
<1>8. CASE asked.op = "write" /\ Current' = Apply(Current, asked)
           /\ (stored' = stored \/ stored' = Current')
  <2> DEFINE Usage(r) == IF r = asked.key THEN asked.value.usage ELSE Current[r].usage
  <2>1. \A r \in Records : Current'[r].usage = Usage(r)
    BY <1>1, <1>8, QueryKinds, ApplyRows
  <2>2. \A r \in Records : Usage(r) \in Nat /\ Usage(r) >= Current[r].usage
    BY <1>2, <1>3, <1>8 DEF Ordered
  <2>3. \A r \in Records : Usage(r) >= stored[r].usage
    BY <1>2, <2>2 DEF Ordered
  <2>4. \A r \in Records : /\ stored'[r].usage <= Current'[r].usage
                           /\ stored'[r].usage >= stored[r].usage
    <3>1. CASE stored' = stored
      BY <1>2, <2>1, <2>2, <2>3, <3>1
    <3>2. CASE stored' = Current'
      <4>1. \A r \in Records : stored'[r].usage = Usage(r)
        BY <2>1, <3>2
      <4> HIDE DEF Usage
      <4> QED BY <2>1, <2>2, <2>3, <4>1
    <3> QED BY <1>8, <3>1, <3>2
  <2>5. \A c \in Online : Usage(c) <= live[c].usage
    BY <1>8 DEF Ordered
  <2>6. Usage(asked.key) = asked.value.usage
    OBVIOUS
  <2>7. Current'[asked.key].usage <= asked.value.usage
    <3> HIDE DEF Usage
    <3> QED BY <1>3, <1>8, <2>1, <2>6
  <2>8. \A c \in Online : Current'[c].usage <= live[c].usage
    <3> HIDE DEF Usage
    <3> QED BY <2>1, <2>5
  <2>9. \A c \in Online : asked.op = "write" /\ asked.key = c =>
                            asked.value.usage <= live[c].usage
    BY DEF Ordered
  <2> QED BY <1>4, <2>4, <2>7, <2>8, <2>9 DEF Ordered
<1> QED BY <1>5, <1>6, <1>7, <1>8

LEMMA PlayedRows ==
  ASSUME SavingTypeOK
  PROVE  \A c \in Online : c \in Records /\ live[c].usage \in Nat
BY SavingAssumption DEF SavingTypeOK

LEMMA RawQueryKeeps ==
  ASSUME SavingInv, RawQuery, UNCHANGED savingVars
  PROVE  /\ SavingInv'
         /\ \A r \in Records : stored'[r].usage >= stored[r].usage
<1>1. /\ DatabaseTypeOK /\ SavingTypeOK /\ process = "up" /\ process' = "up"
      /\ Linked /\ Ordered /\ Agenda /\ asked' = asked /\ live' = live
  BY DEF SavingInv, SavingTypeOK, RawQuery, Running, savingVars
<1>2. DatabaseTypeOK'
  BY <1>1, ExecutedTypes
<1>3. SavingTypeOK' /\ Agenda'
  BY <1>1, <1>2, OthersStay
<1>4. asked.op \in {"begin", "commit", "rollback", "write"}
  BY <1>1, QueryKinds DEF DatabaseTypeOK, RawQuery, Running
<1>5. in_transaction \in BOOLEAN
  BY <1>1 DEF DatabaseTypeOK
<1>6. \/ stored' = stored /\ Current' = Current
      \/ stored' = Current /\ Current' = Current
      \/ stored' = stored /\ Current' = stored
      \/ asked.op = "write" /\ stored' = stored /\ Current' = Apply(Current, asked)
      \/ /\ asked.op = "write" /\ stored' = Apply(Current, asked)
         /\ Current' = Apply(Current, asked)
  BY <1>1, <1>4, <1>5, Executed
<1>7. Linked'
  BY <1>1, Executed
<1>8. Ordered' /\ \A r \in Records : stored'[r].usage >= stored[r].usage
  BY <1>1, <1>6, PlayedRows, RowsKeepOrder
<1> QED BY <1>1, <1>3, <1>7, <1>8 DEF SavingInv

LEMMA RefusedQueryKeeps ==
  ASSUME SavingInv, RefusedQuery, UNCHANGED savingVars
  PROVE  SavingInv' /\ stored' = stored
<1>1. /\ DatabaseTypeOK /\ SavingTypeOK /\ process = "up"
      /\ Linked /\ Ordered /\ Agenda
      /\ UNCHANGED <<process, in_transaction, transaction_log, login, attempt,
                     session, asked, stored, losses, live>>
  BY DEF SavingInv, SavingTypeOK, RefusedQuery, Running, savingVars, link,
         transaction
<1>2. reply = "none" /\ attempt = 0 /\ reply' \in {"none", "failed"}
  BY DEF RefusedQuery, Running
<1>3. DatabaseTypeOK'
  <2>1. errors' \in 0..MaxErrors
    BY <1>1, DatabaseAssumption DEF RefusedQuery, DatabaseTypeOK
  <2> QED BY <1>1, <1>2, <2>1 DEF DatabaseTypeOK
<1>4. SavingTypeOK' /\ Agenda'
  BY <1>1, <1>3, OthersStay
<1>5. Current' = Current /\ Online' = Online
  BY <1>1, CurrentStays DEF transaction, Online
<1>6. Linked'
  BY <1>1, <1>2 DEF Linked, Replay, WritesOf
<1>7. Ordered'
  BY <1>1, <1>5 DEF Ordered
<1> QED BY <1>1, <1>4, <1>6, <1>7 DEF SavingInv

LEMMA NoSessionIs == NoSession \in Sessions /\ NoSession.up = FALSE
BY DatabaseAssumption DEF NoSession, Sessions, Rows

LEMMA LoseLinkKeeps ==
  ASSUME SavingInv, LoseLink, UNCHANGED savingVars
  PROVE  /\ SavingInv'
         /\ \A r \in Records : stored'[r].usage >= stored[r].usage
<1>1. /\ DatabaseTypeOK /\ SavingTypeOK /\ process = "up"
      /\ Linked /\ Ordered /\ Agenda
      /\ UNCHANGED <<process, in_transaction, transaction_log, login, asked,
                     reply, errors, live>>
  BY DEF SavingInv, SavingTypeOK, LoseLink, Running, savingVars, transaction
<1>2. /\ stored \in Rows /\ session \in Sessions /\ asked \in Queries
      /\ Current \in Rows /\ in_transaction \in BOOLEAN
      /\ transaction_log \in Seq(Writes)
  BY <1>1, CurrentRows DEF DatabaseTypeOK
<1>3. /\ session.up /\ attempt = 0 /\ reply = "none"
      /\ session.open = in_transaction /\ Seen = Current
  BY <1>1, SeenIsCurrent DEF Linked, LoseLink, Running
<1>4. session' = NoSession /\ attempt' = 1 /\ losses' = losses + 1 /\ losses < MaxLosses
  BY DEF LoseLink
<1>5. stored' = stored \/ stored' = StoredAfter(asked)
  BY DEF LoseLink
<1>6. asked.op \in {"begin", "commit", "rollback", "write"}
  BY <1>2, QueryKinds DEF LoseLink, Running
<1>7. DatabaseTypeOK'
  <2>1. stored' \in Rows
    BY <1>2, <1>5, StoredAfterIs
  <2>2. losses' \in 0..MaxLosses /\ attempt' \in 0..Attempts
    BY <1>1, <1>4, DatabaseAssumption DEF DatabaseTypeOK
  <2>3. session' \in Sessions
    BY <1>4, NoSessionIs
  <2> QED BY <1>1, <2>1, <2>2, <2>3 DEF DatabaseTypeOK, Rows, Sessions
<1>8. SavingTypeOK' /\ Agenda'
  BY <1>1, <1>7, OthersStay
<1>9. Linked'
  <2>1. session'.up = FALSE /\ asked # NoQuery
    BY <1>4, NoSessionIs DEF LoseLink, Running
  <2> QED BY <1>1, <1>3, <1>4, <2>1 DEF Linked
<1>10. \/ stored' = stored /\ Current' = Current
       \/ stored' = Current /\ Current' = Current
       \/ stored' = stored /\ Current' = stored
       \/ asked.op = "write" /\ stored' = stored /\ Current' = Apply(Current, asked)
       \/ /\ asked.op = "write" /\ stored' = Apply(Current, asked)
          /\ Current' = Apply(Current, asked)
  <2>1. CASE stored' = stored
    BY <1>1, <2>1, CurrentStays DEF transaction
  <2>2. CASE stored' = StoredAfter(asked) /\ asked.op = "commit"
    <3>1. stored' = Current
      BY <1>2, <1>3, <2>2, StoredAfterIs
    <3>2. (Replay(stored))' = Replay(stored')
      BY <1>1 DEF Replay, WritesOf
    <3>3. in_transaction => Current' = Replay(Replay(stored))
      BY <1>1, <3>1, <3>2 DEF Current
    <3>4. in_transaction => Current' = Current
      BY <3>3, ReplayTwice DEF Current
    <3>5. ~in_transaction => Current' = Current
      BY <1>1, <3>1 DEF Current
    <3> QED BY <1>2, <3>1, <3>4, <3>5
  <2>3. CASE stored' = StoredAfter(asked) /\ asked.op = "write" /\ ~session.open
    <3>1. ~in_transaction /\ ~in_transaction'
      BY <1>1, <1>3, <2>3
    <3>2. Current = stored /\ Current' = stored'
      BY <3>1 DEF Current
    <3>3. stored' = Apply(stored, asked)
      BY <1>2, <2>3, StoredAfterIs
    <3> QED BY <2>3, <3>2, <3>3
  <2>4. CASE /\ stored' = StoredAfter(asked) /\ asked.op # "commit"
             /\ ~(asked.op = "write" /\ ~session.open)
    <3>1. stored' = stored
      BY <1>2, <1>6, <2>4, StoredAfterIs
    <3> QED BY <1>1, <3>1, CurrentStays DEF transaction
  <2> QED BY <1>5, <2>1, <2>2, <2>3, <2>4
<1>11. Ordered' /\ \A r \in Records : stored'[r].usage >= stored[r].usage
  BY <1>1, <1>10, PlayedRows, RowsKeepOrder
<1> QED BY <1>1, <1>8, <1>9, <1>11 DEF SavingInv

Logins == [user : {Configured.user, Configured.pass, Configured.db, Blank},
           pass : {Configured.pass, Configured.db, Blank},
           db : {Configured.db, Blank}]

LEMMA MembersAre ==
  ASSUME NEW l \in Logins
  PROVE  Members(l) \in Logins /\ Members(l).db = Blank
BY DEF Members, Logins

\* The process ends: what is left is of the right types.
LEMMA StoppedTypes ==
  ASSUME DatabaseTypeOK, NEW state \in {"halted", "down"}, StopProcess(state),
         UNCHANGED <<transaction, stored, losses, errors>>, login' \in Logins
  PROVE  DatabaseTypeOK' /\ process' # "up" /\ Idle'
<1>1. /\ process' = state /\ session' = NoSession /\ attempt' = 0
      /\ asked' = NoQuery /\ reply' = "none"
      /\ UNCHANGED <<in_transaction, transaction_log, stored, losses, errors>>
  BY DEF StopProcess, transaction
<1>2. NoQuery \in Queries /\ 0 \in 0..Attempts
  BY DatabaseAssumption DEF Queries
<1>3. DatabaseTypeOK'
  BY <1>1, <1>2, NoSessionIs DEF DatabaseTypeOK, Sessions, Rows, Logins
<1> QED BY <1>1, <1>3 DEF Idle

LEMMA StoppedKeeps ==
  ASSUME SavingInv, UNCHANGED savingVars, DatabaseTypeOK', process' # "up", Idle'
  PROVE  SavingInv'
BY DEF SavingInv, SavingTypeOK, savingVars, Online

\* The link is made again, or not yet: the rows are what they were.
LEMMA LinkedAgainKeeps ==
  ASSUME SavingInv, process = "up", attempt # 0, UNCHANGED savingVars,
         DatabaseTypeOK',
         UNCHANGED <<process, transaction, asked, reply, stored>>,
         attempt' = 0 <=> session'.up,
         session'.up => /\ session'.open = in_transaction
                        /\ in_transaction => session'.rows = Replay(stored)
  PROVE  SavingInv'
<1>1. /\ Linked /\ Ordered /\ Agenda /\ DatabaseTypeOK /\ asked' = asked
      /\ UNCHANGED <<in_transaction, transaction_log, live>>
  BY DEF SavingInv, SavingTypeOK, savingVars, transaction
<1>2. SavingTypeOK' /\ Agenda'
  BY <1>1, OthersStay
<1>3. Current' = Current /\ Online' = Online
  BY <1>1, CurrentStays DEF Online
<1>4. Linked'
  BY <1>1 DEF Linked, Replay, WritesOf
<1>5. Ordered'
  BY <1>1, <1>3 DEF Ordered
<1> QED BY <1>2, <1>4, <1>5 DEF SavingInv

LEMMA ReconnectFailsKeeps ==
  ASSUME SavingInv, ReconnectFails, UNCHANGED savingVars
  PROVE  SavingInv' /\ stored' = stored
<1>1. /\ DatabaseTypeOK /\ process = "up" /\ Linked /\ attempt > 0
      /\ UNCHANGED <<transaction, stored, losses, errors>>
      /\ login' = Members(login)
  BY DEF SavingInv, SavingTypeOK, ReconnectFails
<1>2. login \in Logins /\ login' \in Logins
  BY <1>1, MembersAre DEF DatabaseTypeOK, Logins
<1>3. CASE attempt = Attempts
  <2>1. StopProcess("halted")
    BY <1>3 DEF ReconnectFails
  <2> QED BY <1>1, <1>2, <2>1, StoppedTypes, StoppedKeeps
<1>4. CASE attempt # Attempts
  <2>1. attempt' = attempt + 1 /\ UNCHANGED <<process, session, asked, reply>>
    BY <1>4 DEF ReconnectFails
  <2>2. attempt \in Nat /\ attempt' \in 0..Attempts /\ attempt' # 0
    BY <1>1, <1>4, <2>1, DatabaseAssumption DEF DatabaseTypeOK
  <2>3. DatabaseTypeOK'
    BY <1>1, <1>2, <2>1, <2>2 DEF DatabaseTypeOK, transaction, Logins
  <2>4. ~session.up
    BY <1>1 DEF Linked
  <2>5. attempt' = 0 <=> session'.up
    BY <2>1, <2>2, <2>4
  <2>6. attempt # 0
    BY <1>1
  <2> QED BY <1>1, <2>1, <2>3, <2>4, <2>5, <2>6, LinkedAgainKeeps
<1> QED BY <1>3, <1>4

LEMMA ReconnectKeeps ==
  ASSUME SavingInv, Reconnect, UNCHANGED savingVars
  PROVE  SavingInv' /\ stored' = stored
<1>1. /\ DatabaseTypeOK /\ process = "up" /\ Linked /\ attempt > 0
      /\ UNCHANGED <<transaction, stored, losses, errors>>
      /\ login' = Members(login)
  BY DEF SavingInv, SavingTypeOK, Reconnect
<1>2. login \in Logins /\ login' \in Logins /\ Members(login).db = Blank
  BY <1>1, MembersAre DEF DatabaseTypeOK, Logins
<1>3. CASE in_transaction /\ transaction_log # <<>> /\ Members(login).db = Blank
  <2>1. StopProcess("halted")
    BY <1>3 DEF Reconnect
  <2> QED BY <1>1, <1>2, <2>1, StoppedTypes, StoppedKeeps
<1>4. CASE ~(in_transaction /\ transaction_log # <<>> /\ Members(login).db = Blank)
  <2>1. /\ session' = [Connected(Members(login).db) EXCEPT
                         !.open = in_transaction,
                         !.rows = IF in_transaction THEN Replay(stored) ELSE Start]
        /\ attempt' = 0 /\ UNCHANGED <<process, asked, reply>>
    BY <1>4 DEF Reconnect
  <2>2. /\ stored \in Rows /\ Start \in Rows /\ Replay(stored) \in Rows
        /\ in_transaction \in BOOLEAN
    <3>1. stored \in Rows /\ transaction_log \in Seq(Writes)
      BY <1>1, CurrentRows DEF DatabaseTypeOK
    <3> QED BY <1>1, <3>1, ReplayRows, DatabaseAssumption
            DEF Rows, DatabaseTypeOK
  <2>3. /\ session'.up = TRUE /\ session'.open = in_transaction
        /\ in_transaction => session'.rows = Replay(stored)
    BY <2>1 DEF Connected
  <2>4. session' \in Sessions
    BY <1>2, <2>1, <2>2 DEF Sessions, Connected
  <2>5. 0 \in 0..Attempts
    BY DatabaseAssumption
  <2>6. DatabaseTypeOK'
    BY <1>1, <1>2, <2>1, <2>4, <2>5
       DEF DatabaseTypeOK, transaction, Logins, Sessions, Rows
  <2>7. attempt # 0
    BY <1>1
  <2> QED BY <1>1, <2>1, <2>3, <2>6, <2>7, LinkedAgainKeeps
<1> QED BY <1>3, <1>4

-----------------------------------------------------------------------------
\* The tasks of the world's thread keep the invariant.

\* Who is not waiting for an answer has a link, and sees what is current.
LEMMA AtRest ==
  ASSUME SavingInv, process = "up", Idle \/ Done \/ Failed
  PROVE  attempt = 0 /\ session.up /\ Seen = Current
<1>1. Linked
  BY DEF SavingInv
<1>2. attempt = 0 /\ session.up
  BY <1>1 DEF Linked, Idle, Done, Failed
<1> QED BY <1>1, <1>2, SeenIsCurrent

\* A query is asked: it is not behind what is current.
LEMMA AskKeeps ==
  ASSUME SavingInv, process = "up", attempt = 0, NEW q \in Queries, Ask(q),
         q.op = "begin" => ~in_transaction,
         q.op = "write" => /\ Current[q.key].usage <= q.value.usage
                           /\ q.key \in Online =>
                                q.value.usage <= live[q.key].usage,
         UNCHANGED <<live, dumped, boots>>, task' \in Tasks \ {"none"},
         agenda' \subseteq Records, Agenda'
  PROVE  SavingInv' /\ stored' = stored
<1>1. /\ asked' = q /\ reply' = "none"
      /\ UNCHANGED <<process, in_transaction, transaction_log, login, attempt,
                     session, stored, losses, errors>>
  BY DEF Ask, transaction, link
<1>2. SavingTypeOK /\ DatabaseTypeOK /\ Linked /\ Ordered
  BY DEF SavingInv, SavingTypeOK
<1>3. DatabaseTypeOK'
  BY <1>1, <1>2 DEF DatabaseTypeOK
<1>4. Current' = Current /\ Online' = Online
  BY <1>1, CurrentStays DEF transaction, Online
<1>5. SavingTypeOK'
  BY <1>2, <1>3, <1>4 DEF SavingTypeOK
<1>6. Linked'
  BY <1>1, <1>2, QueryKinds DEF Linked, Replay, WritesOf
<1>7. Ordered'
  BY <1>1, <1>2, <1>4 DEF Ordered
<1> QED BY <1>1, <1>5, <1>6, <1>7 DEF SavingInv

\* The answer is taken; some may have gone, and entries of the dump with it.
LEMMA AnsweredKeeps ==
  ASSUME SavingInv, process = "up", attempt = 0, Answered,
         DOMAIN live' \subseteq DOMAIN live,
         \A c \in DOMAIN live' : live'[c] = live[c],
         DOMAIN dumped' \subseteq DOMAIN dumped,
         \A c \in DOMAIN dumped' : dumped'[c] = dumped[c],
         boots' = boots, task' \in Tasks, agenda' \subseteq Records, Agenda'
  PROVE  SavingInv' /\ stored' = stored
<1>1. /\ asked' = NoQuery /\ reply' = "none"
      /\ UNCHANGED <<process, in_transaction, transaction_log, login, attempt,
                     session, stored, losses, errors>>
  BY DEF Answered, transaction, link
<1>2. SavingTypeOK /\ DatabaseTypeOK /\ Linked /\ Ordered
  BY DEF SavingInv, SavingTypeOK
<1>3. DatabaseTypeOK'
  BY <1>1, <1>2 DEF DatabaseTypeOK, Queries
<1>4. Current' = Current /\ Online' \subseteq Online
  BY <1>1, CurrentStays DEF transaction, Online
<1>5. SavingTypeOK'
  BY <1>1, <1>2, <1>3, <1>4 DEF SavingTypeOK, Idle, Online
<1>6. Linked'
  BY <1>1, <1>2 DEF Linked, Replay, WritesOf, NoQuery, Begin
<1>7. Ordered'
  BY <1>1, <1>2, <1>4 DEF Ordered, NoQuery, Online
<1> QED BY <1>1, <1>5, <1>6, <1>7 DEF SavingInv

\* Someone comes in or gets on; the dump may grow.
LEMMA PlayKeeps ==
  ASSUME SavingInv, process = "up", UNCHANGED databaseVars, SavingTypeOK',
         Agenda', Idle,
         \A c \in DOMAIN live' : Current[c].usage <= live'[c].usage
  PROVE  SavingInv' /\ stored' = stored
<1>1. UNCHANGED <<process, in_transaction, transaction_log, login, attempt,
                  asked, reply, session, stored, losses, errors>>
  BY DEF databaseVars, transaction, link
<1>2. Linked /\ Ordered
  BY DEF SavingInv
<1>3. Current' = Current
  BY <1>1, CurrentStays DEF transaction
<1>4. Linked'
  BY <1>1, <1>2 DEF Linked, Replay, WritesOf
<1>5. asked'.op # "write"
  BY <1>1 DEF Idle, NoQuery
<1>6. Ordered'
  BY <1>1, <1>2, <1>3, <1>5 DEF Ordered, Online
<1> QED BY <1>1, <1>4, <1>6 DEF SavingInv

LEMMA DatabaseRests ==
  ASSUME DatabaseTypeOK, UNCHANGED databaseVars
  PROVE  DatabaseTypeOK'
<1>1. UNCHANGED <<process, in_transaction, transaction_log, login, attempt,
                  asked, reply, session, stored, losses, errors>>
  BY DEF databaseVars, transaction, link
<1> QED BY <1>1 DEF DatabaseTypeOK

LEMMA FreeIsIdle ==
  ASSUME SavingInv, Free
  PROVE  /\ process = "up" /\ task = "none" /\ Idle /\ attempt = 0 /\ Seen = Current
         /\ SavingTypeOK /\ DatabaseTypeOK /\ Ordered /\ Linked
<1>1. process = "up" /\ task = "none" /\ Idle /\ SavingTypeOK
  BY DEF SavingInv, SavingTypeOK, Free
<1> QED BY <1>1, AtRest DEF SavingInv, SavingTypeOK

LEMMA CurrentFields ==
  ASSUME DatabaseTypeOK
  PROVE  \A c \in Records : /\ Current[c].usage \in 0..LastMinute
                            /\ Current[c].version \in 0..LastVersion
                            /\ Current[c].usage \in Nat
BY CurrentRows, RowFields DEF Rows

LEMMA LoginKeeps ==
  ASSUME SavingInv, NEW c \in Records, Login(c)
  PROVE  SavingInv' /\ stored' = stored
<1>1. /\ process = "up" /\ task = "none" /\ Idle /\ Seen = Current
      /\ SavingTypeOK /\ DatabaseTypeOK /\ Ordered
  BY FreeIsIdle DEF Login
<1> DEFINE row == [usage |-> Current[c].usage, version |-> Current[c].version,
                   base |-> Current[c].usage]
<1>2. live' = [d \in Online \cup {c} |-> IF d = c THEN row ELSE live[d]]
  BY <1>1 DEF Login
<1>3. UNCHANGED <<databaseVars, dumped, task, agenda, boots>>
  BY DEF Login
<1>4. /\ DOMAIN live' = DOMAIN live \cup {c} /\ live'[c] = row
      /\ \A d \in DOMAIN live : d # c => live'[d] = live[d]
  <2> HIDE DEF row
  <2> QED BY <1>2 DEF Online
<1>5. row \in [usage : 0..LastMinute, version : 0..LastVersion, base : 0..row.usage]
  <2> row.usage \in Nat /\ row.usage = Current[c].usage
    BY <1>1, CurrentFields
  <2> QED BY <1>1, CurrentFields
<1>6. SavingTypeOK'
  <2>1. DatabaseTypeOK' /\ (task = "none" => Idle')
    BY <1>1, <1>3, DatabaseRests DEF Idle, databaseVars
  <2>2. \A d \in Online' : live'[d] \in [usage : 0..LastMinute,
                                         version : 0..LastVersion,
                                         base : 0..live'[d].usage]
    <3> HIDE DEF row
    <3> QED BY <1>1, <1>4, <1>5 DEF SavingTypeOK, Online
  <2> QED BY <1>1, <1>3, <1>4, <2>1, <2>2 DEF SavingTypeOK, Online
<1>7. Agenda'
  BY <1>1, <1>3 DEF Agenda
<1>8. \A d \in DOMAIN live' : Current[d].usage <= live'[d].usage
  <2>1. row.usage = Current[c].usage /\ Current[c].usage \in Nat
    BY <1>1, CurrentFields
  <2> HIDE DEF row
  <2> QED BY <1>1, <1>4, <2>1 DEF Ordered, Online
<1> QED BY <1>1, <1>3, <1>6, <1>7, <1>8, PlayKeeps

LEMMA ProgressKeeps ==
  ASSUME SavingInv, NEW c \in Records, Progress(c)
  PROVE  SavingInv' /\ stored' = stored
<1>1. /\ process = "up" /\ task = "none" /\ Idle
      /\ SavingTypeOK /\ DatabaseTypeOK /\ Ordered /\ c \in Online
  BY FreeIsIdle DEF Progress
<1>2. /\ live[c] \in [usage : 0..LastMinute, version : 0..LastVersion,
                      base : 0..live[c].usage]
      /\ live[c].usage \in Nat /\ Current[c].usage \in Nat
      /\ Current[c].usage <= live[c].usage
  BY <1>1, PlayedRows, CurrentFields DEF SavingTypeOK, Ordered
<1>3. PICK row : /\ live' = [live EXCEPT ![c] = row]
                 /\ row \in [usage : 0..LastMinute, version : 0..LastVersion,
                             base : 0..row.usage]
                 /\ row.usage >= live[c].usage
  <2>1. CASE /\ live[c].version < LastVersion
             /\ live' = [live EXCEPT ![c].version = @ + 1]
    <3> DEFINE row == [live[c] EXCEPT !.version = live[c].version + 1]
    <3>1. live' = [live EXCEPT ![c] = row]
      BY <2>1
    <3>2. row.usage = live[c].usage
      BY <1>2
    <3>3. row \in [usage : 0..LastMinute, version : 0..LastVersion,
                   base : 0..row.usage]
      BY <1>2, <2>1, <3>2, SavingAssumption
    <3>4. row.usage >= live[c].usage
      BY <1>2, <3>2
    <3> HIDE DEF row
    <3> QED BY <3>1, <3>3, <3>4, Zenon
  <2>2. CASE /\ live[c].usage < LastMinute
             /\ live' = [live EXCEPT ![c].usage = @ + 1]
    <3> DEFINE row == [live[c] EXCEPT !.usage = live[c].usage + 1]
    <3>1. live' = [live EXCEPT ![c] = row]
      BY <2>2
    <3>2. row.usage = live[c].usage + 1
      BY <1>2
    <3>3. row \in [usage : 0..LastMinute, version : 0..LastVersion,
                   base : 0..row.usage]
      BY <1>2, <2>2, <3>2, SavingAssumption
    <3>4. row.usage >= live[c].usage
      BY <1>2, <3>2
    <3> HIDE DEF row
    <3> QED BY <3>1, <3>3, <3>4, Zenon
  <2> QED BY <2>1, <2>2 DEF Progress
<1>4. UNCHANGED <<databaseVars, dumped, task, agenda, boots>>
  BY DEF Progress
<1>5. /\ DOMAIN live' = DOMAIN live /\ live'[c] = row
      /\ \A d \in DOMAIN live : d # c => live'[d] = live[d]
  BY <1>1, <1>3 DEF Online
<1>6. SavingTypeOK'
  <2>1. DatabaseTypeOK' /\ (task = "none" => Idle')
    BY <1>1, <1>4, DatabaseRests DEF Idle, databaseVars
  <2>2. \A d \in Online' : live'[d] \in [usage : 0..LastMinute,
                                         version : 0..LastVersion,
                                         base : 0..live'[d].usage]
    BY <1>1, <1>3, <1>5 DEF SavingTypeOK, Online
  <2> QED BY <1>1, <1>4, <1>5, <2>1, <2>2 DEF SavingTypeOK, Online
<1>7. Agenda'
  BY <1>1, <1>4 DEF Agenda
<1>8. \A d \in DOMAIN live' : Current[d].usage <= live'[d].usage
  <2>1. row.usage \in Nat
    BY <1>3, SavingAssumption
  <2>2. Current[c].usage <= live'[c].usage
    BY <1>2, <1>3, <1>5, <2>1
  <2> QED BY <1>1, <1>5, <2>2 DEF Ordered, Online
<1> QED BY <1>1, <1>4, <1>6, <1>7, <1>8, PlayKeeps

LEMMA TimedSaveKeeps ==
  ASSUME SavingInv, TimedSave
  PROVE  SavingInv' /\ stored' = stored
<1>1. /\ process = "up" /\ task = "none" /\ Idle /\ attempt = 0
      /\ SavingTypeOK /\ DatabaseTypeOK /\ Ordered
  BY FreeIsIdle DEF TimedSave
<1>2. agenda' = Online /\ UNCHANGED <<live, dumped, boots>> /\ Online \subseteq Records
  BY <1>1 DEF TimedSave, SavingTypeOK
<1>3. CASE in_transaction
  <2>1. task' = "save" /\ UNCHANGED databaseVars
    BY <1>3 DEF TimedSave
  <2>2. DatabaseTypeOK'
    BY <1>1, <2>1, DatabaseRests
  <2>3. SavingTypeOK'
    BY <1>1, <1>2, <2>1, <2>2 DEF SavingTypeOK, Tasks, Online
  <2>4. Agenda'
    BY <1>2, <2>1 DEF Agenda, Online
  <2> QED BY <1>1, <1>2, <2>1, <2>3, <2>4, PlayKeeps DEF Ordered, Online
<1>4. CASE ~in_transaction
  <2>1. task' = "begin" /\ Ask(Begin)
    BY <1>4 DEF TimedSave
  <2>2. Begin \in Queries /\ Begin.op # "write"
    BY DEF Queries, Begin
  <2>3. Agenda'
    BY <1>2, <2>1 DEF Agenda, Online
  <2> QED BY <1>1, <1>2, <1>4, <2>1, <2>2, <2>3, AskKeeps DEF Tasks
<1> QED BY <1>3, <1>4

\* A row that is saved is one of someone online.
LEMMA SavedRow ==
  ASSUME SavingInv, process = "up", NEW c \in Online
  PROVE  /\ Write(c, Row(c)) \in Queries /\ Write(c, Row(c)).op = "write"
         /\ Write(c, Row(c)).key = c /\ Write(c, Row(c)).value.usage = live[c].usage
         /\ Current[c].usage <= live[c].usage /\ live[c].usage <= live[c].usage
<1>1. SavingTypeOK /\ Ordered
  BY DEF SavingInv
<1>2. c \in Records /\ Row(c) \in Values /\ live[c].usage \in Nat
  BY <1>1, SavingAssumption DEF SavingTypeOK, Row
<1>3. Write(c, Row(c)) \in Writes
  BY <1>2 DEF Writes
<1> QED BY <1>1, <1>2, <1>3 DEF Queries, Write, Row, Ordered

LEMMA SaveNextKeeps ==
  ASSUME SavingInv, NEW c \in Records, SaveNext(c)
  PROVE  SavingInv' /\ stored' = stored
<1>1. /\ process = "up" /\ task \in {"begin", "save"} /\ c \in agenda
      /\ Ask(Write(c, Row(c))) /\ attempt = 0
      /\ task' = "save" /\ agenda' = agenda \ {c} /\ UNCHANGED <<live, dumped, boots>>
  BY AtRest DEF SaveNext, Saves
<1>2. c \in Online /\ agenda \subseteq Online /\ agenda \subseteq Records
  BY <1>1 DEF SavingInv, SavingTypeOK, Agenda
<1>3. Agenda'
  BY <1>1, <1>2 DEF Agenda, Online
<1> QED BY <1>1, <1>2, <1>3, SavedRow, AskKeeps DEF Tasks

LEMMA CleanupNextKeeps ==
  ASSUME SavingInv, NEW c \in Records, CleanupNext(c)
  PROVE  SavingInv' /\ stored' = stored
<1>1. /\ process = "up" /\ task = "cleanup" /\ c \in agenda
      /\ Ask(Write(c, Row(c))) /\ attempt = 0
      /\ agenda' = agenda \ {c} /\ UNCHANGED <<live, dumped, task, boots>>
  BY AtRest DEF CleanupNext
<1>2. c \in Online /\ agenda \subseteq Online /\ agenda \subseteq Records
  BY <1>1 DEF SavingInv, SavingTypeOK, Agenda
<1>3. Agenda'
  BY <1>1, <1>2 DEF Agenda, Online
<1> QED BY <1>1, <1>2, <1>3, SavedRow, AskKeeps DEF Tasks

LEMMA LogOutKeeps ==
  ASSUME SavingInv, NEW c \in Records, LogOut(c)
  PROVE  SavingInv' /\ stored' = stored
<1>1. process = "up" /\ attempt = 0
  BY FreeIsIdle DEF LogOut
<1>2. /\ c \in Online /\ Ask(Write(c, Row(c)))
      /\ task' = "logout" /\ agenda' = {c} /\ UNCHANGED <<live, dumped, boots>>
  BY DEF LogOut
<1>3. Agenda'
  BY <1>2 DEF Agenda
<1> QED BY <1>1, <1>2, <1>3, SavedRow, AskKeeps DEF Tasks

LEMMA CommitsAndRollbacks ==
  \A q \in {Commit, Rollback} : /\ q \in Queries
                                /\ q.op # "write" /\ q.op # "begin"
BY DEF Queries, Commit, Rollback

\* The transaction is to be committed, or to be rolled back.
LEMMA EndKeeps ==
  ASSUME SavingInv, SaveCommits \/ CommitFails \/ RestoreCommits \/ RestoreThrows
  PROVE  SavingInv' /\ stored' = stored
<1>1. /\ process = "up" /\ (Idle \/ Done \/ Failed)
      /\ UNCHANGED <<live, dumped, boots>> /\ task' \in Tasks \ {"none"}
      /\ agenda' \in {agenda, {}}
  BY DEF SaveCommits, CommitFails, RestoreCommits, RestoreThrows, Saves,
         Restores, Tasks
<1>2. PICK q \in {Commit, Rollback} : Ask(q)
  BY DEF SaveCommits, CommitFails, RestoreCommits, RestoreThrows
<1>3. agenda \subseteq Records /\ Agenda
  BY <1>1 DEF SavingInv, SavingTypeOK
<1>4. Agenda'
  <2>1. Online' = Online
    BY <1>1 DEF Online
  <2>2. CASE SaveCommits \/ CommitFails
    <3> task' \in {"commit", "rollback"}
      BY <2>2 DEF SaveCommits, CommitFails
    <3> QED BY DEF Agenda
  <2>3. CASE RestoreCommits \/ RestoreThrows
    <3>1. /\ task \in {"open", "restore", "keep", "undo"}
          /\ task' \in {"keep", "undo"} /\ dumped' = dumped
      BY <2>3 DEF RestoreCommits, RestoreThrows, Restores
    <3> QED BY <1>1, <1>3, <2>1, <3>1 DEF Agenda
  <2> QED BY <2>2, <2>3
<1>5. attempt = 0 /\ agenda' \subseteq Records
  BY <1>1, <1>3, AtRest
<1> QED BY <1>1, <1>2, <1>4, <1>5, CommitsAndRollbacks, AskKeeps

LEMMA SaveEndsKeeps ==
  ASSUME SavingInv, SaveEnds
  PROVE  SavingInv' /\ stored' = stored
<1>1. /\ process = "up" /\ (Done \/ Failed) /\ Answered /\ task' = "none" /\ agenda' = {}
      /\ UNCHANGED <<live, dumped, boots>>
  BY DEF SaveEnds
<1>2. Agenda' /\ attempt = 0
  BY <1>1, AtRest DEF Agenda
<1> QED BY <1>1, <1>2, AnsweredKeeps DEF Tasks

LEMMA LoggedOutKeeps ==
  ASSUME SavingInv, LoggedOut
  PROVE  SavingInv' /\ stored' = stored
<1>1. /\ process = "up" /\ Done /\ Answered /\ task' = "none" /\ agenda' = {}
      /\ UNCHANGED <<dumped, boots>> /\ live' = Without(live, asked.key)
  BY DEF LoggedOut
<1>2. DOMAIN live' \subseteq DOMAIN live /\ \A c \in DOMAIN live' : live'[c] = live[c]
  BY <1>1 DEF Without
<1>3. Agenda' /\ attempt = 0
  BY <1>1, AtRest DEF Agenda
<1> QED BY <1>1, <1>2, <1>3, AnsweredKeeps DEF Tasks

\* The process ends, one way or another.
LEMMA EndedKeeps ==
  ASSUME SavingInv, NEW state \in {"halted", "down"}, StopProcess(state),
         task' = "none", agenda' = {}, live' = <<>>,
         UNCHANGED <<transaction, login, stored, losses, errors, dumped, boots>>
  PROVE  SavingInv' /\ stored' = stored
<1>1. SavingTypeOK /\ DatabaseTypeOK
  BY DEF SavingInv, SavingTypeOK
<1>2. login' \in Logins
  BY <1>1 DEF DatabaseTypeOK, Logins
<1>3. DatabaseTypeOK' /\ process' # "up" /\ Idle'
  BY <1>1, <1>2, StoppedTypes
<1>4. Online' = {}
  BY DEF Online
<1>5. SavingTypeOK'
  BY <1>1, <1>3, <1>4 DEF SavingTypeOK, Tasks
<1> QED BY <1>3, <1>5 DEF SavingInv

LEMMA EndsKeep ==
  ASSUME SavingInv, LogoutThrows \/ CleanupEnds \/ Crash \/ UndoThrows
  PROVE  SavingInv' /\ stored' = stored
<1>1. PICK state \in {"halted", "down"} :
        /\ StopProcess(state) /\ task' = "none" /\ agenda' = {} /\ live' = <<>>
        /\ UNCHANGED <<transaction, login, stored, losses, errors, dumped, boots>>
  BY DEF LogoutThrows, CleanupEnds, Crash, UndoThrows, Exit
<1> QED BY <1>1, EndedKeeps

LEMMA CleanupKeeps ==
  ASSUME SavingInv, Cleanup
  PROVE  SavingInv' /\ stored' = stored
<1>1. /\ process = "up" /\ task = "none" /\ Idle
      /\ SavingTypeOK /\ DatabaseTypeOK /\ Ordered
  BY FreeIsIdle DEF Cleanup
<1>2. /\ task' = "cleanup" /\ agenda' = Online /\ UNCHANGED <<databaseVars, live, boots>>
      /\ dumped' = [c \in Online \cup DOMAIN dumped |->
                      IF c \in Online THEN Dumped(c) ELSE dumped[c]]
  BY DEF Cleanup
<1>3. \A c \in Online : Dumped(c) \in Values
  <2> SUFFICES ASSUME NEW c \in Online PROVE Dumped(c) \in Values
    OBVIOUS
  <2>1. live[c] \in [usage : 0..LastMinute, version : 0..LastVersion,
                     base : 0..live[c].usage]
    BY <1>1 DEF SavingTypeOK
  <2>2. live[c].base \in 0..LastMinute /\ live[c].version \in 0..LastVersion
    BY <2>1, SavingAssumption
  <2> QED BY <2>2, SavingAssumption DEF Dumped
<1>4. /\ DOMAIN dumped' = Online \cup DOMAIN dumped
      /\ \A c \in DOMAIN dumped' : dumped'[c] \in Values
  BY <1>1, <1>2, <1>3 DEF SavingTypeOK
<1>5. DatabaseTypeOK'
  BY <1>1, <1>2, DatabaseRests
<1>6. SavingTypeOK'
  BY <1>1, <1>2, <1>4, <1>5 DEF SavingTypeOK, Tasks, Online
<1>7. Agenda'
  BY <1>2 DEF Agenda, Online
<1> QED BY <1>1, <1>2, <1>6, <1>7, PlayKeeps DEF Ordered, Online

LEMMA BootKeeps ==
  ASSUME SavingInv, Boot
  PROVE  SavingInv' /\ stored' = stored
<1>1. /\ process' = "up" /\ login' = Configured /\ attempt' = 0
      /\ session' = Connected(Configured.db)
      /\ in_transaction' = FALSE /\ transaction_log' = <<>>
      /\ boots' = boots + 1 /\ boots < MaxStarts
      /\ live' = <<>> /\ agenda' = DOMAIN dumped /\ reply' = "none"
      /\ UNCHANGED <<stored, losses, errors, dumped>>
  BY DEF Boot, Open
<1>2. /\ asked' = IF dumped = <<>> THEN NoQuery ELSE Begin
      /\ task' = IF dumped = <<>> THEN "none" ELSE "open"
  BY DEF Boot
<1>3. SavingTypeOK /\ DatabaseTypeOK
  BY DEF SavingInv, SavingTypeOK
<1>4. Configured \in Logins /\ session' \in Sessions /\ session'.up = TRUE /\ session'.open = FALSE
  BY <1>1, DatabaseAssumption DEF Logins, Connected, Sessions, Rows
<1>5. DatabaseTypeOK'
  <2>1. asked' \in Queries /\ 0 \in 0..Attempts /\ <<>> \in Seq(Writes)
    BY <1>2, DatabaseAssumption DEF Queries
  <2> QED BY <1>1, <1>3, <1>4, <2>1 DEF DatabaseTypeOK, Logins, Sessions, Rows
<1>6. Online' = {}
  BY <1>1 DEF Online
<1>7. SavingTypeOK'
  <2>1. boots' \in 0..MaxStarts
    BY <1>1, <1>3, SavingAssumption DEF SavingTypeOK
  <2>2. task' \in Tasks /\ (task' = "none" => Idle')
    BY <1>2 DEF Tasks, Idle
  <2> QED BY <1>1, <1>3, <1>5, <1>6, <2>1, <2>2 DEF SavingTypeOK
<1>8. Linked'
  BY <1>1, <1>4 DEF Linked
<1>9. Ordered'
  <2>1. Current' = stored
    BY <1>1 DEF Current
  <2>2. asked'.op # "write"
    BY <1>2 DEF NoQuery, Begin
  <2>3. \A r \in Records : stored[r].usage <= stored[r].usage
    <3> \A r \in Records : stored[r].usage \in Nat
      BY <1>3, CurrentRows, RowFields DEF Rows
    <3> QED OBVIOUS
  <2> QED BY <1>1, <1>6, <2>1, <2>2, <2>3 DEF Ordered
<1>10. Agenda'
  BY <1>1, <1>2, <1>6 DEF Agenda
<1> QED BY <1>1, <1>7, <1>8, <1>9, <1>10 DEF SavingInv

LEMMA RestoreNextKeeps ==
  ASSUME SavingInv, NEW c \in Records, RestoreNext(c)
  PROVE  SavingInv' /\ stored' = stored
<1>1. /\ process = "up" /\ task \in {"open", "restore"} /\ (Idle \/ Done)
      /\ c \in Left /\ task' = "restore" /\ UNCHANGED <<live, dumped, boots>>
  BY DEF RestoreNext, Restores
<1>2. /\ attempt = 0 /\ Seen = Current /\ SavingTypeOK /\ DatabaseTypeOK /\ Agenda
  BY <1>1, AtRest DEF SavingInv, SavingTypeOK
<1>3. Online = {} /\ agenda \subseteq DOMAIN dumped /\ agenda \subseteq Records
  BY <1>1, <1>2 DEF Agenda, SavingTypeOK
<1>4. Left \subseteq agenda
  BY DEF Left
<1>5. c \in DOMAIN dumped /\ dumped[c] \in Values
  BY <1>1, <1>2, <1>3, <1>4 DEF SavingTypeOK
<1>6. agenda' \subseteq agenda
  BY <1>4 DEF RestoreNext
<1>7. Agenda'
  BY <1>1, <1>3, <1>6 DEF Agenda, Online
<1>8. CASE NotNewer(c)
  <2> DEFINE q == Write(c, dumped[c])
  <2>1. Ask(q)
    BY <1>8 DEF RestoreNext
  <2>2. q \in Queries /\ q.op = "write" /\ q.key = c /\ q.value = dumped[c]
    BY <1>5 DEF Queries, Writes, Write
  <2>3. Current[c].usage <= q.value.usage
    BY <1>2, <1>8, <2>2 DEF NotNewer
  <2> HIDE DEF q
  <2> QED BY <1>1, <1>2, <1>3, <1>6, <1>7, <2>1, <2>2, <2>3, AskKeeps DEF Tasks
<1>9. CASE ~NotNewer(c)
  <2>1. Answered
    BY <1>9 DEF RestoreNext
  <2>2. agenda' \subseteq Records
    BY <1>3, <1>6
  <2> QED BY <1>1, <1>2, <1>7, <2>1, <2>2, AnsweredKeeps DEF Tasks
<1> QED BY <1>8, <1>9

LEMMA RestoreEndsKeeps ==
  ASSUME SavingInv, RestoreEnds
  PROVE  SavingInv' /\ stored' = stored
<1>1. /\ process = "up" /\ task \in {"keep", "undo"} /\ Done /\ Answered
      /\ task' = "none" /\ agenda' = {}
      /\ dumped' = [c \in agenda |-> dumped[c]] /\ UNCHANGED <<live, boots>>
  BY DEF RestoreEnds
<1>2. agenda \subseteq DOMAIN dumped /\ attempt = 0
  BY <1>1, AtRest DEF SavingInv, Agenda
<1>3. Agenda'
  BY <1>1 DEF Agenda
<1>4. DOMAIN dumped' \subseteq DOMAIN dumped /\ \A c \in DOMAIN dumped' : dumped'[c] = dumped[c]
  BY <1>1, <1>2
<1> QED BY <1>1, <1>2, <1>3, <1>4, AnsweredKeeps DEF Tasks

-----------------------------------------------------------------------------
\* The theorems

LEMMA SavingStart == SavingInit => SavingInv
<1> SUFFICES ASSUME SavingInit PROVE SavingInv
  OBVIOUS
<1>1. /\ process = "down" /\ stored = Start
      /\ in_transaction = FALSE /\ transaction_log = <<>>
      /\ login = Configured /\ attempt = 0 /\ session = NoSession
      /\ asked = NoQuery /\ reply = "none" /\ losses = 0 /\ errors = 0
      /\ live = <<>> /\ dumped = <<>> /\ task = "none" /\ agenda = {} /\ boots = 0
  BY DEF SavingInit, DatabaseInit
<1>2. DatabaseTypeOK
  <2>1. /\ login \in Logins /\ session \in Sessions /\ stored \in Rows
        /\ asked \in Queries
    BY <1>1, NoSessionIs, DatabaseAssumption DEF Logins, Rows, Queries
  <2>2. /\ attempt \in 0..Attempts /\ losses \in 0..MaxLosses
        /\ errors \in 0..MaxErrors
    BY <1>1, DatabaseAssumption
  <2>3. transaction_log \in Seq(Writes)
    BY <1>1
  <2> QED BY <1>1, <2>1, <2>2, <2>3 DEF DatabaseTypeOK, Logins, Sessions, Rows
<1>3. Online = {} /\ DOMAIN dumped = {}
  BY <1>1 DEF Online
<1>4. SavingTypeOK
  BY <1>1, <1>2, <1>3, SavingAssumption DEF SavingTypeOK, Tasks, Idle
<1> QED BY <1>1, <1>4 DEF SavingInv

LEMMA SavingStep ==
  SavingInv /\ [SavingNext]_allSavingVars =>
    SavingInv' /\ \A r \in Records : stored'[r].usage >= stored[r].usage
<1> SUFFICES ASSUME SavingInv, [SavingNext]_allSavingVars
             PROVE  /\ SavingInv'
                    /\ \A r \in Records : stored'[r].usage >= stored[r].usage
  OBVIOUS
<1>0. stored' = stored => \A r \in Records : stored'[r].usage >= stored[r].usage
  <2> \A r \in Records : stored[r].usage \in Nat
    BY CurrentRows, RowFields DEF Rows, SavingInv, SavingTypeOK
  <2> QED OBVIOUS
<1>1. CASE RawQuery /\ UNCHANGED savingVars
  BY <1>1, RawQueryKeeps
<1>2. CASE LoseLink /\ UNCHANGED savingVars
  BY <1>2, LoseLinkKeeps
<1>3. CASE RefusedQuery /\ UNCHANGED savingVars
  BY <1>0, <1>3, RefusedQueryKeeps
<1>4. CASE ReconnectFails /\ UNCHANGED savingVars
  BY <1>0, <1>4, ReconnectFailsKeeps
<1>5. CASE Reconnect /\ UNCHANGED savingVars
  BY <1>0, <1>5, ReconnectKeeps
<1>6. CASE TimedSave
  BY <1>0, <1>6, TimedSaveKeeps
<1>7. CASE SaveCommits \/ CommitFails \/ RestoreCommits \/ RestoreThrows
  BY <1>0, <1>7, EndKeeps
<1>8. CASE SaveEnds
  BY <1>0, <1>8, SaveEndsKeeps
<1>9. CASE LoggedOut
  BY <1>0, <1>9, LoggedOutKeeps
<1>10. CASE LogoutThrows \/ CleanupEnds \/ Crash \/ UndoThrows
  BY <1>0, <1>10, EndsKeep
<1>11. CASE Cleanup
  BY <1>0, <1>11, CleanupKeeps
<1>12. CASE Boot
  BY <1>0, <1>12, BootKeeps
<1>13. CASE RestoreEnds
  BY <1>0, <1>13, RestoreEndsKeeps
<1>14. ASSUME NEW c \in Records,
              \/ Login(c) \/ Progress(c) \/ SaveNext(c) \/ LogOut(c)
              \/ CleanupNext(c) \/ RestoreNext(c)
       PROVE  SavingInv' /\ \A r \in Records : stored'[r].usage >= stored[r].usage
  <2>1. SavingInv' /\ stored' = stored
    BY <1>14, LoginKeeps, ProgressKeeps, SaveNextKeeps, LogOutKeeps,
       CleanupNextKeeps, RestoreNextKeeps
  <2> QED BY <1>0, <2>1
<1>15. CASE UNCHANGED allSavingVars
  <2>1. UNCHANGED savingVars /\ UNCHANGED databaseVars
    BY <1>15 DEF allSavingVars
  <2>2. /\ UNCHANGED <<process, in_transaction, transaction_log, login, attempt,
                       asked, reply, session, stored, losses, errors>>
        /\ UNCHANGED <<live, dumped, task, agenda, boots>>
    BY <2>1 DEF savingVars, databaseVars, transaction, link
  <2>3. Current' = Current /\ Online' = Online
    BY <2>2, CurrentStays DEF transaction, Online
  <2>4. SavingTypeOK'
    BY <2>1, <2>2, <2>3, DatabaseRests DEF SavingInv, SavingTypeOK, Idle
  <2>5. process = "up" => Linked' /\ Ordered' /\ Agenda'
    BY <2>2, <2>3 DEF SavingInv, Linked, Ordered, Agenda, Replay, WritesOf
  <2> QED BY <1>0, <2>2, <2>4, <2>5 DEF SavingInv
<1> QED BY <1>1, <1>2, <1>3, <1>4, <1>5, <1>6, <1>7, <1>8, <1>9, <1>10,
           <1>11, <1>12, <1>13, <1>14, <1>15 DEF SavingNext, DatabaseNext

(* Types of the saves: whatever is asked, lost and restored.               *)
LEMMA SavingIsInvariant == SavingSpec => []SavingInv
<1>1. SavingInv /\ [SavingNext]_allSavingVars => SavingInv'
  BY SavingStep
<1> QED BY SavingStart, <1>1, PTL DEF SavingSpec

(* Whenever RawQuery (database.cpp:640) has a link, the transaction that   *)
(* the server has open is the one it would replay, with the rows that the  *)
(* replay would give: for any rows, any number of lost links and attempts. *)
THEOREM TransactionsAreMirrored == SavingSpec => []TransactionMirrored
<1>1. SavingInv => TransactionMirrored
  BY DEF SavingInv, Linked, TransactionMirrored
<1> QED BY <1>1, SavingIsInvariant, PTL

(* The minutes that are stored of a character never fall, whatever is      *)
(* saved, rolled back, lost, dumped and restored (world.cpp, Restore).     *)
THEOREM StoredUsageNeverFalls == SavingSpec => UsageNeverFalls
<1>1. SavingInv /\ [SavingNext]_allSavingVars =>
        [\A c \in Records : stored'[c].usage >= stored[c].usage]_allSavingVars
  BY SavingStep
<1> QED BY <1>1, SavingIsInvariant, PTL DEF SavingSpec, UsageNeverFalls

-----------------------------------------------------------------------------
\* Uploads

\* The cell that byte k of a ring is in, from position g on, and where it is
\* seen from the position p after which a byte is put.
At(g, k, L)  == (g + k) % L
Off(i, p, L) == ((i - p - 1) % L) + 1

(* A ring buffer holds, from gpos on, the bytes of a stream from there on. *)
Cells == UNION {[0..l-1 -> Bytes] : l \in Nat}
Boxes == [len : Nat, cells : Cells, gpos : Nat, ppos : Nat, used : Nat]
Shape(b) == /\ b \in Boxes /\ b.cells \in [0..b.len-1 -> Bytes]
            /\ b.used \in 0..b.len
Ring(b) == /\ Shape(b) /\ b.len = BufferSize
           /\ b.gpos \in 0..b.len-1 /\ b.ppos = At(b.gpos, b.used, b.len)
HeldAs(b, stream, from) ==
  \A k \in 1..b.used : b.cells[At(b.gpos, k, b.len)] = stream[from + k]

(* The buffer of a file: cell i holds byte i of it, as far as it is read.  *)
InFile(b, n, read) ==
  /\ Shape(b) /\ b.ppos = read /\ b.used <= read /\ read <= b.len
  /\ b.gpos = IF read - b.used = b.len THEN 0 ELSE read - b.used
  /\ b.cells[0] = Nul
  /\ \A i \in 1..read : i < b.len => b.cells[i] = <<"file", n, i>>

(* What is due after what is received: the rest of the file, if there is   *)
(* one, and what waits in the ring.                                        *)
NoFile == /\ upload_fh = 0 /\ upload_size = 0 /\ upload_pos = 0
        /\ Ring(send_buffer)
        /\ Len(due) = Len(received) + send_buffer.used
        /\ HeldAs(send_buffer, due, Len(received))

HeaderRead == Header + upload_pos
Total == files[upload_fh].bytes
SentOfFile == HeaderRead - send_buffer.used

Busy == /\ upload_fh = uploads /\ upload_fh # 0
        /\ upload_size \in Nat /\ upload_pos \in 0..upload_size
        /\ Header \in {5, 6}
        /\ files[upload_fh].room = send_buffer.len
        /\ Enough(upload_size) <= send_buffer.len
        /\ InFile(send_buffer, upload_fh, HeaderRead)
        /\ \A k \in 1..(Total - SentOfFile) :
             due[Len(received) + k] = <<"file", upload_fh, SentOfFile + k>>
        /\ Ring(send_buffer2)
        /\ Len(due) = Len(received) + (Total - SentOfFile) + send_buffer2.used
        /\ HeldAs(send_buffer2, due, Len(received) + (Total - SentOfFile))

FilesFine == \A n \in DOMAIN files : files[n] \in [bytes : Nat, room : Nat]

UploadsInv ==
  /\ wire \in {"open", "shut"}
  /\ packets \in 0..MaxSends /\ uploads \in 0..MaxUploads
  /\ received \in Seq(Bytes) /\ due \in Seq(Bytes)
  /\ FilesFine /\ SentInOrder
  /\ wire = "open" => DOMAIN files = 1..uploads /\ (NoFile \/ Busy)

-----------------------------------------------------------------------------
\* The ring buffer, a file, and what is due.

\* Positions in a buffer are taken modulo its length.
LEMMA WrapFar ==
  \A len \in Nat \ {0} : \A x \in 0..(len - 1) : (x + len) % len = x
OBVIOUS
LEMMA WrapBelow ==
  \A len \in Nat \ {0} : \A x \in 0..(len - 1) : (x - len) % len = x
OBVIOUS

LEMMA WhereAt ==
  \A L \in Nat \ {0} : \A g \in 0..L-1 : \A k \in 0..L :
    /\ At(g, k, L) = IF g + k < L THEN g + k ELSE g + k - L
    /\ At(g, k, L) \in 0..L-1
<1> SUFFICES ASSUME NEW L \in Nat \ {0}, NEW g \in 0..L-1, NEW k \in 0..L
             PROVE  /\ At(g, k, L) = IF g + k < L THEN g + k ELSE g + k - L
                    /\ At(g, k, L) \in 0..L-1
  OBVIOUS
<1>1. CASE g + k < L
  BY <1>1, ModBelow DEF At
<1>2. CASE ~(g + k < L)
  <2> DEFINE x == g + k - L
  <2>1. x \in 0..L-1 /\ x + L = g + k
    BY <1>2
  <2> HIDE DEF x
  <2>2. At(g, k, L) = x
    BY <2>1, WrapFar DEF At
  <2> QED BY <1>2, <2>1, <2>2 DEF x
<1> QED BY <1>1, <1>2

LEMMA WrapOffset ==
  \A L \in Nat \ {0} : \A g \in 0..L-1 : \A u \in 0..L : \A k \in 1..L :
    Off(At(g, k, L), At(g, u, L), L) = IF k > u THEN k - u ELSE k - u + L
<1> SUFFICES ASSUME NEW L \in Nat \ {0}, NEW g \in 0..L-1, NEW u \in 0..L, NEW k \in 1..L
             PROVE  Off(At(g, k, L), At(g, u, L), L) = IF k > u THEN k - u ELSE k - u + L
  OBVIOUS
<1> DEFINE i == At(g, k, L)
           p == At(g, u, L)
           t == IF k > u THEN k - u - 1 ELSE k - u - 1 + L
<1>1. /\ i = IF g + k < L THEN g + k ELSE g + k - L
      /\ p = IF g + u < L THEN g + u ELSE g + u - L
  BY WhereAt
<1> HIDE DEF i, p
<1>2. t \in 0..L-1 /\ (i - p - 1 = t \/ i - p - 1 = t - L)
  BY <1>1
<1> HIDE DEF t
<1>3. (i - p - 1) % L = t
  BY <1>2, ModBelow, WrapBelow
<1> QED BY <1>2, <1>3 DEF t, i, p, Off

\* Going on from a position that was taken modulo the length.
LEMMA WrapTwice ==
  \A L \in Nat \ {0} : \A g \in 0..L-1 : \A u, m \in 0..L :
    u + m <= L => At(At(g, u, L), m, L) = At(g, u + m, L)
<1> SUFFICES ASSUME NEW L \in Nat \ {0}, NEW g \in 0..L-1, NEW u \in 0..L,
                    NEW m \in 0..L, u + m <= L
             PROVE  At(At(g, u, L), m, L) = At(g, u + m, L)
  OBVIOUS
<1> DEFINE p == At(g, u, L)
           v == u + m
<1>1. v \in 0..L
  OBVIOUS
<1>2. p \in 0..L-1 /\ p = IF g + u < L THEN g + u ELSE g + u - L
  BY WhereAt
<1> HIDE DEF p, v
<1>3. /\ At(p, m, L) = IF p + m < L THEN p + m ELSE p + m - L
      /\ At(g, v, L) = IF g + v < L THEN g + v ELSE g + v - L
  BY <1>1, <1>2, WhereAt
<1>4. At(p, m, L) = At(g, v, L)
  BY <1>2, <1>3 DEF v
<1> QED BY <1>4 DEF p, v

LEMMA LengthsAre == BufferSize \in Nat \ {0} /\ PacketLength \in Nat \ {0}
BY UploadsAssumption

\* A ring in numbers.
LEMMA RingIs ==
  ASSUME NEW b, Ring(b)
  PROVE  /\ b \in Boxes /\ b.len = BufferSize /\ b.len \in Nat \ {0}
         /\ b.gpos \in 0..b.len-1 /\ b.used \in 0..b.len /\ b.ppos \in Nat
         /\ b.ppos = At(b.gpos, b.used, b.len) /\ b.cells \in [0..b.len-1 -> Bytes]
BY LengthsAre DEF Ring, Shape, Boxes

\* What is put into a ring comes after what is in it.
LEMMA PutKeeps ==
  ASSUME NEW b, Ring(b), NEW bytes \in Seq(Bytes), Len(bytes) <= Remaining(b)
  PROVE  LET c == Put(b, bytes)
         IN  /\ Ring(c) /\ c.used = b.used + Len(bytes)
             /\ \A k \in 1..b.used : c.cells[At(c.gpos, k, c.len)]
                                       = b.cells[At(b.gpos, k, b.len)]
             /\ \A k \in 1..Len(bytes) :
                  c.cells[At(c.gpos, b.used + k, c.len)] = bytes[k]
<1> DEFINE L == b.len
           m == Len(bytes)
           g == b.gpos
           u == b.used
           p == b.ppos
           old == b.cells
           cells == [i \in 0..L-1 |-> IF Off(i, p, L) <= m THEN bytes[Off(i, p, L)]
                                      ELSE old[i]]
           c == Put(b, bytes)
<1>1. /\ L \in Nat \ {0} /\ L = BufferSize /\ g \in 0..L-1 /\ u \in 0..L /\ m \in Nat
      /\ p \in Nat /\ p = At(g, u, L) /\ old \in [0..L-1 -> Bytes]
      /\ u + m <= L /\ m \in 0..L /\ b \in Boxes
  <2>1. /\ L \in Nat \ {0} /\ L = BufferSize /\ g \in 0..L-1 /\ u \in 0..L /\ p \in Nat
        /\ p = At(g, u, L) /\ old \in [0..L-1 -> Bytes] /\ b \in Boxes
    BY RingIs
  <2>2. m \in Nat /\ m <= L - u
    BY DEF Remaining
  <2> HIDE DEF L, m, u, g, p, old
  <2>3. u + m <= L /\ m \in 0..L
    BY <2>1, <2>2
  <2> QED BY <2>1, <2>2, <2>3
<1>2. \A i \in 0..L-1 : Off(i, p, L) \in 1..L
  <2> HIDE DEF L, m, u, g, p, old
  <2> SUFFICES ASSUME NEW i \in 0..L-1 PROVE Off(i, p, L) \in 1..L
    OBVIOUS
  <2>1. (i - p - 1) % L \in 0..L-1
    BY <1>1
  <2> QED BY <1>1, <2>1 DEF Off
<1>3. cells \in [0..L-1 -> Bytes] /\ cells \in Cells
  <2> HIDE DEF L, m, u, g, p, old
  <2>1. \A o \in 1..m : bytes[o] \in Bytes
    BY DEF m
  <2>2. \A i \in 0..L-1 :
          (IF Off(i, p, L) <= m THEN bytes[Off(i, p, L)] ELSE old[i]) \in Bytes
    <3> SUFFICES ASSUME NEW i \in 0..L-1
                 PROVE (IF Off(i, p, L) <= m THEN bytes[Off(i, p, L)] ELSE old[i]) \in Bytes
      OBVIOUS
    <3>1. Off(i, p, L) <= m => Off(i, p, L) \in 1..m
      BY <1>1, <1>2
    <3> QED BY <1>1, <2>1, <3>1
  <2>3. cells \in [0..L-1 -> Bytes]
    BY <2>2
  <2> HIDE DEF cells
  <2> QED BY <1>1, <2>3 DEF Cells
<1>4. /\ c \in Boxes /\ c.len = L /\ c.cells = cells /\ c.gpos = g
      /\ c.ppos = At(p, m, L) /\ c.used = u + m
  <2> DEFINE v == At(p, m, L)
             w == u + m
             d == [b EXCEPT !.cells = cells, !.ppos = v, !.used = w]
  <2>1. v \in Nat /\ w \in Nat
    <3>1. p \in 0..L-1
      <4> HIDE DEF L, m, u, g, p, old
      <4> QED BY <1>1, WhereAt
    <3>2. v \in 0..L-1
      <4> HIDE DEF L, m, u, g, p, old
      <4> QED BY <1>1, <3>1, WhereAt
    <3> HIDE DEF L, m, u, g, p, old, v
    <3> QED BY <1>1, <3>2
  <2>2. /\ d \in Boxes /\ d.len = L /\ d.cells = cells /\ d.gpos = g
        /\ d.ppos = v /\ d.used = w
    <3> HIDE DEF cells, v, w
    <3>1. b \in Boxes /\ cells \in Cells /\ v \in Nat /\ w \in Nat
      BY <1>1, <1>3, <2>1
    <3> QED BY <3>1 DEF Boxes
  <2>3. c = d
    <3>1. DOMAIN old = 0..L-1
      BY <1>1
    <3> QED BY <3>1 DEF Put, Off, At
  <2> HIDE DEF c, d
  <2> QED BY <2>2, <2>3
<1> HIDE DEF c
<1>5. Ring(c)
  <2> HIDE DEF L, m, u, g, p, old, cells
  <2>1. At(p, m, L) = At(g, u + m, L) /\ u + m \in 0..L
    BY <1>1, WrapTwice
  <2>2. c.ppos = At(c.gpos, c.used, c.len)
    BY <1>4, <2>1
  <2> QED BY <1>1, <1>3, <1>4, <2>1, <2>2 DEF Ring, Shape
<1>6. \A k \in 1..u : cells[At(g, k, L)] = old[At(g, k, L)]
  <2> HIDE DEF L, m, u, g, p, old
  <2> SUFFICES ASSUME NEW k \in 1..u PROVE cells[At(g, k, L)] = old[At(g, k, L)]
    OBVIOUS
  <2>1. k \in 1..L /\ k \in 0..L /\ ~(k > u)
    BY <1>1
  <2>2. At(g, k, L) \in 0..L-1 /\ Off(At(g, k, L), p, L) = k - u + L
    <3>1. At(g, k, L) \in 0..L-1
      BY <1>1, <2>1, WhereAt
    <3>2. Off(At(g, k, L), At(g, u, L), L) = IF k > u THEN k - u ELSE k - u + L
      BY <1>1, <2>1, WrapOffset
    <3> QED BY <1>1, <2>1, <3>1, <3>2
  <2> DEFINE o == Off(At(g, k, L), p, L)
  <2>3. o = k - u + L
    BY <2>2
  <2> HIDE DEF o
  <2>4. ~(o <= m)
    BY <1>1, <2>1, <2>3
  <2> QED BY <2>2, <2>4 DEF o
<1>7. \A k \in 1..m : cells[At(g, u + k, L)] = bytes[k]
  <2> HIDE DEF L, m, u, g, p, old
  <2> SUFFICES ASSUME NEW k \in 1..m PROVE cells[At(g, u + k, L)] = bytes[k]
    OBVIOUS
  <2> DEFINE v == u + k
  <2>1. v \in 1..L /\ v \in 0..L /\ v > u /\ v - u = k /\ k <= m
    BY <1>1
  <2> HIDE DEF v
  <2>2. At(g, v, L) \in 0..L-1 /\ Off(At(g, v, L), p, L) = k
    BY <1>1, <2>1, WhereAt, WrapOffset
  <2>3. cells[At(g, v, L)] = bytes[k]
    BY <2>1, <2>2
  <2> QED BY <2>3 DEF v
<1> HIDE DEF cells
<1> QED BY <1>4, <1>5, <1>6, <1>7 DEF c

\* What the kernel takes from a ring comes before what is left in it.
LEMMA DrainKeeps ==
  ASSUME NEW b, Ring(b), NEW n \in 1..b.used
  PROVE  LET c == Drained(b, n)
         IN  /\ Ring(c) /\ c.used = b.used - n
             /\ \A k \in 1..c.used : c.cells[At(c.gpos, k, c.len)]
                                       = b.cells[At(b.gpos, n + k, b.len)]
<1> DEFINE L == b.len
           g == b.gpos
           u == b.used
           p == b.ppos
           h == At(g, n, L)
           c == Drained(b, n)
<1>1. /\ L \in Nat \ {0} /\ L = BufferSize /\ g \in 0..L-1 /\ u \in 0..L
      /\ p \in Nat /\ p = At(g, u, L) /\ b.cells \in [0..L-1 -> Bytes] /\ b \in Boxes
      /\ n \in 1..u
  BY RingIs
<1>2. h \in 0..L-1 /\ u - n \in 0..L /\ n \in 0..L
  <2> HIDE DEF L, g, u, p
  <2>1. u - n \in 0..L /\ n \in 0..L
    BY <1>1
  <2> QED BY <1>1, <2>1, WhereAt
<1>3. /\ c \in Boxes /\ c.len = L /\ c.cells = b.cells /\ c.gpos = h
      /\ c.ppos = p /\ c.used = u - n
  <2> DEFINE v == h
             w == u - n
             d == [b EXCEPT !.gpos = v, !.used = w]
  <2>1. v \in Nat /\ w \in Nat
    <3> HIDE DEF L, u, h
    <3> QED BY <1>1, <1>2
  <2>2. /\ d \in Boxes /\ d.len = L /\ d.cells = b.cells /\ d.gpos = v
        /\ d.ppos = p /\ d.used = w
    <3> HIDE DEF v, w
    <3>1. b \in Boxes /\ v \in Nat /\ w \in Nat
      BY <1>1, <2>1
    <3> QED BY <3>1 DEF Boxes
  <2>3. c = d
    BY DEF Drained, At
  <2> HIDE DEF c, d
  <2> QED BY <2>2, <2>3
<1> HIDE DEF c, L, g, u, p, h
<1>4. \A k \in 0..(u - n) : At(h, k, L) = At(g, n + k, L)
  <2> SUFFICES ASSUME NEW k \in 0..(u - n) PROVE At(h, k, L) = At(g, n + k, L)
    OBVIOUS
  <2>1. k \in 0..L /\ n + k <= L
    BY <1>1, <1>2
  <2> QED BY <1>1, <1>2, <2>1, WrapTwice DEF h
<1>5. p = At(h, u - n, L)
  <2>1. u - n \in 0..(u - n) /\ n + (u - n) = u
    BY <1>1, <1>2
  <2>2. At(h, u - n, L) = At(g, n + (u - n), L)
    BY <1>4, <2>1
  <2> QED BY <1>1, <2>1, <2>2
<1>6. Ring(c)
  BY <1>1, <1>2, <1>3, <1>5 DEF Ring, Shape
<1>7. \A k \in 1..(u - n) : At(h, k, L) = At(g, n + k, L)
  <2> \A k \in 1..(u - n) : k \in 0..(u - n)
    BY <1>1, <1>2
  <2> QED BY <1>4
<1> QED BY <1>3, <1>6, <1>7 DEF c, L, g, u

LEMMA PacketBytesFine ==
  ASSUME NEW n \in Nat
  PROVE  PacketBytes(n) \in Seq(Bytes) /\ Len(PacketBytes(n)) = PacketLength
<1>1. PacketLength \in Nat
  BY LengthsAre
<1>2. \A i \in 1..PacketLength : <<"packet", n, i>> \in Bytes
  BY <1>1 DEF Bytes
<1> QED BY <1>1, <1>2 DEF PacketBytes

LEMMA FileBytesFine ==
  ASSUME NEW n \in Nat, NEW first \in Nat, NEW last \in Nat, first <= last + 1
  PROVE  LET f == FileBytes(n, first, last)
         IN  /\ f \in Seq(Bytes) /\ Len(f) = last - first + 1
             /\ \A i \in 1..(last - first + 1) : f[i] = <<"file", n, first + i - 1>>
<1> DEFINE m == last - first + 1
<1>1. m \in Nat
  OBVIOUS
<1>2. \A i \in 1..m : first + i - 1 \in Nat
  OBVIOUS
<1>3. \A i \in 1..m : <<"file", n, first + i - 1>> \in Bytes
  BY <1>2 DEF Bytes
<1> DEFINE f == [i \in 1..m |-> <<"file", n, first + i - 1>>]
<1>4. FileBytes(n, first, last) = f
  BY DEF FileBytes
<1>5. f \in [1..m -> Bytes] /\ \A i \in 1..m : f[i] = <<"file", n, first + i - 1>>
  <2> HIDE DEF m
  <2> QED BY <1>3
<1> HIDE DEF m, f
<1>6. f \in Seq(Bytes) /\ Len(f) = m
  BY <1>1, <1>5
<1> QED BY <1>4, <1>5, <1>6 DEF m

\* Sequences, one after the other.
LEMMA Joined ==
  ASSUME NEW s \in Seq(Bytes), NEW t \in Seq(Bytes)
  PROVE  /\ s \o t \in Seq(Bytes) /\ Len(s \o t) = Len(s) + Len(t)
         /\ Len(s) \in Nat /\ Len(t) \in Nat
         /\ \A i \in 1..Len(s) : (s \o t)[i] = s[i]
         /\ \A i \in 1..Len(t) : (s \o t)[Len(s) + i] = t[i]
OBVIOUS

\* What is put into the ring at the end of a stream goes on with the stream.
LEMMA PutHeld ==
  ASSUME NEW b, Ring(b), NEW bytes \in Seq(Bytes), Len(bytes) <= Remaining(b),
         NEW stream \in Seq(Bytes), NEW from \in Nat, HeldAs(b, stream, from),
         Len(stream) = from + b.used
  PROVE  LET c == Put(b, bytes)
             longer == stream \o bytes
         IN  /\ Ring(c) /\ HeldAs(c, longer, from) /\ longer \in Seq(Bytes)
             /\ Len(longer) = from + c.used
<1> DEFINE c == Put(b, bytes)
           longer == stream \o bytes
           m == Len(bytes)
           u == b.used
           S == Len(stream)
<1>1. /\ Ring(c) /\ c.used = u + m
      /\ \A k \in 1..u : c.cells[At(c.gpos, k, c.len)] = b.cells[At(b.gpos, k, b.len)]
      /\ \A k \in 1..m : c.cells[At(c.gpos, u + k, c.len)] = bytes[k]
  BY PutKeeps
<1>2. /\ longer \in Seq(Bytes) /\ Len(longer) = S + m /\ S \in Nat /\ m \in Nat
      /\ \A i \in 1..S : longer[i] = stream[i]
      /\ \A i \in 1..m : longer[S + i] = bytes[i]
  BY Joined
<1>3. u \in Nat /\ S = from + u /\ \A k \in 1..u : b.cells[At(b.gpos, k, b.len)] = stream[from + k]
  BY RingIs DEF HeldAs
<1> HIDE DEF c, longer, m, u, S
<1>4. \A k \in 1..(u + m) : c.cells[At(c.gpos, k, c.len)] = longer[from + k]
  <2> SUFFICES ASSUME NEW k \in 1..(u + m)
               PROVE  c.cells[At(c.gpos, k, c.len)] = longer[from + k]
    OBVIOUS
  <2>1. CASE k <= u
    <3>1. k \in 1..u /\ from + k \in 1..S
      BY <1>2, <1>3, <2>1
    <3> QED BY <1>1, <1>2, <1>3, <3>1
  <2>2. CASE ~(k <= u)
    <3> DEFINE j == k - u
    <3>1. j \in 1..m /\ u + j = k /\ S + j = from + k
      BY <1>2, <1>3, <2>2
    <3> HIDE DEF j
    <3>2. c.cells[At(c.gpos, u + j, c.len)] = longer[S + j]
      BY <1>1, <1>2, <3>1
    <3> QED BY <3>1, <3>2
  <2> QED BY <2>1, <2>2
<1>5. HeldAs(c, longer, from)
  BY <1>1, <1>4 DEF HeldAs
<1>6. Len(longer) = from + c.used
  BY <1>1, <1>2, <1>3
<1> QED BY <1>1, <1>2, <1>5, <1>6 DEF c, longer

\* What was received is in order still when more is due.
LEMMA MoreDue ==
  ASSUME UploadsInv, NEW bytes \in Seq(Bytes), due' = due \o bytes,
         UNCHANGED <<received, files>>
  PROVE  SentInOrder' /\ due' \in Seq(Bytes)
<1>1. /\ received \in Seq(Bytes) /\ due \in Seq(Bytes)
      /\ Len(received) <= Len(due)
      /\ \A i \in DOMAIN received : Arrived(received[i], due[i], files)
  BY DEF UploadsInv, SentInOrder
<1>2. /\ due' \in Seq(Bytes) /\ Len(due') = Len(due) + Len(bytes)
      /\ Len(bytes) \in Nat /\ Len(due) \in Nat /\ Len(received) \in Nat
      /\ \A i \in 1..Len(due) : due'[i] = due[i]
      /\ DOMAIN received = 1..Len(received)
  BY <1>1, Joined
<1>3. Len(received') <= Len(due')
  BY <1>1, <1>2
<1>4. \A i \in DOMAIN received : i \in 1..Len(due)
  BY <1>1, <1>2
<1>5. \A i \in DOMAIN received : Arrived(received[i], due'[i], files)
  BY <1>1, <1>2, <1>4
<1> QED BY <1>2, <1>3, <1>5 DEF SentInOrder

\* During an upload: the numbers of the file and of what of it is sent.
LEMMA FileLeft ==
  ASSUME UploadsInv, wire = "open", Busy
  PROVE  /\ Total \in Nat /\ SentOfFile \in Nat /\ Total - SentOfFile \in Nat
         /\ HeaderRead \in Nat /\ HeaderRead <= Total /\ Total <= send_buffer.len
         /\ Total = Header + upload_size /\ upload_fh \in DOMAIN files
         /\ HeaderRead = SentOfFile + send_buffer.used /\ send_buffer.used \in Nat
         /\ send_buffer.len \in Nat
<1>1. /\ upload_fh \in DOMAIN files /\ files[upload_fh].bytes \in Nat
      /\ upload_fh \in Nat
  <2>1. upload_fh = uploads /\ upload_fh # 0 /\ uploads \in 0..MaxUploads
        /\ DOMAIN files = 1..uploads /\ FilesFine
    BY DEF UploadsInv, Busy
  <2>2. upload_fh \in DOMAIN files /\ upload_fh \in Nat
    BY <2>1, UploadsAssumption
  <2> QED BY <2>1, <2>2 DEF FilesFine
<1>2. /\ upload_size \in Nat /\ upload_pos \in 0..upload_size /\ Header \in {5, 6}
      /\ upload_size + 6 <= send_buffer.len
      /\ send_buffer.used \in Nat /\ send_buffer.used <= HeaderRead
      /\ send_buffer.len \in Nat
  BY DEF Busy, InFile, Shape, Enough, Boxes
<1>3. Total \in Nat /\ Header = Total - upload_size
  BY <1>1 DEF Total, Header
<1>4. HeaderRead = Header + upload_pos /\ SentOfFile = HeaderRead - send_buffer.used
  BY DEF HeaderRead, SentOfFile
<1> HIDE DEF Total, Header, HeaderRead, SentOfFile
<1> DEFINE u == send_buffer.used
           l == send_buffer.len
<1>5. /\ u \in Nat /\ u <= HeaderRead /\ l \in Nat /\ upload_size + 6 <= l
      /\ SentOfFile = HeaderRead - u
  BY <1>2, <1>4
<1> HIDE DEF u, l
<1>6. /\ Total = Header + upload_size /\ HeaderRead \in Nat /\ HeaderRead <= Total
      /\ SentOfFile \in Nat /\ Total - SentOfFile \in Nat /\ Total <= l
      /\ HeaderRead = SentOfFile + u
  BY <1>2, <1>3, <1>4, <1>5
<1> QED BY <1>1, <1>2, <1>3, <1>5, <1>6 DEF u, l

LEMMA SendPacketFine ==
  ASSUME UploadsInv, SendPacket
  PROVE  UploadsInv'
<1> DEFINE bytes == PacketBytes(packets')
<1>1. /\ wire = "open" /\ packets < MaxSends /\ packets' = packets + 1
      /\ UNCHANGED <<upload, uploads, received, files>>
  BY DEF SendPacket
<1>2. /\ packets' \in 0..MaxSends /\ uploads' \in 0..MaxUploads
      /\ received' \in Seq(Bytes) /\ FilesFine' /\ packets' \in Nat
      /\ DOMAIN files' = 1..uploads'
  BY <1>1, UploadsAssumption DEF UploadsInv, FilesFine
<1>3. bytes \in Seq(Bytes) /\ Len(bytes) = PacketLength /\ PacketLength \in Nat
  BY <1>2, PacketBytesFine, LengthsAre
<1>4. CASE wire' = "shut" /\ UNCHANGED <<send_buffer, send_buffer2, due>>
  BY <1>1, <1>2, <1>4 DEF UploadsInv, SentInOrder
<1> HIDE DEF bytes
<1>5. received \in Seq(Bytes) /\ due \in Seq(Bytes) /\ Len(received) \in Nat
  BY DEF UploadsInv
<1>6. ASSUME upload_fh = 0, NoFile,
             ~(PacketLength > Remaining(send_buffer)),
             send_buffer' = Put(send_buffer, bytes), due' = due \o bytes,
             UNCHANGED <<wire, send_buffer2>>
      PROVE  UploadsInv'
  <2>1. Ring(send_buffer) /\ Len(bytes) <= Remaining(send_buffer)
    <3> Ring(send_buffer)
      BY <1>6 DEF NoFile
    <3> Remaining(send_buffer) \in Int
      BY RingIs DEF Remaining
    <3> QED BY <1>3, <1>6
  <2>2. /\ Ring(send_buffer') /\ HeldAs(send_buffer', due', Len(received))
        /\ Len(due') = Len(received) + send_buffer'.used
    BY <1>3, <1>5, <1>6, <2>1, PutHeld DEF NoFile
  <2>3. SentInOrder' /\ due' \in Seq(Bytes)
    BY <1>1, <1>3, <1>6, MoreDue
  <2>4. NoFile'
    BY <1>1, <1>6, <2>2 DEF NoFile, upload, Ring, Shape, HeldAs
  <2> QED BY <1>1, <1>2, <1>6, <2>3, <2>4 DEF UploadsInv
<1>7. ASSUME upload_fh # 0, Busy,
             ~(PacketLength > Remaining(send_buffer2)),
             send_buffer2' = Put(send_buffer2, bytes), due' = due \o bytes,
             UNCHANGED <<wire, send_buffer>>
      PROVE  UploadsInv'
  <2>1. Ring(send_buffer2) /\ Len(bytes) <= Remaining(send_buffer2)
    <3> Ring(send_buffer2)
      BY <1>7 DEF Busy
    <3> Remaining(send_buffer2) \in Int
      BY RingIs DEF Remaining
    <3> QED BY <1>3, <1>7
  <2> DEFINE rest == Total - SentOfFile
             from == Len(received) + rest
  <2>2. rest \in Nat
    BY <1>1, <1>7, FileLeft
  <2>3. from \in Nat
    BY <1>5, <2>2
  <2>4. /\ rest' = rest /\ SentOfFile' = SentOfFile /\ Total' = Total
        /\ HeaderRead' = HeaderRead /\ Header' = Header
    BY <1>1, <1>7 DEF Total, SentOfFile, HeaderRead, Header, upload
  <2>5. HeldAs(send_buffer2, due, from) /\ Len(due) = from + send_buffer2.used
    BY <1>7 DEF Busy
  <2> HIDE DEF from, rest
  <2>6. /\ Ring(send_buffer2') /\ HeldAs(send_buffer2', due', from)
        /\ Len(due') = from + send_buffer2'.used
    BY <1>3, <1>5, <1>7, <2>1, <2>3, <2>5, PutHeld
  <2>7. SentInOrder' /\ due' \in Seq(Bytes)
    BY <1>1, <1>3, <1>7, MoreDue
  <2>8. \A k \in 1..rest : due'[Len(received) + k] = due[Len(received) + k]
    <3> SUFFICES ASSUME NEW k \in 1..rest
                 PROVE  due'[Len(received) + k] = due[Len(received) + k]
      OBVIOUS
    <3>1. send_buffer2.used \in Nat
      BY <2>1, RingIs
    <3>2. Len(received) + k \in 1..Len(due)
      BY <1>5, <2>2, <2>5, <3>1 DEF from
    <3> QED BY <1>3, <1>5, <1>7, <3>2
  <2>9. \A k \in 1..rest : due'[Len(received) + k] = <<"file", upload_fh, SentOfFile + k>>
    BY <1>7, <2>8 DEF Busy, rest
  <2>10. Busy'
    <3>1. /\ upload_fh' = uploads' /\ upload_fh' # 0 /\ upload_size' \in Nat
          /\ upload_pos' \in 0..upload_size' /\ Header' \in {5, 6}
          /\ files[upload_fh]'.room = send_buffer'.len
          /\ Enough(upload_size') <= send_buffer'.len
          /\ InFile(send_buffer', upload_fh', HeaderRead')
      BY <1>1, <1>7, <2>4 DEF Busy, upload
    <3>2. \A k \in 1..(Total' - SentOfFile') :
            due'[Len(received') + k] = <<"file", upload_fh', SentOfFile' + k>>
      BY <1>1, <2>4, <2>9 DEF rest, upload
    <3>3. /\ Len(due') = Len(received') + (Total' - SentOfFile') + send_buffer2'.used
          /\ HeldAs(send_buffer2', due', Len(received') + (Total' - SentOfFile'))
      BY <1>1, <2>4, <2>6 DEF rest, from
    <3> QED BY <2>6, <3>1, <3>2, <3>3 DEF Busy, Ring, Shape, HeldAs, InFile
  <2> QED BY <1>1, <1>2, <1>7, <2>7, <2>10 DEF UploadsInv
<1>8. NoFile \/ Busy
  BY <1>1 DEF UploadsInv
<1>9. CASE upload_fh = 0
  <2>1. NoFile
    BY <1>8, <1>9 DEF Busy
  <2>2. SendTo(send_buffer, send_buffer', send_buffer2)
    BY <1>9 DEF SendPacket, Uploading
  <2> QED BY <1>4, <1>6, <1>9, <2>1, <2>2 DEF SendTo, bytes
<1>10. CASE upload_fh # 0
  <2>1. Busy
    BY <1>8, <1>10 DEF NoFile
  <2>2. SendTo(send_buffer2, send_buffer2', send_buffer)
    BY <1>10 DEF SendPacket, Uploading
  <2> QED BY <1>4, <1>7, <1>10, <2>1, <2>2 DEF SendTo, bytes
<1> QED BY <1>9, <1>10

\* An upload begins: the new buffer holds the header.
LEMMA HeaderPut ==
  ASSUME NEW l \in Nat, NEW n \in Nat, NEW h \in {5, 6}, h < l
  PROVE  LET b == Put(Buffer(l), FileBytes(n, 1, h))
         IN  InFile(b, n, h) /\ b.len = l /\ b.used = h
<1> DEFINE f == FileBytes(n, 1, h)
           zero == [i \in 0..l-1 |-> Nul]
           e == Buffer(l)
           cells == [i \in 0..l-1 |-> IF Off(i, 0, l) <= h THEN f[Off(i, 0, l)]
                                      ELSE Nul]
           b == Put(Buffer(l), f)
<1>1. h \in Nat /\ h > 0 /\ l \in Nat \ {0} /\ h \in 0..l-1
  OBVIOUS
<1>2. f \in Seq(Bytes) /\ Len(f) = h /\ \A i \in 1..h : f[i] = <<"file", n, i>>
  <2>1. 1 \in Nat /\ 1 <= h + 1 /\ h - 1 + 1 = h
    BY <1>1
  <2>2. /\ f \in Seq(Bytes) /\ Len(f) = h - 1 + 1
        /\ \A i \in 1..(h - 1 + 1) : f[i] = <<"file", n, 1 + i - 1>>
    BY <1>1, <2>1, FileBytesFine
  <2>3. \A i \in 1..h : 1 + i - 1 = i
    BY <1>1
  <2> QED BY <2>1, <2>2, <2>3
<1> HIDE DEF f
<1>3. \A i \in 0..l-1 : Off(i, 0, l) = IF i = 0 THEN l ELSE i
  <2> SUFFICES ASSUME NEW i \in 0..l-1
               PROVE  Off(i, 0, l) = IF i = 0 THEN l ELSE i
    OBVIOUS
  <2>1. CASE i = 0
    <3>1. l - 1 \in 0..l-1 /\ i - 0 - 1 = (l - 1) - l
      BY <1>1, <2>1
    <3>2. ((l - 1) - l) % l = l - 1
      BY <1>1, <3>1, WrapBelow
    <3> QED BY <1>1, <2>1, <3>1, <3>2 DEF Off
  <2>2. CASE i # 0
    <3>1. i - 1 \in 0..l-1 /\ i - 0 - 1 = i - 1
      BY <1>1, <2>2
    <3>2. (i - 1) % l = i - 1
      BY <1>1, <3>1, ModBelow
    <3> QED BY <1>1, <2>2, <3>1, <3>2 DEF Off
  <2> QED BY <2>1, <2>2
<1>4. /\ \A i \in 0..l-1 : cells[i] = IF i \in 1..h THEN <<"file", n, i>> ELSE Nul
      /\ DOMAIN cells = 0..l-1
  <2>1. \A i \in 0..l-1 : Off(i, 0, l) <= h <=> i \in 1..h
    BY <1>1, <1>3
  <2>2. \A i \in 1..h : i \in 0..l-1 /\ Off(i, 0, l) = i
    BY <1>1, <1>3
  <2> QED BY <1>2, <2>1, <2>2
<1>5. cells \in [0..l-1 -> Bytes] /\ cells \in Cells
  <2>1. Nul \in Bytes /\ \A i \in 1..h : <<"file", n, i>> \in Bytes
    BY <1>1 DEF Nul, Bytes
  <2>2. \A i \in 0..l-1 : cells[i] \in Bytes
    BY <1>4, <2>1
  <2>3. cells = [i \in 0..l-1 |-> cells[i]]
    OBVIOUS
  <2> HIDE DEF cells
  <2>4. cells \in [0..l-1 -> Bytes]
    BY <2>2, <2>3
  <2> QED BY <1>1, <2>4 DEF Cells
<1>6. /\ e.len = l /\ e.cells = zero /\ e.gpos = 0 /\ e.ppos = 0 /\ e.used = 0
      /\ e \in Boxes
  <2>1. zero \in [0..l-1 -> Bytes]
    BY DEF Nul, Bytes
  <2>2. zero \in Cells
    <3> HIDE DEF zero
    <3> QED BY <1>1, <2>1 DEF Cells
  <2>3. e = [len |-> l, cells |-> zero, gpos |-> 0, ppos |-> 0, used |-> 0]
    BY DEF Buffer
  <2> HIDE DEF zero, e
  <2> QED BY <1>1, <2>2, <2>3 DEF Boxes
<1>7. /\ b \in Boxes /\ b.len = l /\ b.cells = cells /\ b.gpos = 0 /\ b.ppos = h
      /\ b.used = h
  <2>1. (0 + h) % l = h /\ 0 + h = h
    BY <1>1, ModBelow
  <2>2. [i \in DOMAIN zero |-> LET k == ((i - 0 - 1) % l) + 1
                               IN  IF k <= Len(f) THEN f[k] ELSE zero[i]] = cells
    BY <1>2 DEF Off
  <2> DEFINE d == [e EXCEPT !.cells = cells, !.ppos = h, !.used = h]
  <2>3. b = d
    <3> HIDE DEF e, zero, cells
    <3> QED BY <1>2, <1>6, <2>1, <2>2 DEF Put, e
  <2>4. /\ d \in Boxes /\ d.len = e.len /\ d.cells = cells /\ d.gpos = e.gpos
        /\ d.ppos = h /\ d.used = h
    <3> HIDE DEF e, cells
    <3> QED BY <1>1, <1>5, <1>6 DEF Boxes
  <2> HIDE DEF d, b, e, cells
  <2> QED BY <1>6, <2>3, <2>4
<1> HIDE DEF cells, b
<1>8. Shape(b)
  BY <1>1, <1>5, <1>7 DEF Shape
<1>9. InFile(b, n, h)
  <2>1. h <= b.len /\ h - b.used = 0 /\ 0 # b.len
    BY <1>1, <1>7
  <2>2. b.cells[0] = Nul
    BY <1>1, <1>4, <1>7
  <2>3. \A i \in 1..h : i < b.len => b.cells[i] = <<"file", n, i>>
    BY <1>1, <1>4, <1>7
  <2> QED BY <1>1, <1>7, <1>8, <2>1, <2>2, <2>3 DEF InFile
<1> QED BY <1>7, <1>9 DEF b, f

\* More of a file is read.
LEMMA ReadKeeps ==
  ASSUME NEW b, NEW n \in Nat, NEW r \in Nat, InFile(b, n, r), NEW m \in Nat \ {0},
         r + m <= b.len
  PROVE  LET c == Read(b, FileBytes(n, r + 1, r + m))
         IN  InFile(c, n, r + m) /\ c.len = b.len /\ c.used = b.used + m
<1> DEFINE f == FileBytes(n, r + 1, r + m)
           l == b.len
           u == b.used
           old == b.cells
           cells == [i \in 0..l-1 |-> IF i - r \in 1..m THEN f[i - r] ELSE old[i]]
           c == Read(b, f)
<1>1. /\ b \in Boxes /\ l \in Nat /\ u \in Nat /\ u <= r /\ b.ppos = r
      /\ old \in [0..l-1 -> Bytes] /\ r + m <= l /\ old[0] = Nul
      /\ \A i \in 1..r : i < l => old[i] = <<"file", n, i>>
      /\ b.gpos = IF r - u = l THEN 0 ELSE r - u
  BY DEF InFile, Shape, Boxes
<1>2. /\ f \in Seq(Bytes) /\ Len(f) = m /\ DOMAIN f = 1..m
      /\ \A i \in 1..m : f[i] = <<"file", n, r + i>>
  <2> DEFINE a == r + 1
             z == r + m
             k == z - a + 1
  <2>1. a \in Nat /\ z \in Nat /\ a <= z + 1 /\ k = m
    OBVIOUS
  <2>2. \A i \in 1..m : a + i - 1 = r + i
    OBVIOUS
  <2>3. f = FileBytes(n, a, z)
    OBVIOUS
  <2> HIDE DEF a, z, f
  <2>4. f \in Seq(Bytes) /\ Len(f) = k /\ \A i \in 1..k : f[i] = <<"file", n, a + i - 1>>
    <3>1. /\ FileBytes(n, a, z) \in Seq(Bytes) /\ Len(FileBytes(n, a, z)) = z - a + 1
          /\ \A i \in 1..(z - a + 1) : FileBytes(n, a, z)[i] = <<"file", n, a + i - 1>>
      BY <2>1, FileBytesFine
    <3> QED BY <2>3, <3>1
  <2> HIDE DEF k
  <2>5. f \in Seq(Bytes) /\ Len(f) = m /\ \A i \in 1..m : f[i] = <<"file", n, a + i - 1>>
    BY <2>1, <2>4
  <2>6. \A i \in 1..m : f[i] = <<"file", n, r + i>>
    BY <2>2, <2>5
  <2> QED BY <2>5, <2>6
<1> HIDE DEF f
<1>3. /\ DOMAIN cells = 0..l-1
      /\ \A i \in 0..l-1 : cells[i] = IF i - r \in 1..m THEN f[i - r] ELSE old[i]
      /\ cells = [i \in 0..l-1 |-> cells[i]]
  OBVIOUS
<1>4. c = [b EXCEPT !.cells = cells, !.ppos = r + m, !.used = u + m]
  <2> DOMAIN old = 0..l-1
    BY <1>1
  <2> QED BY <1>1, <1>2 DEF Read
<1> HIDE DEF l, u, old, cells, c
<1>5. \A i \in 0..l-1 : cells[i] \in Bytes
  <2> SUFFICES ASSUME NEW i \in 0..l-1 PROVE cells[i] \in Bytes
    OBVIOUS
  <2>1. \A j \in 1..m : f[j] \in Bytes
    BY <1>2
  <2> QED BY <1>1, <1>3, <2>1
<1>6. cells \in [0..l-1 -> Bytes] /\ cells \in Cells
  <2>1. cells \in [0..l-1 -> Bytes]
    BY <1>3, <1>5
  <2> QED BY <1>1, <2>1 DEF Cells
<1>7. /\ c \in Boxes /\ c.len = l /\ c.cells = cells /\ c.gpos = b.gpos
      /\ c.ppos = r + m /\ c.used = u + m
  <2> DEFINE v == r + m
             w == u + m
  <2>1. v \in Nat /\ w \in Nat
    BY <1>1
  <2>2. c = [b EXCEPT !.cells = cells, !.ppos = v, !.used = w]
    BY <1>4
  <2> HIDE DEF v, w
  <2>3. /\ c \in Boxes /\ c.len = b.len /\ c.cells = cells /\ c.gpos = b.gpos
        /\ c.ppos = v /\ c.used = w
    BY <1>1, <1>6, <2>1, <2>2 DEF Boxes
  <2> QED BY <2>3 DEF v, w, l
<1> DEFINE v == r + m
<1>8. v \in Nat /\ v = r + m
  OBVIOUS
<1> HIDE DEF v
<1>9. Shape(c) /\ c.used <= v /\ v <= c.len /\ c.ppos = v
  BY <1>1, <1>6, <1>7, <1>8 DEF Shape
<1>10. c.gpos = IF v - c.used = c.len THEN 0 ELSE v - c.used
  <2>1. v - c.used = r - u /\ r - u # l
    BY <1>1, <1>7, <1>8
  <2> QED BY <1>1, <1>7, <2>1
<1>11. c.cells[0] = Nul
  <2>1. 0 \in 0..l-1 /\ 0 - r \notin 1..m
    BY <1>1
  <2> QED BY <1>1, <1>3, <1>7, <2>1
<1>12. \A i \in 1..v : i < c.len => c.cells[i] = <<"file", n, i>>
  <2> SUFFICES ASSUME NEW i \in 1..v, i < l
               PROVE  cells[i] = <<"file", n, i>>
    BY <1>7
  <2>1. i \in 0..l-1 /\ i <= r + m
    BY <1>1, <1>8
  <2>2. CASE i <= r
    <3>1. i - r \notin 1..m /\ i \in 1..r
      BY <1>8, <2>2
    <3> QED BY <1>1, <1>3, <2>1, <3>1
  <2>3. CASE ~(i <= r)
    <3> DEFINE j == i - r
    <3>1. j \in 1..m /\ r + j = i
      BY <2>1, <2>3
    <3>2. cells[i] = f[j]
      BY <1>3, <2>1, <3>1
    <3> HIDE DEF j
    <3>3. f[j] = <<"file", n, r + j>>
      BY <1>2, <3>1
    <3> QED BY <3>1, <3>2, <3>3
  <2> QED BY <2>2, <2>3
<1>13. InFile(c, n, v)
  BY <1>9, <1>10, <1>11, <1>12 DEF InFile
<1> QED BY <1>7, <1>13 DEF c, f, l, u, v

\* What the kernel takes of a file is what is due of it.
LEMMA DrainFile ==
  ASSUME NEW b, NEW n \in Nat, NEW r \in Nat, InFile(b, n, r), NEW m \in 1..b.used
  PROVE  LET c == Drained(b, m)
             sent == r - b.used
         IN  /\ InFile(c, n, r) /\ c.len = b.len /\ c.used = b.used - m
             /\ \A k \in 1..m :
                  b.cells[At(b.gpos, k, b.len)]
                    = IF sent + k = b.len THEN Nul ELSE <<"file", n, sent + k>>
<1> DEFINE l == b.len
           u == b.used
           g == b.gpos
           sent == r - u
           c == Drained(b, m)
           h == At(g, m, l)
<1>1. /\ b \in Boxes /\ l \in Nat /\ u \in Nat /\ u <= r /\ r <= l /\ b.ppos = r
      /\ b.cells \in [0..l-1 -> Bytes] /\ b.cells[0] = Nul
      /\ \A i \in 1..r : i < l => b.cells[i] = <<"file", n, i>>
      /\ g = IF sent = l THEN 0 ELSE sent
  BY DEF InFile, Shape, Boxes
<1> HIDE DEF l, u, g
<1>2. /\ m \in 1..u /\ sent \in 0..l-1 /\ g = sent /\ l \in Nat \ {0}
      /\ sent + m <= r
  BY <1>1 DEF u
<1> HIDE DEF sent
<1>3. \A k \in 1..m : /\ sent + k \in 1..r /\ k \in 0..l
                      /\ At(g, k, l) = IF sent + k = l THEN 0 ELSE sent + k
  <2> SUFFICES ASSUME NEW k \in 1..m
               PROVE  /\ sent + k \in 1..r /\ k \in 0..l
                      /\ At(g, k, l) = IF sent + k = l THEN 0 ELSE sent + k
    OBVIOUS
  <2>1. sent + k \in 1..r /\ k \in 0..l /\ sent + k <= l
    BY <1>1, <1>2
  <2>2. At(g, k, l) = IF g + k < l THEN g + k ELSE g + k - l
    BY <1>2, <2>1, WhereAt
  <2> QED BY <1>1, <1>2, <2>1, <2>2
<1>4. \A k \in 1..m : b.cells[At(g, k, l)] = IF sent + k = l THEN Nul
                                            ELSE <<"file", n, sent + k>>
  <2> SUFFICES ASSUME NEW k \in 1..m
               PROVE  b.cells[At(g, k, l)] = IF sent + k = l THEN Nul
                                            ELSE <<"file", n, sent + k>>
    OBVIOUS
  <2> DEFINE i == sent + k
  <2>1. i \in 1..r /\ At(g, k, l) = IF i = l THEN 0 ELSE i
    BY <1>3
  <2> HIDE DEF i
  <2>2. CASE i = l
    BY <1>1, <2>1, <2>2 DEF i
  <2>3. CASE i # l
    <3>1. i < l
      BY <1>1, <2>1, <2>3
    <3> QED BY <1>1, <2>1, <2>3, <3>1 DEF i
  <2> QED BY <2>2, <2>3
<1>5. h = IF sent + m = l THEN 0 ELSE sent + m
  BY <1>2, <1>3
<1>6. /\ c \in Boxes /\ c.len = l /\ c.cells = b.cells /\ c.gpos = h
      /\ c.ppos = r /\ c.used = u - m
  <2> DEFINE v == h
             w == u - m
  <2>1. v \in Nat /\ w \in Nat
    <3> HIDE DEF h
    <3> QED BY <1>1, <1>2, <1>5
  <2>2. c = [b EXCEPT !.gpos = v, !.used = w]
    BY DEF Drained, At, g, u, l
  <2> HIDE DEF v, w, c
  <2>3. /\ c \in Boxes /\ c.len = b.len /\ c.cells = b.cells /\ c.gpos = v
        /\ c.ppos = b.ppos /\ c.used = w
    BY <1>1, <2>1, <2>2 DEF Boxes
  <2> QED BY <1>1, <2>3 DEF v, w, l
<1> HIDE DEF c, h
<1>7. r - c.used = sent + m /\ c.used \in 0..l /\ c.used <= r
  BY <1>1, <1>2, <1>6 DEF sent
<1>8. InFile(c, n, r)
  <2>1. Shape(c)
    BY <1>1, <1>6, <1>7 DEF Shape
  <2>2. c.gpos = IF r - c.used = c.len THEN 0 ELSE r - c.used
    BY <1>5, <1>6, <1>7
  <2> QED BY <1>1, <1>6, <1>7, <2>1, <2>2 DEF InFile
<1> QED BY <1>4, <1>6, <1>8 DEF c, l, u, g, sent

\* What is received goes on as it is due.
LEMMA SentOn ==
  ASSUME UploadsInv, NEW got \in Seq(Bytes), received' = received \o got,
         UNCHANGED <<due, files>>, Len(received) + Len(got) <= Len(due),
         \A k \in 1..Len(got) : Arrived(got[k], due[Len(received) + k], files)
  PROVE  SentInOrder' /\ received' \in Seq(Bytes)
         /\ Len(received') = Len(received) + Len(got)
<1> DEFINE R == Len(received)
           m == Len(got)
<1>1. /\ received \in Seq(Bytes) /\ due \in Seq(Bytes)
      /\ \A i \in DOMAIN received : Arrived(received[i], due[i], files)
  BY DEF UploadsInv, SentInOrder
<1>2. /\ received' \in Seq(Bytes) /\ Len(received') = R + m /\ R \in Nat /\ m \in Nat
      /\ \A i \in 1..R : received'[i] = received[i]
      /\ \A i \in 1..m : received'[R + i] = got[i]
      /\ DOMAIN received = 1..R /\ DOMAIN received' = 1..(R + m)
  <2>1. /\ received' \in Seq(Bytes) /\ Len(received') = R + m /\ R \in Nat /\ m \in Nat
        /\ \A i \in 1..R : received'[i] = received[i]
        /\ \A i \in 1..m : received'[R + i] = got[i]
    BY <1>1, Joined
  <2> QED BY <1>1, <2>1
<1> HIDE DEF R, m
<1>3. \A i \in 1..(R + m) : Arrived(received'[i], due[i], files)
  <2> SUFFICES ASSUME NEW i \in 1..(R + m)
               PROVE  Arrived(received'[i], due[i], files)
    OBVIOUS
  <2>1. CASE i <= R
    <3>1. i \in 1..R
      BY <1>2, <2>1
    <3> QED BY <1>1, <1>2, <3>1
  <2>2. CASE ~(i <= R)
    <3> DEFINE k == i - R
    <3>1. k \in 1..m /\ R + k = i
      BY <1>2, <2>2
    <3> HIDE DEF k
    <3>2. received'[R + k] = got[k] /\ Arrived(got[k], due[R + k], files)
      BY <1>2, <3>1 DEF R, m
    <3> QED BY <3>1, <3>2
  <2> QED BY <2>1, <2>2
<1>4. Len(received') <= Len(due)
  BY <1>2 DEF R, m
<1>5. \A i \in DOMAIN received' : Arrived(received'[i], due'[i], files')
  BY <1>2, <1>3
<1> QED BY <1>2, <1>4, <1>5 DEF SentInOrder, R, m

LEMMA GotIs ==
  ASSUME NEW b, NEW n \in Nat,
         \A k \in 1..n : b.cells[At(b.gpos, k, b.len)] \in Bytes
  PROVE  /\ Got(b, n) \in Seq(Bytes) /\ Len(Got(b, n)) = n
         /\ \A k \in 1..n : Got(b, n)[k] = b.cells[At(b.gpos, k, b.len)]
<1> DEFINE f == [k \in 1..n |-> b.cells[At(b.gpos, k, b.len)]]
<1>1. f = Got(b, n)
  BY DEF Got, At
<1>2. f \in [1..n -> Bytes] /\ \A k \in 1..n : f[k] = b.cells[At(b.gpos, k, b.len)]
  OBVIOUS
<1> HIDE DEF f
<1>3. f \in Seq(Bytes) /\ Len(f) = n
  BY <1>2
<1> QED BY <1>1, <1>2, <1>3

LEMMA DoSendFine ==
  ASSUME UploadsInv, DoSend
  PROVE  UploadsInv'
<1> DEFINE b == send_buffer
           R == Len(received)
<1>1. /\ wire = "open"
      /\ UNCHANGED <<wire, send_buffer2, upload, packets, uploads, due, files>>
  BY DEF DoSend
<1>2. PICK n \in 1..b.used : /\ received' = received \o Got(b, n)
                             /\ send_buffer' = Drained(b, n)
  BY DEF DoSend
<1>3. /\ packets' \in 0..MaxSends /\ uploads' \in 0..MaxUploads /\ due' \in Seq(Bytes)
      /\ FilesFine' /\ DOMAIN files' = 1..uploads' /\ wire' = "open"
      /\ received \in Seq(Bytes) /\ R \in Nat
  BY <1>1 DEF UploadsInv, FilesFine
<1>4. CASE NoFile
  <2>1. /\ Ring(b) /\ Len(due) = R + b.used /\ b.used \in Nat /\ n \in Nat /\ n <= b.used
        /\ \A k \in 1..b.used : b.cells[At(b.gpos, k, b.len)] = due[R + k]
    <3>1. Ring(b) /\ Len(due) = R + b.used
          /\ \A k \in 1..b.used : b.cells[At(b.gpos, k, b.len)] = due[R + k]
      BY <1>4 DEF NoFile, HeldAs
    <3>2. b.used \in Nat
      BY <3>1, RingIs
    <3> QED BY <3>1, <3>2
  <2> DEFINE c == Drained(b, n)
  <2>2. /\ Ring(c) /\ c.used = b.used - n
        /\ \A k \in 1..c.used : c.cells[At(c.gpos, k, c.len)]
                                  = b.cells[At(b.gpos, n + k, b.len)]
    BY <2>1, DrainKeeps
  <2> HIDE DEF b, c, R
  <2>3. \A k \in 1..n : k \in 1..b.used /\ b.cells[At(b.gpos, k, b.len)] = due[R + k]
    BY <2>1
  <2>4. \A k \in 1..b.used : due[R + k] \in Bytes
    <3> SUFFICES ASSUME NEW k \in 1..b.used PROVE due[R + k] \in Bytes
      OBVIOUS
    <3>1. R + k \in 1..Len(due) /\ due \in Seq(Bytes)
      BY <1>1, <1>3, <2>1 DEF UploadsInv
    <3> QED BY <3>1
  <2>5. /\ Got(b, n) \in Seq(Bytes) /\ Len(Got(b, n)) = n
        /\ \A k \in 1..n : Got(b, n)[k] = due[R + k]
    <3>1. \A k \in 1..n : b.cells[At(b.gpos, k, b.len)] \in Bytes
      BY <2>3, <2>4
    <3> QED BY <2>1, <2>3, <3>1, GotIs
  <2>6. R + n <= Len(due)
    BY <1>3, <2>1
  <2>7. \A k \in 1..n : Arrived(Got(b, n)[k], due[R + k], files)
    BY <2>5 DEF Arrived
  <2>8. SentInOrder' /\ received' \in Seq(Bytes) /\ Len(received') = R + n
    BY <1>1, <1>2, <2>5, <2>6, <2>7, SentOn DEF R
  <2>9. \A k \in 1..c.used : c.cells[At(c.gpos, k, c.len)] = due[R + n + k]
    <3> SUFFICES ASSUME NEW k \in 1..c.used
                 PROVE  c.cells[At(c.gpos, k, c.len)] = due[R + n + k]
      OBVIOUS
    <3> DEFINE j == n + k
    <3>1. j \in 1..b.used /\ R + j = R + n + k
      BY <1>3, <2>1, <2>2
    <3>2. c.cells[At(c.gpos, k, c.len)] = b.cells[At(b.gpos, j, b.len)]
      BY <2>2
    <3> HIDE DEF j
    <3>3. b.cells[At(b.gpos, j, b.len)] = due[R + j]
      BY <2>1, <3>1
    <3> QED BY <3>1, <3>2, <3>3
  <2>10. Len(due) = R + n + c.used
    BY <1>3, <2>1, <2>2
  <2>11. send_buffer' = c
    BY <1>2 DEF c, b
  <2>12. NoFile'
    <3>1. upload_fh' = 0 /\ upload_size' = 0 /\ upload_pos' = 0
      BY <1>1, <1>4 DEF NoFile, upload
    <3>2. Ring(send_buffer')
      BY <2>2, <2>11
    <3>3. Len(due') = Len(received') + send_buffer'.used
      BY <1>1, <2>8, <2>10, <2>11
    <3>4. HeldAs(send_buffer', due', Len(received'))
      BY <1>1, <2>8, <2>9, <2>11 DEF HeldAs
    <3> QED BY <3>1, <3>2, <3>3, <3>4 DEF NoFile, Ring, Shape, HeldAs
  <2> QED BY <1>1, <1>3, <2>8, <2>12 DEF UploadsInv
<1>5. CASE Busy
  <2> DEFINE c == Drained(b, n)
             l == b.len
             fh == upload_fh
             sent == SentOfFile
             read == HeaderRead
             total == Total
             u == send_buffer.used
  <2>1. /\ total \in Nat /\ sent \in Nat /\ total - sent \in Nat /\ read \in Nat
        /\ read <= total /\ total <= l /\ fh \in DOMAIN files /\ fh \in Nat
        /\ read = sent + u /\ sent = read - u /\ u \in Nat /\ l \in Nat
        /\ n \in Nat /\ 1 <= n /\ n <= u /\ R \in Nat
    <3>1. /\ total \in Nat /\ sent \in Nat /\ total - sent \in Nat /\ read \in Nat
          /\ read <= total /\ total <= l /\ fh \in DOMAIN files
          /\ read = sent + u /\ u \in Nat /\ l \in Nat
      BY <1>1, <1>5, FileLeft
    <3>2. fh \in Nat
      <4> fh = uploads /\ uploads \in 0..MaxUploads
        BY <1>5 DEF Busy, UploadsInv
      <4> QED BY UploadsAssumption
    <3>3. sent = read - u
      BY DEF SentOfFile
    <3>4. n \in 1..u
      OBVIOUS
    <3> HIDE DEF sent, read, total, fh, u, l
    <3>5. n \in Nat /\ 1 <= n /\ n <= u
      BY <3>1, <3>4
    <3> QED BY <1>3, <3>1, <3>2, <3>3, <3>5
  <2>2. /\ InFile(b, fh, read) /\ Ring(send_buffer2)
        /\ \A k \in 1..(total - sent) : due[R + k] = <<"file", fh, sent + k>>
        /\ Len(due) = R + (total - sent) + send_buffer2.used
        /\ HeldAs(send_buffer2, due, R + (total - sent))
        /\ files[fh].room = l /\ files[fh].bytes = total
    BY <1>5 DEF Busy, Total
  <2>3. /\ InFile(c, fh, read) /\ c.len = l /\ c.used = u - n
        /\ \A k \in 1..n : b.cells[At(b.gpos, k, l)]
                             = IF sent + k = l THEN Nul
                               ELSE <<"file", fh, sent + k>>
    <3>1. n \in 1..b.used /\ InFile(b, fh, read) /\ fh \in Nat /\ read \in Nat
      BY <2>1, <2>2
    <3> HIDE DEF fh, read
    <3>2. /\ InFile(c, fh, read) /\ c.len = b.len /\ c.used = b.used - n
          /\ \A k \in 1..n : b.cells[At(b.gpos, k, b.len)]
                               = IF (read - b.used) + k = b.len THEN Nul
                                 ELSE <<"file", fh, (read - b.used) + k>>
      BY <3>1, DrainFile
    <3>3. b.used = u /\ b.len = l
      OBVIOUS
    <3> HIDE DEF b, c, sent, l, u
    <3> QED BY <2>1, <3>2, <3>3
  <2>4. send_buffer' = c /\ received' = received \o Got(b, n)
    BY <1>2
  <2> HIDE DEF b, c, R, l, fh, sent, read, total, u
  <2>5. \A k \in 1..n : /\ sent + k \in 1..total /\ k \in 1..(total - sent)
                        /\ b.cells[At(b.gpos, k, l)] = IF sent + k = l THEN Nul
                                                       ELSE <<"file", fh, sent + k>>
    <3> SUFFICES ASSUME NEW k \in 1..n
                 PROVE  /\ sent + k \in 1..total /\ k \in 1..(total - sent)
                        /\ b.cells[At(b.gpos, k, l)] = IF sent + k = l THEN Nul
                                                       ELSE <<"file", fh, sent + k>>
      OBVIOUS
    <3>1. sent + k \in 1..total /\ k \in 1..(total - sent)
      BY <2>1
    <3> QED BY <2>1, <2>3, <3>1
  <2>6. \A k \in 1..n : Arrived(b.cells[At(b.gpos, k, l)], due[R + k], files)
    <3> SUFFICES ASSUME NEW k \in 1..n
                 PROVE  Arrived(b.cells[At(b.gpos, k, l)], due[R + k], files)
      OBVIOUS
    <3>1. due[R + k] = <<"file", fh, sent + k>>
      BY <2>2, <2>5
    <3>2. CASE sent + k = l
      <4>1. sent + k = total /\ total = l
        <5>1. sent + k <= total
          BY <2>1, <2>5
        <5> QED BY <2>1, <3>2, <5>1
      <4>2. b.cells[At(b.gpos, k, l)] = Nul
        BY <2>5, <3>2
      <4>3. due[R + k] = <<"file", fh, files[fh].bytes>> /\ files[fh].bytes = files[fh].room
        BY <2>2, <3>1, <4>1
      <4> QED BY <2>1, <4>2, <4>3 DEF Arrived
    <3>3. CASE sent + k # l
      BY <2>5, <3>1, <3>3 DEF Arrived
    <3> QED BY <3>2, <3>3
  <2>7. /\ Got(b, n) \in Seq(Bytes) /\ Len(Got(b, n)) = n
        /\ \A k \in 1..n : Got(b, n)[k] = b.cells[At(b.gpos, k, l)]
    <3>1. \A k \in 1..n : b.cells[At(b.gpos, k, b.len)] \in Bytes
      <4> SUFFICES ASSUME NEW k \in 1..n
                   PROVE  b.cells[At(b.gpos, k, l)] \in Bytes
        BY DEF l
      <4> DEFINE i == sent + k
      <4>1. i \in Nat /\ fh \in Nat
        BY <2>1, <2>5
      <4>2. b.cells[At(b.gpos, k, l)] = IF i = l THEN Nul ELSE <<"file", fh, i>>
        BY <2>5
      <4> HIDE DEF i
      <4>3. <<"file", fh, i>> \in Bytes /\ Nul \in Bytes
        BY <4>1 DEF Bytes, Nul
      <4> QED BY <4>2, <4>3
    <3>2. n \in Nat
      BY <2>1
    <3> QED BY <3>1, <3>2, GotIs DEF l
  <2>8. send_buffer2.used \in Nat
    BY <2>2, RingIs
  <2> DEFINE w == send_buffer2.used
  <2>9. R + n <= Len(due)
    <3>1. w \in Nat /\ Len(due) = R + (total - sent) + w
      BY <2>2, <2>8
    <3> HIDE DEF w
    <3>2. n <= total - sent
      BY <2>1
    <3> QED BY <2>1, <3>1, <3>2
  <2>10. SentInOrder' /\ received' \in Seq(Bytes) /\ Len(received') = R + n
    <3>1. \A k \in 1..n : Arrived(Got(b, n)[k], due[R + k], files)
      BY <2>6, <2>7
    <3> QED BY <1>1, <2>4, <2>7, <2>9, <3>1, SentOn DEF R
  <2>11. /\ HeaderRead' = read /\ Total' = total /\ Header' = Header
         /\ upload_fh' = fh /\ SentOfFile' = sent + n
    <3>1. /\ HeaderRead' = read /\ Total' = total /\ Header' = Header /\ upload_fh' = fh
      BY <1>1 DEF HeaderRead, Total, Header, upload, read, total, fh
    <3>2. SentOfFile' = HeaderRead' - send_buffer'.used
      BY DEF SentOfFile
    <3>3. read - (u - n) = sent + n
      BY <2>1
    <3> QED BY <2>3, <2>4, <3>1, <3>2, <3>3
  <2>12. /\ (R + n) + (total - (sent + n)) = R + (total - sent)
         /\ R \in Nat
    BY <2>1
  <2>13. \A k \in 1..(total - (sent + n)) : due[R + n + k] = <<"file", fh, sent + n + k>>
    <3> SUFFICES ASSUME NEW k \in 1..(total - (sent + n))
                 PROVE  due[R + n + k] = <<"file", fh, sent + n + k>>
      OBVIOUS
    <3> DEFINE j == n + k
    <3>1. j \in 1..(total - sent) /\ R + j = R + n + k /\ sent + j = sent + n + k
      BY <2>1, <2>12
    <3> HIDE DEF j
    <3> QED BY <2>2, <3>1
  <2>14. Busy'
    <3>1. /\ upload_fh' = uploads' /\ upload_fh' # 0 /\ upload_size' \in Nat
          /\ upload_pos' \in 0..upload_size' /\ Header' \in {5, 6}
          /\ files'[upload_fh'].room = send_buffer'.len
          /\ Enough(upload_size') <= send_buffer'.len
      BY <1>1, <1>5, <2>3, <2>4, <2>11 DEF Busy, upload, l, b
    <3>2. InFile(send_buffer', upload_fh', HeaderRead')
      BY <2>3, <2>4, <2>11
    <3>3. \A k \in 1..(Total' - SentOfFile') :
            due'[Len(received') + k] = <<"file", upload_fh', SentOfFile' + k>>
      BY <1>1, <2>10, <2>11, <2>13
    <3>4. /\ Ring(send_buffer2')
          /\ Len(due') = Len(received') + (Total' - SentOfFile') + send_buffer2'.used
          /\ HeldAs(send_buffer2', due', Len(received') + (Total' - SentOfFile'))
      BY <1>1, <2>2, <2>10, <2>11, <2>12
    <3> QED BY <3>1, <3>2, <3>3, <3>4 DEF Busy, Ring, Shape, HeldAs, InFile
  <2> QED BY <1>1, <1>3, <2>10, <2>14 DEF UploadsInv
<1> QED BY <1>1, <1>4, <1>5 DEF UploadsInv

LEMMA LargeEnoughIs ==
  ASSUME NEW size \in FileSizes
  PROVE  LargeEnough(size) \in Nat /\ Enough(size) <= LargeEnough(size)
<1>1. \E n \in Doublings : Suffices(n, size)
  BY UploadsAssumption
<1>2. LargeEnough(size) \in Doublings /\ Suffices(LargeEnough(size), size)
  BY <1>1 DEF LargeEnough
<1> DEFINE l == LargeEnough(size)
<1>3. PICK d \in {1, 2, 4, 8, 16, 32, 64, 128, 256} : l = BufferSize * d
  BY <1>2 DEF Doublings
<1>4. l >= Enough(size) /\ size \in Nat /\ BufferSize \in Nat
  BY <1>2, UploadsAssumption, LengthsAre DEF Suffices
<1> HIDE DEF l
<1>5. l \in Nat
  BY <1>3, <1>4
<1>6. Enough(size) \in Nat
  BY <1>4 DEF Enough
<1> QED BY <1>4, <1>5, <1>6 DEF l

\* A stream in two parts.
LEMMA Parts ==
  ASSUME NEW s \in Seq(Bytes), NEW r \in Nat, r <= Len(s)
  PROVE  /\ SubSeq(s, 1, r) \in Seq(Bytes) /\ Len(SubSeq(s, 1, r)) = r
         /\ \A i \in 1..r : SubSeq(s, 1, r)[i] = s[i]
         /\ SubSeq(s, r + 1, Len(s)) \in Seq(Bytes)
         /\ Len(SubSeq(s, r + 1, Len(s))) = Len(s) - r
         /\ \A i \in 1..(Len(s) - r) : SubSeq(s, r + 1, Len(s))[i] = s[r + i]
<1> DEFINE m == Len(s)
<1>1. m \in Nat /\ r <= m /\ \A i \in 1..m : s[i] \in Bytes
  OBVIOUS
<1>2. /\ SubSeq(s, 1, r) \in Seq(Bytes) /\ Len(SubSeq(s, 1, r)) = r
      /\ \A i \in 1..r : SubSeq(s, 1, r)[i] = s[i]
  OBVIOUS
<1>3. /\ SubSeq(s, r + 1, m) \in Seq(Bytes)
      /\ Len(SubSeq(s, r + 1, m)) = m - r
  OBVIOUS
<1>4. \A i \in 1..(m - r) : SubSeq(s, r + 1, m)[i] = s[r + i]
  OBVIOUS
<1> QED BY <1>2, <1>3, <1>4

\* A file goes between what was received and what waits.
LEMMA Between ==
  ASSUME NEW s \in Seq(Bytes), NEW r \in Nat, r <= Len(s), NEW f \in Seq(Bytes)
  PROVE  LET t == SubSeq(s, 1, r) \o f \o SubSeq(s, r + 1, Len(s))
         IN  /\ t \in Seq(Bytes) /\ Len(t) = Len(s) + Len(f)
             /\ \A i \in 1..r : t[i] = s[i]
             /\ \A i \in 1..Len(f) : t[r + i] = f[i]
             /\ \A i \in 1..(Len(s) - r) : t[(r + Len(f)) + i] = s[r + i]
<1> DEFINE m == Len(s)
           a == SubSeq(s, 1, r)
           z == SubSeq(s, r + 1, m)
           af == a \o f
           t == af \o z
           n == Len(f)
<1>1. /\ a \in Seq(Bytes) /\ Len(a) = r /\ \A i \in 1..r : a[i] = s[i]
      /\ z \in Seq(Bytes) /\ Len(z) = m - r
      /\ \A i \in 1..(m - r) : z[i] = s[r + i]
  BY Parts
<1>2. m \in Nat /\ n \in Nat /\ r <= m
  OBVIOUS
<1> HIDE DEF a, z
<1>3. /\ af \in Seq(Bytes) /\ Len(af) = r + n
      /\ \A i \in 1..r : af[i] = a[i]
      /\ \A i \in 1..n : af[r + i] = f[i]
  BY <1>1, Joined
<1> HIDE DEF af
<1>4. /\ t \in Seq(Bytes) /\ Len(t) = (r + n) + (m - r)
      /\ \A i \in 1..(r + n) : t[i] = af[i]
      /\ \A i \in 1..(m - r) : t[(r + n) + i] = z[i]
  <2>1. /\ t \in Seq(Bytes) /\ Len(t) = Len(af) + Len(z)
        /\ \A i \in 1..Len(af) : t[i] = af[i]
        /\ \A i \in 1..Len(z) : t[Len(af) + i] = z[i]
    BY <1>1, <1>3, Joined
  <2> QED BY <1>1, <1>3, <2>1
<1> HIDE DEF t, m, n
<1>5. Len(t) = m + n
  BY <1>2, <1>4
<1>6. \A i \in 1..r : t[i] = s[i]
  <2> \A i \in 1..r : i \in 1..(r + n)
    BY <1>2
  <2> QED BY <1>1, <1>3, <1>4
<1>7. \A i \in 1..n : t[r + i] = f[i]
  <2> \A i \in 1..n : r + i \in 1..(r + n)
    BY <1>2
  <2> QED BY <1>3, <1>4
<1>8. \A i \in 1..(m - r) : t[(r + n) + i] = s[r + i]
  BY <1>1, <1>4
<1> QED BY <1>4, <1>5, <1>6, <1>7, <1>8 DEF t, af, a, z, m, n

LEMMA UploadFine ==
  ASSUME UploadsInv, NEW size \in FileSizes, NEW header \in {5, 6}, Upload(size, header)
  PROVE  UploadsInv'
<1> DEFINE l == LargeEnough(size)
           N == uploads'
           total == header + size
           R == Len(received)
           w == send_buffer.used
<1>1. /\ wire = "open" /\ uploads < MaxUploads /\ uploads' = uploads + 1
      /\ UNCHANGED <<packets, received>>
  BY DEF Upload
<1>2. /\ packets' \in 0..MaxSends /\ uploads' \in 0..MaxUploads /\ N \in Nat /\ N # 0
      /\ uploads \in Nat /\ N = uploads + 1
      /\ received' \in Seq(Bytes) /\ R \in Nat /\ due \in Seq(Bytes) /\ R <= Len(due)
      /\ DOMAIN files = 1..uploads /\ FilesFine
      /\ received \in Seq(Bytes)
      /\ \A i \in DOMAIN received : Arrived(received[i], due[i], files)
  BY <1>1, UploadsAssumption DEF UploadsInv, SentInOrder
<1>3. CASE upload_fh # 0
  <2>1. wire' = "shut" /\ UNCHANGED <<due, files>>
    BY <1>3 DEF Upload
  <2> QED BY <1>1, <1>2, <2>1 DEF UploadsInv, SentInOrder, FilesFine
<1>4. CASE upload_fh = 0
  <2> DEFINE F == FileBytes(N, 1, total)
  <2>1. /\ upload_fh' = N /\ upload_size' = size /\ upload_pos' = 0
        /\ send_buffer2' = send_buffer
        /\ send_buffer' = Put(Buffer(l), FileBytes(N, 1, header))
        /\ due' = HadOfDue \o F \o Waiting
        /\ files' = [n \in 1..N |-> IF n = N THEN [bytes |-> total, room |-> l]
                                    ELSE files[n]]
        /\ wire' = "open"
    BY <1>1, <1>4 DEF Upload
  <2>2. /\ l \in Nat /\ size \in Nat /\ Enough(size) <= l /\ total \in Nat
        /\ header < l /\ header \in Nat
    <3>1. l \in Nat /\ size \in Nat \ {0} /\ Enough(size) <= l
      BY LargeEnoughIs, UploadsAssumption
    <3> HIDE DEF l
    <3> QED BY <3>1 DEF Enough
  <2> HIDE DEF l
  <2>3. /\ InFile(send_buffer', N, header) /\ send_buffer'.len = l
        /\ send_buffer'.used = header
    BY <1>2, <2>1, <2>2, HeaderPut
  <2>4. /\ F \in Seq(Bytes) /\ Len(F) = total
        /\ \A i \in 1..total : F[i] = <<"file", N, i>>
    <3> HIDE DEF total, N
    <3>1. /\ N \in Nat /\ total \in Nat /\ 1 \in Nat /\ 1 <= total + 1
          /\ total - 1 + 1 = total
      BY <1>2, <2>2
    <3>2. LET f == FileBytes(N, 1, total)
          IN  /\ f \in Seq(Bytes) /\ Len(f) = total - 1 + 1
              /\ \A i \in 1..(total - 1 + 1) : f[i] = <<"file", N, 1 + i - 1>>
      BY <3>1, FileBytesFine
    <3>4. /\ F \in Seq(Bytes) /\ Len(F) = total - 1 + 1
          /\ \A i \in 1..(total - 1 + 1) : F[i] = <<"file", N, 1 + i - 1>>
      BY <3>2
    <3> HIDE DEF F
    <3>3. \A i \in 1..total : 1 + i - 1 = i
      BY <2>2
    <3> QED BY <3>1, <3>3, <3>4
  <2> HIDE DEF F
  <2>5. /\ due' \in Seq(Bytes) /\ Len(due') = Len(due) + total
        /\ \A i \in 1..R : due'[i] = due[i]
        /\ \A i \in 1..total : due'[R + i] = F[i]
        /\ \A i \in 1..(Len(due) - R) : due'[(R + total) + i] = due[R + i]
    <3> DEFINE t == SubSeq(due, 1, R) \o F \o SubSeq(due, R + 1, Len(due))
    <3>1. due' = t
      BY <2>1 DEF HadOfDue, Waiting
    <3>2. /\ t \in Seq(Bytes) /\ Len(t) = Len(due) + Len(F)
          /\ \A i \in 1..R : t[i] = due[i]
          /\ \A i \in 1..Len(F) : t[R + i] = F[i]
          /\ \A i \in 1..(Len(due) - R) : t[(R + Len(F)) + i] = due[R + i]
      BY <1>2, <2>4, Between
    <3> HIDE DEF t, total, R
    <3> QED BY <2>4, <3>1, <3>2
  <2>6. NoFile
    BY <1>1, <1>4 DEF UploadsInv, Busy
  <2>7. /\ Ring(send_buffer) /\ w \in Nat /\ Len(due) = R + w
        /\ \A k \in 1..w : send_buffer.cells[At(send_buffer.gpos, k, send_buffer.len)]
                             = due[R + k]
    BY <2>6, RingIs DEF NoFile, HeldAs
  <2>8. /\ DOMAIN files' = 1..N /\ FilesFine' /\ files'[N].bytes = total
        /\ files'[N].room = l /\ \A n \in DOMAIN files : n \in DOMAIN files' /\ files'[n] = files[n]
    <3> HIDE DEF N, total
    <3>1. /\ DOMAIN files' = 1..N /\ N \in 1..N
          /\ files'[N] = [bytes |-> total, room |-> l]
      BY <1>2, <2>1
    <3>2. \A n \in 1..uploads : n \in 1..N /\ n # N
      BY <1>2
    <3>3. \A n \in DOMAIN files : n \in DOMAIN files' /\ files'[n] = files[n]
      BY <1>2, <2>1, <3>1, <3>2
    <3>4. \A n \in 1..N : n = N \/ n \in 1..uploads
      BY <1>2
    <3>5. \A n \in DOMAIN files' : files'[n] \in [bytes : Nat, room : Nat]
      BY <1>2, <2>2, <3>1, <3>3, <3>4 DEF FilesFine
    <3> QED BY <3>1, <3>3, <3>5 DEF FilesFine
  <2>9. SentInOrder'
    <3>1. \A got, byte : Arrived(got, byte, files) => Arrived(got, byte, files')
      BY <2>8 DEF Arrived
    <3>2. \A i \in DOMAIN received : i \in 1..R
      BY <1>2
    <3>3. \A i \in DOMAIN received : Arrived(received[i], due'[i], files')
      BY <1>2, <2>5, <3>1, <3>2
    <3>4. Len(received') <= Len(due')
      <4> DEFINE D == Len(due)
      <4>1. D \in Nat /\ R <= D /\ Len(due') = D + total
        BY <1>2, <2>5
      <4> HIDE DEF D, R, total
      <4>2. R <= Len(due')
        BY <1>2, <2>2, <4>1
      <4> QED BY <1>1, <4>2 DEF R
    <3> QED BY <1>1, <3>3, <3>4 DEF SentInOrder
  <2>10. Total' = total /\ Header' = header /\ HeaderRead' = header /\ SentOfFile' = 0
    <3>1. Total' = total
      BY <2>1, <2>8 DEF Total
    <3>2. Header' = header
      BY <2>1, <2>2, <2>8 DEF Header
    <3>3. HeaderRead' = header
      BY <2>1, <2>2, <3>2 DEF HeaderRead
    <3>4. SentOfFile' = header - header
      BY <2>3, <3>3 DEF SentOfFile
    <3> QED BY <2>2, <3>1, <3>2, <3>3, <3>4
  <2>11. Len(due') = R + total + w /\ R + total \in Nat
    <3> HIDE DEF R, total, w
    <3> QED BY <1>2, <2>2, <2>5, <2>7
  <2>12. \A k \in 1..w : due'[(R + total) + k] = due[R + k]
    <3> Len(due) - R = w
      <4> HIDE DEF R, w
      <4> QED BY <1>2, <2>7
    <3> QED BY <2>5
  <2>13. Busy'
    <3>1. /\ upload_fh' = uploads' /\ upload_fh' # 0
          /\ upload_size' \in Nat /\ upload_pos' \in 0..upload_size'
          /\ Header' \in {5, 6} /\ files'[upload_fh'].room = send_buffer'.len
          /\ Enough(upload_size') <= send_buffer'.len
      BY <1>2, <2>1, <2>2, <2>3, <2>8, <2>10
    <3>2. InFile(send_buffer', upload_fh', HeaderRead')
      BY <2>1, <2>3, <2>10
    <3>3. \A k \in 1..(Total' - SentOfFile') :
            due'[Len(received') + k] = <<"file", upload_fh', SentOfFile' + k>>
      <4>1. total - 0 = total /\ \A k \in 1..total : 0 + k = k
        BY <2>2
      <4>2. \A k \in 1..total : due'[R + k] = <<"file", N, k>>
        BY <2>4, <2>5
      <4> HIDE DEF total
      <4> QED BY <1>1, <2>1, <2>10, <4>1, <4>2
    <3>4. Ring(send_buffer2')
      BY <2>1, <2>7
    <3>5. /\ Len(due') = Len(received') + (Total' - SentOfFile') + send_buffer2'.used
          /\ HeldAs(send_buffer2', due', Len(received') + (Total' - SentOfFile'))
      <4>1. total - 0 = total
        BY <2>2
      <4>2. HeldAs(send_buffer, due', R + total)
        BY <2>7, <2>12 DEF HeldAs
      <4> HIDE DEF total
      <4> QED BY <1>1, <2>1, <2>10, <2>11, <4>1, <4>2
    <3> QED BY <3>1, <3>2, <3>3, <3>4, <3>5 DEF Busy, Ring, Shape, HeldAs, InFile
  <2> QED BY <1>2, <2>1, <2>5, <2>8, <2>9, <2>13, <1>1 DEF UploadsInv
<1> QED BY <1>3, <1>4

LEMMA ReadFileFine ==
  ASSUME UploadsInv, ReadFile
  PROVE  UploadsInv'
<1> DEFINE l == send_buffer.len
           fh == upload_fh
           sent == SentOfFile
           read == HeaderRead
           total == Total
           u == send_buffer.used
           left == upload_size - upload_pos
           room == Remaining(send_buffer)
           n == IF left < room THEN left ELSE room
           first == Header + upload_pos + 1
<1>1. /\ wire = "open" /\ fh # 0 /\ n # 0
      /\ send_buffer' = Read(send_buffer, FileBytes(fh, first, first + n - 1))
      /\ upload_pos' = upload_pos + n
      /\ UNCHANGED <<wire, send_buffer2, upload_fh, upload_size, packets, uploads,
                     received, due, files>>
  BY DEF ReadFile
<1>2. Busy
  BY <1>1 DEF UploadsInv, NoFile
<1>3. /\ total \in Nat /\ sent \in Nat /\ total - sent \in Nat /\ read \in Nat
      /\ read <= total /\ total <= l /\ read = sent + u /\ u \in Nat /\ l \in Nat
      /\ total = Header + upload_size
  BY <1>1, <1>2, FileLeft
<1>4. /\ upload_size \in Nat /\ upload_pos \in 0..upload_size /\ Header \in {5, 6}
      /\ fh = uploads /\ InFile(send_buffer, fh, read)
      /\ read = Header + upload_pos /\ u \in 0..l /\ room = l - u
  BY <1>2 DEF Busy, HeaderRead, InFile, Shape, Remaining
<1>5. fh \in Nat
  <2> uploads \in 0..MaxUploads
    BY DEF UploadsInv
  <2> QED BY <1>4, UploadsAssumption
<1>6. first = read + 1
  BY <1>4
<1> HIDE DEF read, sent, total, u, l, fh, first, room
<1>7. n \in Nat \ {0} /\ n <= left /\ left \in Nat
  BY <1>1, <1>3, <1>4
<1> HIDE DEF n
<1>8. /\ first + n - 1 = read + n /\ read + n <= total /\ upload_pos' \in 0..upload_size
      /\ read + n <= l
  BY <1>1, <1>3, <1>4, <1>6, <1>7
<1>9. /\ InFile(send_buffer', fh, read + n) /\ send_buffer'.len = l
      /\ send_buffer'.used = u + n
  <2> DEFINE c == Read(send_buffer, FileBytes(fh, read + 1, read + n))
  <2>1. send_buffer' = c
    BY <1>1, <1>6, <1>8
  <2>2. InFile(c, fh, read + n) /\ c.len = send_buffer.len /\ c.used = send_buffer.used + n
    <3> read + n <= send_buffer.len
      BY <1>8 DEF l
    <3> QED BY <1>3, <1>4, <1>5, <1>7, ReadKeeps
  <2> HIDE DEF c
  <2> QED BY <2>1, <2>2 DEF l, u
<1>10. /\ Header' = Header /\ Total' = total /\ HeaderRead' = read + n
       /\ SentOfFile' = sent /\ upload_fh' = fh
  <2>1. Header' = Header /\ Total' = total /\ upload_fh' = fh
    BY <1>1 DEF Header, Total, total, fh
  <2>2. HeaderRead' = read + n
    <3> HeaderRead' = Header' + upload_pos'
      BY DEF HeaderRead
    <3> QED BY <1>1, <1>4, <1>7, <2>1
  <2>3. SentOfFile' = sent
    <3>1. SentOfFile' = HeaderRead' - send_buffer'.used
      BY DEF SentOfFile
    <3>2. (read + n) - (u + n) = sent
      BY <1>3, <1>7
    <3> QED BY <1>9, <2>2, <3>1, <3>2
  <2> QED BY <2>1, <2>2, <2>3
<1>11. Busy'
  <2>1. /\ upload_fh' = uploads' /\ upload_fh' # 0 /\ upload_size' \in Nat
        /\ upload_pos' \in 0..upload_size' /\ Header' \in {5, 6}
        /\ files'[upload_fh'].room = send_buffer'.len
        /\ Enough(upload_size') <= send_buffer'.len
    BY <1>1, <1>2, <1>4, <1>8, <1>9, <1>10 DEF Busy, l
  <2>2. InFile(send_buffer', upload_fh', HeaderRead')
    BY <1>9, <1>10
  <2>3. /\ \A k \in 1..(total - sent) : due[Len(received) + k] = <<"file", fh, sent + k>>
        /\ Ring(send_buffer2)
        /\ Len(due) = Len(received) + (total - sent) + send_buffer2.used
        /\ HeldAs(send_buffer2, due, Len(received) + (total - sent))
    BY <1>2 DEF Busy, total, sent, fh
  <2>4. /\ \A k \in 1..(Total' - SentOfFile') :
             due'[Len(received') + k] = <<"file", upload_fh', SentOfFile' + k>>
        /\ Ring(send_buffer2')
        /\ Len(due') = Len(received') + (Total' - SentOfFile') + send_buffer2'.used
        /\ HeldAs(send_buffer2', due', Len(received') + (Total' - SentOfFile'))
    BY <1>1, <1>10, <2>3
  <2> QED BY <2>1, <2>2, <2>4 DEF Busy, Ring, Shape, HeldAs, InFile
<1> QED BY <1>1, <1>11 DEF UploadsInv, SentInOrder, FilesFine

LEMMA EndUploadFine ==
  ASSUME UploadsInv, EndUpload
  PROVE  UploadsInv'
<1>1. /\ wire = "open" /\ upload_fh # 0 /\ AllRead /\ AllSent
      /\ upload_fh' = 0 /\ upload_size' = 0 /\ upload_pos' = 0
      /\ send_buffer' = send_buffer2
      /\ UNCHANGED <<wire, packets, uploads, received, due, files>>
  BY DEF EndUpload
<1>2. Busy
  BY <1>1 DEF UploadsInv, NoFile
<1> DEFINE l == send_buffer.len
           u == send_buffer.used
           rest == Total - SentOfFile
           R == Len(received)
           w == send_buffer2.used
<1>3. rest = 0
  <2>1. /\ Total \in Nat /\ SentOfFile \in Nat /\ HeaderRead \in Nat
        /\ Total = Header + upload_size /\ HeaderRead = SentOfFile + u
        /\ u \in Nat /\ l \in Nat /\ Header \in {5, 6} /\ upload_size \in Nat
    BY <1>1, <1>2, FileLeft DEF Busy
  <2>2. HeaderRead = Header + upload_size
    BY <1>1 DEF AllRead, HeaderRead
  <2>3. l - u = l
    BY <1>1 DEF AllSent, Remaining
  <2> HIDE DEF u, l
  <2>4. u = 0
    BY <2>1, <2>3
  <2> QED BY <2>1, <2>2, <2>4
<1>4. Ring(send_buffer2) /\ Len(due) = R + rest + w /\ HeldAs(send_buffer2, due, R + rest)
  BY <1>2 DEF Busy
<1>5. w \in Nat /\ R \in Nat
  BY <1>4, RingIs DEF UploadsInv
<1> HIDE DEF rest
<1>6. R + rest = R /\ R + rest + w = R + w
  <2> HIDE DEF R, w
  <2> QED BY <1>3, <1>5
<1>7. NoFile'
  <2>1. Ring(send_buffer')
    BY <1>1, <1>4
  <2>2. Len(due') = Len(received') + send_buffer'.used
        /\ HeldAs(send_buffer', due', Len(received'))
    BY <1>1, <1>4, <1>6
  <2> QED BY <1>1, <2>1, <2>2 DEF NoFile, Ring, Shape, HeldAs
<1> QED BY <1>1, <1>7 DEF UploadsInv, SentInOrder, FilesFine

LEMMA UploadsBegin == UploadsInit => UploadsInv
<1> SUFFICES ASSUME UploadsInit PROVE UploadsInv
  OBVIOUS
<1> DEFINE l == BufferSize
           zero == [i \in 0..l-1 |-> Nul]
<1>1. /\ wire = "open" /\ send_buffer = Buffer(BufferSize)
      /\ upload_fh = 0 /\ upload_size = 0 /\ upload_pos = 0
      /\ packets = 0 /\ uploads = 0 /\ received = <<>> /\ due = <<>> /\ files = <<>>
  BY DEF UploadsInit
<1>2. l \in Nat \ {0}
  BY LengthsAre
<1>3. zero \in [0..l-1 -> Bytes]
  BY DEF Nul, Bytes
<1>4. send_buffer = [len |-> l, cells |-> zero, gpos |-> 0, ppos |-> 0, used |-> 0]
  BY <1>1 DEF Buffer
<1> HIDE DEF l, zero
<1>5. zero \in Cells
  BY <1>2, <1>3 DEF Cells
<1>6. Shape(send_buffer)
  BY <1>2, <1>3, <1>4, <1>5 DEF Shape, Boxes
<1>7. At(0, 0, l) = 0
  <2> 0 \in 0..l-1 /\ 0 + 0 = 0
    BY <1>2
  <2> QED BY <1>2, ModBelow DEF At
<1>8. Ring(send_buffer)
  <2>1. 0 \in 0..l-1 /\ send_buffer.gpos = 0 /\ send_buffer.ppos = 0
        /\ send_buffer.used = 0 /\ send_buffer.len = l
    BY <1>2, <1>4
  <2> QED BY <1>6, <1>7, <2>1 DEF Ring, l
<1>9. NoFile
  <2>1. send_buffer.used = 0 /\ Len(received) = 0 /\ Len(due) = 0
    BY <1>1, <1>4
  <2>2. HeldAs(send_buffer, due, Len(received))
    BY <2>1 DEF HeldAs
  <2> QED BY <1>1, <1>8, <2>1, <2>2 DEF NoFile
<1>10. /\ received \in Seq(Bytes) /\ due \in Seq(Bytes) /\ SentInOrder
  BY <1>1 DEF SentInOrder
<1>11. DOMAIN files = 1..uploads /\ FilesFine
  BY <1>1 DEF FilesFine
<1> QED BY <1>1, <1>9, <1>10, <1>11, UploadsAssumption DEF UploadsInv

LEMMA UploadsStep == UploadsInv /\ [UploadsNext]_uploadsVars => UploadsInv'
<1> SUFFICES ASSUME UploadsInv, [UploadsNext]_uploadsVars PROVE UploadsInv'
  OBVIOUS
<1>1. CASE SendPacket
  BY <1>1, SendPacketFine
<1>2. CASE ReadFile
  BY <1>2, ReadFileFine
<1>3. CASE EndUpload
  BY <1>3, EndUploadFine
<1>4. CASE DoSend
  BY <1>4, DoSendFine
<1>5. ASSUME NEW size \in FileSizes, NEW header \in {5, 6}, Upload(size, header)
      PROVE  UploadsInv'
  BY <1>5, UploadFine
<1>6. CASE UNCHANGED uploadsVars
  BY <1>6 DEF uploadsVars, upload, UploadsInv, SentInOrder, FilesFine, NoFile, Busy,
              Total, SentOfFile, HeaderRead, Header, Ring, Shape, HeldAs, InFile
<1> QED BY <1>1, <1>2, <1>3, <1>4, <1>5, <1>6 DEF UploadsNext

\* What a client gets is, byte for byte, what Client::Send, EOClient::Send and
\* EOClient::Upload were given, in that order, each file in one piece; of a
\* file that with its header fills its buffer to the end, the last byte only
\* is another (Client::DoSend, EOClient::Tick).
THEOREM BytesAreSentInOrder == UploadsSpec => []SentInOrder
<1>1. UploadsInv => SentInOrder
  BY DEF UploadsInv
<1> QED BY <1>1, UploadsBegin, UploadsStep, PTL DEF UploadsSpec

-----------------------------------------------------------------------------
\* The rest of the types of Uploads: the buffers of a connection that was shut
\* are as they were, and without a file the second one is empty.

Spare == upload_fh = 0 => send_buffer2 = Buffer(0)

LEMMA OpenTypes ==
  ASSUME UploadsInv, Spare, wire = "open"
  PROVE  UploadsTypeOK
<1>1. /\ packets \in 0..MaxSends /\ uploads \in 0..MaxUploads
      /\ received \in Seq(Bytes) /\ due \in Seq(Bytes) /\ (NoFile \/ Busy)
      /\ MaxUploads \in Nat
  BY UploadsAssumption DEF UploadsInv
<1>2. CASE NoFile
  <2>1. /\ upload_fh = 0 /\ upload_size = 0 /\ upload_pos = 0
        /\ Shape(send_buffer) /\ send_buffer2 = Buffer(0)
    BY <1>2 DEF NoFile, Ring, Spare
  <2>2. /\ send_buffer2.len = 0 /\ send_buffer2.used = 0
        /\ send_buffer2.cells = [i \in 0..0-1 |-> Nul]
    BY <2>1 DEF Buffer
  <2>3. Nul \in Bytes
    BY DEF Nul, Bytes
  <2>4. send_buffer2.cells \in [0..0-1 -> Bytes]
    BY <2>2, <2>3
  <2>5. upload_fh \in 0..uploads /\ upload_pos \in 0..upload_size
    BY <1>1, <2>1
  <2> QED
    BY <1>1, <2>1, <2>2, <2>4, <2>5 DEF UploadsTypeOK, UploadsInv, Shape
<1>3. CASE Busy
  <2>1. /\ upload_fh \in 0..uploads /\ upload_pos \in 0..upload_size
        /\ Shape(send_buffer) /\ Shape(send_buffer2)
    BY <1>1, <1>3 DEF Busy, InFile, Ring
  <2> QED
    BY <1>1, <2>1 DEF UploadsTypeOK, UploadsInv, Shape
<1> QED BY <1>1, <1>2, <1>3

LEMMA SpareKept ==
  UploadsInv /\ Spare /\ [UploadsNext]_uploadsVars => Spare'
<1> SUFFICES ASSUME UploadsInv, Spare, [UploadsNext]_uploadsVars PROVE Spare'
  OBVIOUS
<1>1. CASE SendPacket
  <2>1. upload_fh' = upload_fh
    BY <1>1 DEF SendPacket, upload
  <2>2. upload_fh = 0 => UNCHANGED send_buffer2
    BY <1>1 DEF SendPacket, Uploading, SendTo
  <2> QED BY <2>1, <2>2 DEF Spare
<1>2. CASE ReadFile \/ DoSend \/ UNCHANGED uploadsVars
  BY <1>2 DEF ReadFile, DoSend, uploadsVars, upload, Spare
<1>3. CASE EndUpload
  BY <1>3 DEF EndUpload, Spare
<1>4. ASSUME NEW size \in FileSizes, NEW header \in {5, 6}, Upload(size, header)
      PROVE  Spare'
  <2>1. CASE upload_fh # 0
    BY <1>4, <2>1 DEF Upload, upload, Spare
  <2>2. CASE upload_fh = 0
    <3>1. uploads' = uploads + 1 /\ upload_fh' = uploads'
      BY <1>4, <2>2 DEF Upload
    <3>2. uploads \in Nat
      BY UploadsAssumption DEF UploadsInv
    <3> QED BY <3>1, <3>2 DEF Spare
  <2> QED BY <2>1, <2>2
<1> QED BY <1>1, <1>2, <1>3, <1>4 DEF UploadsNext

LEMMA UploadsTypesKept ==
  UploadsInv /\ Spare /\ UploadsTypeOK /\ [UploadsNext]_uploadsVars => UploadsTypeOK'
<1> SUFFICES ASSUME UploadsInv, Spare, UploadsTypeOK, [UploadsNext]_uploadsVars
             PROVE  UploadsTypeOK'
  OBVIOUS
<1>1. UploadsInv' /\ Spare'
  BY UploadsStep, SpareKept
<1>2. wire' = "open" => UploadsTypeOK'
  <2>1. UploadsInv /\ Spare /\ wire = "open" => UploadsTypeOK
    BY OpenTypes
  <2>2. (UploadsInv /\ Spare /\ wire = "open" => UploadsTypeOK)'
    BY OpenTypes, PTL
  <2> QED BY <1>1, <2>2
<1>3. CASE UNCHANGED uploadsVars
  BY <1>3 DEF uploadsVars, upload, UploadsTypeOK
<1>4. CASE UploadsNext /\ wire' # "open"
  <2>1. wire' = "shut"
    BY <1>1, <1>4 DEF UploadsInv
  <2>2. UNCHANGED <<send_buffer, send_buffer2, upload, due, received>>
    <3>1. CASE SendPacket
      <4>1. wire = "open" /\ UNCHANGED <<upload, received>>
        BY <3>1 DEF SendPacket
      <4>2. CASE Uploading
        BY <1>4, <3>1, <4>1, <4>2 DEF SendPacket, SendTo
      <4>3. CASE ~Uploading
        BY <1>4, <3>1, <4>1, <4>3 DEF SendPacket, SendTo
      <4> QED BY <4>2, <4>3
    <3>2. CASE ReadFile \/ EndUpload \/ DoSend
      BY <1>4, <3>2 DEF ReadFile, EndUpload, DoSend
    <3>3. CASE \E size \in FileSizes, header \in {5, 6} : Upload(size, header)
      BY <1>4, <3>3 DEF Upload
    <3> QED BY <1>4, <3>1, <3>2, <3>3 DEF UploadsNext
  <2>3. /\ packets' \in 0..MaxSends /\ uploads' \in 0..MaxUploads
        /\ uploads' \in {uploads, uploads + 1}
    <3>1. uploads' \in {uploads, uploads + 1}
      BY <1>4 DEF UploadsNext, SendPacket, ReadFile, EndUpload, DoSend, Upload
    <3> QED BY <1>1, <3>1 DEF UploadsInv
  <2>4. upload_fh' \in 0..uploads'
    <3>1. uploads \in Nat /\ upload_fh \in 0..uploads /\ upload_fh' = upload_fh
      BY <2>2, UploadsAssumption DEF UploadsTypeOK, upload
    <3> QED BY <2>3, <3>1
  <2> QED BY <2>1, <2>2, <2>3, <2>4 DEF UploadsTypeOK, upload
<1> QED BY <1>2, <1>3, <1>4

\* The type invariant of Uploads, for buffers, packets and files of any size:
\* no more is ever in a buffer than its length, and no more read of a file
\* than it has.
THEOREM UploadsAreTyped == UploadsSpec => []UploadsTypeOK
<1>1. UploadsInit => Spare /\ wire = "open"
  BY DEF UploadsInit, Spare
<1>2. UploadsInit => UploadsTypeOK
  BY <1>1, UploadsBegin, OpenTypes
<1> QED
  BY <1>1, <1>2, UploadsBegin, UploadsStep, SpareKept, UploadsTypesKept, PTL
     DEF UploadsSpec

-----------------------------------------------------------------------------
\* What is checked of all four parts at once.

\* A step is one of its part, and the others stay as they are.
LEMMA PartsMove ==
  [Next]_vars => /\ [SpellsNext]_spellsVars /\ [SavingNext]_allSavingVars
                 /\ [SequenceNext]_sequenceVars /\ [UploadsNext]_uploadsVars
<1> SUFFICES ASSUME [Next]_vars
             PROVE  /\ [SpellsNext]_spellsVars /\ [SavingNext]_allSavingVars
                    /\ [SequenceNext]_sequenceVars /\ [UploadsNext]_uploadsVars
  OBVIOUS
<1>1. CASE UNCHANGED vars
  BY <1>1 DEF vars
<1>2. CASE Next
  <2>1. Resting(part)
    BY <1>2 DEF Next
  <2>2. \/ part = "spells" /\ SpellsNext
        \/ part = "saving" /\ SavingNext
        \/ part = "sequence" /\ SequenceNext
        \/ part = "uploads" /\ UploadsNext
    BY <1>2 DEF Next
  <2> QED
    BY <2>1, <2>2 DEF Resting
<1> QED
  BY <1>1, <1>2

\* The type invariants of what the server's loop does between requests: the
\* timer's list and the spells, the database and the saves, the numbers of the
\* packets, the buffers of a connection, for any constants.
THEOREM ServiceIsTyped == Spec => []TypeOK
<1>1. Init => SpellsInit /\ SavingInit /\ SequenceInit /\ UploadsInit
  BY DEF Init
<1>2. Spec => /\ SpellsInit /\ [][SpellsNext]_spellsVars
              /\ SavingSpec /\ SequenceSpec /\ UploadsSpec
  BY <1>1, PartsMove, PTL DEF Spec, SavingSpec, SequenceSpec, UploadsSpec
<1>3. SpellsInit /\ [][SpellsNext]_spellsVars => []SpellsTypeOK
  BY SpellsStart, SpellsStep, SpellTypesBegin, SpellTypesKept, SpellTypesAre, PTL
<1>4. SavingInv => SavingTypeOK
  BY DEF SavingInv
<1>5. SpellsTypeOK /\ SavingTypeOK /\ SequenceTypeOK /\ UploadsTypeOK => TypeOK
  BY DEF TypeOK
<1> QED
  BY <1>2, <1>3, <1>4, <1>5, SavingIsInvariant, SequencesAreTyped, UploadsAreTyped, PTL

=============================================================================
