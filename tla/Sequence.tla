----------------------------- MODULE Sequence -----------------------------
(***************************************************************************)
(* Packet sequence numbers (EOClient, eoclient.cpp; server_ping_all and    *)
(* server_pump_queue, eoserver.cpp): every packet of a client carries      *)
(* start + counter.  The start is given in the reply to INIT, replaced     *)
(* by each ping (from the pong on) and by the reply to an account request  *)
(* (at once).  A packet is checked when it arrives and handled later, from *)
(* a queue.  The client is a model of an honest one; both directions keep  *)
(* the order and may be slow.                                              *)
(***************************************************************************)
EXTENDS Integers, Sequences

CONSTANTS Starts,               \* what util::rand may return
          AccountStarts,        \* ... for an account reply: at most 240
          Wrap,                 \* the counter's modulus (10)
          PacketQueueMax,
          MaxPackets, MaxPings  \* bounds

ASSUME SequenceAssumption ==
  /\ Starts \subseteq 0..1757 /\ AccountStarts \subseteq 0..240
  /\ Wrap \in Nat \ {0} /\ PacketQueueMax \in Nat
  /\ MaxPackets \in Nat /\ MaxPings \in Nat

VARIABLES
  phase,                               \* server: "new", "ready", "closed"
  seq_start, upcoming_seq_start, seq,  \* server
  needpong,
  queue,                               \* arrived, not yet handled
  peer,                                \* the client: [start, seq, mode]
  toServer, toClient,
  sends, pings,                        \* how many there were
  refused, crossed                     \* history

starts == <<seq_start, upcoming_seq_start>>
sequenceVars == <<phase, starts, seq, needpong, queue, peer, toServer,
                  toClient, sends, pings, refused, crossed>>

Arrivals == {"init", "pong", "request", "other", "again"}

SequenceTypeOK ==
  /\ phase \in {"new", "ready", "closed"}
  /\ seq_start \in 0..1757 /\ upcoming_seq_start \in -1..1757
  /\ seq \in 0..Wrap-1 /\ needpong \in BOOLEAN
  /\ queue \in Seq(Arrivals) /\ Len(queue) <= MaxPackets + MaxPings
  /\ peer \in [start : 0..1757, seq : 0..Wrap-1,
               mode : {"new", "hello", "free", "waits"}]
  /\ refused \in BOOLEAN /\ crossed \in BOOLEAN

SequenceInit ==
  /\ phase = "new" /\ seq_start = 0 /\ upcoming_seq_start = -1 /\ seq = 0
  /\ needpong = FALSE /\ queue = <<>>
  /\ peer = [start |-> 0, seq |-> 0, mode |-> "new"]
  /\ toServer = <<>> /\ toClient = <<>> /\ sends = 0 /\ pings = 0
  /\ refused = FALSE /\ crossed = FALSE

-----------------------------------------------------------------------------
\* How a start is sent: two numbers, of which the first is random.

InitBytes(start) ==
  LET least == (start - 252 + 13 + 6) \div 7
      most == (start + 13) \div 7 IN
  {<<s, start - s * 7 + 13>> : s \in {IF least > 0 THEN least ELSE 0, most}}
UpdateBytes(start) == {<<s, s - start>> : s \in {start, start + 252}}

FromInit(bytes) == bytes[1] * 7 + bytes[2] - 13
FromUpdate(bytes) == bytes[1] - bytes[2]

-----------------------------------------------------------------------------
\* The client

Sent(kind, start) ==
  /\ toServer' = Append(toServer, [kind |-> kind, number |-> start + peer.seq])
  /\ sends' = sends + 1

ClientSends(kind, mode) ==
  /\ sends < MaxPackets /\ Sent(kind, peer.start)
  /\ peer' = [peer EXCEPT !.seq = (@ + 1) % Wrap, !.mode = mode]
  /\ UNCHANGED <<phase, starts, seq, needpong, queue, toClient, pings,
                 refused, crossed>>

ClientHello == peer.mode = "new" /\ ClientSends("init", "hello")
ClientPacket == peer.mode = "free" /\ ClientSends("other", "free")
ClientRequest == peer.mode = "free" /\ ClientSends("request", "waits")

\* A ping is answered with the new start, if the client knows how to number.
ClientReceives ==
  /\ toClient # <<>> /\ toClient' = Tail(toClient)
  /\ LET m == Head(toClient)
         answers == m.kind = "ping" /\ peer.mode \in {"free", "waits"} IN
     /\ CASE m.kind = "init" -> peer' = [peer EXCEPT !.start = FromInit(m.bytes),
                                                     !.mode = "free"]
          [] m.kind = "account" -> peer' = [peer EXCEPT !.start = m.bytes[1],
                                                        !.mode = "free"]
          [] answers -> peer' = [peer EXCEPT !.start = FromUpdate(m.bytes),
                                             !.seq = (@ + 1) % Wrap]
          [] OTHER -> UNCHANGED peer
     /\ IF answers THEN Sent("pong", FromUpdate(m.bytes))
                   ELSE UNCHANGED <<toServer, sends>>
  /\ UNCHANGED <<phase, starts, seq, needpong, queue, pings, refused, crossed>>

-----------------------------------------------------------------------------
\* The server

Shut == phase' = "closed" /\ UNCHANGED <<starts, seq, needpong, queue>>

GenSequence == seq_start' + seq

\* EOClient::Execute: INIT is counted but not checked; a pong brings the
\* start that was sent with the ping into force, for itself too.
Execute ==
  /\ phase # "closed" /\ toServer # <<>> /\ toServer' = Tail(toServer)
  /\ LET packet == Head(toServer) IN
     /\ seq_start' = IF packet.kind = "pong" THEN upcoming_seq_start
                                             ELSE seq_start
     /\ seq' = (seq + 1) % Wrap
     /\ IF packet.kind # "init" /\ packet.number # GenSequence
        THEN phase' = "closed" /\ refused' = TRUE /\ UNCHANGED queue
        ELSE queue' = Append(queue, packet.kind) /\ UNCHANGED <<phase, refused>>
  /\ UNCHANGED <<upcoming_seq_start, needpong, peer, toClient, sends, pings,
                 crossed>>

Tells(kind, bytes) ==
  \E b \in bytes : toClient' = Append(toClient, [kind |-> kind, bytes |-> b])

\* The replies of Init_Init and Account_Request, and Connection_Ping.
InitReply ==
  /\ phase = "new" /\ phase' = "ready"
  /\ \E s \in Starts : seq_start' = s /\ Tells("init", InitBytes(s))
  /\ UNCHANGED <<upcoming_seq_start, needpong, crossed>>

AccountReply ==
  /\ phase = "ready"
  /\ IF seq_start > 240 THEN seq_start' \in AccountStarts
                        ELSE UNCHANGED seq_start
  /\ crossed' = (crossed \/ needpong)
  /\ Tells("account", {<<seq_start'>>})
  /\ UNCHANGED <<phase, upcoming_seq_start, needpong>>

PongHandled == needpong' = FALSE
               /\ UNCHANGED <<phase, starts, toClient, crossed>>

\* server_pump_queue: one packet at a time, unless there are too many.  What
\* is meant for a character is put in the queue again, at its end, with the
\* delay of its handler.
Pump ==
  /\ phase # "closed" /\ queue # <<>>
  /\ IF Len(queue) > PacketQueueMax
     THEN Shut /\ UNCHANGED <<toClient, crossed>>
     ELSE /\ queue' = IF Head(queue) = "other" THEN Append(Tail(queue), "again")
                                               ELSE Tail(queue)
          /\ UNCHANGED seq
          /\ CASE Head(queue) = "init" -> InitReply
               [] Head(queue) = "request" -> AccountReply
               [] Head(queue) = "pong" -> PongHandled
               [] OTHER -> UNCHANGED <<phase, starts, needpong, toClient,
                                       crossed>>
  /\ UNCHANGED <<peer, toServer, sends, pings, refused>>

\* server_ping_all: who has not answered the last ping is closed.
PingNewSequenceNow(s) == upcoming_seq_start' = s /\ seq_start' = s
PingNewSequence(s) == upcoming_seq_start' = s /\ UNCHANGED seq_start

PingAll ==
  /\ phase # "closed" /\ pings < MaxPings /\ pings' = pings + 1
  /\ IF needpong
     THEN Shut /\ UNCHANGED toClient
     ELSE /\ \E s \in Starts : PingNewSequence(s) /\ Tells("ping", UpdateBytes(s))
          /\ needpong' = TRUE /\ UNCHANGED <<phase, seq, queue>>
  /\ UNCHANGED <<peer, toServer, sends, refused, crossed>>

SequenceNext == \/ ClientHello \/ ClientPacket \/ ClientRequest
                \/ ClientReceives \/ Execute \/ Pump \/ PingAll

SequenceSpec == SequenceInit /\ [][SequenceNext]_sequenceVars

-----------------------------------------------------------------------------
\* An honest client is cut off for a wrong number (eoclient.cpp:319) only
\* when the reply to an account request was sent while a ping was not yet
\* answered: the two may then differ on which start came last.
HonestStay == refused => crossed
===========================================================================
