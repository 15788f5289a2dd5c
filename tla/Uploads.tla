------------------------------ MODULE Uploads ------------------------------
(***************************************************************************)
(* What is on its way to one client: the ring buffer of Client::Send and   *)
(* DoSend (socket.cpp), and EOClient::Upload, Send and Tick (eoclient.cpp),*)
(* which put a second buffer in its place while a file is sent.            *)
(*                                                                         *)
(* A byte is known by what it belongs to, a packet or a file, and by where *)
(* in it it is; of a file, its header comes first.                         *)
(***************************************************************************)
EXTENDS Integers, Sequences

CONSTANTS BufferSize,             \* of a client: a power of two
          PacketLength, MaxSends, \* of what else is sent, and how often
          FileSizes, MaxUploads,  \* of the files, in bytes
          Chunks                  \* how many bytes the kernel takes at once

\* "large enough to hold the file": the first power of two that does, which
\* is found by doubling.
Doublings == {BufferSize * d : d \in {1, 2, 4, 8, 16, 32, 64, 128, 256}}
Enough(size) == size + 6
Suffices(n, size) == /\ n >= Enough(size)
                     /\ n = BufferSize \/ n \div 2 < Enough(size)
LargeEnough(size) == CHOOSE n \in Doublings : Suffices(n, size)

ASSUME UploadsAssumption ==
  /\ BufferSize \in Nat \ {0} /\ \E k \in 0..20 : BufferSize = 2^k
  /\ PacketLength \in Nat \ {0} /\ MaxSends \in Nat /\ MaxUploads \in Nat
  /\ FileSizes \subseteq Nat \ {0} /\ Chunks \subseteq Nat \ {0}
  /\ \A size \in FileSizes : \E n \in Doublings : Suffices(n, size)

VARIABLES
  wire,               \* "open", or "shut" by Close(true)
  send_buffer, send_buffer2,
  upload_fh,          \* the number of the upload, or 0
  upload_size, upload_pos,
  packets, uploads,   \* how many there were
  received,           \* what the client has got
  due,                \* history: what it has got and is yet to get
  files               \* history: of each file, how many bytes are sent with
                      \* its header, and the length of the buffer made for it

upload == <<upload_fh, upload_size, upload_pos>>
uploadsVars == <<wire, send_buffer, send_buffer2, upload, packets, uploads,
                 received, due, files>>

Bytes == {"nul", "packet", "file"} \X Nat \X Nat
Nul == <<"nul", 0, 0>>
PacketBytes(n) == [i \in 1..PacketLength |-> <<"packet", n, i>>]
FileBytes(n, first, last) == [i \in 1..(last - first + 1)
                                |-> <<"file", n, first + i - 1>>]

Buffer(len) == [len |-> len, cells |-> [i \in 0..len-1 |-> Nul],
                gpos |-> 0, ppos |-> 0, used |-> 0]
Remaining(b) == b.len - b.used

UploadsTypeOK ==
  /\ wire \in {"open", "shut"}
  /\ \A b \in {send_buffer, send_buffer2} : /\ b.cells \in [0..b.len-1 -> Bytes]
                                            /\ b.used \in 0..b.len
  /\ upload_fh \in 0..uploads /\ upload_pos \in 0..upload_size
  /\ packets \in 0..MaxSends /\ uploads \in 0..MaxUploads
  /\ received \in Seq(Bytes) /\ due \in Seq(Bytes)

UploadsInit ==
  /\ wire = "open"
  /\ send_buffer = Buffer(BufferSize) /\ send_buffer2 = Buffer(0)
  /\ upload_fh = 0 /\ upload_size = 0 /\ upload_pos = 0
  /\ packets = 0 /\ uploads = 0
  /\ received = <<>> /\ due = <<>> /\ files = <<>>

-----------------------------------------------------------------------------
\* The ring buffer.  mask is len - 1: positions are taken modulo len.

Put(b, bytes) ==
  [b EXCEPT
     !.cells = [i \in DOMAIN @ |->
                  LET k == ((i - b.ppos - 1) % b.len) + 1 IN
                  IF k <= Len(bytes) THEN bytes[k] ELSE @[i]],
     !.ppos = (@ + Len(bytes)) % b.len, !.used = @ + Len(bytes)]

\* fread: from ppos + 1 on, straight on, without the mask.  The last cell is
\* len - 1, and a byte beyond it is one that DoSend never reads.
Read(b, bytes) ==
  [b EXCEPT
     !.cells = [i \in DOMAIN @ |-> IF i - b.ppos \in DOMAIN bytes
                                   THEN bytes[i - b.ppos] ELSE @[i]],
     !.ppos = @ + Len(bytes), !.used = @ + Len(bytes)]

Got(b, n) == [k \in 1..n |-> b.cells[(b.gpos + k) % b.len]]
Drained(b, n) == [b EXCEPT !.gpos = (@ + n) % b.len, !.used = @ - n]

-----------------------------------------------------------------------------

\* EOClient::Send: during an upload, into the buffer that waits.
NotLooked == FALSE
Uploading == upload_fh # 0

SendTo(b, b1, other) ==
  IF PacketLength > Remaining(b)
  THEN wire' = "shut" /\ UNCHANGED <<send_buffer, send_buffer2, due>>
  ELSE /\ b1 = Put(b, PacketBytes(packets'))
       /\ due' = due \o PacketBytes(packets') /\ UNCHANGED <<wire, other>>

SendPacket ==
  /\ wire = "open" /\ packets < MaxSends /\ packets' = packets + 1
  /\ IF Uploading
     THEN SendTo(send_buffer2, send_buffer2', send_buffer)
     ELSE SendTo(send_buffer, send_buffer', send_buffer2)
  /\ UNCHANGED <<upload, uploads, received, files>>

\* Upload: the header, of five bytes for a map, otherwise of six, goes into
\* the new buffer.  A second one at the same time throws: it is closed.  The
\* file goes before what waits to be sent.
HadOfDue == SubSeq(due, 1, Len(received))
Waiting  == SubSeq(due, Len(received) + 1, Len(due))

Upload(size, header) ==
  /\ wire = "open" /\ uploads < MaxUploads
  /\ uploads' = uploads + 1
  /\ IF upload_fh # 0
     THEN wire' = "shut" /\ UNCHANGED <<send_buffer, send_buffer2, upload,
                                        due, files>>
     ELSE /\ upload_fh' = uploads' /\ upload_size' = size /\ upload_pos' = 0
          /\ send_buffer2' = send_buffer
          /\ send_buffer' = Put(Buffer(LargeEnough(size)),
                                FileBytes(uploads', 1, header))
          /\ due' = HadOfDue \o FileBytes(uploads', 1, header + size)
                             \o Waiting
          /\ files' = [n \in 1..uploads' |->
                         IF n = uploads'
                         THEN [bytes |-> header + size,
                               room |-> LargeEnough(size)]
                         ELSE files[n]]
          /\ UNCHANGED wire
  /\ UNCHANGED <<packets, received>>

\* Tick, during an upload: more of the file, or the end of it.
Header == files[upload_fh].bytes - upload_size

ReadFile ==
  /\ wire = "open" /\ upload_fh # 0
  /\ LET left == upload_size - upload_pos
         room == Remaining(send_buffer)
         n == IF left < room THEN left ELSE room
         first == Header + upload_pos + 1 IN
     /\ n # 0
     /\ send_buffer' = Read(send_buffer,
                            FileBytes(upload_fh, first, first + n - 1))
     /\ upload_pos' = upload_pos + n
  /\ UNCHANGED <<wire, send_buffer2, upload_fh, upload_size, packets, uploads,
                 received, due, files>>

AllRead == upload_pos = upload_size
AllSent == Remaining(send_buffer) = send_buffer.len

EndUpload ==
  /\ wire = "open" /\ upload_fh # 0 /\ AllRead /\ AllSent
  /\ upload_fh' = 0 /\ upload_size' = 0 /\ upload_pos' = 0
  /\ send_buffer' = send_buffer2 /\ send_buffer2' = Buffer(0)
  /\ UNCHANGED <<wire, packets, uploads, received, due, files>>

DoSend ==
  /\ wire = "open"
  /\ \E n \in Chunks \cup {send_buffer.used} :
       /\ n \in 1..send_buffer.used
       /\ received' = received \o Got(send_buffer, n)
       /\ send_buffer' = Drained(send_buffer, n)
  /\ UNCHANGED <<wire, send_buffer2, upload, packets, uploads, due, files>>

UploadsNext ==
  \/ SendPacket \/ ReadFile \/ EndUpload \/ DoSend
  \/ \E size \in FileSizes, header \in {5, 6} : Upload(size, header)

UploadsSpec == UploadsInit /\ [][UploadsNext]_uploadsVars

-----------------------------------------------------------------------------
\* A byte arrives as it is, but for the last one of a file that, with its
\* header, fills the buffer: it is read into the place after the end, and the
\* client gets the first cell instead.
Arrived(got, byte, sent) ==
  \/ got = byte
  \/ /\ got = Nul
     /\ \E n \in DOMAIN sent : /\ byte = <<"file", n, sent[n].bytes>>
                               /\ sent[n].bytes = sent[n].room

\* The client gets what is due to it, in order: the packets in the order of
\* the calls to Send, and a file in one piece, before what waited when its
\* upload began, and with no byte of what was sent since in the middle of it
\* (EOClient::Upload, Send and Tick, Client::DoSend).
SentInOrder ==
  /\ Len(received) <= Len(due)
  /\ \A i \in DOMAIN received : Arrived(received[i], due[i], files)
===========================================================================
