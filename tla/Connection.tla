----------------------------- MODULE Connection -----------------------------
(***************************************************************************)
(* A TCP connection with a Connection object at either end.  Operations of *)
(* asio are started, complete when the system has carried them out, and    *)
(* then wait for their handler to be run by the thread of the io_context.  *)
(* A packet is the sequence of its bytes.  Whatever is asked of a closed   *)
(* socket fails.                                                           *)
(***************************************************************************)
EXTENDS Naturals, Sequences

Side == {"CLIENT", "SERVER"}
Peer(s) == IF s = "CLIENT" THEN "SERVER" ELSE "CLIENT"

Byte == 0 .. 255
Payload == Seq(Byte)
FrameType == Payload \ {<<>>}

(* The first byte that Serializer writes is the number of those after it.  *)
Frame(p) == <<Len(p)>> \o p

(* sizeof(m_payloadBuffer) *)
BufferSize == [s \in Side |-> IF s = "CLIENT" THEN 134 ELSE 6]

VARIABLES
  tcp,         \* the connection: being established, up, refused or lost
  socket,      \* socket[s]: has s closed m_socket?
  posted,      \* posted[s]: handlers posted by send, with their packets
  sendQueue,   \* sendQueue[s]: m_sendQueue
  writing,     \* writing[s]: the state of async_write
  written,     \* written[s]: bytes of it that the system has taken over
  stream,      \* stream[s]: bytes of s that its peer has not read yet
  reader,      \* reader[s]: the state of async_read and its buffer
  received,    \* received[s]: payloads passed to onPacket, for properties
  disconnected \* m_disconnected of the server

netVars == <<tcp, socket, posted, sendQueue, writing, written, stream, reader,
             received, disconnected>>

Operation == {"NONE", "PENDING", "OK", "FAILED"}

NetInit ==
  /\ tcp = "CONNECTING"
  /\ socket = [s \in Side |-> "OPEN"]
  /\ posted = [s \in Side |-> <<>>]
  /\ sendQueue = [s \in Side |-> <<>>]
  /\ writing = [s \in Side |-> "NONE"]
  /\ written = [s \in Side |-> 0]
  /\ stream = [s \in Side |-> <<>>]
  /\ reader = [s \in Side |-> [phase |-> "NOT_STARTED", op |-> "NONE", need |-> 0, buffer |-> <<>>]]
  /\ received = [s \in Side |-> <<>>]
  /\ disconnected = FALSE

-----------------------------------------------------------------------------
(* What the system does. *)

Connects ==
  /\ tcp = "CONNECTING"
  /\ tcp' \in {"UP", "DOWN"}
  /\ UNCHANGED <<socket, posted, sendQueue, writing, written, stream, reader,
                 received, disconnected>>

(* The connection is reset, for a reason that neither program knows: the   *)
(* system reports it.  A cut that it does not report is left out.          *)
Breaks ==
  /\ tcp = "UP"
  /\ tcp' = "DOWN"
  /\ UNCHANGED <<socket, posted, sendQueue, writing, written, stream, reader,
                 received, disconnected>>

(* A socket is closed, and what it has not read is lost. *)
ClosesSocket(s) ==
  /\ socket' = [socket EXCEPT ![s] = "CLOSED"]
  /\ stream' = [stream EXCEPT ![Peer(s)] = <<>>]

Lost(s) == tcp = "DOWN" \/ \E t \in Side : socket[t] = "CLOSED"

(* Bytes for a peer that has closed its socket are lost. *)
TransmitsByte(s) ==
  /\ writing[s] = "PENDING" /\ sendQueue[s] # <<>>
  /\ tcp = "UP" /\ socket[s] = "OPEN"
  /\ LET frame == Head(sendQueue[s]) IN
     /\ stream' = IF socket[Peer(s)] = "CLOSED" THEN stream
                  ELSE [stream EXCEPT ![s] = Append(@, frame[written[s] + 1])]
     /\ written' = [written EXCEPT ![s] = @ + 1]
     /\ writing' = [writing EXCEPT ![s] = IF written[s] + 1 = Len(frame) THEN "OK" ELSE @]
  /\ UNCHANGED <<tcp, socket, posted, sendQueue, reader, received, disconnected>>

WriteFails(s) ==
  /\ writing[s] = "PENDING" /\ Lost(s)
  /\ writing' = [writing EXCEPT ![s] = "FAILED"]
  /\ UNCHANGED <<tcp, socket, posted, sendQueue, written, stream, reader, received, disconnected>>

(* async_read completes with as many bytes as were asked for. *)
ReadCompletes(s) ==
  /\ reader[s].op = "PENDING"
  /\ socket[s] = "OPEN"
  /\ LET n == reader[s].need IN
     /\ Len(stream[Peer(s)]) >= n
     /\ reader' = [reader EXCEPT ![s].op = "OK", ![s].buffer = SubSeq(stream[Peer(s)], 1, n)]
     /\ stream' = [stream EXCEPT ![Peer(s)] = SubSeq(@, n + 1, Len(@))]
  /\ UNCHANGED <<tcp, socket, posted, sendQueue, writing, written, received, disconnected>>

(* End of stream, reset or aborted: bytes that have arrived may be lost.   *)
ReadFails(s) ==
  /\ reader[s].op = "PENDING" /\ Lost(s)
  /\ reader' = [reader EXCEPT ![s].op = "FAILED"]
  /\ UNCHANGED <<tcp, socket, posted, sendQueue, writing, written, stream, received, disconnected>>

System ==
  \/ Connects
  \/ \E s \in Side : TransmitsByte(s) \/ WriteFails(s) \/ ReadCompletes(s) \/ ReadFails(s)

-----------------------------------------------------------------------------
(* The handlers of either side. *)

ReadHeader(s) ==
  reader' = [reader EXCEPT ![s] = [@ EXCEPT !.phase = "HEADER", !.op = "PENDING", !.need = 1]]

(* The handler of async_connect, and doAccept with start. *)
Starts(s) ==
  /\ tcp = "UP" /\ socket[s] = "OPEN"
  /\ reader[s].phase = "NOT_STARTED"
  /\ ReadHeader(s)
  /\ UNCHANGED <<tcp, socket, posted, sendQueue, writing, written, stream, received, disconnected>>

Post(s, p) == posted' = [posted EXCEPT ![s] = Append(@, Frame(p))]

(* write: an async_write of the front of the queue is started.  If close   *)
(* has cleared the queue, the handler of the write before may still be     *)
(* waiting: it is forgotten here, and both writes come to nothing.         *)
Writes(s) ==
  /\ writing' = [writing EXCEPT ![s] = "PENDING"]
  /\ written' = [written EXCEPT ![s] = 0]

(* Mutants of the two handlers: a write is started although another one is *)
(* under way; the next write is not started.                               *)
MutantWritesAtOnce(s) ==
  /\ posted[s] # <<>>
  /\ posted' = [posted EXCEPT ![s] = Tail(@)]
  /\ sendQueue' = [sendQueue EXCEPT ![s] = Append(@, Head(posted[s]))]
  /\ Writes(s)
  /\ UNCHANGED <<tcp, socket, stream, reader, received, disconnected>>

MutantWritesOne(s) ==
  /\ writing[s] = "OK" /\ sendQueue[s] # <<>>
  /\ sendQueue' = [sendQueue EXCEPT ![s] = Tail(@)]
  /\ writing' = [writing EXCEPT ![s] = "NONE"]
  /\ UNCHANGED <<written, tcp, socket, posted, stream, reader, received, disconnected>>

(* The handler posted by send. *)
RunsPosted(s) ==
  /\ posted[s] # <<>>
  /\ posted' = [posted EXCEPT ![s] = Tail(@)]
  /\ sendQueue' = [sendQueue EXCEPT ![s] = Append(@, Head(posted[s]))]
  /\ IF sendQueue[s] = <<>> THEN Writes(s) ELSE UNCHANGED <<writing, written>>
  /\ UNCHANGED <<tcp, socket, stream, reader, received, disconnected>>

(* The handler of write, without an error. *)
PacketWritten(s) ==
  /\ writing[s] = "OK" /\ sendQueue[s] # <<>>
  /\ sendQueue' = [sendQueue EXCEPT ![s] = Tail(@)]
  /\ IF Len(sendQueue[s]) > 1
     THEN Writes(s)
     ELSE writing' = [writing EXCEPT ![s] = "NONE"] /\ UNCHANGED written
  /\ UNCHANGED <<tcp, socket, posted, stream, reader, received, disconnected>>

(* The handler of readHeader; the server does not take an empty packet.    *)
LengthFits(s) ==
  LET length == reader[s].buffer[1] IN
  length <= BufferSize[s] /\ (s = "SERVER" => length # 0)

HeaderRead(s) ==
  /\ reader[s].op = "OK" /\ reader[s].phase = "HEADER"
  /\ LengthFits(s)
  /\ reader' = [reader EXCEPT ![s] =
       [@ EXCEPT !.phase = "PAYLOAD", !.op = "PENDING", !.need = reader[s].buffer[1]]]
  /\ UNCHANGED <<tcp, socket, posted, sendQueue, writing, written, stream, received, disconnected>>

(* The handler of readPayload: the packet is passed on, the next is read.  *)
PayloadRead(s) ==
  /\ reader[s].op = "OK" /\ reader[s].phase = "PAYLOAD"
  /\ received' = [received EXCEPT ![s] = Append(@, reader[s].buffer)]
  /\ ReadHeader(s)
  /\ UNCHANGED <<tcp, socket, posted, sendQueue, writing, written, stream, disconnected>>

Handler(s) == Starts(s) \/ RunsPosted(s) \/ PacketWritten(s) \/ HeaderRead(s) \/ PayloadRead(s)

-----------------------------------------------------------------------------
(* Where the two sides differ: errors. *)

BadRead(s) ==
  \/ reader[s].op = "FAILED"
  \/ reader[s].op = "OK" /\ reader[s].phase = "HEADER" /\ ~LengthFits(s)

(* The client neither reads nor writes any more, and tells nobody. *)
ClientStopsReading ==
  /\ BadRead("CLIENT")
  /\ reader' = [reader EXCEPT !["CLIENT"].op = "NONE"]
  /\ UNCHANGED <<tcp, socket, posted, sendQueue, writing, written, stream, received, disconnected>>

ClientStopsWriting ==
  /\ writing["CLIENT"] = "FAILED"
  /\ writing' = [writing EXCEPT !["CLIENT"] = "NONE"]
  /\ UNCHANGED <<tcp, socket, posted, sendQueue, written, stream, reader, received, disconnected>>

(* Mutant: the socket is closed, and the server is not told. *)
MutantServerCloses == ClosesSocket("SERVER") /\ UNCHANGED disconnected

(* Connection::close of the server, which calls onDisconnect. *)
ServerCloses ==
  \/ disconnected /\ UNCHANGED <<socket, stream, disconnected>>
  \/ ~disconnected /\ disconnected' = TRUE /\ ClosesSocket("SERVER")

ServerFailsToRead ==
  /\ BadRead("SERVER")
  /\ reader' = [reader EXCEPT !["SERVER"].op = "NONE"]
  /\ ServerCloses
  /\ UNCHANGED <<tcp, posted, sendQueue, writing, written, received>>

ServerFailsToWrite ==
  /\ writing["SERVER"] = "FAILED"
  /\ writing' = [writing EXCEPT !["SERVER"] = "NONE"]
  /\ ServerCloses
  /\ UNCHANGED <<tcp, posted, sendQueue, written, reader, received>>

ClientIO == Handler("CLIENT") \/ ClientStopsReading \/ ClientStopsWriting
ServerIO == Handler("SERVER") \/ ServerFailsToRead \/ ServerFailsToWrite

NetTypeOK ==
  /\ tcp \in {"CONNECTING", "UP", "DOWN"}
  /\ socket \in [Side -> {"OPEN", "CLOSED"}]
  /\ posted \in [Side -> Seq(FrameType)]
  /\ sendQueue \in [Side -> Seq(FrameType)]
  /\ writing \in [Side -> Operation]
  /\ written \in [Side -> Nat]
  /\ stream \in [Side -> Payload]
  /\ reader \in [Side -> [phase : {"NOT_STARTED", "HEADER", "PAYLOAD"}, op : Operation,
                          need : Byte, buffer : Payload]]
  /\ received \in [Side -> Seq(Payload)]
  /\ disconnected \in BOOLEAN
=============================================================================
