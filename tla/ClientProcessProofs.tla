------------------------- MODULE ClientProcessProofs -------------------------
(***************************************************************************)
(* Theorems about ClientProcess, for every script of requests and          *)
(* responses.  What a thread finds in m_sendQueue when a handler runs      *)
(* depends on which writes have been started, completed or failed: IInv    *)
(* ties the queue to the write that is under way.  What a reader takes     *)
(* from the stream depends on every byte that went before: FlowInv gives   *)
(* the bytes of all that has been sent their places, and says where the    *)
(* queues, the writer, the stream and the reader are among them.           *)
(***************************************************************************)
EXTENDS ClientProcess, SequenceTheorems, TLAPS

(* The destructor has cleared the queue of s. *)
AfterClear == {"STOP_IO", "JOIN_IO", "JOIN_SENDER", "DONE", "CRASHED"}
Cleared(s) == s = "CLIENT" /\ gui \in AfterClear

(* The queue and the write under way. *)
WriteInv(s) ==
  /\ writing[s] = "OK" /\ sendQueue[s] # <<>> => written[s] = Len(Head(sendQueue[s]))
  /\ writing[s] = "PENDING" /\ sendQueue[s] # <<>> => written[s] < Len(Head(sendQueue[s]))
  /\ writing[s] \in {"OK", "PENDING"} /\ sendQueue[s] = <<>> => Cleared(s)
  /\ writing[s] = "FAILED" => Lost(s)
  /\ sendQueue[s] # <<>> /\ writing[s] = "NONE" => Lost(s)

(* A completed read has filled the buffer; a length is one byte. *)
ReadInv(s) ==
  /\ reader[s].phase = "HEADER" => reader[s].need = 1
  /\ reader[s].op = "OK" => Len(reader[s].buffer) = reader[s].need

IInv ==
  /\ TypeOK
  /\ \A s \in Side : WriteInv(s) /\ ReadInv(s)
  /\ consumer = "SENDING" => popped \in Request
  /\ NoLostWakeUp

-----------------------------------------------------------------------------
ReaderType == [phase : {"NOT_STARTED", "HEADER", "PAYLOAD"}, op : Operation,
               need : Byte, buffer : Payload]

(* Packets fit into a frame. *)
LEMMA FrameProperties ==
  ASSUME NEW p \in Request \cup Response
  PROVE  Frame(p) \in FrameType /\ p \in Payload
<1>1. p \in Payload /\ Len(p) \in 1 .. 134
  BY ScriptAssumption DEF Request, Response
<1>2. Len(p) \in Byte
  BY <1>1 DEF Byte
<1>3. <<Len(p)>> \in Seq(Byte) /\ Len(<<Len(p)>>) = 1
  BY <1>2
<1>4. <<Len(p)>> \o p \in Seq(Byte) /\ Len(<<Len(p)>> \o p) = 1 + Len(p)
  BY <1>1, <1>3, ConcatProperties DEF Payload
<1> QED
  BY <1>1, <1>4, EmptySeq DEF Frame, FrameType, Payload

(* The front of a queue that grows or shrinks. *)
LEMMA QueueProperties ==
  ASSUME NEW S, NEW q \in Seq(S), NEW x \in S
  PROVE  /\ Append(q, x) \in Seq(S) /\ Append(q, x) # <<>>
         /\ q # <<>> => Head(Append(q, x)) = Head(q)
         /\ q = <<>> => Head(Append(q, x)) = x
         /\ q # <<>> => Head(q) \in S /\ Tail(q) \in Seq(S) /\ Len(Tail(q)) = Len(q) - 1
         /\ q # <<>> /\ Len(q) > 1 => Tail(q) # <<>> /\ Head(Tail(q)) \in S
         /\ q # <<>> /\ ~(Len(q) > 1) => Tail(q) = <<>>
<1>1. /\ Len(q) \in Nat /\ Len(Append(q, x)) = Len(q) + 1 /\ Append(q, x) \in Seq(S)
      /\ Append(q, x)[Len(q) + 1] = x /\ \A i \in 1 .. Len(q) : Append(q, x)[i] = q[i]
  BY AppendProperties, LenProperties
<1>2. \A r \in Seq(S) : Len(r) \in Nat /\ (r = <<>> <=> Len(r) = 0)
  BY EmptySeq, LenProperties
<1>3. \A r \in Seq(S) : r # <<>> => Head(r) = r[1] /\ Head(r) \in S
  BY HeadTailProperties
<1>4. Append(q, x) # <<>>
  BY <1>1, <1>2
<1>5. q # <<>> => Head(Append(q, x)) = Head(q)
  BY <1>1, <1>2, <1>3, <1>4
<1>6. q = <<>> => Head(Append(q, x)) = x
  <2>1. Head(Append(q, x)) = Append(q, x)[1]
    BY <1>1, <1>3, <1>4
  <2>2. q = <<>> => Append(q, x)[1] = x
    BY <1>1, <1>2
  <2> QED
    BY <2>1, <2>2
<1>7. q # <<>> => Head(q) \in S /\ Tail(q) \in Seq(S) /\ Len(Tail(q)) = Len(q) - 1
  BY HeadTailProperties
<1>8. ASSUME q # <<>>, Len(q) > 1 PROVE Tail(q) # <<>> /\ Head(Tail(q)) \in S
  <2> DEFINE t == Tail(q)
  <2>1. t \in Seq(S) /\ Len(t) = Len(q) - 1
    BY <1>7, <1>8
  <2> HIDE DEF t
  <2>2. Len(t) # 0
    BY <1>1, <1>8, <2>1
  <2>3. t # <<>> /\ Head(t) \in S
    BY <1>2, <1>3, <2>1, <2>2
  <2> QED
    BY <2>3 DEF t
<1>9. ASSUME q # <<>>, ~(Len(q) > 1) PROVE Tail(q) = <<>>
  <2> DEFINE t == Tail(q)
  <2>1. t \in Seq(S) /\ Len(t) = Len(q) - 1
    BY <1>7, <1>9
  <2> HIDE DEF t
  <2>2. Len(q) # 0
    BY <1>2, <1>9
  <2>3. t = <<>>
    BY <1>1, <1>2, <1>9, <2>1, <2>2
  <2> QED
    BY <2>3 DEF t
<1> QED
  BY <1>1, <1>4, <1>5, <1>6, <1>7, <1>8, <1>9

-----------------------------------------------------------------------------
(* The invariant in two parts: the connection, and the threads. *)
NetInv == NetTypeOK /\ \A s \in Side : WriteInv(s) /\ ReadInv(s)

ThreadInv ==
  /\ queue \in Seq(Request) /\ stopped \in BOOLEAN
  /\ consumer \in ConsumerState /\ popped \in {<<>>} \cup Request
  /\ consumer = "SENDING" => popped \in Request
  /\ gui \in GuiState /\ io \in {"RUNNING", "ENDED"} /\ ioStopped \in BOOLEAN
  /\ pushed \in Seq(Request) /\ responded \in Seq(Response)
  /\ NoLostWakeUp

LEMMA IInvParts == IInv <=> NetInv /\ ThreadInv
BY DEF IInv, NetInv, ThreadInv, TypeOK

(* The packets of the scripts. *)
LEMMA NextOfScript ==
  ASSUME ThreadInv
  PROVE  /\ GuiPushes => Requests[Len(pushed) + 1] \in Request
         /\ ServerSends => Responses[Len(responded) + 1] \in Response
<1>1. /\ Len(pushed) \in Nat /\ Len(Requests) \in Nat /\ DOMAIN Requests = 1 .. Len(Requests)
      /\ Len(responded) \in Nat /\ Len(Responses) \in Nat
      /\ DOMAIN Responses = 1 .. Len(Responses)
  BY ScriptAssumption, LenProperties DEF ThreadInv
<1>2. GuiPushes => Len(pushed) + 1 \in DOMAIN Requests
  BY <1>1 DEF GuiPushes
<1>3. ServerSends => Len(responded) + 1 \in DOMAIN Responses
  BY <1>1 DEF ServerSends
<1> QED
  BY <1>2, <1>3 DEF Request, Response

LEMMA NetTypeFacts ==
  ASSUME NetTypeOK
  PROVE  /\ tcp \in {"CONNECTING", "UP", "DOWN"}
         /\ socket \in [Side -> {"OPEN", "CLOSED"}]
         /\ posted \in [Side -> Seq(FrameType)]
         /\ sendQueue \in [Side -> Seq(FrameType)]
         /\ writing \in [Side -> Operation]
         /\ written \in [Side -> Nat]
         /\ stream \in [Side -> Payload]
         /\ reader \in [Side -> ReaderType]
         /\ received \in [Side -> Seq(Payload)]
         /\ disconnected \in BOOLEAN
BY DEF NetTypeOK, ReaderType

LEMMA NonEmptyFrame == \A f \in FrameType : Len(f) \in Nat /\ Len(f) > 0
BY EmptySeq, LenProperties DEF FrameType, Payload

(* What a step that leaves the write of s alone may do. *)
LEMMA WriteKept ==
  ASSUME NEW s \in Side, WriteInv(s),
         writing'[s] = writing[s], sendQueue'[s] = sendQueue[s], written'[s] = written[s],
         Lost(s) => Lost(s)', Cleared(s) => Cleared(s)'
  PROVE  WriteInv(s)'
BY DEF WriteInv

(* A write of the front of the queue has just been started. *)
LEMMA WriteStarted ==
  ASSUME NEW s \in Side, sendQueue'[s] \in Seq(FrameType), sendQueue'[s] # <<>>,
         writing'[s] = "PENDING", written'[s] = 0
  PROVE  WriteInv(s)'
<1>1. Head(sendQueue'[s]) \in FrameType
  BY HeadTailProperties
<1>2. 0 < Len(Head(sendQueue'[s]))
  BY <1>1, NonEmptyFrame
<1> QED
  BY <1>2 DEF WriteInv

(* Steps of the threads that do not touch the connection keep its part. *)
LEMMA NetKept ==
  ASSUME NetInv, UNCHANGED netVars, gui \in AfterClear => gui' \in AfterClear
  PROVE  NetInv'
<1>1. NetTypeOK'
  BY DEF NetInv, NetTypeOK, netVars
<1>2. ASSUME NEW s \in Side PROVE WriteInv(s)' /\ ReadInv(s)'
  <2>1. WriteInv(s)'
    <3>1. (Lost(s) => Lost(s)') /\ (Cleared(s) => Cleared(s)')
      BY DEF Lost, Cleared, netVars
    <3> QED
      BY <3>1, WriteKept DEF NetInv, netVars
  <2>2. ReadInv(s)'
    BY DEF NetInv, ReadInv, netVars
  <2> QED
    BY <2>1, <2>2
<1> QED
  BY <1>1, <1>2 DEF NetInv

(* The bytes that a read takes, and those it leaves. *)
LEMMA SubSeqOfSeq ==
  ASSUME NEW S, NEW q \in Seq(S), NEW n \in Nat, n <= Len(q)
  PROVE  /\ SubSeq(q, 1, n) \in Seq(S) /\ Len(SubSeq(q, 1, n)) = n
         /\ SubSeq(q, n + 1, Len(q)) \in Seq(S)
<1>1. Len(q) \in Nat /\ \A i \in 1 .. Len(q) : q[i] \in S
  BY LenProperties, ElementOfSeq
<1>2. \A i \in 1 .. n : q[i] \in S
  BY <1>1
<1>3. \A i \in n + 1 .. Len(q) : q[i] \in S
  BY <1>1
<1>4. SubSeq(q, 1, n) \in Seq(S) /\ Len(SubSeq(q, 1, n)) = IF 1 <= n THEN n - 1 + 1 ELSE 0
  BY <1>2, SubSeqProperties
<1>5. SubSeq(q, n + 1, Len(q)) \in Seq(S)
  BY <1>1, <1>3, SubSeqProperties
<1>6. (IF 1 <= n THEN n - 1 + 1 ELSE 0) = n
  OBVIOUS
<1> QED
  BY <1>4, <1>5, <1>6

-----------------------------------------------------------------------------
(* What the system does with the operations of either side. *)
LEMMA ConnectsPreserves ==
  ASSUME NetInv, Connects \/ Breaks, gui' = gui
  PROVE  NetInv'
<1>1. /\ tcp' \in {"UP", "DOWN"} /\ (tcp = "DOWN" => tcp' = "DOWN")
      /\ UNCHANGED <<socket, posted, sendQueue, writing, written, stream, reader,
                     received, disconnected>>
  BY DEF Connects, Breaks
<1>2. NetTypeOK'
  BY <1>1 DEF NetInv, NetTypeOK
<1>3. ASSUME NEW s \in Side PROVE WriteInv(s)' /\ ReadInv(s)'
  <2>1. (Lost(s) => Lost(s)') /\ (Cleared(s) => Cleared(s)')
    BY <1>1 DEF Lost, Cleared
  <2>2. WriteInv(s)'
    BY <1>1, <2>1, WriteKept DEF NetInv
  <2>3. ReadInv(s)'
    BY <1>1 DEF NetInv, ReadInv
  <2> QED
    BY <2>2, <2>3
<1> QED
  BY <1>2, <1>3 DEF NetInv

LEMMA TransmitsBytePreserves ==
  ASSUME NetInv, NEW s \in Side, TransmitsByte(s), gui' = gui
  PROVE  NetInv'
<1> DEFINE frame == Head(sendQueue[s])
<1>1. /\ writing[s] = "PENDING" /\ sendQueue[s] # <<>>
      /\ sendQueue[s] \in Seq(FrameType) /\ frame \in FrameType
      /\ Len(frame) \in Nat /\ written[s] \in Nat /\ written[s] < Len(frame)
      /\ frame[written[s] + 1] \in Byte
  <2>1. writing[s] = "PENDING" /\ sendQueue[s] # <<>> /\ sendQueue[s] \in Seq(FrameType)
    BY NetTypeFacts DEF TransmitsByte, NetInv
  <2>2. frame \in FrameType
    BY <2>1, HeadTailProperties
  <2>3. written[s] < Len(frame) /\ written[s] \in Nat /\ Len(frame) \in Nat
    BY <2>1, <2>2, NonEmptyFrame, NetTypeFacts DEF NetInv, WriteInv
  <2>4. frame \in Seq(Byte)
    BY <2>2 DEF FrameType, Payload
  <2> HIDE DEF frame
  <2>5. frame[written[s] + 1] \in Byte
    BY <2>3, <2>4, ElementOfSeq
  <2> QED
    BY <2>1, <2>2, <2>3, <2>5
<1>2. /\ stream' \in [Side -> Payload]
      /\ written' = [written EXCEPT ![s] = @ + 1]
      /\ writing' = [writing EXCEPT ![s] = IF written[s] + 1 = Len(frame) THEN "OK" ELSE @]
      /\ UNCHANGED <<tcp, socket, posted, sendQueue, reader, received, disconnected>>
  <2>1. stream[s] \in Seq(Byte)
    BY NetTypeFacts DEF NetInv, Payload
  <2>2. Append(stream[s], frame[written[s] + 1]) \in Payload
    BY <1>1, <2>1, AppendProperties DEF Payload
  <2>3. stream' \in [Side -> Payload]
    BY <2>2, NetTypeFacts DEF TransmitsByte, NetInv
  <2> QED
    BY <2>3 DEF TransmitsByte
<1> HIDE DEF frame
<1>3. NetTypeOK'
  BY <1>1, <1>2 DEF NetInv, NetTypeOK, Operation
<1>4. WriteInv(s)'
  <2>1. written'[s] = written[s] + 1 /\ sendQueue'[s] = sendQueue[s]
    BY <1>2, NetTypeFacts DEF NetInv
  <2>2. CASE written[s] + 1 = Len(frame)
    <3>1. writing'[s] = "OK"
      BY <1>2, <2>2, NetTypeFacts DEF NetInv
    <3> QED
      BY <1>1, <2>1, <2>2, <3>1 DEF WriteInv, frame
  <2>3. CASE written[s] + 1 # Len(frame)
    <3>1. writing'[s] = "PENDING" /\ written[s] + 1 < Len(frame)
      BY <1>1, <1>2, <2>3, NetTypeFacts DEF NetInv
    <3> QED
      BY <1>1, <2>1, <3>1 DEF WriteInv, frame
  <2> QED
    BY <2>2, <2>3
<1>5. ASSUME NEW t \in Side \ {s} PROVE WriteInv(t)'
  <2>1. writing'[t] = writing[t] /\ written'[t] = written[t] /\ sendQueue'[t] = sendQueue[t]
    BY <1>2, NetTypeFacts DEF NetInv
  <2> QED
    BY <1>2, <2>1, WriteKept DEF NetInv, Lost, Cleared
<1>6. \A t \in Side : ReadInv(t)'
  BY <1>2 DEF NetInv, ReadInv
<1> QED
  BY <1>3, <1>4, <1>5, <1>6 DEF NetInv

(* A write fails, or the failure is handled: the queue stays as it is. *)
LEMMA WriteEndsPreserves ==
  ASSUME NetInv, NEW s \in Side, NEW r \in {"FAILED", "NONE"}, Lost(s)',
         writing' = [writing EXCEPT ![s] = r],
         UNCHANGED <<tcp, posted, sendQueue, written, reader, received, gui>>,
         \A t \in Side : socket[t] = "CLOSED" => socket'[t] = "CLOSED",
         socket' \in [Side -> {"OPEN", "CLOSED"}], stream' \in [Side -> Payload],
         disconnected' \in BOOLEAN
  PROVE  NetInv'
<1>1. NetTypeOK'
  BY DEF NetInv, NetTypeOK, Operation
<1>2. writing'[s] = r /\ \A t \in Side \ {s} : writing'[t] = writing[t]
  BY NetTypeFacts DEF NetInv
<1>3. WriteInv(s)'
  BY <1>2 DEF WriteInv
<1>4. ASSUME NEW t \in Side \ {s} PROVE WriteInv(t)'
  <2>1. (Lost(t) => Lost(t)') /\ (Cleared(t) => Cleared(t)')
    BY DEF Lost, Cleared
  <2> QED
    BY <1>2, <2>1, WriteKept DEF NetInv
<1>5. \A t \in Side : ReadInv(t)'
  BY DEF NetInv, ReadInv
<1> QED
  BY <1>1, <1>3, <1>4, <1>5 DEF NetInv

(* A step that changes a reader, and at most closes sockets besides. *)
LEMMA ReaderPreserves ==
  ASSUME NetInv, NEW s \in Side, NEW r \in ReaderType,
         reader' = [reader EXCEPT ![s] = r],
         r.phase = "HEADER" => r.need = 1,
         r.op = "OK" => Len(r.buffer) = r.need,
         UNCHANGED <<tcp, posted, sendQueue, writing, written, gui>>,
         \A t \in Side : socket[t] = "CLOSED" => socket'[t] = "CLOSED",
         socket' \in [Side -> {"OPEN", "CLOSED"}], stream' \in [Side -> Payload],
         received' \in [Side -> Seq(Payload)], disconnected' \in BOOLEAN
  PROVE  NetInv'
<1>1. reader' \in [Side -> ReaderType] /\ reader'[s] = r
      /\ \A t \in Side \ {s} : reader'[t] = reader[t]
  BY NetTypeFacts DEF NetInv
<1>2. NetTypeOK'
  BY <1>1 DEF NetInv, NetTypeOK, ReaderType
<1>3. ASSUME NEW t \in Side PROVE WriteInv(t)'
  <2>1. (Lost(t) => Lost(t)') /\ (Cleared(t) => Cleared(t)')
    BY DEF Lost, Cleared
  <2> QED
    BY <2>1, WriteKept DEF NetInv
<1>4. ASSUME NEW t \in Side PROVE ReadInv(t)'
  BY <1>1 DEF NetInv, ReadInv
<1> QED
  BY <1>2, <1>3, <1>4 DEF NetInv

LEMMA SystemPreserves ==
  ASSUME NetInv, System, gui' = gui
  PROVE  NetInv'
<1>1. CASE Connects
  BY <1>1, ConnectsPreserves
<1>2. ASSUME NEW s \in Side, TransmitsByte(s) PROVE NetInv'
  BY <1>2, TransmitsBytePreserves
<1>3. ASSUME NEW s \in Side, WriteFails(s) PROVE NetInv'
  <2>1. Lost(s)'
    BY <1>3 DEF WriteFails, Lost
  <2>2. socket \in [Side -> {"OPEN", "CLOSED"}] /\ stream \in [Side -> Payload]
        /\ disconnected \in BOOLEAN
    BY NetTypeFacts DEF NetInv
  <2> QED
    BY <1>3, <2>1, <2>2, WriteEndsPreserves DEF WriteFails
<1>4. ASSUME NEW s \in Side, ReadCompletes(s) PROVE NetInv'
  <2> DEFINE n == reader[s].need
             b == SubSeq(stream[Peer(s)], 1, n)
             r == [reader[s] EXCEPT !.op = "OK", !.buffer = b]
  <2>1. /\ reader[s] \in ReaderType /\ n \in Byte /\ Peer(s) \in Side
        /\ stream[Peer(s)] \in Seq(Byte) /\ n <= Len(stream[Peer(s)])
    BY <1>4, NetTypeFacts DEF NetInv, ReadCompletes, Peer, Side, Payload, ReaderType
  <2>3. /\ stream' = [stream EXCEPT ![Peer(s)] = SubSeq(@, n + 1, Len(@))]
        /\ UNCHANGED <<tcp, socket, posted, sendQueue, writing, written, received, disconnected>>
    BY <1>4 DEF ReadCompletes
  <2>2. /\ b \in Seq(Byte) /\ Len(b) = n
        /\ SubSeq(stream[Peer(s)], n + 1, Len(stream[Peer(s)])) \in Seq(Byte)
    <3> DEFINE q == stream[Peer(s)]
    <3>0. \A k \in Byte : k \in Nat
      BY DEF Byte
    <3>1. q \in Seq(Byte) /\ n \in Nat /\ n <= Len(q)
      <4> HIDE DEF n
      <4> QED
        BY <2>1, <3>0
    <3> HIDE DEF q, n
    <3>2. /\ SubSeq(q, 1, n) \in Seq(Byte) /\ Len(SubSeq(q, 1, n)) = n
          /\ SubSeq(q, n + 1, Len(q)) \in Seq(Byte)
      BY <3>1, SubSeqOfSeq
    <3> QED
      BY <3>2 DEF q
  <2>4. stream' \in [Side -> Payload]
    BY <2>1, <2>2, <2>3, NetTypeFacts DEF NetInv, Payload
  <2>5. reader' = [reader EXCEPT ![s] = r]
    BY <1>4, NetTypeFacts DEF NetInv, ReadCompletes
  <2>6. /\ r \in ReaderType /\ r.op = "OK" /\ r.buffer = b /\ r.need = n
        /\ r.phase = reader[s].phase
    <3> HIDE DEF b
    <3> QED
      BY <2>1, <2>2 DEF ReaderType, Operation, Payload
  <2>7. r.phase = "HEADER" => r.need = 1
    BY <2>6 DEF NetInv, ReadInv
  <2>8. received \in [Side -> Seq(Payload)] /\ socket \in [Side -> {"OPEN", "CLOSED"}]
        /\ disconnected \in BOOLEAN
    BY NetTypeFacts DEF NetInv
  <2> HIDE DEF r, b, n
  <2> QED
    BY <2>1, <2>2, <2>3, <2>4, <2>5, <2>6, <2>7, <2>8, ReaderPreserves
<1>5. ASSUME NEW s \in Side, ReadFails(s) PROVE NetInv'
  <2> DEFINE r == [reader[s] EXCEPT !.op = "FAILED"]
  <2>1. reader[s] \in ReaderType /\ reader' = [reader EXCEPT ![s] = r]
    BY <1>5, NetTypeFacts DEF NetInv, ReadFails
  <2>2. /\ r \in ReaderType /\ r.op = "FAILED" /\ r.need = reader[s].need
        /\ r.phase = reader[s].phase
    BY <2>1 DEF ReaderType, Operation
  <2>3. r.phase = "HEADER" => r.need = 1
    BY <2>2 DEF NetInv, ReadInv
  <2>4. received \in [Side -> Seq(Payload)] /\ socket \in [Side -> {"OPEN", "CLOSED"}]
        /\ disconnected \in BOOLEAN /\ stream \in [Side -> Payload]
    BY NetTypeFacts DEF NetInv
  <2>5. UNCHANGED <<tcp, socket, posted, sendQueue, writing, written, stream, received, disconnected>>
    BY <1>5 DEF ReadFails
  <2> HIDE DEF r
  <2> QED
    BY <2>1, <2>2, <2>3, <2>4, <2>5, ReaderPreserves
<1> QED
  BY <1>1, <1>2, <1>3, <1>4, <1>5 DEF System

-----------------------------------------------------------------------------
(* The handlers of either side. *)
LEMMA ReadsHeader ==
  ASSUME NetInv, NEW s \in Side, ReadHeader(s),
         UNCHANGED <<tcp, socket, posted, sendQueue, writing, written, stream, disconnected, gui>>,
         received' \in [Side -> Seq(Payload)]
  PROVE  NetInv'
<1> DEFINE r == [reader[s] EXCEPT !.phase = "HEADER", !.op = "PENDING", !.need = 1]
<1>1. reader[s] \in ReaderType /\ reader' = [reader EXCEPT ![s] = r]
  BY NetTypeFacts DEF NetInv, ReadHeader
<1>2. r \in ReaderType /\ r.op = "PENDING" /\ r.need = 1
  <2>1. 1 \in Byte
    BY DEF Byte
  <2> QED
    BY <1>1, <2>1 DEF ReaderType, Operation
<1>3. socket \in [Side -> {"OPEN", "CLOSED"}] /\ disconnected \in BOOLEAN
      /\ stream \in [Side -> Payload]
  BY NetTypeFacts DEF NetInv
<1> HIDE DEF r
<1> QED
  BY <1>1, <1>2, <1>3, ReaderPreserves

LEMMA RunsPostedPreserves ==
  ASSUME NetInv, NEW s \in Side, RunsPosted(s), gui' = gui
  PROVE  NetInv'
<1> DEFINE x == Head(posted[s])
           q == sendQueue[s]
<1>1. /\ posted[s] \in Seq(FrameType) /\ posted[s] # <<>> /\ q \in Seq(FrameType)
      /\ x \in FrameType /\ Tail(posted[s]) \in Seq(FrameType)
      /\ Append(q, x) \in Seq(FrameType) /\ Append(q, x) # <<>>
      /\ q # <<>> => Head(Append(q, x)) = Head(q)
  <2>1. posted[s] \in Seq(FrameType) /\ posted[s] # <<>> /\ q \in Seq(FrameType)
    BY NetTypeFacts DEF NetInv, RunsPosted
  <2>2. x \in FrameType /\ Tail(posted[s]) \in Seq(FrameType)
    BY <2>1, HeadTailProperties
  <2> HIDE DEF x, q
  <2> QED
    BY <2>1, <2>2, QueueProperties
<1>2. /\ posted' = [posted EXCEPT ![s] = Tail(@)]
      /\ sendQueue' = [sendQueue EXCEPT ![s] = Append(@, x)]
      /\ IF q = <<>> THEN Writes(s) ELSE UNCHANGED <<writing, written>>
      /\ UNCHANGED <<tcp, socket, stream, reader, received, disconnected>>
  BY DEF RunsPosted
<1>3. /\ writing' \in [Side -> Operation] /\ written' \in [Side -> Nat]
      /\ \A t \in Side \ {s} : writing'[t] = writing[t] /\ written'[t] = written[t]
  <2>1. writing \in [Side -> Operation] /\ written \in [Side -> Nat]
    BY NetTypeFacts DEF NetInv
  <2>2. CASE Writes(s)
    BY <2>1, <2>2 DEF Writes, Operation
  <2>3. CASE UNCHANGED <<writing, written>>
    BY <2>1, <2>3
  <2> QED
    BY <1>2, <2>2, <2>3
<1>4. /\ posted' \in [Side -> Seq(FrameType)] /\ sendQueue' \in [Side -> Seq(FrameType)]
      /\ sendQueue'[s] = Append(q, x)
      /\ \A t \in Side \ {s} : sendQueue'[t] = sendQueue[t]
  <2> HIDE DEF x
  <2> QED
    BY <1>1, <1>2, NetTypeFacts DEF NetInv
<1>5. NetTypeOK'
  BY <1>2, <1>3, <1>4 DEF NetInv, NetTypeOK
<1>6. WriteInv(s)'
  <2>1. CASE q = <<>>
    <3>1. writing'[s] = "PENDING" /\ written'[s] = 0
      BY <1>2, <2>1, NetTypeFacts DEF NetInv, Writes
    <3> HIDE DEF q, x
    <3> QED
      BY <1>1, <1>4, <3>1, WriteStarted
  <2>2. CASE q # <<>>
    <3>1. writing'[s] = writing[s] /\ written'[s] = written[s]
      BY <1>2, <2>2
    <3>2. Head(sendQueue'[s]) = Head(sendQueue[s]) /\ sendQueue'[s] # <<>>
      BY <1>1, <1>4, <2>2
    <3>3. Lost(s) => Lost(s)'
      BY <1>2 DEF Lost
    <3>4. WriteInv(s)
      BY DEF NetInv
    <3> QED
      BY <2>2, <3>1, <3>2, <3>3, <3>4 DEF WriteInv
  <2> QED
    BY <2>1, <2>2
<1>7. ASSUME NEW t \in Side \ {s} PROVE WriteInv(t)'
  BY <1>2, <1>3, <1>4, WriteKept DEF NetInv, Lost, Cleared
<1>8. \A t \in Side : ReadInv(t)'
  BY <1>2 DEF NetInv, ReadInv
<1> QED
  BY <1>5, <1>6, <1>7, <1>8 DEF NetInv

LEMMA PacketWrittenPreserves ==
  ASSUME NetInv, NEW s \in Side, PacketWritten(s), gui' = gui
  PROVE  NetInv'
<1> DEFINE q == sendQueue[s]
<1>1. q \in Seq(FrameType) /\ q # <<>> /\ Len(q) \in Nat
  BY NetTypeFacts, LenProperties DEF NetInv, PacketWritten
<1>2. /\ Tail(q) \in Seq(FrameType)
      /\ Len(q) > 1 => Tail(q) # <<>>
      /\ ~(Len(q) > 1) => Tail(q) = <<>>
  <2>1. Head(q) \in FrameType
    BY <1>1, HeadTailProperties
  <2> HIDE DEF q
  <2> QED
    BY <1>1, <2>1, QueueProperties
<1>3. /\ sendQueue' = [sendQueue EXCEPT ![s] = Tail(@)]
      /\ IF Len(q) > 1
         THEN Writes(s)
         ELSE writing' = [writing EXCEPT ![s] = "NONE"] /\ UNCHANGED written
      /\ UNCHANGED <<tcp, socket, posted, stream, reader, received, disconnected>>
  BY DEF PacketWritten
<1>4. /\ writing' \in [Side -> Operation] /\ written' \in [Side -> Nat]
      /\ \A t \in Side \ {s} : writing'[t] = writing[t] /\ written'[t] = written[t]
  <2>1. writing \in [Side -> Operation] /\ written \in [Side -> Nat]
    BY NetTypeFacts DEF NetInv
  <2>2. CASE Writes(s)
    BY <2>1, <2>2 DEF Writes, Operation
  <2>3. CASE writing' = [writing EXCEPT ![s] = "NONE"] /\ UNCHANGED written
    BY <2>1, <2>3 DEF Operation
  <2> QED
    BY <1>3, <2>2, <2>3
<1>5. /\ sendQueue' \in [Side -> Seq(FrameType)] /\ sendQueue'[s] = Tail(q)
      /\ \A t \in Side \ {s} : sendQueue'[t] = sendQueue[t]
  BY <1>2, <1>3, NetTypeFacts DEF NetInv
<1>6. NetTypeOK'
  BY <1>3, <1>4, <1>5 DEF NetInv, NetTypeOK
<1>7. WriteInv(s)'
  <2>1. CASE Len(q) > 1
    <3>1. writing'[s] = "PENDING" /\ written'[s] = 0
      BY <1>3, <2>1, NetTypeFacts DEF NetInv, Writes
    <3> HIDE DEF q
    <3> QED
      BY <1>2, <1>5, <2>1, <3>1, WriteStarted
  <2>2. CASE ~(Len(q) > 1)
    <3>1. writing'[s] = "NONE" /\ sendQueue'[s] = <<>>
      BY <1>2, <1>3, <1>5, <2>2, NetTypeFacts DEF NetInv
    <3> QED
      BY <3>1 DEF WriteInv
  <2> QED
    BY <2>1, <2>2
<1>8. ASSUME NEW t \in Side \ {s} PROVE WriteInv(t)'
  BY <1>3, <1>4, <1>5, WriteKept DEF NetInv, Lost, Cleared
<1>9. \A t \in Side : ReadInv(t)'
  BY <1>3 DEF NetInv, ReadInv
<1> QED
  BY <1>6, <1>7, <1>8, <1>9 DEF NetInv

LEMMA HeaderReadPreserves ==
  ASSUME NetInv, NEW s \in Side, HeaderRead(s), gui' = gui
  PROVE  NetInv'
<1> DEFINE n == reader[s].buffer[1]
           r == [reader[s] EXCEPT !.phase = "PAYLOAD", !.op = "PENDING", !.need = n]
<1>1. /\ reader[s] \in ReaderType /\ reader' = [reader EXCEPT ![s] = r]
      /\ reader[s].op = "OK" /\ reader[s].phase = "HEADER"
      /\ UNCHANGED <<tcp, socket, posted, sendQueue, writing, written, stream, received, disconnected>>
  BY NetTypeFacts DEF NetInv, HeaderRead
<1>2. Len(reader[s].buffer) = 1 /\ reader[s].buffer \in Seq(Byte)
  BY <1>1 DEF NetInv, ReadInv, ReaderType, Payload
<1>3. n \in Byte
  BY <1>2, ElementOfSeq
<1>4. r \in ReaderType /\ r.op = "PENDING" /\ r.phase = "PAYLOAD"
  BY <1>1, <1>3 DEF ReaderType, Operation
<1>5. /\ received \in [Side -> Seq(Payload)] /\ socket \in [Side -> {"OPEN", "CLOSED"}]
      /\ disconnected \in BOOLEAN /\ stream \in [Side -> Payload]
  BY NetTypeFacts DEF NetInv
<1> HIDE DEF r
<1> QED
  BY <1>1, <1>4, <1>5, ReaderPreserves

LEMMA HandlerPreserves ==
  ASSUME NetInv, NEW s \in Side, Handler(s), gui' = gui
  PROVE  NetInv'
<1>1. received \in [Side -> Seq(Payload)]
  BY NetTypeFacts DEF NetInv
<1>2. CASE Starts(s)
  BY <1>1, <1>2, ReadsHeader DEF Starts
<1>3. CASE RunsPosted(s)
  BY <1>3, RunsPostedPreserves
<1>4. CASE PacketWritten(s)
  BY <1>4, PacketWrittenPreserves
<1>5. CASE HeaderRead(s)
  BY <1>5, HeaderReadPreserves
<1>6. CASE PayloadRead(s)
  <2>1. reader[s].buffer \in Payload
    BY NetTypeFacts DEF NetInv, ReaderType
  <2>2. Append(received[s], reader[s].buffer) \in Seq(Payload)
    BY <1>1, <2>1, AppendProperties
  <2>3. received' \in [Side -> Seq(Payload)]
    BY <1>1, <1>6, <2>2 DEF PayloadRead
  <2> QED
    BY <1>6, <2>3, ReadsHeader DEF PayloadRead
<1> QED
  BY <1>2, <1>3, <1>4, <1>5, <1>6 DEF Handler

(* A reader or a write that is given up. *)
LEMMA StopsReadingPreserves ==
  ASSUME NetInv, NEW s \in Side, reader' = [reader EXCEPT ![s].op = "NONE"],
         UNCHANGED <<tcp, posted, sendQueue, writing, written, received, gui>>,
         \A t \in Side : socket[t] = "CLOSED" => socket'[t] = "CLOSED",
         socket' \in [Side -> {"OPEN", "CLOSED"}], stream' \in [Side -> Payload],
         disconnected' \in BOOLEAN
  PROVE  NetInv'
<1> DEFINE r == [reader[s] EXCEPT !.op = "NONE"]
<1>1. reader[s] \in ReaderType /\ reader' = [reader EXCEPT ![s] = r]
      /\ received \in [Side -> Seq(Payload)]
  BY NetTypeFacts DEF NetInv
<1>2. /\ r \in ReaderType /\ r.op = "NONE" /\ r.need = reader[s].need
      /\ r.phase = reader[s].phase
  BY <1>1 DEF ReaderType, Operation
<1>3. r.phase = "HEADER" => r.need = 1
  BY <1>2 DEF NetInv, ReadInv
<1> HIDE DEF r
<1> QED
  BY <1>1, <1>2, <1>3, ReaderPreserves

LEMMA ClosesSocketProperties ==
  ASSUME NetInv, NEW s \in Side, ClosesSocket(s)
  PROVE  /\ \A t \in Side : socket[t] = "CLOSED" => socket'[t] = "CLOSED"
         /\ socket' \in [Side -> {"OPEN", "CLOSED"}]
         /\ stream' \in [Side -> Payload]
<1>1. <<>> \in Payload
  BY EmptySeq DEF Payload
<1> QED
  BY <1>1, NetTypeFacts DEF NetInv, ClosesSocket

LEMMA ClientIOPreserves ==
  ASSUME NetInv, ClientIO, gui' = gui
  PROVE  NetInv'
<1>1. "CLIENT" \in Side
  BY DEF Side
<1>2. /\ socket \in [Side -> {"OPEN", "CLOSED"}] /\ stream \in [Side -> Payload]
      /\ disconnected \in BOOLEAN
  BY NetTypeFacts DEF NetInv
<1>3. CASE Handler("CLIENT")
  BY <1>1, <1>3, HandlerPreserves
<1>4. CASE ClientStopsReading
  BY <1>1, <1>2, <1>4, StopsReadingPreserves DEF ClientStopsReading
<1>5. CASE ClientStopsWriting
  <2>1. Lost("CLIENT")'
    BY <1>1, <1>5 DEF ClientStopsWriting, NetInv, WriteInv, Lost
  <2> QED
    BY <1>1, <1>2, <1>5, <2>1, WriteEndsPreserves DEF ClientStopsWriting
<1> QED
  BY <1>3, <1>4, <1>5 DEF ClientIO

LEMMA ServerIOPreserves ==
  ASSUME NetInv, ServerIO, gui' = gui
  PROVE  NetInv'
<1>1. "SERVER" \in Side
  BY DEF Side
<1>2. ASSUME ServerCloses
      PROVE  /\ \A t \in Side : socket[t] = "CLOSED" => socket'[t] = "CLOSED"
             /\ socket' \in [Side -> {"OPEN", "CLOSED"}]
             /\ stream' \in [Side -> Payload] /\ disconnected' \in BOOLEAN
  BY <1>1, <1>2, NetTypeFacts, ClosesSocketProperties DEF ServerCloses, NetInv
<1>3. CASE Handler("SERVER")
  BY <1>1, <1>3, HandlerPreserves
<1>4. CASE ServerFailsToRead
  BY <1>1, <1>2, <1>4, StopsReadingPreserves DEF ServerFailsToRead
<1>5. CASE ServerFailsToWrite
  <2>1. Lost("SERVER")
    BY <1>1, <1>5 DEF ServerFailsToWrite, NetInv, WriteInv
  <2>2. Lost("SERVER")'
    BY <1>2, <1>5, <2>1 DEF ServerFailsToWrite, Lost
  <2> QED
    BY <1>1, <1>2, <1>5, <2>2, WriteEndsPreserves DEF ServerFailsToWrite
<1> QED
  BY <1>3, <1>4, <1>5 DEF ServerIO

(* A handler is posted. *)
LEMMA PostPreserves ==
  ASSUME NetInv, NEW s \in Side, NEW p \in Request \cup Response, Post(s, p), gui' = gui,
         UNCHANGED <<tcp, socket, sendQueue, writing, written, stream, reader, received,
                     disconnected>>
  PROVE  NetInv'
<1>1. Frame(p) \in FrameType
  BY FrameProperties
<1>2. Append(posted[s], Frame(p)) \in Seq(FrameType)
  BY <1>1, NetTypeFacts, AppendProperties DEF NetInv
<1>3. posted' \in [Side -> Seq(FrameType)]
  BY <1>2, NetTypeFacts DEF NetInv, Post
<1>4. NetTypeOK'
  BY <1>3 DEF NetInv, NetTypeOK
<1>5. ASSUME NEW t \in Side PROVE WriteInv(t)' /\ ReadInv(t)'
  <2>1. WriteInv(t)'
    BY WriteKept DEF NetInv, Lost, Cleared
  <2>2. ReadInv(t)'
    BY DEF NetInv, ReadInv
  <2> QED
    BY <2>1, <2>2
<1> QED
  BY <1>4, <1>5 DEF NetInv

-----------------------------------------------------------------------------
(* The destructor, on the thread of the GUI. *)
LEMMA GuiClosesSocketPreserves ==
  ASSUME NetInv, GuiClosesSocket
  PROVE  NetInv'
<1>1. "CLIENT" \in Side /\ ClosesSocket("CLIENT") /\ gui = "CLOSE"
      /\ UNCHANGED <<tcp, posted, sendQueue, writing, written, reader, received, disconnected>>
  BY DEF GuiClosesSocket, At, Side
<1>2. /\ \A t \in Side : socket[t] = "CLOSED" => socket'[t] = "CLOSED"
      /\ socket' \in [Side -> {"OPEN", "CLOSED"}]
      /\ stream' \in [Side -> Payload]
  BY <1>1, ClosesSocketProperties
<1>3. NetTypeOK'
  BY <1>1, <1>2 DEF NetInv, NetTypeOK
<1>4. ASSUME NEW t \in Side PROVE WriteInv(t)' /\ ReadInv(t)'
  <2>1. (Lost(t) => Lost(t)') /\ (Cleared(t) => Cleared(t)')
    BY <1>1, <1>2 DEF Lost, Cleared, AfterClear
  <2>2. WriteInv(t)'
    BY <1>1, <2>1, WriteKept DEF NetInv
  <2>3. ReadInv(t)'
    BY <1>1 DEF NetInv, ReadInv
  <2> QED
    BY <2>2, <2>3
<1> QED
  BY <1>3, <1>4 DEF NetInv

LEMMA GuiClearsQueuePreserves ==
  ASSUME NetInv, GuiClearsQueue
  PROVE  NetInv'
<1>1. /\ gui = "CLEAR" /\ gui' = "STOP_IO" /\ "CLIENT" \in Side
      /\ sendQueue' = [sendQueue EXCEPT !["CLIENT"] = <<>>]
      /\ UNCHANGED <<tcp, socket, posted, writing, written, stream, reader, received, disconnected>>
  BY DEF GuiClearsQueue, At, Side
<1>2. /\ sendQueue' \in [Side -> Seq(FrameType)] /\ sendQueue'["CLIENT"] = <<>>
      /\ \A t \in Side : t # "CLIENT" => sendQueue'[t] = sendQueue[t]
  BY <1>1, EmptySeq, NetTypeFacts DEF NetInv
<1>3. NetTypeOK'
  BY <1>1, <1>2 DEF NetInv, NetTypeOK
<1>4. WriteInv("CLIENT")'
  BY <1>1, <1>2 DEF NetInv, WriteInv, Cleared, AfterClear, Lost
<1>5. ASSUME NEW t \in Side, t # "CLIENT" PROVE WriteInv(t)'
  <2>1. (Lost(t) => Lost(t)') /\ (Cleared(t) => Cleared(t)')
    BY <1>1, <1>5 DEF Lost, Cleared
  <2> QED
    BY <1>1, <1>2, <1>5, <2>1, WriteKept DEF NetInv
<1>6. \A t \in Side : ReadInv(t)'
  BY <1>1 DEF NetInv, ReadInv
<1> QED
  BY <1>3, <1>4, <1>5, <1>6 DEF NetInv

(* The handler of a write that finds the queue empty: close() has been here. *)
LEMMA IoPopsEmptyQueuePreserves ==
  ASSUME NetInv, IoPopsEmptyQueue
  PROVE  NetInv' /\ gui \in AfterClear /\ gui' \in {gui, "CRASHED"}
<1>1. "CLIENT" \in Side
  BY DEF Side
<1>2. gui \in AfterClear /\ sendQueue["CLIENT"] = <<>>
  BY <1>1 DEF IoPopsEmptyQueue, NetInv, WriteInv, Cleared
<1>3. /\ gui' \in {gui, "CRASHED"} /\ gui' \in AfterClear
      /\ UNCHANGED <<tcp, socket, posted, sendQueue, written, stream, reader, received,
                     disconnected>>
  BY <1>2 DEF IoPopsEmptyQueue, AfterClear
<1>4. /\ writing' \in [Side -> Operation] /\ writing'["CLIENT"] \in {"OK", "PENDING"}
      /\ \A t \in Side : t # "CLIENT" => writing'[t] = writing[t]
  BY <1>1, NetTypeFacts DEF IoPopsEmptyQueue, NetInv, Operation
<1>5. NetTypeOK'
  BY <1>3, <1>4 DEF NetInv, NetTypeOK
<1>6. WriteInv("CLIENT")'
  BY <1>2, <1>3, <1>4 DEF WriteInv, Cleared
<1>7. ASSUME NEW t \in Side, t # "CLIENT" PROVE WriteInv(t)'
  <2>1. (Lost(t) => Lost(t)') /\ (Cleared(t) => Cleared(t)')
    BY <1>3, <1>7 DEF Lost, Cleared
  <2> QED
    BY <1>3, <1>4, <1>7, <2>1, WriteKept DEF NetInv
<1>8. \A t \in Side : ReadInv(t)'
  BY <1>3 DEF NetInv, ReadInv
<1> QED
  BY <1>2, <1>3, <1>5, <1>6, <1>7, <1>8 DEF NetInv

-----------------------------------------------------------------------------
(* The steps of the threads. *)
LEMMA ThreadKept ==
  ASSUME ThreadInv, UNCHANGED <<queueVars, pushed>>, responded' \in Seq(Response),
         gui' \in GuiState, gui \in {"NOTIFY_ONE", "NOTIFY_ALL"} => gui' = gui,
         io' \in {"RUNNING", "ENDED"}, ioStopped' \in BOOLEAN
  PROVE  ThreadInv'
BY DEF ThreadInv, NoLostWakeUp, queueVars

LEMMA GuiPreserves ==
  ASSUME NetInv, ThreadInv, GuiPushes \/ GuiNotifies \/ GuiQuits \/ Destructor
  PROVE  NetInv' /\ ThreadInv'
<1>1. CASE GuiPushes
  <2> DEFINE m == Requests[Len(pushed) + 1]
  <2>1. m \in Request
    BY <1>1, NextOfScript
  <2> HIDE DEF m
  <2>2. /\ queue' = Append(queue, m) /\ pushed' = Append(pushed, m)
        /\ gui = "RUNNING" /\ gui' = "NOTIFY_ONE"
        /\ UNCHANGED <<netVars, stopped, consumer, popped, io, ioStopped, responded>>
    BY <1>1 DEF GuiPushes, PushMessage, At, m
  <2>3. queue' \in Seq(Request) /\ pushed' \in Seq(Request)
    BY <2>1, <2>2, AppendProperties DEF ThreadInv
  <2>4. NetInv'
    BY <2>2, NetKept DEF AfterClear
  <2>5. ThreadInv'
    BY <2>2, <2>3 DEF ThreadInv, NoLostWakeUp, GuiState
  <2> QED
    BY <2>4, <2>5
<1>2. CASE GuiNotifies
  <2>1. NetInv'
    BY <1>2, NetKept DEF GuiNotifies, At, AfterClear
  <2>2. ThreadInv'
    BY <1>2 DEF GuiNotifies, At, Notify, ThreadInv, NoLostWakeUp, GuiState, ConsumerState
  <2> QED
    BY <2>1, <2>2
<1>3. CASE GuiQuits
  <2>1. NetInv'
    BY <1>3, NetKept DEF GuiQuits, At, AfterClear
  <2>2. ThreadInv'
    BY <1>3, ThreadKept DEF GuiQuits, At, ThreadInv, GuiState, Destruction
  <2> QED
    BY <2>1, <2>2
<1>4. CASE GuiStopsQueue
  <2>1. NetInv'
    BY <1>4, NetKept DEF GuiStopsQueue, At, AfterClear
  <2>2. ThreadInv'
    BY <1>4 DEF GuiStopsQueue, At, StopQueue, ThreadInv, NoLostWakeUp, GuiState, Destruction
  <2> QED
    BY <2>1, <2>2
<1>5. CASE GuiNotifiesAll
  <2>1. NetInv'
    BY <1>5, NetKept DEF GuiNotifiesAll, At, AfterClear
  <2>2. ThreadInv'
    BY <1>5 DEF GuiNotifiesAll, At, Notify, ThreadInv, NoLostWakeUp, GuiState, Destruction,
                ConsumerState
  <2> QED
    BY <2>1, <2>2
<1>6. CASE GuiClosesSocket
  <2>1. ThreadInv'
    BY <1>6, ThreadKept DEF GuiClosesSocket, At, ThreadInv, GuiState, Destruction
  <2> QED
    BY <1>6, <2>1, GuiClosesSocketPreserves
<1>7. CASE GuiClearsQueue
  <2>1. ThreadInv'
    BY <1>7, ThreadKept DEF GuiClearsQueue, At, ThreadInv, GuiState, Destruction
  <2> QED
    BY <1>7, <2>1, GuiClearsQueuePreserves
<1>8. CASE GuiStopsIO
  <2>1. NetInv'
    BY <1>8, NetKept DEF GuiStopsIO, At, AfterClear
  <2>2. ThreadInv'
    BY <1>8, ThreadKept DEF GuiStopsIO, At, ThreadInv, GuiState, Destruction
  <2> QED
    BY <2>1, <2>2
<1>9. CASE GuiJoinsIO
  <2>1. NetInv'
    BY <1>9, NetKept DEF GuiJoinsIO, At, AfterClear
  <2>2. ThreadInv'
    BY <1>9, ThreadKept DEF GuiJoinsIO, At, ThreadInv, GuiState, Destruction
  <2> QED
    BY <2>1, <2>2
<1>10. CASE GuiJoinsSender
  <2>1. NetInv'
    BY <1>10, NetKept DEF GuiJoinsSender, At, AfterClear
  <2>2. ThreadInv'
    BY <1>10, ThreadKept DEF GuiJoinsSender, At, ThreadInv, GuiState, Destruction
  <2> QED
    BY <2>1, <2>2
<1> QED
  BY <1>1, <1>2, <1>3, <1>4, <1>5, <1>6, <1>7, <1>8, <1>9, <1>10 DEF Destructor

LEMMA SenderPreserves ==
  ASSUME NetInv, ThreadInv, SenderWaits \/ SenderWakes \/ SenderSends
  PROVE  NetInv' /\ ThreadInv'
<1>1. CASE SenderWaits
  <2>1. NetInv'
    BY <1>1, NetKept DEF SenderWaits
  <2>2. UNCHANGED <<gui, io, ioStopped, pushed, responded>> /\ WaitPop
    BY <1>1 DEF SenderWaits
  <2>3. CASE FallAsleep
    BY <2>1, <2>2, <2>3 DEF FallAsleep, ThreadInv, NoLostWakeUp, ConsumerState
  <2>4. CASE Pop
    <3>1. Head(queue) \in Request /\ Tail(queue) \in Seq(Request)
      BY <2>4, HeadTailProperties DEF Pop, ThreadInv
    <3>2. popped' = Head(queue) /\ queue' = Tail(queue) /\ consumer' = "SENDING"
          /\ UNCHANGED stopped
      BY <2>4 DEF Pop
    <3>3. popped' \in Request /\ queue' \in Seq(Request)
      BY <3>1, <3>2
    <3> QED
      BY <2>1, <2>2, <3>2, <3>3 DEF ThreadInv, NoLostWakeUp, ConsumerState
  <2>5. CASE Finish
    BY <2>1, <2>2, <2>5 DEF Finish, ThreadInv, NoLostWakeUp, ConsumerState
  <2> QED
    BY <2>1, <2>2, <2>3, <2>4, <2>5 DEF WaitPop
<1>2. CASE SenderWakes
  <2>1. NetInv'
    BY <1>2, NetKept DEF SenderWakes
  <2>2. ThreadInv'
    BY <1>2 DEF SenderWakes, WakeUp, ThreadInv, NoLostWakeUp, ConsumerState
  <2> QED
    BY <2>1, <2>2
<1>3. CASE SenderSends
  <2>1. popped \in Request
    BY <1>3 DEF SenderSends, ThreadInv
  <2>2. NetInv'
    BY <1>3, <2>1, PostPreserves DEF SenderSends, Side
  <2>3. ThreadInv'
    BY <1>3 DEF SenderSends, ThreadInv, NoLostWakeUp, ConsumerState
  <2> QED
    BY <2>2, <2>3
<1> QED
  BY <1>1, <1>2, <1>3

LEMMA IoPreserves ==
  ASSUME NetInv, ThreadInv, IoHandles \/ IoPopsEmptyQueue \/ IoEnds
  PROVE  NetInv' /\ ThreadInv'
<1>1. CASE IoHandles
  <2>1. NetInv'
    BY <1>1, ClientIOPreserves DEF IoHandles
  <2>2. ThreadInv'
    BY <1>1, ThreadKept DEF IoHandles, ThreadInv
  <2> QED
    BY <2>1, <2>2
<1>2. CASE IoPopsEmptyQueue
  <2>1. NetInv' /\ gui \in AfterClear /\ gui' \in {gui, "CRASHED"}
    BY <1>2, IoPopsEmptyQueuePreserves
  <2>2. ThreadInv'
    BY <1>2, <2>1, ThreadKept DEF IoPopsEmptyQueue, ThreadInv, AfterClear, GuiState
  <2> QED
    BY <2>1, <2>2
<1>3. CASE IoEnds
  <2>1. NetInv'
    BY <1>3, NetKept DEF IoEnds
  <2>2. ThreadInv'
    BY <1>3, ThreadKept DEF IoEnds, ThreadInv
  <2> QED
    BY <2>1, <2>2
<1> QED
  BY <1>1, <1>2, <1>3

LEMMA OthersPreserve ==
  ASSUME NetInv, ThreadInv, ServerHandles \/ ServerSends \/ SystemActs \/ LinkBreaks
  PROVE  NetInv' /\ ThreadInv'
<1>1. CASE ServerHandles
  <2>1. NetInv'
    BY <1>1, ServerIOPreserves DEF ServerHandles
  <2>2. ThreadInv'
    BY <1>1, ThreadKept DEF ServerHandles, ThreadInv
  <2> QED
    BY <2>1, <2>2
<1>2. CASE ServerSends
  <2> DEFINE p == Responses[Len(responded) + 1]
  <2>1. p \in Response
    BY <1>2, NextOfScript
  <2> HIDE DEF p
  <2>2. /\ Post("SERVER", p) /\ responded' = Append(responded, p)
        /\ UNCHANGED <<queueVars, tcp, socket, sendQueue, writing, written, stream, reader,
                       received, disconnected, gui, io, ioStopped, pushed>>
    BY <1>2 DEF ServerSends, p
  <2>3. NetInv'
    BY <2>1, <2>2, PostPreserves DEF Side
  <2>4. responded' \in Seq(Response)
    BY <2>1, <2>2, AppendProperties DEF ThreadInv
  <2>5. ThreadInv'
    BY <2>2, <2>4, ThreadKept DEF ThreadInv
  <2> QED
    BY <2>3, <2>5
<1>3. CASE SystemActs
  <2>1. NetInv'
    BY <1>3, SystemPreserves DEF SystemActs
  <2>2. ThreadInv'
    BY <1>3, ThreadKept DEF SystemActs, ThreadInv
  <2> QED
    BY <2>1, <2>2
<1>4. CASE LinkBreaks
  <2>1. NetInv'
    BY <1>4, ConnectsPreserves DEF LinkBreaks
  <2>2. ThreadInv'
    BY <1>4, ThreadKept DEF LinkBreaks, ThreadInv
  <2> QED
    BY <2>1, <2>2
<1> QED
  BY <1>1, <1>2, <1>3, <1>4

-----------------------------------------------------------------------------
LEMMA InitIInv == Init => IInv
<1> SUFFICES ASSUME Init PROVE IInv
  OBVIOUS
<1>1. <<>> \in Seq(FrameType) /\ <<>> \in Payload /\ <<>> \in Seq(Payload)
      /\ <<>> \in Seq(Request) /\ <<>> \in Seq(Response)
  BY EmptySeq DEF Payload
<1>2. 0 \in Byte
  BY DEF Byte
<1>3. NetTypeOK
  BY <1>1, <1>2 DEF Init, NetInit, NetTypeOK, Operation
<1>4. ASSUME NEW s \in Side PROVE WriteInv(s) /\ ReadInv(s)
  BY DEF Init, NetInit, WriteInv, ReadInv
<1>5. ThreadInv
  BY <1>1 DEF Init, QueueInit, ThreadInv, NoLostWakeUp, ConsumerState, GuiState
<1> QED
  BY <1>3, <1>4, <1>5, IInvParts DEF NetInv

LEMMA NextIInv == IInv /\ [Next]_vars => IInv'
<1> SUFFICES ASSUME IInv, [Next]_vars PROVE IInv'
  OBVIOUS
<1>1. NetInv /\ ThreadInv
  BY IInvParts
<1>2. CASE UNCHANGED vars
  <2>1. NetInv'
    BY <1>1, <1>2, NetKept DEF vars
  <2>2. ThreadInv'
    BY <1>1, <1>2, ThreadKept DEF vars, ThreadInv
  <2> QED
    BY <2>1, <2>2, IInvParts, PTL
<1>3. CASE Next
  <2>1. \/ GuiPushes \/ GuiNotifies \/ GuiQuits \/ Destructor
        \/ SenderWaits \/ SenderWakes \/ SenderSends
        \/ IoHandles \/ IoPopsEmptyQueue \/ IoEnds
        \/ ServerHandles \/ ServerSends \/ SystemActs \/ LinkBreaks
    BY <1>3 DEF Next, ClientThreads
  <2>2. NetInv' /\ ThreadInv'
    BY <1>1, <2>1, GuiPreserves, SenderPreserves, IoPreserves, OthersPreserve
  <2> QED
    BY <2>2, IInvParts, PTL
<1> QED
  BY <1>2, <1>3

LEMMA Invariance == Spec => []IInv
BY InitIInv, NextIInv, PTL DEF Spec

(* Every variable of the two programs and of the connection keeps its     *)
(* type, whatever the packets are: what is queued is a non-empty frame,   *)
(* what is read as a length is a byte (ThreadSafeMQ, Connection).         *)
THEOREM TypeCorrect == Spec => []TypeOK
<1>1. IInv => TypeOK
  BY DEF IInv
<1> QED
  BY Invariance, <1>1, PTL

(* The sender is never asleep on a request or on the end of the program   *)
(* that nobody will tell it of (ThreadSafeMQ::waitPop, push and stop).    *)
THEOREM NoWakeUpIsLost == Spec => []NoLostWakeUp
<1>1. IInv => NoLostWakeUp
  BY DEF IInv
<1> QED
  BY Invariance, <1>1, PTL

(* A Connection that has packets and writes none has lost its peer: the   *)
(* handlers never leave a queue without a write (Connection::send, write).*)
THEOREM SilenceMeansLoss == Spec => []SilentOnlyIfLost
<1>1. IInv => SilentOnlyIfLost
  BY DEF IInv, WriteInv, SilentOnlyIfLost
<1> QED
  BY Invariance, <1>1, PTL

(* The handler of a write pops the packet that has been written, and the  *)
(* queue is empty under it only after close() of the destructor           *)
(* (Connection::write, Connection::close).                                *)
THEOREM PopsTheFront == Spec => []PopsWhatItWrote
<1>1. ASSUME IInv, NEW s \in Side, writing[s] = "OK"
      PROVE  \/ sendQueue[s] # <<>> /\ written[s] = Len(Head(sendQueue[s]))
             \/ s = "CLIENT" /\ gui \in AfterClear
  BY <1>1 DEF IInv, WriteInv, Cleared
<1>2. IInv => PopsWhatItWrote
  BY <1>1 DEF PopsWhatItWrote, AfterClear
<1> QED
  BY Invariance, <1>2, PTL

-----------------------------------------------------------------------------
(* How bytes fall into packets.  Sent(s) is what s has been asked to send,  *)
(* Handed(s) counts what has been passed to send, and Taken(s) what has     *)
(* been written.                                                            *)
Packets == Request \cup Response

Sent(s) == IF s = "CLIENT" THEN pushed ELSE responded
OnHand == IF consumer = "SENDING" THEN 1 ELSE 0
Handed(s) == IF s = "CLIENT" THEN Len(pushed) - Len(queue) - OnHand ELSE Len(responded)
Taken(s) == Handed(s) - Len(posted[s]) - Len(sendQueue[s])
Done(s) == IF writing[s] = "NONE" THEN 0 ELSE written[s]

(* off[i] bytes have gone before packet i + 1. *)
IsOffsets(off, sent) ==
  /\ off \in [0 .. Len(sent) -> Nat]
  /\ off[0] = 0
  /\ \A i \in 1 .. Len(sent) : off[i] = off[i - 1] + Len(sent[i]) + 1
  /\ \A i, j \in 0 .. Len(sent) : i < j => off[i] < off[j]

(* b is the byte at a position of all that is sent. *)
ByteOf(off, sent, pos, b) ==
  \E i \in 1 .. Len(sent) : \E m \in 1 .. Len(sent[i]) + 1 :
    pos = off[i - 1] + m /\ b = Frame(sent[i])[m]

(* A reader that has not given up, and how many bytes it has taken when k   *)
(* packets have been passed on.                                             *)
Alive(rd) == rd.phase = "NOT_STARTED" \/ rd.op \in {"PENDING", "OK"}

ReadUpTo(off, rd, k) ==
  IF rd.phase = "PAYLOAD" /\ rd.op = "OK" THEN off[k + 1]
  ELSE IF rd.phase = "PAYLOAD" \/ rd.op = "OK" THEN off[k] + 1
  ELSE off[k]

(* What a reader holds and what is ahead of it in the stream. *)
Arriving(off, sent, rd, k, str) ==
  /\ k \in 0 .. Len(sent)
  /\ rd.phase = "PAYLOAD" \/ rd.op = "OK" => k < Len(sent)
  /\ rd.phase = "HEADER" /\ rd.op = "OK" => rd.buffer = <<Len(sent[k + 1])>>
  /\ rd.phase = "PAYLOAD" /\ rd.op = "PENDING" => rd.need = Len(sent[k + 1])
  /\ rd.phase = "PAYLOAD" /\ rd.op = "OK" => rd.buffer = sent[k + 1]
  /\ \A j \in 1 .. Len(str) : ByteOf(off, sent, ReadUpTo(off, rd, k) + j, str[j])

LEMMA PacketSizes ==
  ASSUME NEW p \in Packets
  PROVE  /\ p \in Seq(Byte) /\ Len(p) \in 1 .. 134
         /\ Frame(p) \in FrameType /\ Len(Frame(p)) = Len(p) + 1
         /\ Frame(p)[1] = Len(p)
         /\ \A m \in 1 .. Len(p) : Frame(p)[m + 1] = p[m]
<1>1. p \in Seq(Byte) /\ Len(p) \in 1 .. 134 /\ Frame(p) \in FrameType
  BY ScriptAssumption, FrameProperties DEF Packets, Request, Response, Payload
<1>2. <<Len(p)>> \in Seq(Byte) /\ Len(<<Len(p)>>) = 1 /\ <<Len(p)>>[1] = Len(p)
  BY <1>1 DEF Byte
<1>3. /\ Len(<<Len(p)>> \o p) = 1 + Len(p)
      /\ \A i \in 1 .. 1 + Len(p) : (<<Len(p)>> \o p)[i] =
           IF i <= 1 THEN <<Len(p)>>[i] ELSE p[i - 1]
  BY <1>1, <1>2, ConcatProperties
<1>4. Frame(p)[1] = Len(p) /\ Len(Frame(p)) = Len(p) + 1
  BY <1>1, <1>2, <1>3 DEF Frame
<1>5. ASSUME NEW m \in 1 .. Len(p) PROVE Frame(p)[m + 1] = p[m]
  <2>1. m + 1 \in 1 .. 1 + Len(p) /\ ~(m + 1 <= 1) /\ (m + 1) - 1 = m
    BY <1>1
  <2> QED
    BY <1>3, <2>1 DEF Frame
<1> QED
  BY <1>1, <1>4, <1>5

LEMMA SentPackets ==
  ASSUME NEW sent \in Seq(Packets)
  PROVE  /\ Len(sent) \in Nat
         /\ \A i \in 1 .. Len(sent) : sent[i] \in Packets /\ Len(sent[i]) \in 1 .. 134
<1>1. \A i \in 1 .. Len(sent) : sent[i] \in Packets
  BY ElementOfSeq
<1> QED
  BY <1>1, PacketSizes, LenProperties

LEMMA OffsetsGrow ==
  ASSUME NEW sent \in Seq(Packets), NEW off, IsOffsets(off, sent)
  PROVE  /\ \A i \in 0 .. Len(sent) : off[i] \in Nat
         /\ \A i, j \in 0 .. Len(sent) : i <= j => off[i] <= off[j]
         /\ \A i \in 0 .. Len(sent) : i < Len(sent) =>
              /\ i + 1 \in 1 .. Len(sent) /\ i + 1 \in 0 .. Len(sent)
              /\ off[i + 1] = off[i] + Len(sent[i + 1]) + 1
<1>1. Len(sent) \in Nat
  BY SentPackets
<1>2. \A i \in 0 .. Len(sent) : off[i] \in Nat
  BY DEF IsOffsets
<1>3. ASSUME NEW i \in 0 .. Len(sent), NEW j \in 0 .. Len(sent), i <= j
      PROVE  off[i] <= off[j]
  <2>1. i < j => off[i] < off[j]
    BY DEF IsOffsets
  <2>2. off[i] \in Nat /\ off[j] \in Nat /\ i \in Nat /\ j \in Nat
    BY <1>1, <1>2
  <2> QED
    BY <1>3, <2>1, <2>2
<1>4. ASSUME NEW i \in 0 .. Len(sent), i < Len(sent)
      PROVE  /\ i + 1 \in 1 .. Len(sent) /\ i + 1 \in 0 .. Len(sent)
             /\ off[i + 1] = off[i] + Len(sent[i + 1]) + 1
  <2>1. i + 1 \in 1 .. Len(sent) /\ i + 1 \in 0 .. Len(sent) /\ (i + 1) - 1 = i
    BY <1>1, <1>4
  <2> QED
    BY <2>1 DEF IsOffsets
<1> QED
  BY <1>2, <1>3, <1>4

(* The byte at a position belongs to one packet. *)
LEMMA ByteHere ==
  ASSUME NEW sent \in Seq(Packets), NEW off, IsOffsets(off, sent),
         NEW k \in 0 .. Len(sent), NEW m \in Nat \ {0}, NEW b,
         k < Len(sent) => m <= Len(sent[k + 1]) + 1,
         ByteOf(off, sent, off[k] + m, b)
  PROVE  k < Len(sent) /\ b = Frame(sent[k + 1])[m]
<1>1. Len(sent) \in Nat /\ \A i \in 1 .. Len(sent) : Len(sent[i]) \in 1 .. 134
  BY SentPackets
<1>2. PICK i \in 1 .. Len(sent) : \E n \in 1 .. Len(sent[i]) + 1 :
        off[k] + m = off[i - 1] + n /\ b = Frame(sent[i])[n]
  BY DEF ByteOf
<1>3. PICK n \in 1 .. Len(sent[i]) + 1 : off[k] + m = off[i - 1] + n /\ b = Frame(sent[i])[n]
  BY <1>2
<1> DEFINE h == i - 1
<1>4. h \in 0 .. Len(sent) /\ h < Len(sent) /\ h + 1 = i
  BY <1>1
<1>5. off[k] + m = off[h] + n
  BY <1>3
<1>6. n \in Nat /\ n >= 1 /\ n <= Len(sent[h + 1]) + 1 /\ Len(sent[h + 1]) \in 1 .. 134
  BY <1>1, <1>4
<1> HIDE DEF h
<1>7. /\ off[k] \in Nat /\ off[h] \in Nat /\ off[h + 1] \in Nat
      /\ off[h + 1] = off[h] + Len(sent[h + 1]) + 1
  BY <1>4, OffsetsGrow
<1>8. off[k] < off[h + 1]
  <2>1. m \in Nat /\ m >= 1
    OBVIOUS
  <2>2. \A x, y, z, l \in Nat : x + m = y + n /\ n <= l + 1 /\ z = y + l + 1 => x < z
    BY <1>6, <2>1
  <2>3. Len(sent[h + 1]) \in Nat
    BY <1>6
  <2> QED
    BY <1>5, <1>6, <1>7, <2>2, <2>3
<1>9. k <= h
  <2>1. h + 1 <= k => off[h + 1] <= off[k]
    BY <1>4, OffsetsGrow
  <2>2. ~(h + 1 <= k)
    BY <1>7, <1>8, <2>1
  <2> QED
    BY <1>1, <1>4, <2>2
<1>10. k < Len(sent)
  BY <1>1, <1>4, <1>9
<1>11. k = h
  <2>1. SUFFICES ASSUME k + 1 <= h PROVE FALSE
    BY <1>1, <1>4, <1>9
  <2>2. off[k + 1] = off[k] + Len(sent[k + 1]) + 1 /\ off[k + 1] <= off[h] /\ off[k + 1] \in Nat
    BY <1>4, <1>10, <2>1, OffsetsGrow
  <2>3. m <= Len(sent[k + 1]) + 1 /\ Len(sent[k + 1]) \in Nat
    BY <1>1, <1>10
  <2>4. \A x, y, z, l \in Nat : x + m = y + n /\ z = x + l + 1 /\ z <= y => ~(m <= l + 1)
    BY <1>6
  <2> QED
    BY <1>5, <1>6, <1>7, <2>2, <2>3, <2>4
<1>12. n = m
  BY <1>5, <1>6, <1>7, <1>11
<1> QED
  BY <1>3, <1>4, <1>10, <1>11, <1>12

-----------------------------------------------------------------------------
(* What the system and the handlers do to a reader. *)
LEMMA SubSeqElements ==
  ASSUME NEW S, NEW q \in Seq(S), NEW n \in Nat, n <= Len(q)
  PROVE  /\ Len(SubSeq(q, 1, n)) = n /\ \A j \in 1 .. n : SubSeq(q, 1, n)[j] = q[j]
         /\ Len(SubSeq(q, n + 1, Len(q))) = Len(q) - n
         /\ \A j \in 1 .. Len(q) - n : SubSeq(q, n + 1, Len(q))[j] = q[n + j]
<1>1. Len(q) \in Nat /\ \A i \in 1 .. Len(q) : q[i] \in S
  BY LenProperties, ElementOfSeq
<1>2. \A i \in 1 .. n : q[i] \in S
  BY <1>1
<1>3. \A i \in n + 1 .. Len(q) : q[i] \in S
  BY <1>1
<1>4. /\ Len(SubSeq(q, 1, n)) = IF 1 <= n THEN n - 1 + 1 ELSE 0
      /\ \A j \in 1 .. n - 1 + 1 : SubSeq(q, 1, n)[j] = q[1 + j - 1]
  BY <1>2, SubSeqProperties
<1>5. /\ Len(SubSeq(q, n + 1, Len(q))) = IF n + 1 <= Len(q) THEN Len(q) - (n + 1) + 1 ELSE 0
      /\ \A j \in 1 .. Len(q) - (n + 1) + 1 : SubSeq(q, n + 1, Len(q))[j] = q[n + 1 + j - 1]
  BY <1>1, <1>3, SubSeqProperties
<1>6. Len(SubSeq(q, 1, n)) = n /\ Len(SubSeq(q, n + 1, Len(q))) = Len(q) - n
  BY <1>1, <1>4, <1>5
<1>7. ASSUME NEW j \in 1 .. n PROVE SubSeq(q, 1, n)[j] = q[j]
  <2>1. j \in 1 .. n - 1 + 1 /\ 1 + j - 1 = j
    OBVIOUS
  <2> QED
    BY <1>4, <2>1
<1>8. ASSUME NEW j \in 1 .. Len(q) - n PROVE SubSeq(q, n + 1, Len(q))[j] = q[n + j]
  <2>1. j \in 1 .. Len(q) - (n + 1) + 1 /\ n + 1 + j - 1 = n + j
    BY <1>1
  <2> QED
    BY <1>5, <2>1
<1> QED
  BY <1>6, <1>7, <1>8

LEMMA ReaderTakes ==
  ASSUME NEW sent \in Seq(Packets), NEW off, IsOffsets(off, sent), NEW k \in Nat,
         NEW str \in Seq(Byte), NEW rd \in ReaderType,
         rd.op = "PENDING", rd.phase \in {"HEADER", "PAYLOAD"},
         rd.phase = "HEADER" => rd.need = 1, rd.need <= Len(str),
         Arriving(off, sent, rd, k, str),
         NEW new \in ReaderType,
         new.op = "OK", new.phase = rd.phase, new.buffer = SubSeq(str, 1, rd.need)
  PROVE  LET rest == SubSeq(str, rd.need + 1, Len(str)) IN
         /\ Arriving(off, sent, new, k, rest)
         /\ ReadUpTo(off, new, k) + Len(rest) = ReadUpTo(off, rd, k) + Len(str)
<1> DEFINE n == rd.need
           rest == SubSeq(str, n + 1, Len(str))
           front == SubSeq(str, 1, n)
<1>1. n \in Nat /\ Len(str) \in Nat /\ n <= Len(str)
  <2>1. n \in Byte
    BY DEF ReaderType
  <2>2. \A b \in Byte : b \in Nat
    BY DEF Byte
  <2>3. Len(str) \in Nat
    BY LenProperties
  <2> QED
    BY <2>1, <2>2, <2>3
<1>2. /\ Len(front) = n /\ \A j \in 1 .. n : front[j] = str[j]
      /\ Len(rest) = Len(str) - n /\ \A j \in 1 .. Len(str) - n : rest[j] = str[n + j]
      /\ front \in Seq(Byte)
  <2> HIDE DEF n
  <2> QED
    BY <1>1, SubSeqElements, SubSeqOfSeq
<1> DEFINE p == ReadUpTo(off, rd, k)
<1>3. Len(sent) \in Nat /\ k \in 0 .. Len(sent)
  BY SentPackets DEF Arriving
<1>4. \A j \in 1 .. Len(str) : ByteOf(off, sent, p + j, str[j])
  BY DEF Arriving
<1>5. CASE rd.phase = "HEADER"
  <2>1. n = 1 /\ p = off[k] /\ off[k] \in Nat
    BY <1>3, <1>5, OffsetsGrow DEF ReadUpTo
  <2>2. k < Len(sent) /\ str[1] = Frame(sent[k + 1])[1]
    <3>1. 1 \in 1 .. Len(str)
      BY <1>1, <2>1
    <3>2. ByteOf(off, sent, off[k] + 1, str[1])
      BY <1>4, <2>1, <3>1
    <3>3. k < Len(sent) => 1 <= Len(sent[k + 1]) + 1
      BY <1>3, SentPackets
    <3> QED
      BY <1>3, <3>2, <3>3, ByteHere, 1 \in Nat \ {0}
  <2>3. str[1] = Len(sent[k + 1])
    BY <1>3, <2>2, SentPackets, PacketSizes
  <2>4. front = <<Len(sent[k + 1])>>
    <3>1. Len(front) = 1 /\ front[1] = Len(sent[k + 1])
      BY <1>2, <2>1, <2>3
    <3> HIDE DEF front
    <3> QED
      BY <1>2, <3>1
  <2>5. ReadUpTo(off, new, k) = off[k] + 1
    BY <1>5 DEF ReadUpTo
  <2>6. ASSUME NEW j \in 1 .. Len(rest) PROVE ByteOf(off, sent, ReadUpTo(off, new, k) + j, rest[j])
    <3>1. j \in 1 .. Len(str) - n /\ 1 + j \in 1 .. Len(str) /\ off[k] + 1 + j = p + (1 + j)
      BY <1>1, <1>2, <2>1
    <3> HIDE DEF p, rest, n
    <3>2. rest[j] = str[1 + j]
      BY <1>2, <2>1, <3>1
    <3> QED
      BY <1>4, <2>5, <3>1, <3>2
  <2>7. Arriving(off, sent, new, k, rest)
    <3> HIDE DEF rest, front
    <3> QED
      BY <1>3, <1>5, <2>2, <2>4, <2>6 DEF Arriving, front
  <2>8. ReadUpTo(off, new, k) + Len(rest) = p + Len(str)
    <3> HIDE DEF rest, p, n
    <3> QED
      BY <1>1, <1>2, <2>1, <2>5
  <2> QED
    BY <2>7, <2>8
<1>6. CASE rd.phase = "PAYLOAD"
  <2>1. p = off[k] + 1 /\ k < Len(sent) /\ n = Len(sent[k + 1])
    BY <1>6 DEF ReadUpTo, Arriving
  <2>2. /\ off[k] \in Nat /\ off[k + 1] = off[k] + n + 1 /\ off[k + 1] \in Nat
        /\ k + 1 \in 1 .. Len(sent) /\ sent[k + 1] \in Packets
    BY <1>3, <2>1, OffsetsGrow, SentPackets
  <2> DEFINE x == off[k]
             z == off[k + 1]
  <2>9. x \in Nat /\ z \in Nat /\ p = x + 1 /\ z = x + n + 1
    BY <2>1, <2>2
  <2>3. ASSUME NEW j \in 1 .. n PROVE front[j] = sent[k + 1][j]
    <3>1. j \in 1 .. Len(str) /\ j + 1 \in Nat \ {0} /\ off[k] + 1 + j = off[k] + (j + 1)
          /\ j + 1 <= Len(sent[k + 1]) + 1
      <4>1. j \in 1 .. Len(str) /\ j + 1 \in Nat \ {0} /\ x + 1 + j = x + (j + 1)
            /\ j + 1 <= n + 1
        <5> HIDE DEF n, x
        <5> QED
          BY <1>1, <2>9
      <4> QED
        BY <2>1, <4>1
    <3>2. ByteOf(off, sent, off[k] + (j + 1), str[j])
      BY <1>4, <2>1, <3>1
    <3>3. str[j] = Frame(sent[k + 1])[j + 1]
      BY <1>3, <3>1, <3>2, ByteHere
    <3>4. Frame(sent[k + 1])[j + 1] = sent[k + 1][j]
      BY <2>1, <2>2, PacketSizes
    <3> QED
      BY <1>2, <3>3, <3>4
  <2>4. front = sent[k + 1]
    <3>1. sent[k + 1] \in Seq(Byte) /\ Len(sent[k + 1]) = Len(front)
      BY <1>2, <2>1, <2>2, PacketSizes
    <3>2. \A j \in 1 .. Len(front) : front[j] = sent[k + 1][j]
      BY <1>2, <2>3
    <3> HIDE DEF front
    <3> QED
      BY <1>2, <3>1, <3>2, SeqEqual
  <2>5. ReadUpTo(off, new, k) = off[k + 1]
    BY <1>6 DEF ReadUpTo
  <2>6. ASSUME NEW j \in 1 .. Len(rest) PROVE ByteOf(off, sent, ReadUpTo(off, new, k) + j, rest[j])
    <3>1. j \in 1 .. Len(str) - n /\ n + j \in 1 .. Len(str) /\ off[k + 1] + j = p + (n + j)
      <4> HIDE DEF p, rest, n, x, z
      <4>1. j \in 1 .. Len(str) - n /\ n + j \in 1 .. Len(str) /\ z + j = p + (n + j)
        BY <1>1, <1>2, <2>9
      <4> QED
        BY <4>1 DEF z
    <3> HIDE DEF p, rest, n
    <3>2. rest[j] = str[n + j]
      BY <1>2, <3>1
    <3> QED
      BY <1>4, <2>5, <3>1, <3>2
  <2>7. Arriving(off, sent, new, k, rest)
    <3> HIDE DEF rest, front
    <3> QED
      BY <1>3, <1>6, <2>1, <2>4, <2>6 DEF Arriving, front
  <2>8. ReadUpTo(off, new, k) + Len(rest) = p + Len(str)
    <3> HIDE DEF rest, p, n
    <3>1. Len(rest) = Len(str) - n /\ n \in Nat /\ Len(str) \in Nat
      BY <1>1, <1>2
    <3>2. z + Len(rest) = p + Len(str)
      <4> HIDE DEF x, z
      <4> QED
        BY <2>9, <3>1
    <3> QED
      BY <2>5, <3>2
  <2> QED
    BY <2>7, <2>8
<1> QED
  BY <1>5, <1>6

(* The handlers of a reader: nothing is taken, so the bytes ahead stay. *)
LEMMA ReaderTurns ==
  ASSUME NEW sent \in Seq(Packets), NEW off, IsOffsets(off, sent), NEW k \in Nat,
         NEW str \in Seq(Byte), NEW rd, NEW new, NEW l,
         Arriving(off, sent, rd, k, str), new.op = "PENDING",
         \/ /\ rd.phase = "NOT_STARTED" /\ rd.op = "NONE"
            /\ new.phase = "HEADER" /\ l = k
         \/ /\ rd.phase = "HEADER" /\ rd.op = "OK"
            /\ new.phase = "PAYLOAD" /\ new.need = rd.buffer[1] /\ l = k
         \/ /\ rd.phase = "PAYLOAD" /\ rd.op = "OK"
            /\ new.phase = "HEADER" /\ l = k + 1
  PROVE  /\ Arriving(off, sent, new, l, str)
         /\ ReadUpTo(off, new, l) = ReadUpTo(off, rd, k)
<1>1. Len(sent) \in Nat
  BY SentPackets
<1>2. ReadUpTo(off, new, l) = ReadUpTo(off, rd, k)
  BY DEF ReadUpTo
<1>3. /\ l \in 0 .. Len(sent)
      /\ new.phase = "PAYLOAD" => l < Len(sent) /\ new.need = Len(sent[l + 1])
  BY <1>1 DEF Arriving
<1> QED
  BY <1>2, <1>3 DEF Arriving

LEMMA ReadUpToNat ==
  ASSUME NEW sent \in Seq(Packets), NEW off, IsOffsets(off, sent), NEW k, NEW str, NEW rd,
         Arriving(off, sent, rd, k, str)
  PROVE  ReadUpTo(off, rd, k) \in Nat
<1>1. k \in 0 .. Len(sent) /\ off[k] \in Nat
  BY OffsetsGrow DEF Arriving
<1>2. rd.op = "OK" => off[k + 1] \in Nat
  BY <1>1, OffsetsGrow DEF Arriving
<1> QED
  BY <1>1, <1>2 DEF ReadUpTo

(* The system takes over the next byte of the packet that is being written. *)
LEMMA WriterAdds ==
  ASSUME NEW sent \in Seq(Packets), NEW off, IsOffsets(off, sent), NEW k, NEW rd,
         NEW str \in Seq(Byte), Arriving(off, sent, rd, k, str),
         NEW a \in Nat, a < Len(sent), NEW w \in Nat, w < Len(sent[a + 1]) + 1,
         ReadUpTo(off, rd, k) + Len(str) = off[a] + w,
         NEW b \in Byte, b = Frame(sent[a + 1])[w + 1]
  PROVE  /\ Arriving(off, sent, rd, k, Append(str, b))
         /\ ReadUpTo(off, rd, k) + Len(Append(str, b)) = off[a] + (w + 1)
<1> DEFINE p == ReadUpTo(off, rd, k)
           more == Append(str, b)
<1>1. /\ Len(str) \in Nat /\ Len(more) = Len(str) + 1
      /\ more[Len(str) + 1] = b /\ \A j \in 1 .. Len(str) : more[j] = str[j]
  BY LenProperties, AppendProperties
<1>2. p \in Nat
  BY ReadUpToNat
<1>3. Len(sent) \in Nat /\ a \in 0 .. Len(sent) /\ a + 1 \in 1 .. Len(sent) /\ (a + 1) - 1 = a
  BY SentPackets
<1>4. off[a] \in Nat
  BY <1>3, OffsetsGrow
<1>5. Len(sent[a + 1]) \in Nat
  BY <1>3, SentPackets
<1>6. p + (Len(str) + 1) = off[a] + (w + 1)
  <2>1. p + Len(str) = off[a] + w
    OBVIOUS
  <2>2. \A x, y, l \in Nat : x + l = y + w => x + (l + 1) = y + (w + 1)
    OBVIOUS
  <2> HIDE DEF p
  <2> QED
    BY <1>1, <1>2, <1>4, <2>1, <2>2
<1>7. ByteOf(off, sent, p + (Len(str) + 1), b)
  <2>1. w + 1 \in 1 .. Len(sent[a + 1]) + 1
    BY <1>5
  <2>2. p + (Len(str) + 1) = off[(a + 1) - 1] + (w + 1)
    BY <1>3, <1>6
  <2> QED
    BY <1>3, <2>1, <2>2 DEF ByteOf
<1>8. ASSUME NEW j \in 1 .. Len(more) PROVE ByteOf(off, sent, p + j, more[j])
  <2>1. j = Len(str) + 1 \/ j \in 1 .. Len(str)
    BY <1>1
  <2>2. \A i \in 1 .. Len(str) : ByteOf(off, sent, p + i, str[i])
    BY DEF Arriving
  <2> QED
    BY <1>1, <1>7, <2>1, <2>2
<1> QED
  BY <1>1, <1>6, <1>8 DEF Arriving

(* One more packet is sent: the bytes before it stay where they are. *)
LEMMA OffsetsExtend ==
  ASSUME NEW sent \in Seq(Packets), NEW off, IsOffsets(off, sent), NEW x \in Packets
  PROVE  \E new : /\ IsOffsets(new, Append(sent, x))
                  /\ \A i \in 0 .. Len(sent) : new[i] = off[i]
<1> DEFINE n == Len(sent)
           more == Append(sent, x)
           new == [i \in 0 .. n + 1 |-> IF i <= n THEN off[i] ELSE off[n] + Len(x) + 1]
<1>1. /\ n \in Nat /\ Len(more) = n + 1 /\ more[n + 1] = x
      /\ \A i \in 1 .. n : more[i] = sent[i]
  BY SentPackets, AppendProperties
<1>2. Len(x) \in Nat
  BY PacketSizes
<1>3. (\A i \in 0 .. n : off[i] \in Nat) /\ off[n] \in Nat
  BY <1>1, OffsetsGrow
<1>4. /\ \A i \in 0 .. n : new[i] = off[i]
      /\ new[n + 1] = off[n] + Len(x) + 1
      /\ new \in [0 .. n + 1 -> Nat]
  <2>1. off[n] + Len(x) + 1 \in Nat
    BY <1>2, <1>3
  <2>2. \A i \in 0 .. n : i \in 0 .. n + 1 /\ i <= n
    BY <1>1
  <2>3. n + 1 \in 0 .. n + 1 /\ ~(n + 1 <= n)
    BY <1>1
  <2>4. \A i \in 0 .. n + 1 : i <= n => i \in 0 .. n
    BY <1>1
  <2> QED
    BY <1>3, <2>1, <2>2, <2>3, <2>4
<1> HIDE DEF new
<1>5. new[0] = 0
  BY <1>1, <1>4 DEF IsOffsets
<1>6. ASSUME NEW i \in 1 .. n + 1 PROVE new[i] = new[i - 1] + Len(more[i]) + 1
  <2>1. CASE i = n + 1
    BY <1>1, <1>4, <2>1
  <2>2. CASE i # n + 1
    <3>1. i \in 1 .. n /\ i - 1 \in 0 .. n /\ i \in 0 .. n
      BY <1>1, <2>2
    <3>2. off[i] = off[i - 1] + Len(sent[i]) + 1
      BY <3>1 DEF IsOffsets
    <3> QED
      BY <1>1, <1>4, <3>1, <3>2
  <2> QED
    BY <2>1, <2>2
<1>7. ASSUME NEW i \in 0 .. n + 1, NEW j \in 0 .. n + 1, i < j PROVE new[i] < new[j]
  <2>1. i \in 0 .. n
    BY <1>1, <1>7
  <2>2. CASE j \in 0 .. n
    BY <1>4, <1>7, <2>1, <2>2 DEF IsOffsets
  <2>3. CASE j = n + 1
    <3>1. off[i] <= off[n]
      BY <1>1, <2>1, OffsetsGrow
    <3> DEFINE y == off[i]
               z == off[n]
    <3>2. y \in Nat /\ z \in Nat /\ y <= z
      BY <1>3, <2>1, <3>1
    <3>3. y < z + Len(x) + 1
      <4> HIDE DEF y, z
      <4> QED
        BY <1>2, <3>2
    <3> QED
      BY <1>4, <2>1, <2>3, <3>3
  <2> QED
    BY <1>1, <2>2, <2>3
<1>8. IsOffsets(new, more)
  <2> HIDE DEF more
  <2> QED
    BY <1>1, <1>4, <1>5, <1>6, <1>7 DEF IsOffsets
<1> QED
  BY <1>4, <1>8

LEMMA ArrivingExtends ==
  ASSUME NEW sent \in Seq(Packets), NEW off, IsOffsets(off, sent), NEW x \in Packets,
         NEW new, \A i \in 0 .. Len(sent) : new[i] = off[i],
         NEW k, NEW str, NEW rd, Arriving(off, sent, rd, k, str)
  PROVE  /\ Arriving(new, Append(sent, x), rd, k, str)
         /\ ReadUpTo(new, rd, k) = ReadUpTo(off, rd, k)
<1> DEFINE n == Len(sent)
           more == Append(sent, x)
<1>1. /\ n \in Nat /\ Len(more) = n + 1 /\ \A i \in 1 .. n : more[i] = sent[i]
  BY SentPackets, AppendProperties
<1>2. k \in 0 .. n /\ (k < n => k + 1 \in 1 .. n /\ k + 1 \in 0 .. n)
  BY <1>1 DEF Arriving
<1>3. ReadUpTo(new, rd, k) = ReadUpTo(off, rd, k)
  BY <1>2 DEF ReadUpTo, Arriving
<1>4. \A pos, b : ByteOf(off, sent, pos, b) => ByteOf(new, more, pos, b)
  <2> SUFFICES ASSUME NEW pos, NEW b, ByteOf(off, sent, pos, b) PROVE ByteOf(new, more, pos, b)
    OBVIOUS
  <2>1. PICK i \in 1 .. n : \E m \in 1 .. Len(sent[i]) + 1 :
          pos = off[i - 1] + m /\ b = Frame(sent[i])[m]
    BY DEF ByteOf
  <2>2. i \in 1 .. Len(more) /\ i - 1 \in 0 .. n /\ more[i] = sent[i]
    BY <1>1
  <2>3. new[i - 1] = off[i - 1]
    BY <2>2
  <2> HIDE DEF more
  <2> QED
    BY <2>1, <2>2, <2>3 DEF ByteOf
<1>5. k \in 0 .. Len(more) /\ (k < n => k < Len(more) /\ more[k + 1] = sent[k + 1])
  BY <1>1, <1>2
<1> HIDE DEF more
<1>6. Arriving(new, more, rd, k, str)
  BY <1>3, <1>4, <1>5 DEF Arriving
<1> QED
  BY <1>3, <1>6 DEF more

-----------------------------------------------------------------------------
(* Where the packets of s are.  As long as the connection is up, the queues *)
(* hold what has not been written, in order, and what has been written is   *)
(* in the stream or with the reader; what is with the reader and in the     *)
(* stream stays in order when the connection is lost.                       *)
Upstream ==
  /\ Handed("CLIENT") \in Nat
  /\ consumer = "SENDING" => popped = pushed[Handed("CLIENT") + 1]
  /\ \A i \in 1 .. Len(queue) : queue[i] = pushed[Handed("CLIENT") + OnHand + i]

Pipe(s) ==
  /\ Taken(s) \in Nat
  /\ \A i \in 1 .. Len(sendQueue[s]) : sendQueue[s][i] = Frame(Sent(s)[Taken(s) + i])
  /\ \A i \in 1 .. Len(posted[s]) :
       posted[s][i] = Frame(Sent(s)[Taken(s) + Len(sendQueue[s]) + i])

Flow(s, off) ==
  LET rd == reader[Peer(s)]
      k  == Len(received[Peer(s)])
  IN /\ rd.phase = "NOT_STARTED" => rd.op = "NONE"
     /\ Alive(rd) => Arriving(off, Sent(s), rd, k, stream[s])
     /\ ~Lost(s) => /\ Alive(rd)
                    /\ ReadUpTo(off, rd, k) + Len(stream[s]) = off[Taken(s)] + Done(s)

Direction(s) ==
  /\ ~Lost(s) => Pipe(s)
  /\ \E off : IsOffsets(off, Sent(s)) /\ Flow(s, off)

ClosedBeforeCleared == gui \in AfterClear \cup {"CLEAR"} => socket["CLIENT"] = "CLOSED"

FlowInv ==
  /\ ClosedBeforeCleared
  /\ Upstream
  /\ \A s \in Side : Direction(s)

-----------------------------------------------------------------------------
LEMMA Sides ==
  ASSUME NEW s \in Side
  PROVE  /\ Peer(s) \in Side /\ Peer(s) # s /\ Peer(Peer(s)) = s
         /\ \A t \in Side : t # s => t = Peer(s)
BY DEF Side, Peer

LEMMA SeqOfMore ==
  ASSUME NEW S, NEW T, S \subseteq T, NEW q \in Seq(S)
  PROVE  q \in Seq(T)
<1>1. Len(q) \in Nat /\ q \in [1 .. Len(q) -> S]
  BY LenProperties
<1>2. q \in [1 .. Len(q) -> T]
  BY <1>1
<1> QED
  BY <1>1, <1>2, SeqDef

LEMMA SentTypes ==
  ASSUME ThreadInv, NEW s \in Side
  PROVE  Sent(s) \in Seq(Packets) /\ Len(Sent(s)) \in Nat
<1>1. pushed \in Seq(Packets) /\ responded \in Seq(Packets)
  BY SeqOfMore DEF ThreadInv, Packets
<1> QED
  BY <1>1, SentPackets DEF Sent

LEMMA Counts ==
  ASSUME ThreadInv, NetInv, Upstream, NEW s \in Side
  PROVE  /\ Handed(s) \in Nat /\ Handed(s) <= Len(Sent(s)) /\ Len(Sent(s)) \in Nat
         /\ Len(posted[s]) \in Nat /\ Len(sendQueue[s]) \in Nat
         /\ Handed(s) = Taken(s) + Len(sendQueue[s]) + Len(posted[s])
<1>1. posted[s] \in Seq(FrameType) /\ sendQueue[s] \in Seq(FrameType)
  BY NetTypeFacts DEF NetInv
<1>2. Len(posted[s]) \in Nat /\ Len(sendQueue[s]) \in Nat
  BY <1>1, LenProperties
<1>3. Len(queue) \in Nat /\ Len(pushed) \in Nat /\ Len(responded) \in Nat /\ OnHand \in {0, 1}
  BY LenProperties DEF ThreadInv, OnHand
<1>4. Handed(s) \in Nat /\ Handed(s) <= Len(Sent(s)) /\ Len(Sent(s)) \in Nat
  BY <1>3 DEF Upstream, Handed, Sent, Side
<1> HIDE DEF NetInv, Handed
<1> QED
  BY <1>2, <1>4 DEF Taken

(* Steps that leave what has been sent, the reader and the stream alone. *)
LEMMA FlowKept ==
  ASSUME NEW s \in Side, NEW off, Flow(s, off), UNCHANGED Sent(s),
         reader'[Peer(s)] = reader[Peer(s)], received'[Peer(s)] = received[Peer(s)],
         stream'[s] = stream[s], Lost(s) => Lost(s)',
         ~Lost(s)' => (off[Taken(s)] + Done(s))' = off[Taken(s)] + Done(s)
  PROVE  Flow(s, off)'
BY DEF Flow

(* Steps that cut the connection, or happen after it has been cut. *)
LEMMA FlowCut ==
  ASSUME NEW s \in Side, NEW off, Flow(s, off), UNCHANGED Sent(s),
         reader'[Peer(s)] = reader[Peer(s)], received'[Peer(s)] = received[Peer(s)],
         stream'[s] \in {stream[s], <<>>}, Lost(s)'
  PROVE  Flow(s, off)'
<1> DEFINE rd == reader[Peer(s)]
           k  == Len(received[Peer(s)])
<1>1. CASE stream'[s] = stream[s]
  BY <1>1 DEF Flow
<1>2. CASE stream'[s] = <<>>
  <2>1. Arriving(off, Sent(s), rd, k, stream[s]) => Arriving(off, Sent(s), rd, k, <<>>)
    BY DEF Arriving
  <2> QED
    BY <1>2, <2>1 DEF Flow
<1> QED
  BY <1>1, <1>2

LEMMA DirectionKept ==
  ASSUME NEW s \in Side, Direction(s), UNCHANGED <<Sent(s), Handed(s)>>,
         reader'[Peer(s)] = reader[Peer(s)], received'[Peer(s)] = received[Peer(s)],
         stream'[s] = stream[s], posted'[s] = posted[s], sendQueue'[s] = sendQueue[s],
         writing'[s] = writing[s], written'[s] = written[s], Lost(s) => Lost(s)'
  PROVE  Direction(s)'
<1>1. PICK off : IsOffsets(off, Sent(s)) /\ Flow(s, off)
  BY DEF Direction
<1>2. UNCHANGED <<Taken(s), Done(s)>>
  BY DEF Taken, Done
<1>3. IsOffsets(off, Sent(s))' /\ Flow(s, off)'
  BY <1>1, <1>2, FlowKept
<1>4. ~Lost(s)' => Pipe(s)'
  BY <1>2 DEF Direction, Pipe
<1> QED
  BY <1>3, <1>4 DEF Direction

LEMMA DirectionCut ==
  ASSUME NEW s \in Side, Direction(s), UNCHANGED Sent(s),
         reader'[Peer(s)] = reader[Peer(s)], received'[Peer(s)] = received[Peer(s)],
         stream'[s] \in {stream[s], <<>>}, Lost(s)'
  PROVE  Direction(s)'
<1>1. PICK off : IsOffsets(off, Sent(s)) /\ Flow(s, off)
  BY DEF Direction
<1>2. IsOffsets(off, Sent(s))' /\ Flow(s, off)'
  BY <1>1, FlowCut
<1> QED
  BY <1>2 DEF Direction

(* A reader that gives up, because the connection is lost. *)
LEMMA DirectionEnds ==
  ASSUME NEW s \in Side, Direction(s), UNCHANGED Sent(s),
         ~Alive(reader'[Peer(s)]), Lost(s)'
  PROVE  Direction(s)'
<1>1. PICK off : IsOffsets(off, Sent(s)) /\ Flow(s, off)
  BY DEF Direction
<1>2. reader'[Peer(s)].phase # "NOT_STARTED"
  BY DEF Alive
<1>3. IsOffsets(off, Sent(s))' /\ Flow(s, off)'
  BY <1>1, <1>2 DEF Flow
<1> QED
  BY <1>3 DEF Direction

-----------------------------------------------------------------------------
(* The writer of s. *)
LEMMA TransmitsFlow ==
  ASSUME NetInv, ThreadInv, Upstream, NEW s \in Side, Direction(s), TransmitsByte(s),
         UNCHANGED <<Sent(s), Handed(s)>>
  PROVE  Direction(s)'
<1>1. /\ writing[s] = "PENDING" /\ sendQueue[s] # <<>> /\ tcp = "UP" /\ socket[s] = "OPEN"
      /\ UNCHANGED <<tcp, socket, posted, sendQueue, reader, received, disconnected>>
      /\ stream' = IF socket[Peer(s)] = "CLOSED" THEN stream
                   ELSE [stream EXCEPT ![s] = Append(@, Head(sendQueue[s])[written[s] + 1])]
      /\ written' = [written EXCEPT ![s] = @ + 1]
      /\ writing'[s] \in {"PENDING", "OK"}
  BY NetTypeFacts DEF TransmitsByte, NetInv, Operation
<1>2. CASE socket[Peer(s)] = "CLOSED"
  <2>1. Lost(s)'
    BY <1>1, <1>2, Sides DEF Lost
  <2> QED
    BY <1>1, <1>2, <2>1, DirectionCut
<1>3. CASE socket[Peer(s)] # "CLOSED"
  <2> DEFINE frame == Head(sendQueue[s])
             b == frame[written[s] + 1]
             a == Taken(s)
             w == written[s]
             sent == Sent(s)
             rd == reader[Peer(s)]
             k == Len(received[Peer(s)])
  <2>1. ~Lost(s) /\ ~Lost(s)'
    <3>1. \A t \in Side : socket[t] # "CLOSED"
      BY <1>1, <1>3, Sides
    <3> QED
      BY <1>1, <3>1 DEF Lost
  <2>2. PICK off : IsOffsets(off, sent) /\ Flow(s, off)
    BY DEF Direction
  <2>3. sent \in Seq(Packets) /\ a \in Nat /\ a < Len(sent) /\ frame = Frame(sent[a + 1])
    <3>1. Pipe(s)
      BY <2>1 DEF Direction
    <3>2. sendQueue[s] \in Seq(FrameType)
      BY NetTypeFacts DEF NetInv
    <3>3. frame = sendQueue[s][1] /\ Len(sendQueue[s]) >= 1 /\ Len(sendQueue[s]) \in Nat
      BY <1>1, <3>2, HeadTailProperties, LenProperties, EmptySeq
    <3>4. a \in Nat /\ sendQueue[s][1] = Frame(sent[a + 1])
      BY <3>1, <3>3 DEF Pipe
    <3>5. a < Len(sent)
      BY <3>3, <3>4, Counts
    <3> QED
      BY <3>3, <3>4, <3>5, SentTypes
  <2>4. /\ w \in Nat /\ w < Len(frame)
    BY <1>1, NetTypeFacts DEF NetInv, WriteInv
  <2>5. sent[a + 1] \in Packets /\ Len(frame) = Len(sent[a + 1]) + 1 /\ frame \in Seq(Byte)
    <3>1. a + 1 \in 1 .. Len(sent)
      BY <2>3, SentPackets
    <3> QED
      BY <2>3, <3>1, SentPackets, PacketSizes DEF FrameType, Payload
  <2>6. b \in Byte
    <3> HIDE DEF frame
    <3> QED
      BY <2>4, <2>5, ElementOfSeq, LenProperties
  <2>7. stream[s] \in Seq(Byte) /\ stream'[s] = Append(stream[s], b)
    BY <1>1, <1>3, NetTypeFacts DEF NetInv, Payload
  <2>8. /\ Alive(rd) /\ Arriving(off, sent, rd, k, stream[s])
        /\ ReadUpTo(off, rd, k) + Len(stream[s]) = off[a] + w
    BY <1>1, <2>1, <2>2 DEF Flow, Done
  <2>9. /\ Arriving(off, sent, rd, k, Append(stream[s], b))
        /\ ReadUpTo(off, rd, k) + Len(Append(stream[s], b)) = off[a] + (w + 1)
    <3>1. b = Frame(sent[a + 1])[w + 1] /\ w < Len(sent[a + 1]) + 1
      BY <2>3, <2>4, <2>5
    <3> HIDE DEF sent, a, w, b, rd, k
    <3> QED
      BY <2>2, <2>3, <2>4, <2>6, <2>7, <2>8, <3>1, WriterAdds
  <2>10. Taken(s)' = a /\ Done(s)' = w + 1
    BY <1>1, NetTypeFacts DEF Taken, Done, NetInv
  <2>11. Flow(s, off)'
    <3>1. rd.phase = "NOT_STARTED" => rd.op = "NONE"
      BY <2>2 DEF Flow
    <3> QED
      BY <1>1, <2>7, <2>8, <2>9, <2>10, <3>1 DEF Flow
  <2>12. Pipe(s)'
    BY <1>1, <2>1, <2>10 DEF Direction, Pipe
  <2> QED
    BY <2>2, <2>11, <2>12 DEF Direction
<1> QED
  BY <1>2, <1>3

(* A handler posted by send: a packet moves from posted to m_sendQueue. *)
LEMMA RunsPostedFlow ==
  ASSUME NetInv, ThreadInv, Upstream, ClosedBeforeCleared, NEW s \in Side, Direction(s),
         RunsPosted(s), UNCHANGED <<Sent(s), Handed(s)>>
  PROVE  Direction(s)'
<1> DEFINE q == sendQueue[s]
           p == posted[s]
<1>1. /\ p # <<>> /\ p \in Seq(FrameType) /\ q \in Seq(FrameType)
      /\ posted'[s] = Tail(p) /\ sendQueue'[s] = Append(q, Head(p))
      /\ UNCHANGED <<tcp, socket, stream, reader, received, disconnected>>
  BY NetTypeFacts DEF RunsPosted, NetInv
<1>2. /\ Len(p) \in Nat /\ Len(p) > 0 /\ Len(q) \in Nat
      /\ Len(posted'[s]) = Len(p) - 1 /\ Len(sendQueue'[s]) = Len(q) + 1
      /\ \A i \in 1 .. Len(p) - 1 : posted'[s][i] = p[i + 1]
      /\ \A i \in 1 .. Len(q) : sendQueue'[s][i] = q[i]
      /\ sendQueue'[s][Len(q) + 1] = p[1]
  <2>1. Head(p) \in FrameType /\ Head(p) = p[1] /\ Len(Tail(p)) = Len(p) - 1
        /\ \A i \in 1 .. Len(p) - 1 : Tail(p)[i] = p[i + 1]
    <3> HIDE DEF p
    <3> QED
      BY <1>1, HeadTailProperties
  <2>2. Len(p) \in Nat /\ Len(p) > 0 /\ Len(q) \in Nat
    BY <1>1, LenProperties, EmptySeq
  <2>3. /\ Len(Append(q, Head(p))) = Len(q) + 1 /\ Append(q, Head(p))[Len(q) + 1] = Head(p)
        /\ \A i \in 1 .. Len(q) : Append(q, Head(p))[i] = q[i]
    <3> HIDE DEF p, q
    <3> QED
      BY <1>1, <2>1, AppendProperties
  <2> HIDE DEF p, q
  <2> QED
    BY <1>1, <2>1, <2>2, <2>3
<1>3. Taken(s)' = Taken(s)
  <2>1. Handed(s) \in Nat
    BY Counts
  <2> HIDE DEF p, q
  <2>2. Handed(s) - Len(posted'[s]) - Len(sendQueue'[s]) = Handed(s) - Len(p) - Len(q)
    BY <1>2, <2>1
  <2> QED
    BY <2>2 DEF Taken, p, q
<1>4. ~Lost(s) => Done(s)' = Done(s)
  <2>1. CASE q # <<>>
    BY <2>1 DEF RunsPosted, Done
  <2>2. CASE q = <<>> /\ ~Lost(s)
    <3>1. ~Cleared(s)
      BY <2>2 DEF Cleared, ClosedBeforeCleared, Lost, Side
    <3>2. writing[s] = "NONE"
      BY <2>2, <3>1, NetTypeFacts DEF NetInv, WriteInv, Operation
    <3>3. writing'[s] = "PENDING" /\ written'[s] = 0
      BY <2>2, NetTypeFacts DEF RunsPosted, Writes, NetInv
    <3> QED
      BY <3>2, <3>3 DEF Done
  <2> QED
    BY <2>1, <2>2
<1>5. Lost(s)' <=> Lost(s)
  BY <1>1 DEF Lost
<1>6. PICK off : IsOffsets(off, Sent(s)) /\ Flow(s, off)
  BY DEF Direction
<1>7. Flow(s, off)'
  BY <1>1, <1>3, <1>4, <1>5, <1>6, FlowKept
<1>8. ASSUME Pipe(s) PROVE Pipe(s)'
  <2> DEFINE a == Taken(s)
             sent == Sent(s)
  <2>1. /\ a \in Nat /\ \A i \in 1 .. Len(q) : q[i] = Frame(sent[a + i])
        /\ \A i \in 1 .. Len(p) : p[i] = Frame(sent[a + Len(q) + i])
    BY <1>8 DEF Pipe
  <2> HIDE DEF a, sent, p, q
  <2>2. ASSUME NEW i \in 1 .. Len(q) + 1 PROVE sendQueue'[s][i] = Frame(sent[a + i])
    <3>1. CASE i \in 1 .. Len(q)
      BY <1>2, <2>1, <3>1
    <3>2. CASE i = Len(q) + 1
      <4>1. a + Len(q) + 1 = a + i /\ 1 \in 1 .. Len(p)
        BY <1>2, <2>1, <3>2
      <4> QED
        BY <1>2, <2>1, <3>2, <4>1
    <3> QED
      BY <1>2, <3>1, <3>2
  <2>3. ASSUME NEW i \in 1 .. Len(p) - 1
        PROVE  posted'[s][i] = Frame(sent[a + Len(sendQueue'[s]) + i])
    <3>1. a + Len(q) + (i + 1) = a + (Len(q) + 1) + i /\ i + 1 \in 1 .. Len(p)
      BY <1>2, <2>1
    <3> QED
      BY <1>2, <2>1, <3>1
  <2> QED
    BY <1>2, <1>3, <2>1, <2>2, <2>3 DEF Pipe, a, sent
<1>9. ~Lost(s)' => Pipe(s)'
  BY <1>5, <1>8 DEF Direction
<1> QED
  BY <1>6, <1>7, <1>9 DEF Direction

(* The handler of a write: the packet has gone, the next one begins. *)
LEMMA PacketWrittenFlow ==
  ASSUME NetInv, ThreadInv, Upstream, NEW s \in Side, Direction(s), PacketWritten(s),
         UNCHANGED <<Sent(s), Handed(s)>>
  PROVE  Direction(s)'
<1> DEFINE q == sendQueue[s]
           a == Taken(s)
           sent == Sent(s)
<1>1. /\ q # <<>> /\ q \in Seq(FrameType) /\ writing[s] = "OK" /\ written[s] = Len(Head(q))
      /\ sendQueue'[s] = Tail(q)
      /\ UNCHANGED <<tcp, socket, posted, stream, reader, received, disconnected>>
  BY NetTypeFacts DEF PacketWritten, NetInv, WriteInv
<1>2. Done(s)' = 0
  <2>1. CASE Len(q) > 1
    BY <2>1, NetTypeFacts DEF PacketWritten, Writes, NetInv, Done
  <2>2. CASE ~(Len(q) > 1)
    BY <2>2, NetTypeFacts DEF PacketWritten, NetInv, Done
  <2> QED
    BY <2>1, <2>2
<1>3. /\ Len(q) \in Nat /\ Len(q) > 0 /\ Len(Tail(q)) = Len(q) - 1 /\ Head(q) = q[1]
      /\ \A i \in 1 .. Len(q) - 1 : Tail(q)[i] = q[i + 1]
  <2> HIDE DEF q
  <2> QED
    BY <1>1, HeadTailProperties, LenProperties, EmptySeq
<1>4. /\ Handed(s) \in Nat /\ Handed(s) <= Len(sent) /\ Len(sent) \in Nat /\ Len(posted[s]) \in Nat
      /\ Handed(s) = a + Len(q) + Len(posted[s]) /\ a = Handed(s) - Len(posted[s]) - Len(q)
  BY Counts DEF Taken
<1>5. Taken(s)' = a + 1
  <2>1. Taken(s)' = Handed(s) - Len(posted[s]) - Len(Tail(q))
    BY <1>1 DEF Taken
  <2>2. Len(Tail(q)) = Len(q) - 1 /\ Len(q) \in Nat
    BY <1>3
  <2> DEFINE h == Handed(s)
             l == Len(posted[s])
             m == Len(q)
  <2>3. h \in Nat /\ l \in Nat /\ m \in Nat /\ a = h - l - m
    BY <1>4, <2>2
  <2>4. h - l - (m - 1) = a + 1
    <3> HIDE DEF h, l, m, a
    <3> QED
      BY <2>3
  <2> QED
    BY <2>1, <2>2, <2>4
<1>6. CASE Lost(s)
  <2>1. Lost(s)'
    BY <1>1, <1>6 DEF Lost
  <2> QED
    BY <1>1, <2>1, DirectionCut
<1>7. CASE ~Lost(s)
  <2>1. ~Lost(s)'
    BY <1>1, <1>7 DEF Lost
  <2>2. Pipe(s)
    BY <1>7 DEF Direction
  <2>3. /\ a \in Nat /\ \A i \in 1 .. Len(q) : q[i] = Frame(sent[a + i])
        /\ \A i \in 1 .. Len(posted[s]) : posted[s][i] = Frame(sent[a + Len(q) + i])
    BY <2>2 DEF Pipe
  <2>4. a < Len(sent) /\ a + 1 \in 1 .. Len(sent) /\ a \in 0 .. Len(sent)
    <3>1. /\ a \in Nat /\ Len(q) \in Nat /\ Len(q) > 0 /\ Len(posted[s]) \in Nat
          /\ Len(sent) \in Nat /\ a + Len(q) + Len(posted[s]) <= Len(sent)
      BY <1>3, <1>4, <2>3
    <3> DEFINE l == Len(posted[s])
               m == Len(q)
               n == Len(sent)
    <3>2. a < n /\ a + 1 \in 1 .. n /\ a \in 0 .. n
      <4>1. a \in Nat /\ m \in Nat /\ m > 0 /\ l \in Nat /\ n \in Nat /\ a + m + l <= n
        BY <3>1
      <4> HIDE DEF a, l, m, n
      <4> QED
        BY <4>1
    <3> QED
      BY <3>2
  <2>5. Pipe(s)'
    <3> DEFINE r == Tail(q)
    <3>1. ASSUME NEW i \in 1 .. Len(r) PROVE r[i] = Frame(sent[(a + 1) + i])
      <4> HIDE DEF a, q, sent
      <4>1. i \in 1 .. Len(q) - 1
        BY <1>3
      <4>2. i + 1 \in 1 .. Len(q) /\ a + (i + 1) = (a + 1) + i
        BY <1>3, <2>3, <4>1
      <4> QED
        BY <1>3, <2>3, <4>1, <4>2
    <3>2. ASSUME NEW i \in 1 .. Len(posted[s]) PROVE posted[s][i] = Frame(sent[(a + 1) + Len(r) + i])
      <4>1. (a + 1) + Len(r) + i = a + Len(q) + i
        <5>1. Len(r) = Len(q) - 1 /\ Len(q) \in Nat /\ a \in Nat /\ i \in Nat
          BY <1>3, <1>4, <2>3
        <5> HIDE DEF a, q, r
        <5> QED
          BY <5>1
      <4> HIDE DEF a, q, r, sent
      <4> QED
        BY <2>3, <4>1
    <3>3. a + 1 \in Nat
      BY <2>3
    <3> HIDE DEF a, r
    <3> QED
      BY <1>1, <1>5, <3>1, <3>2, <3>3 DEF Pipe, r
  <2>6. PICK off : IsOffsets(off, sent) /\ Flow(s, off)
    BY DEF Direction
  <2>7. off[a] + Len(Head(q)) = off[a + 1] /\ off[a + 1] \in Nat
    <3>1. sent \in Seq(Packets) /\ sent[a + 1] \in Packets
      BY <2>4, SentTypes, SentPackets
    <3>2. 1 \in 1 .. Len(q)
      BY <1>3
    <3>3. Head(q) = Frame(sent[a + 1])
      BY <1>3, <2>3, <3>2
    <3>4. Len(Head(q)) = Len(sent[a + 1]) + 1 /\ Len(sent[a + 1]) \in Nat
      BY <3>1, <3>3, PacketSizes
    <3>5. off[a + 1] = off[a] + Len(sent[a + 1]) + 1 /\ off[a] \in Nat /\ off[a + 1] \in Nat
      BY <2>4, <2>6, <3>1, OffsetsGrow
    <3> DEFINE x == off[a]
               l == Len(sent[a + 1])
    <3>6. x + (l + 1) = x + l + 1
      <4> HIDE DEF x, l
      <4> QED
        BY <3>4, <3>5 DEF x, l
    <3> QED
      BY <3>4, <3>5, <3>6
  <2>8. (off[Taken(s)] + Done(s))' = off[Taken(s)] + Done(s)
    <3>1. off[Taken(s)] + Done(s) = off[a + 1]
      BY <1>1, <2>7 DEF Done
    <3>2. (off[Taken(s)] + Done(s))' = off[a + 1] + 0
      BY <1>2, <1>5
    <3> QED
      BY <2>7, <3>1, <3>2
  <2>9. Flow(s, off)'
    BY <1>1, <1>7, <2>6, <2>8, FlowKept
  <2> QED
    BY <1>1, <2>5, <2>6, <2>9 DEF Direction
<1> QED
  BY <1>6, <1>7

-----------------------------------------------------------------------------
(* The reader of what s sends. *)
LEMMA ReadsOn ==
  ASSUME NEW s \in Side, NEW off, IsOffsets(off, Sent(s)), Flow(s, off), Direction(s),
         UNCHANGED <<Sent(s), Handed(s)>>, posted'[s] = posted[s],
         sendQueue'[s] = sendQueue[s], writing'[s] = writing[s], written'[s] = written[s],
         Lost(s) => Lost(s)',
         reader'[Peer(s)].phase # "NOT_STARTED", reader'[Peer(s)].op \in {"PENDING", "OK"},
         Arriving(off, Sent(s), reader'[Peer(s)], Len(received'[Peer(s)]), stream'[s]),
         ReadUpTo(off, reader'[Peer(s)], Len(received'[Peer(s)])) + Len(stream'[s])
           = ReadUpTo(off, reader[Peer(s)], Len(received[Peer(s)])) + Len(stream[s])
  PROVE  Direction(s)'
<1>1. UNCHANGED <<Taken(s), Done(s)>>
  BY DEF Taken, Done
<1>2. Alive(reader[Peer(s)])'
  BY DEF Alive
<1>3. IsOffsets(off, Sent(s))' /\ Flow(s, off)'
  BY <1>1, <1>2 DEF Flow
<1>4. ~Lost(s)' => Pipe(s)'
  BY <1>1 DEF Direction, Pipe
<1> QED
  BY <1>3, <1>4 DEF Direction

LEMMA ReadFlow ==
  ASSUME NetInv, ThreadInv, NEW r \in Side, Direction(r), Direction(Peer(r)),
         Starts(r) \/ ReadCompletes(r) \/ HeaderRead(r) \/ PayloadRead(r),
         \A s \in Side : UNCHANGED <<Sent(s), Handed(s)>>
  PROVE  Direction(r)' /\ Direction(Peer(r))'
<1> DEFINE s == Peer(r)
           rd == reader[r]
           new == reader'[r]
           k == Len(received[r])
           str == stream[s]
           sent == Sent(s)
<1>1. s \in Side /\ s # r /\ Peer(s) = r
  BY Sides
<1>2. /\ UNCHANGED <<tcp, socket, posted, sendQueue, writing, written, disconnected>>
      /\ reader'[s] = reader[s] /\ received'[s] = received[s] /\ stream'[r] = stream[r]
  BY <1>1, NetTypeFacts DEF Starts, ReadCompletes, HeaderRead, PayloadRead, ReadHeader, NetInv
<1>3. Direction(r)'
  BY <1>2, DirectionKept DEF Lost
<1>4. PICK off : IsOffsets(off, sent) /\ Flow(s, off)
  BY DEF Direction
<1>5. /\ sent \in Seq(Packets) /\ str \in Seq(Byte) /\ rd \in ReaderType
      /\ received[r] \in Seq(Payload) /\ k \in Nat
  BY <1>1, SentTypes, NetTypeFacts, LenProperties DEF NetInv, Payload
<1>6. Alive(rd) => Arriving(off, sent, rd, k, str)
  BY <1>1, <1>4 DEF Flow
<1>7. CASE ReadCompletes(r)
  <2> DEFINE rest == SubSeq(str, rd.need + 1, Len(str))
  <2>1. /\ rd.op = "PENDING" /\ rd.need <= Len(str) /\ new.op = "OK" /\ new.phase = rd.phase
        /\ new.buffer = SubSeq(str, 1, rd.need) /\ stream'[s] = rest /\ received' = received
    <3>1. rd.need \in Byte /\ Len(str) \in Nat
      BY <1>5, LenProperties DEF ReaderType
    <3>2. rd.need <= Len(str)
      BY <1>7, <3>1 DEF ReadCompletes, Byte
    <3> QED
      BY <1>1, <1>5, <1>7, <3>2, NetTypeFacts DEF ReadCompletes, NetInv, ReaderType
  <2>2. Arriving(off, sent, rd, k, str)
    BY <1>6, <2>1 DEF Alive
  <2>3. rd.phase \in {"HEADER", "PAYLOAD"}
    BY <1>1, <1>4, <1>5, <2>1 DEF Flow, ReaderType
  <2>4. rd.phase = "HEADER" => rd.need = 1
    BY DEF NetInv, ReadInv
  <2>5. new \in ReaderType
    <3>1. SubSeq(str, 1, rd.need) \in Payload
      <4> DEFINE n == rd.need
      <4>1. n \in Byte /\ n <= Len(str)
        BY <1>5, <2>1 DEF ReaderType
      <4> HIDE DEF n
      <4>2. n \in Nat
        BY <4>1 DEF Byte
      <4>3. SubSeq(str, 1, n) \in Payload
        BY <1>5, <4>1, <4>2, SubSeqOfSeq DEF Payload
      <4> QED
        BY <4>3 DEF n
    <3> QED
      BY <1>5, <1>7, <3>1, NetTypeFacts DEF ReadCompletes, NetInv, ReaderType, Operation
  <2>6. /\ Arriving(off, sent, new, k, rest)
        /\ ReadUpTo(off, new, k) + Len(rest) = ReadUpTo(off, rd, k) + Len(str)
    <3>1. IsOffsets(off, sent)
      BY <1>4
    <3>2. rd.op = "PENDING" /\ rd.need <= Len(str)
      BY <2>1
    <3>3. new.op = "OK" /\ new.phase = rd.phase /\ new.buffer = SubSeq(str, 1, rd.need)
      BY <2>1
    <3>4. sent \in Seq(Packets) /\ k \in Nat /\ str \in Seq(Byte) /\ rd \in ReaderType
      BY <1>5
    <3>5. new \in ReaderType
      BY <2>5
    <3> HIDE DEF rd, new, k, str, sent, s
    <3> QED
      BY <2>2, <2>3, <2>4, <3>1, <3>2, <3>3, <3>4, <3>5, ReaderTakes
  <2> HIDE DEF rest
  <2> QED
    BY <1>1, <1>2, <1>3, <1>4, <2>1, <2>3, <2>6, ReadsOn DEF Lost
<1>8. CASE Starts(r) \/ HeaderRead(r) \/ PayloadRead(r)
  <2> DEFINE l == Len(received'[r])
  <2>1. stream' = stream
    BY <1>8 DEF Starts, HeaderRead, PayloadRead
  <2>2. /\ new.op = "PENDING" /\ Alive(rd) /\ new.phase # "NOT_STARTED"
        /\ \/ /\ rd.phase = "NOT_STARTED" /\ rd.op = "NONE"
              /\ new.phase = "HEADER" /\ l = k
           \/ /\ rd.phase = "HEADER" /\ rd.op = "OK"
              /\ new.phase = "PAYLOAD" /\ new.need = rd.buffer[1] /\ l = k
           \/ /\ rd.phase = "PAYLOAD" /\ rd.op = "OK"
              /\ new.phase = "HEADER" /\ l = k + 1
    <3>1. CASE Starts(r)
      BY <1>1, <1>4, <1>5, <3>1, NetTypeFacts DEF Starts, ReadHeader, NetInv, ReaderType, Flow, Alive
    <3>2. CASE HeaderRead(r)
      BY <1>5, <3>2, NetTypeFacts DEF HeaderRead, NetInv, ReaderType, Alive
    <3>3. CASE PayloadRead(r)
      <4>1. received'[r] = Append(received[r], rd.buffer) /\ rd.buffer \in Payload
        BY <1>5, <3>3, NetTypeFacts DEF PayloadRead, NetInv, ReaderType
      <4>2. l = k + 1
        BY <1>5, <4>1, AppendProperties
      <4>3. /\ rd.phase = "PAYLOAD" /\ rd.op = "OK"
            /\ new.op = "PENDING" /\ new.phase = "HEADER"
        BY <1>5, <3>3, NetTypeFacts DEF PayloadRead, ReadHeader, NetInv, ReaderType
      <4> HIDE DEF l, k
      <4> QED
        BY <4>2, <4>3 DEF Alive
    <3> QED
      BY <1>8, <3>1, <3>2, <3>3
  <2>3. Arriving(off, sent, rd, k, str)
    BY <1>6, <2>2
  <2>4. Arriving(off, sent, new, l, str) /\ ReadUpTo(off, new, l) = ReadUpTo(off, rd, k)
    <3> HIDE DEF rd, new, k, l, str, sent, s
    <3> QED
      BY <1>4, <1>5, <2>2, <2>3, ReaderTurns
  <2>5. new.op \in {"PENDING", "OK"} /\ new.phase # "NOT_STARTED"
    BY <2>2
  <2> QED
    BY <1>1, <1>2, <1>3, <1>4, <2>1, <2>4, <2>5, ReadsOn DEF Lost
<1> QED
  BY <1>7, <1>8

(* A length that has been read is that of the packet that comes next.      *)
LEMMA NextLength ==
  ASSUME ThreadInv, NEW r \in Side, Direction(Peer(r)),
         reader[r].op = "OK", reader[r].phase = "HEADER"
  PROVE  LET sent == Sent(Peer(r))
             next == Len(received[r]) + 1
         IN /\ next \in 1 .. Len(sent)
            /\ reader[r].buffer = <<Len(sent[next])>>
<1> DEFINE s == Peer(r)
           k == Len(received[r])
           sent == Sent(s)
<1>1. s \in Side /\ Peer(s) = r
  BY Sides
<1>2. PICK off : IsOffsets(off, sent) /\ Flow(s, off)
  BY DEF Direction
<1>3. Arriving(off, sent, reader[r], k, stream[s])
  BY <1>1, <1>2 DEF Flow, Alive
<1>4. k \in 0 .. Len(sent) /\ k < Len(sent) /\ reader[r].buffer = <<Len(sent[k + 1])>>
  BY <1>3 DEF Arriving
<1>5. Len(sent) \in Nat
  BY <1>1, SentTypes
<1> QED
  BY <1>4, <1>5

(* So it fits the buffer; a reader gives up only when the connection is    *)
(* lost.                                                                   *)
LEMMA LengthsFit ==
  ASSUME ThreadInv, NEW r \in Side, Direction(Peer(r)),
         reader[r].op = "OK", reader[r].phase = "HEADER"
  PROVE  LengthFits(r)
<1> DEFINE s == Peer(r)
           k == Len(received[r])
           sent == Sent(s)
<1>1. s \in Side /\ Peer(s) = r
  BY Sides
<1>4. k + 1 \in 1 .. Len(sent) /\ reader[r].buffer[1] = Len(sent[k + 1])
  BY NextLength
<1>6. k + 1 \in 1 .. Len(sent)
  BY <1>4
<1>7. CASE r = "SERVER"
  <2>1. sent \in Seq(Request)
    BY <1>7 DEF ThreadInv, Sent, Peer
  <2>2. sent[k + 1] \in Request
    <3> HIDE DEF sent, k
    <3> QED
      BY <1>6, <2>1, ElementOfSeq
  <2>3. Len(sent[k + 1]) \in 1 .. 6
    <3> HIDE DEF sent, k
    <3> QED
      BY <2>2, ScriptAssumption DEF Request
  <2>4. BufferSize[r] = 6
    BY <1>7 DEF BufferSize
  <2> DEFINE l == Len(sent[k + 1])
  <2>5. l <= 6 /\ l # 0
    <3>1. l \in 1 .. 6
      BY <2>3
    <3> HIDE DEF l
    <3> QED
      BY <3>1
  <2>6. reader[r].buffer[1] = l
    BY <1>4
  <2> HIDE DEF l
  <2> QED
    BY <2>4, <2>5, <2>6 DEF LengthFits
<1>8. CASE r = "CLIENT"
  <2>1. sent \in Seq(Response)
    BY <1>8 DEF ThreadInv, Sent, Peer
  <2>2. sent[k + 1] \in Response
    <3> HIDE DEF sent, k
    <3> QED
      BY <1>6, <2>1, ElementOfSeq
  <2>3. Len(sent[k + 1]) \in 1 .. 134
    <3> HIDE DEF sent, k
    <3> QED
      BY <2>2, ScriptAssumption DEF Response
  <2>4. BufferSize[r] = 134
    BY <1>8 DEF BufferSize
  <2> DEFINE l == Len(sent[k + 1])
  <2>5. l <= 134 /\ l # 0
    <3>1. l \in 1 .. 134
      BY <2>3
    <3> HIDE DEF l
    <3> QED
      BY <3>1
  <2>6. reader[r].buffer[1] = l
    BY <1>4
  <2> HIDE DEF l
  <2> QED
    BY <2>4, <2>5, <2>6 DEF LengthFits
<1> QED
  BY <1>7, <1>8 DEF Side

LEMMA BadReadsMeanLoss ==
  ASSUME ThreadInv, NEW r \in Side, Direction(Peer(r)), BadRead(r)
  PROVE  Lost(r) /\ reader[r].phase # "NOT_STARTED"
<1>1. Peer(r) \in Side /\ Peer(Peer(r)) = r
  BY Sides
<1>2. reader[r].op = "FAILED"
  BY LengthsFit DEF BadRead
<1>3. PICK off : Flow(Peer(r), off)
  BY DEF Direction
<1>4. reader[r].phase # "NOT_STARTED"
  BY <1>1, <1>2, <1>3 DEF Flow
<1>5. ~Alive(reader[r])
  BY <1>2, <1>4 DEF Alive
<1>6. Lost(Peer(r))
  BY <1>1, <1>3, <1>5 DEF Flow
<1> QED
  BY <1>4, <1>6 DEF Lost

-----------------------------------------------------------------------------
(* A packet more: at the end of what has been sent, or of what is posted.  *)
LEMMA PipeGrows ==
  ASSUME NetInv, ThreadInv, Upstream, NEW s \in Side, Pipe(s), Taken(s)' = Taken(s),
         sendQueue'[s] = sendQueue[s],
         \A i \in 1 .. Len(Sent(s)) : Sent(s)'[i] = Sent(s)[i],
         \/ posted'[s] = posted[s]
         \/ /\ posted'[s] = Append(posted[s], Frame(Sent(s)'[Handed(s) + 1]))
            /\ Sent(s)'[Handed(s) + 1] \in Packets
  PROVE  Pipe(s)'
<1> DEFINE a == Taken(s)
           q == Len(sendQueue[s])
           p == Len(posted[s])
           sent == Sent(s)
           more == Sent(s)'
           h == Handed(s)
           n == Len(Sent(s))
<1>1. /\ a \in Nat /\ q \in Nat /\ p \in Nat /\ h \in Nat /\ n \in Nat
      /\ h = a + q + p /\ h <= n
  BY Counts DEF Pipe
<1>2. /\ \A i \in 1 .. q : sendQueue[s][i] = Frame(sent[a + i])
      /\ \A i \in 1 .. p : posted[s][i] = Frame(sent[a + q + i])
  BY DEF Pipe
<1>3. \A i \in 1 .. n : more[i] = sent[i]
  OBVIOUS
<1>4. ASSUME NEW i \in 1 .. q PROVE sendQueue[s][i] = Frame(more[a + i])
  <2> HIDE DEF a, q, p, sent, more, h, n
  <2>1. a + i \in 1 .. n
    BY <1>1
  <2> QED
    BY <1>2, <1>3, <2>1
<1>5. ASSUME NEW i \in 1 .. p PROVE posted[s][i] = Frame(more[a + q + i])
  <2> HIDE DEF a, q, p, sent, more, h, n
  <2>1. a + q + i \in 1 .. n
    BY <1>1
  <2> QED
    BY <1>2, <1>3, <2>1
<1>6. ASSUME NEW i \in 1 .. Len(posted'[s]) PROVE posted'[s][i] = Frame(more[a + q + i])
  <2>1. CASE posted'[s] = posted[s]
    BY <1>5, <2>1
  <2>2. CASE /\ posted'[s] = Append(posted[s], Frame(more[h + 1]))
             /\ more[h + 1] \in Packets
    <3> DEFINE f == Frame(more[h + 1])
    <3>1. f \in FrameType /\ posted[s] \in Seq(FrameType)
      BY <2>2, PacketSizes, NetTypeFacts DEF NetInv
    <3>2. /\ Len(posted'[s]) = p + 1 /\ posted'[s][p + 1] = f
          /\ \A j \in 1 .. p : posted'[s][j] = posted[s][j]
      <4> HIDE DEF f
      <4> QED
        BY <2>2, <3>1, AppendProperties DEF f
    <3>3. CASE i \in 1 .. p
      BY <1>5, <3>2, <3>3
    <3>4. CASE i = p + 1
      <4>1. a + q + i = h + 1
        <5> HIDE DEF a, q, p, h, n
        <5> QED
          BY <1>1, <3>4
      <4> QED
        BY <3>2, <3>4, <4>1
    <3>5. i \in 1 .. p \/ i = p + 1
      <4> HIDE DEF p
      <4> QED
        BY <1>1, <3>2
    <3> QED
      BY <3>3, <3>4, <3>5
  <2> QED
    BY <2>1, <2>2
<1> QED
  BY <1>1, <1>4, <1>6 DEF Pipe

LEMMA DirectionGrows ==
  ASSUME NetInv, ThreadInv, Upstream, NEW s \in Side, Direction(s), NEW x \in Packets,
         Sent(s)' = Append(Sent(s), x), Taken(s)' = Taken(s),
         reader'[Peer(s)] = reader[Peer(s)], received'[Peer(s)] = received[Peer(s)],
         stream'[s] = stream[s], sendQueue'[s] = sendQueue[s],
         writing'[s] = writing[s], written'[s] = written[s], Lost(s) <=> Lost(s)',
         \/ posted'[s] = posted[s]
         \/ Handed(s) = Len(Sent(s)) /\ posted'[s] = Append(posted[s], Frame(x))
  PROVE  Direction(s)'
<1> DEFINE sent == Sent(s)
           rd == reader[Peer(s)]
           k == Len(received[Peer(s)])
<1>1. sent \in Seq(Packets) /\ Len(sent) \in Nat
  BY SentTypes
<1>2. sent'[Len(sent) + 1] = x /\ \A i \in 1 .. Len(sent) : sent'[i] = sent[i]
  <2>1. /\ Append(sent, x)[Len(sent) + 1] = x
        /\ \A i \in 1 .. Len(sent) : Append(sent, x)[i] = sent[i]
    <3> HIDE DEF sent
    <3> QED
      BY <1>1, AppendProperties
  <2> QED
    BY <2>1
<1>3. PICK off : IsOffsets(off, sent) /\ Flow(s, off)
  BY DEF Direction
<1>4. PICK new : /\ IsOffsets(new, Append(sent, x))
                 /\ \A i \in 0 .. Len(sent) : new[i] = off[i]
  <2> HIDE DEF sent
  <2> QED
    BY <1>1, <1>3, OffsetsExtend
<1>5. Arriving(off, sent, rd, k, stream[s]) =>
        /\ Arriving(new, Append(sent, x), rd, k, stream[s])
        /\ ReadUpTo(new, rd, k) = ReadUpTo(off, rd, k)
  <2> HIDE DEF sent, rd, k
  <2> QED
    BY <1>1, <1>3, <1>4, ArrivingExtends
<1>6. ~Lost(s) => new[Taken(s)] = off[Taken(s)]
  <2>1. SUFFICES ASSUME ~Lost(s) PROVE Taken(s) \in 0 .. Len(sent)
    BY <1>4
  <2>2. Taken(s) \in Nat
    BY <2>1 DEF Direction, Pipe
  <2>3. /\ Handed(s) <= Len(sent) /\ Len(posted[s]) \in Nat /\ Len(sendQueue[s]) \in Nat
        /\ Handed(s) = Taken(s) + Len(sendQueue[s]) + Len(posted[s])
    BY Counts
  <2> DEFINE a == Taken(s)
             q == Len(sendQueue[s])
             p == Len(posted[s])
             h == Handed(s)
             n == Len(sent)
  <2>4. a \in Nat /\ q \in Nat /\ p \in Nat /\ n \in Nat /\ h <= n /\ h = a + q + p
    BY <1>1, <2>2, <2>3
  <2>5. a \in 0 .. n
    <3> HIDE DEF a, q, p, h, n
    <3> QED
      BY <2>4
  <2> QED
    BY <2>5
<1>7. Done(s)' = Done(s)
  BY DEF Done
<1>8. Flow(s, new)'
  <2>1. rd.phase = "NOT_STARTED" => rd.op = "NONE"
    BY <1>3 DEF Flow
  <2>2. Alive(rd) => Arriving(new, Append(sent, x), rd, k, stream[s])
    BY <1>3, <1>5 DEF Flow
  <2>3. ~Lost(s) => /\ Alive(rd)
                    /\ ReadUpTo(new, rd, k) + Len(stream[s]) = new[Taken(s)] + Done(s)
    BY <1>3, <1>5, <1>6 DEF Flow
  <2> QED
    BY <1>7, <2>1, <2>2, <2>3 DEF Flow
<1>9. ~Lost(s)' => Pipe(s)'
  <2> SUFFICES ASSUME ~Lost(s)' PROVE Pipe(s)'
    OBVIOUS
  <2>1. Pipe(s)
    BY DEF Direction
  <2> QED
    BY <1>2, <2>1, PipeGrows
<1> QED
  BY <1>4, <1>8, <1>9 DEF Direction

-----------------------------------------------------------------------------
(* The steps of the connection and of its handlers, for both directions. *)
HandsOverNothing == UNCHANGED <<queueVars, pushed, responded>>

LEMMA NothingHandedOver ==
  ASSUME HandsOverNothing
  PROVE  (Upstream => Upstream') /\ \A s \in Side : UNCHANGED <<Sent(s), Handed(s)>>
BY DEF HandsOverNothing, queueVars, Upstream, Sent, Handed, OnHand

LEMMA WriterFlow ==
  ASSUME NetInv, ThreadInv, FlowInv, NEW s \in Side, HandsOverNothing,
         TransmitsByte(s) \/ RunsPosted(s) \/ PacketWritten(s)
  PROVE  \A t \in Side : Direction(t)'
<1>1. /\ Upstream /\ ClosedBeforeCleared /\ Direction(s) /\ Direction(Peer(s))
      /\ \A t \in Side : UNCHANGED <<Sent(t), Handed(t)>>
  BY Sides, NothingHandedOver DEF FlowInv
<1>2. Direction(s)'
  BY <1>1, TransmitsFlow, RunsPostedFlow, PacketWrittenFlow
<1>3. Direction(Peer(s))'
  <2> DEFINE t == Peer(s)
  <2>1. t \in Side /\ t # s
    BY Sides
  <2> HIDE DEF t
  <2>2. /\ UNCHANGED <<tcp, socket, reader, received>> /\ stream'[t] = stream[t]
        /\ posted'[t] = posted[t] /\ sendQueue'[t] = sendQueue[t]
        /\ writing'[t] = writing[t] /\ written'[t] = written[t]
    BY <2>1, NetTypeFacts DEF TransmitsByte, RunsPosted, PacketWritten, Writes, NetInv
  <2>3. Lost(t)' <=> Lost(t)
    BY <2>2 DEF Lost
  <2> QED
    BY <1>1, <2>1, <2>2, <2>3, DirectionKept DEF t
<1> QED
  BY <1>2, <1>3, Sides

(* Whatever is done to queues and writes once the connection is lost.      *)
LEMMA LostFlow ==
  ASSUME FlowInv, UNCHANGED <<pushed, responded, reader, received>>,
         \A s \in Side : stream'[s] \in {stream[s], <<>>} /\ Lost(s)'
  PROVE  \A s \in Side : Direction(s)'
<1> SUFFICES ASSUME NEW s \in Side PROVE Direction(s)'
  OBVIOUS
<1>1. Direction(s) /\ UNCHANGED Sent(s)
  BY DEF FlowInv, Sent
<1> QED
  BY <1>1, DirectionCut

LEMMA ReadsEndFlow ==
  ASSUME NetInv, ThreadInv, FlowInv, NEW r \in Side, reader[r].phase # "NOT_STARTED",
         NEW op \in {"FAILED", "NONE"}, reader' = [reader EXCEPT ![r].op = op],
         UNCHANGED <<pushed, responded, received>>,
         \A s \in Side : stream'[s] \in {stream[s], <<>>} /\ Lost(s)'
  PROVE  \A s \in Side : Direction(s)'
<1>1. Peer(r) \in Side /\ Peer(r) # r /\ Peer(Peer(r)) = r
  BY Sides
<1>2. /\ ~Alive(reader'[r]) /\ reader'[Peer(r)] = reader[Peer(r)]
      /\ \A s \in Side : Direction(s) /\ UNCHANGED Sent(s)
  BY <1>1, NetTypeFacts DEF NetInv, ReaderType, Alive, FlowInv, Sent
<1>3. Direction(r)'
  BY <1>1, <1>2, DirectionCut
<1>4. Direction(Peer(r))'
  BY <1>1, <1>2, DirectionEnds
<1> QED
  BY <1>3, <1>4, Sides

LEMMA SystemFlow ==
  ASSUME NetInv, ThreadInv, FlowInv, HandsOverNothing, System
  PROVE  \A s \in Side : Direction(s)'
<1> USE DEF HandsOverNothing
<1>1. CASE Connects
  <2>1. CASE tcp' = "DOWN"
    BY <1>1, <2>1, LostFlow DEF Connects, Lost
  <2>2. CASE tcp' # "DOWN"
    <3> SUFFICES ASSUME NEW s \in Side PROVE Direction(s)'
      OBVIOUS
    <3>1. Direction(s) /\ UNCHANGED <<Sent(s), Handed(s)>>
      BY NothingHandedOver DEF FlowInv
    <3>2. /\ UNCHANGED <<socket, posted, sendQueue, writing, written, stream, reader, received>>
          /\ tcp = "CONNECTING"
      BY <1>1 DEF Connects
    <3>3. Lost(s) => Lost(s)'
      BY <3>2 DEF Lost
    <3> QED
      BY <3>1, <3>2, <3>3, DirectionKept
  <2> QED
    BY <2>1, <2>2
<1>2. ASSUME NEW s \in Side, TransmitsByte(s) PROVE \A t \in Side : Direction(t)'
  BY <1>2, WriterFlow
<1>3. ASSUME NEW s \in Side, WriteFails(s) PROVE \A t \in Side : Direction(t)'
  <2>1. UNCHANGED <<tcp, socket, stream, reader, received>> /\ Lost(s)
    BY <1>3 DEF WriteFails
  <2>2. \A t \in Side : Lost(t)'
    BY <2>1 DEF Lost
  <2> QED
    BY <2>1, <2>2, LostFlow
<1>4. ASSUME NEW s \in Side, ReadCompletes(s) PROVE \A t \in Side : Direction(t)'
  BY <1>4, Sides, NothingHandedOver, ReadFlow DEF FlowInv
<1>5. ASSUME NEW s \in Side, ReadFails(s) PROVE \A t \in Side : Direction(t)'
  <2>1. /\ UNCHANGED <<tcp, socket, stream, received>> /\ Lost(s)
        /\ reader[s].op = "PENDING" /\ reader' = [reader EXCEPT ![s].op = "FAILED"]
    BY <1>5 DEF ReadFails
  <2>2. reader[s].phase # "NOT_STARTED"
    <3>1. PICK off : Flow(Peer(s), off)
      BY Sides DEF FlowInv, Direction
    <3> QED
      BY <2>1, <3>1, Sides DEF Flow
  <2>3. \A t \in Side : Lost(t)'
    BY <2>1 DEF Lost
  <2> QED
    BY <2>1, <2>2, <2>3, ReadsEndFlow
<1> QED
  BY <1>1, <1>2, <1>3, <1>4, <1>5 DEF System

LEMMA HandlerFlow ==
  ASSUME NetInv, ThreadInv, FlowInv, HandsOverNothing, NEW s \in Side, Handler(s)
  PROVE  \A t \in Side : Direction(t)'
<1>1. CASE RunsPosted(s) \/ PacketWritten(s)
  BY <1>1, WriterFlow
<1>2. CASE Starts(s) \/ HeaderRead(s) \/ PayloadRead(s)
  BY <1>2, Sides, NothingHandedOver, ReadFlow DEF FlowInv
<1> QED
  BY <1>1, <1>2 DEF Handler

LEMMA ServerClosesLoses ==
  ASSUME NetInv, ServerCloses, UNCHANGED tcp, Lost("SERVER")
  PROVE  \A s \in Side : stream'[s] \in {stream[s], <<>>} /\ Lost(s)'
<1>1. CASE disconnected /\ UNCHANGED <<socket, stream, disconnected>>
  BY <1>1 DEF Lost
<1>2. CASE ~disconnected /\ ClosesSocket("SERVER")
  <2>1. socket'["SERVER"] = "CLOSED" /\ "SERVER" \in Side
    BY <1>2, NetTypeFacts DEF ClosesSocket, Side, NetInv
  <2>2. \A s \in Side : stream'[s] \in {stream[s], <<>>}
    BY <1>2, NetTypeFacts DEF ClosesSocket, NetInv
  <2> QED
    BY <2>1, <2>2 DEF Lost
<1> QED
  BY <1>1, <1>2 DEF ServerCloses

LEMMA ErrorFlow ==
  ASSUME NetInv, ThreadInv, FlowInv, HandsOverNothing,
         \/ ClientStopsReading \/ ClientStopsWriting
         \/ ServerFailsToRead \/ ServerFailsToWrite
  PROVE  \A s \in Side : Direction(s)'
<1> USE DEF HandsOverNothing
<1>1. "CLIENT" \in Side /\ "SERVER" \in Side
  BY DEF Side
<1>2. CASE ClientStopsReading
  <2>1. Lost("CLIENT") /\ reader["CLIENT"].phase # "NOT_STARTED"
    BY <1>1, <1>2, Sides, BadReadsMeanLoss DEF ClientStopsReading, FlowInv
  <2>2. /\ UNCHANGED <<tcp, socket, stream, received>>
        /\ reader' = [reader EXCEPT !["CLIENT"].op = "NONE"]
    BY <1>2 DEF ClientStopsReading
  <2>3. \A t \in Side : Lost(t)'
    BY <2>1, <2>2 DEF Lost
  <2> QED
    BY <1>1, <2>1, <2>2, <2>3, ReadsEndFlow
<1>3. CASE ClientStopsWriting
  <2>1. UNCHANGED <<tcp, socket, stream, reader, received>> /\ Lost("CLIENT")
    BY <1>1, <1>3 DEF ClientStopsWriting, NetInv, WriteInv
  <2>2. \A t \in Side : Lost(t)'
    BY <2>1 DEF Lost
  <2> QED
    BY <2>1, <2>2, LostFlow
<1>4. CASE ServerFailsToRead
  <2>1. Lost("SERVER") /\ reader["SERVER"].phase # "NOT_STARTED"
    BY <1>1, <1>4, Sides, BadReadsMeanLoss DEF ServerFailsToRead, FlowInv
  <2>2. /\ UNCHANGED <<tcp, received>> /\ ServerCloses
        /\ reader' = [reader EXCEPT !["SERVER"].op = "NONE"]
    BY <1>4 DEF ServerFailsToRead
  <2>3. \A s \in Side : stream'[s] \in {stream[s], <<>>} /\ Lost(s)'
    BY <2>1, <2>2, ServerClosesLoses
  <2> QED
    BY <1>1, <2>1, <2>2, <2>3, ReadsEndFlow
<1>5. CASE ServerFailsToWrite
  <2>1. UNCHANGED <<tcp, reader, received>> /\ ServerCloses /\ Lost("SERVER")
    BY <1>1, <1>5 DEF ServerFailsToWrite, NetInv, WriteInv
  <2>2. \A s \in Side : stream'[s] \in {stream[s], <<>>} /\ Lost(s)'
    BY <2>1, ServerClosesLoses
  <2> QED
    BY <2>1, <2>2, LostFlow
<1> QED
  BY <1>2, <1>3, <1>4, <1>5

-----------------------------------------------------------------------------
(* The steps that hand packets on. *)
LEMMA PushFlow ==
  ASSUME NetInv, ThreadInv, FlowInv, NEW x \in Request, queue' = Append(queue, x),
         pushed' = Append(pushed, x), UNCHANGED <<netVars, consumer, popped, responded>>
  PROVE  Upstream' /\ \A s \in Side : Direction(s)'
<1> DEFINE n == Len(pushed)
           l == Len(queue)
           h == Handed("CLIENT")
<1>1. /\ l \in Nat /\ n \in Nat /\ OnHand \in {0, 1} /\ h \in Nat /\ n = h + l + OnHand
      /\ h = n - l - OnHand
  <2>1. l \in Nat /\ n \in Nat /\ OnHand \in {0, 1} /\ h \in Nat /\ h = n - l - OnHand
    BY LenProperties DEF ThreadInv, OnHand, FlowInv, Upstream, Handed
  <2> HIDE DEF n, l, h
  <2> QED
    BY <2>1
<1>2. /\ Len(queue') = l + 1 /\ queue'[l + 1] = x /\ \A i \in 1 .. l : queue'[i] = queue[i]
      /\ Len(pushed') = n + 1 /\ pushed'[n + 1] = x /\ \A i \in 1 .. n : pushed'[i] = pushed[i]
  BY AppendProperties DEF ThreadInv
<1>3. OnHand' = OnHand
  BY DEF OnHand
<1>4. Handed("CLIENT")' = h
  <2>1. Handed("CLIENT")' = (n + 1) - (l + 1) - OnHand
    BY <1>2, <1>3 DEF Handed
  <2> HIDE DEF n, l, h
  <2> QED
    BY <1>1, <2>1
<1>5. Upstream'
  <2>1. /\ consumer = "SENDING" => popped = pushed[h + 1]
        /\ \A i \in 1 .. l : queue[i] = pushed[h + OnHand + i]
    BY DEF FlowInv, Upstream
  <2>2. consumer = "SENDING" => popped' = pushed'[h + 1]
    <3> SUFFICES ASSUME consumer = "SENDING" PROVE popped' = pushed'[h + 1]
      OBVIOUS
    <3>1. OnHand = 1
      BY DEF OnHand
    <3>2. h + 1 \in 1 .. n
      <4> HIDE DEF n, l, h
      <4> QED
        BY <1>1, <3>1
    <3> QED
      BY <1>2, <2>1, <3>2
  <2>3. ASSUME NEW i \in 1 .. l + 1 PROVE queue'[i] = pushed'[h + OnHand + i]
    <3>1. CASE i \in 1 .. l
      <4>1. h + OnHand + i \in 1 .. n
        <5> HIDE DEF n, l, h
        <5> QED
          BY <1>1, <3>1
      <4> QED
        BY <1>2, <2>1, <3>1, <4>1
    <3>2. CASE i = l + 1
      <4>1. h + OnHand + i = n + 1
        <5> HIDE DEF n, l, h
        <5> QED
          BY <1>1, <3>2
      <4> QED
        BY <1>2, <3>2, <4>1
    <3>3. i \in 1 .. l \/ i = l + 1
      BY <1>1
    <3> QED
      BY <3>1, <3>2, <3>3
  <2> QED
    BY <1>1, <1>2, <1>3, <1>4, <2>2, <2>3 DEF Upstream
<1>6. ASSUME NEW s \in Side PROVE Direction(s)'
  <2>1. Direction(s) /\ Upstream /\ UNCHANGED netVars
    BY DEF FlowInv
  <2>2. Handed(s)' = Handed(s)
    BY <1>4 DEF Handed, Side
  <2>3. (Lost(s)' <=> Lost(s)) /\ Taken(s)' = Taken(s)
    BY <2>2 DEF netVars, Lost, Taken
  <2>4. CASE s = "CLIENT"
    <3>1. Sent(s)' = Append(Sent(s), x) /\ x \in Packets
      BY <2>4 DEF Sent, Packets
    <3> QED
      BY <2>1, <2>3, <3>1, DirectionGrows DEF netVars
  <2>5. CASE s # "CLIENT"
    <3>1. UNCHANGED Sent(s)
      BY <2>5 DEF Sent
    <3> QED
      BY <2>1, <2>2, <2>3, <3>1, DirectionKept DEF netVars
  <2> QED
    BY <2>4, <2>5
<1> QED
  BY <1>5, <1>6

LEMMA PopFlow ==
  ASSUME NetInv, ThreadInv, FlowInv, Pop, UNCHANGED <<netVars, pushed, responded>>
  PROVE  Upstream' /\ \A s \in Side : Direction(s)'
<1> DEFINE n == Len(pushed)
           l == Len(queue)
           h == Handed("CLIENT")
<1>1. OnHand = 0 /\ OnHand' = 1
  BY DEF Pop, OnHand
<1>2. /\ l \in Nat /\ n \in Nat /\ h \in Nat /\ h = n - l
  <2>1. l \in Nat /\ n \in Nat /\ h \in Nat /\ h = n - l - 0
    BY <1>1, LenProperties DEF ThreadInv, FlowInv, Upstream, Handed
  <2> HIDE DEF n, l, h
  <2> QED
    BY <2>1
<1>3. /\ l > 0 /\ Len(queue') = l - 1 /\ popped' = queue[1]
      /\ \A i \in 1 .. l - 1 : queue'[i] = queue[i + 1]
  BY HeadTailProperties, EmptySeq, LenProperties DEF Pop, ThreadInv
<1>4. Handed("CLIENT")' = h
  <2>1. Handed("CLIENT")' = n - (l - 1) - 1
    BY <1>1, <1>3 DEF Handed
  <2> HIDE DEF n, l, h
  <2> QED
    BY <1>2, <2>1
<1>5. Upstream'
  <2>1. \A i \in 1 .. l : queue[i] = pushed[h + i]
    <3>1. \A i \in 1 .. l : queue[i] = pushed[h + OnHand + i]
      BY DEF FlowInv, Upstream
    <3> HIDE DEF n, l, h
    <3>2. \A i \in 1 .. l : h + OnHand + i = h + i
      BY <1>1, <1>2
    <3> QED
      BY <3>1, <3>2
  <2>2. popped' = pushed[h + 1]
    <3> HIDE DEF n, l, h
    <3>1. 1 \in 1 .. l
      BY <1>2, <1>3
    <3> QED
      BY <1>3, <2>1, <3>1
  <2>3. ASSUME NEW i \in 1 .. l - 1 PROVE queue'[i] = pushed[h + 1 + i]
    <3> HIDE DEF n, l, h
    <3>1. i + 1 \in 1 .. l /\ h + (i + 1) = h + 1 + i
      BY <1>2, <1>3
    <3> QED
      BY <1>3, <2>1, <3>1
  <2> HIDE DEF h, l
  <2> QED
    BY <1>1, <1>2, <1>3, <1>4, <2>2, <2>3 DEF Upstream
<1>6. ASSUME NEW s \in Side PROVE Direction(s)'
  <2>1. Direction(s) /\ UNCHANGED netVars
    BY DEF FlowInv
  <2>2. Handed(s)' = Handed(s) /\ UNCHANGED Sent(s) /\ (Lost(s)' <=> Lost(s))
    BY <1>4 DEF Handed, Side, Sent, netVars, Lost
  <2> QED
    BY <2>1, <2>2, DirectionKept DEF netVars
<1> QED
  BY <1>5, <1>6

LEMMA SenderSendsFlow ==
  ASSUME NetInv, ThreadInv, FlowInv, SenderSends
  PROVE  Upstream' /\ \A s \in Side : Direction(s)'
<1> DEFINE n == Len(pushed)
           l == Len(queue)
           h == Handed("CLIENT")
           y == popped
<1>1. /\ consumer = "SENDING" /\ consumer' = "CHECKING" /\ OnHand = 1 /\ OnHand' = 0
      /\ "CLIENT" \in Side /\ y \in Request /\ y \in Packets
      /\ UNCHANGED <<queue, pushed, responded, tcp, socket, sendQueue, writing, written, stream,
                     reader, received>>
      /\ posted' = [posted EXCEPT !["CLIENT"] = Append(@, Frame(y))]
  BY DEF SenderSends, OnHand, Post, Side, ThreadInv, Packets
<1>2. l \in Nat /\ n \in Nat /\ h \in Nat /\ h = n - l - 1
  BY <1>1, LenProperties DEF ThreadInv, FlowInv, Upstream, Handed
<1>3. Handed("CLIENT")' = h + 1
  <2>1. Handed("CLIENT")' = n - l - 0
    BY <1>1 DEF Handed
  <2> HIDE DEF n, l, h
  <2> QED
    BY <1>2, <2>1
<1>4. y = pushed[h + 1] /\ \A i \in 1 .. l : queue[i] = pushed[h + 1 + i]
  BY <1>1 DEF FlowInv, Upstream
<1>5. Upstream'
  <2>1. \A i \in 1 .. l : queue[i] = pushed[h + 1 + 0 + i]
    <3> HIDE DEF n, l, h
    <3>1. \A i \in 1 .. l : h + 1 + 0 + i = h + 1 + i
      BY <1>2
    <3> QED
      BY <1>4, <3>1
  <2>2. h + 1 \in Nat
    BY <1>2
  <2> HIDE DEF n, l, h
  <2> QED
    BY <1>1, <1>3, <2>1, <2>2 DEF Upstream, l
<1>6. /\ posted'["CLIENT"] = Append(posted["CLIENT"], Frame(y))
      /\ \A s \in Side : s # "CLIENT" => posted'[s] = posted[s]
  BY <1>1, NetTypeFacts DEF NetInv
<1>7. ASSUME NEW s \in Side PROVE (Lost(s)' <=> Lost(s)) /\ UNCHANGED Sent(s) /\ Direction(s)
  BY <1>1 DEF Lost, Sent, FlowInv
<1>8. ASSUME NEW s \in Side, s # "CLIENT" PROVE Direction(s)'
  <2>1. UNCHANGED Handed(s)
    BY <1>1, <1>8 DEF Handed
  <2> QED
    BY <1>1, <1>6, <1>7, <1>8, <2>1, DirectionKept
<1>9. Direction("CLIENT")'
  <2> DEFINE p == Len(posted["CLIENT"])
             q == Len(sendQueue["CLIENT"])
  <2>1. Taken("CLIENT")' = Taken("CLIENT")
    <3>1. posted["CLIENT"] \in Seq(FrameType) /\ Frame(y) \in FrameType
      BY <1>1, FrameProperties, NetTypeFacts DEF NetInv
    <3>2. p \in Nat /\ q \in Nat /\ Len(posted'["CLIENT"]) = p + 1
      <4>1. Len(posted'["CLIENT"]) = p + 1
        BY <1>6, <3>1, AppendProperties
      <4> QED
        BY <1>1, <4>1, LenProperties, NetTypeFacts DEF NetInv
    <3>3. Taken("CLIENT")' = (h + 1) - (p + 1) - q
      BY <1>1, <1>3, <3>2 DEF Taken
    <3>4. Taken("CLIENT") = h - p - q
      BY DEF Taken
    <3> HIDE DEF h, p, q
    <3> QED
      BY <1>2, <3>2, <3>3, <3>4
  <2>2. PICK off : IsOffsets(off, Sent("CLIENT")) /\ Flow("CLIENT", off)
    BY <1>1, <1>7 DEF Direction
  <2>3. Done("CLIENT")' = Done("CLIENT")
    BY <1>1 DEF Done
  <2>4. IsOffsets(off, Sent("CLIENT"))' /\ Flow("CLIENT", off)'
    BY <1>1, <1>7, <2>1, <2>2, <2>3, FlowKept
  <2>5. Pipe("CLIENT") => Pipe("CLIENT")'
    <3>1. Sent("CLIENT") = pushed /\ Sent("CLIENT")' = pushed
      BY <1>1 DEF Sent
    <3>2. posted'["CLIENT"] = Append(posted["CLIENT"], Frame(Sent("CLIENT")'[h + 1]))
          /\ Sent("CLIENT")'[h + 1] \in Packets
      BY <1>1, <1>4, <1>6, <3>1
    <3> QED
      BY <1>1, <2>1, <3>1, <3>2, PipeGrows DEF FlowInv
  <2> QED
    BY <1>1, <1>7, <2>4, <2>5 DEF Direction
<1> QED
  BY <1>5, <1>8, <1>9

LEMMA ServerSendsFlow ==
  ASSUME NetInv, ThreadInv, FlowInv, NEW x \in Response, Post("SERVER", x),
         responded' = Append(responded, x),
         UNCHANGED <<queueVars, pushed, tcp, socket, sendQueue, writing, written, stream, reader,
                     received>>
  PROVE  Upstream' /\ \A s \in Side : Direction(s)'
<1>1. Upstream'
  BY DEF FlowInv, Upstream, Handed, OnHand, queueVars
<1>2. /\ "SERVER" \in Side /\ x \in Packets
      /\ posted'["SERVER"] = Append(posted["SERVER"], Frame(x))
      /\ \A s \in Side : s # "SERVER" => posted'[s] = posted[s]
  BY NetTypeFacts DEF Side, Packets, Post, NetInv
<1>3. ASSUME NEW s \in Side PROVE (Lost(s)' <=> Lost(s)) /\ Direction(s)
  BY DEF Lost, FlowInv
<1>4. ASSUME NEW s \in Side, s # "SERVER" PROVE Direction(s)'
  <2>1. UNCHANGED <<Sent(s), Handed(s)>>
    BY <1>4 DEF Sent, Handed, OnHand, queueVars, Side
  <2> QED
    BY <1>2, <1>3, <1>4, <2>1, DirectionKept
<1>5. Direction("SERVER")'
  <2> DEFINE n == Len(responded)
             p == Len(posted["SERVER"])
             q == Len(sendQueue["SERVER"])
  <2>1. /\ Sent("SERVER") = responded /\ Sent("SERVER")' = Append(responded, x)
        /\ Handed("SERVER") = n /\ Handed("SERVER")' = Len(responded')
    BY DEF Sent, Handed
  <2>2. n \in Nat /\ p \in Nat /\ q \in Nat /\ Len(responded') = n + 1
        /\ Len(posted'["SERVER"]) = p + 1
    <3>1. posted["SERVER"] \in Seq(FrameType) /\ Frame(x) \in FrameType
      BY <1>2, FrameProperties, NetTypeFacts DEF NetInv
    <3>2. Len(posted'["SERVER"]) = p + 1
      BY <1>2, <3>1, AppendProperties
    <3>3. Len(responded') = n + 1 /\ n \in Nat
      BY AppendProperties, LenProperties DEF ThreadInv
    <3> QED
      BY <1>2, <3>2, <3>3, LenProperties, NetTypeFacts DEF NetInv
  <2>3. Taken("SERVER")' = Taken("SERVER")
    <3>1. Taken("SERVER")' = (n + 1) - (p + 1) - q
      BY <2>1, <2>2 DEF Taken
    <3>2. Taken("SERVER") = n - p - q
      BY <2>1 DEF Taken
    <3> HIDE DEF n, p, q
    <3> QED
      BY <2>2, <3>1, <3>2
  <2> QED
    BY <1>2, <1>3, <2>1, <2>3, DirectionGrows DEF FlowInv
<1> QED
  BY <1>1, <1>4, <1>5

-----------------------------------------------------------------------------
(* The steps of the threads. *)
LEMMA SocketStaysClosed ==
  ASSUME ClosedBeforeCleared, gui' = gui, socket["CLIENT"] = "CLOSED" => socket'["CLIENT"] = "CLOSED"
  PROVE  ClosedBeforeCleared'
BY DEF ClosedBeforeCleared

LEMMA QuietFlow ==
  ASSUME FlowInv, UNCHANGED <<netVars, queue, popped, pushed, responded>>,
         consumer = "SENDING" <=> consumer' = "SENDING", ClosedBeforeCleared'
  PROVE  FlowInv'
<1>1. UNCHANGED OnHand
  BY DEF OnHand
<1>2. Upstream'
  BY <1>1 DEF FlowInv, Upstream, Handed
<1>3. ASSUME NEW s \in Side PROVE Direction(s)'
  <2>1. Direction(s) /\ UNCHANGED <<Sent(s), Handed(s), Lost(s)>>
    BY <1>1 DEF FlowInv, Sent, Handed, Lost, netVars
  <2> QED
    BY <2>1, DirectionKept DEF netVars
<1> QED
  BY <1>2, <1>3 DEF FlowInv

LEMMA GuiFlow ==
  ASSUME NetInv, ThreadInv, FlowInv, GuiPushes \/ GuiNotifies \/ GuiQuits \/ Destructor
  PROVE  FlowInv'
<1>1. CASE GuiPushes
  <2> DEFINE m == Requests[Len(pushed) + 1]
  <2>1. m \in Request
    BY <1>1, NextOfScript
  <2> HIDE DEF m
  <2>2. /\ queue' = Append(queue, m) /\ pushed' = Append(pushed, m)
        /\ UNCHANGED <<netVars, consumer, popped, responded>>
        /\ gui' = "NOTIFY_ONE"
    BY <1>1 DEF GuiPushes, PushMessage, At, m
  <2>3. ClosedBeforeCleared'
    BY <2>2 DEF ClosedBeforeCleared, AfterClear
  <2> QED
    BY <2>1, <2>2, <2>3, PushFlow DEF FlowInv
<1>2. CASE GuiNotifies \/ GuiNotifiesAll
  <2>1. /\ UNCHANGED <<netVars, queue, popped, pushed, responded>>
        /\ consumer = "SENDING" <=> consumer' = "SENDING"
        /\ gui' \in {"RUNNING", "CLOSE"}
    BY <1>2 DEF GuiNotifies, GuiNotifiesAll, Notify, At
  <2>2. ClosedBeforeCleared'
    BY <2>1 DEF ClosedBeforeCleared, AfterClear
  <2> QED
    BY <2>1, <2>2, QuietFlow
<1>3. CASE GuiQuits \/ GuiStopsQueue \/ GuiStopsIO \/ GuiJoinsIO \/ GuiJoinsSender
  <2>1. /\ UNCHANGED <<netVars, queue, popped, pushed, responded, consumer>>
        /\ gui' \in AfterClear \cup {"CLEAR"} => gui \in AfterClear \cup {"CLEAR"}
    BY <1>3 DEF GuiQuits, GuiStopsQueue, StopQueue, GuiStopsIO, GuiJoinsIO, GuiJoinsSender, At,
                queueVars, AfterClear
  <2>2. ClosedBeforeCleared'
    BY <2>1 DEF FlowInv, ClosedBeforeCleared, netVars
  <2> QED
    BY <2>1, <2>2, QuietFlow
<1>4. CASE GuiClosesSocket
  <2>1. /\ UNCHANGED <<queueVars, tcp, reader, received, pushed, responded>>
        /\ ClosesSocket("CLIENT") /\ "CLIENT" \in Side
    BY <1>4 DEF GuiClosesSocket, Side
  <2>2. socket'["CLIENT"] = "CLOSED" /\ \A s \in Side : stream'[s] \in {stream[s], <<>>}
    BY <2>1, NetTypeFacts DEF ClosesSocket, NetInv
  <2>3. \A s \in Side : Lost(s)'
    BY <2>1, <2>2 DEF Lost
  <2>4. \A s \in Side : Direction(s)'
    BY <2>1, <2>2, <2>3, LostFlow
  <2>5. Upstream'
    BY <2>1, NothingHandedOver DEF FlowInv, HandsOverNothing
  <2> QED
    BY <2>2, <2>4, <2>5 DEF FlowInv, ClosedBeforeCleared
<1>5. CASE GuiClearsQueue
  <2>1. /\ UNCHANGED <<queueVars, tcp, socket, stream, reader, received, pushed, responded>>
        /\ gui = "CLEAR" /\ "CLIENT" \in Side
    BY <1>5 DEF GuiClearsQueue, At, Side
  <2>2. socket["CLIENT"] = "CLOSED"
    BY <2>1 DEF FlowInv, ClosedBeforeCleared
  <2>3. \A s \in Side : Lost(s)'
    BY <2>1, <2>2 DEF Lost
  <2>4. \A s \in Side : Direction(s)'
    BY <2>1, <2>3, LostFlow
  <2>5. Upstream'
    BY <2>1, NothingHandedOver DEF FlowInv, HandsOverNothing
  <2> QED
    BY <2>1, <2>2, <2>4, <2>5 DEF FlowInv, ClosedBeforeCleared
<1> QED
  BY <1>1, <1>2, <1>3, <1>4, <1>5 DEF Destructor

LEMMA SenderFlow ==
  ASSUME NetInv, ThreadInv, FlowInv, SenderWaits \/ SenderWakes \/ SenderSends
  PROVE  FlowInv'
<1>1. ClosedBeforeCleared'
  BY DEF FlowInv, ClosedBeforeCleared, SenderWaits, SenderWakes, SenderSends, netVars
<1>2. CASE SenderWaits /\ Pop
  BY <1>1, <1>2, PopFlow DEF SenderWaits, FlowInv
<1>3. CASE (SenderWaits /\ ~Pop) \/ SenderWakes
  <2>1. /\ UNCHANGED <<netVars, queue, popped, pushed, responded>>
        /\ consumer = "SENDING" <=> consumer' = "SENDING"
    BY <1>3 DEF SenderWaits, WaitPop, FallAsleep, Finish, SenderWakes, WakeUp
  <2> QED
    BY <1>1, <2>1, QuietFlow
<1>4. CASE SenderSends
  BY <1>1, <1>4, SenderSendsFlow DEF FlowInv
<1> QED
  BY <1>2, <1>3, <1>4

LEMMA IoFlow ==
  ASSUME NetInv, ThreadInv, FlowInv, IoHandles \/ IoPopsEmptyQueue \/ IoEnds
  PROVE  FlowInv'
<1>1. CASE IoHandles
  <2>1. ClientIO /\ HandsOverNothing /\ gui' = gui /\ "CLIENT" \in Side
    BY <1>1 DEF IoHandles, HandsOverNothing, Side
  <2>2. \A s \in Side : Direction(s)'
    BY <2>1, HandlerFlow, ErrorFlow DEF ClientIO
  <2>3. UNCHANGED socket
    BY <2>1 DEF ClientIO, Handler, Starts, RunsPosted, PacketWritten, HeaderRead, PayloadRead,
                ClientStopsReading, ClientStopsWriting
  <2>4. ClosedBeforeCleared'
    BY <2>1, <2>3, SocketStaysClosed DEF FlowInv
  <2> QED
    BY <2>1, <2>2, <2>4, NothingHandedOver DEF FlowInv
<1>2. CASE IoPopsEmptyQueue
  <2>1. gui \in AfterClear /\ UNCHANGED <<tcp, socket, stream, reader, received>>
        /\ HandsOverNothing
    BY <1>2, IoPopsEmptyQueuePreserves DEF IoPopsEmptyQueue, HandsOverNothing
  <2>2. socket["CLIENT"] = "CLOSED" /\ "CLIENT" \in Side
    BY <2>1 DEF FlowInv, ClosedBeforeCleared, Side
  <2>3. \A s \in Side : Lost(s)'
    BY <2>1, <2>2 DEF Lost
  <2>4. \A s \in Side : Direction(s)'
    BY <2>1, <2>3, LostFlow DEF HandsOverNothing
  <2> QED
    BY <2>1, <2>2, <2>4, NothingHandedOver DEF FlowInv, ClosedBeforeCleared
<1>3. CASE IoEnds
  <2>1. UNCHANGED <<queueVars, netVars, gui, pushed, responded>>
    BY <1>3 DEF IoEnds
  <2>2. ClosedBeforeCleared'
    BY <2>1 DEF FlowInv, ClosedBeforeCleared, netVars
  <2> QED
    BY <2>1, <2>2, QuietFlow DEF queueVars
<1> QED
  BY <1>1, <1>2, <1>3

LEMMA OthersFlow ==
  ASSUME NetInv, ThreadInv, FlowInv,
         ServerHandles \/ ServerSends \/ SystemActs \/ LinkBreaks
  PROVE  FlowInv'
<1>1. gui' = gui /\ "CLIENT" \in Side /\ "SERVER" \in Side
  BY DEF ServerHandles, ServerSends, SystemActs, LinkBreaks, Side
<1>2. CASE ServerHandles
  <2>1. ServerIO /\ HandsOverNothing
    BY <1>2 DEF ServerHandles, HandsOverNothing
  <2>2. \A s \in Side : Direction(s)'
    BY <1>1, <2>1, HandlerFlow, ErrorFlow DEF ServerIO
  <2>3. socket["CLIENT"] = "CLOSED" => socket'["CLIENT"] = "CLOSED"
    <3>1. ServerCloses => socket'["CLIENT"] = socket["CLIENT"]
      BY <1>1, NetTypeFacts DEF ServerCloses, ClosesSocket, NetInv
    <3> QED
      BY <2>1, <3>1 DEF ServerIO, Handler, Starts, RunsPosted, PacketWritten, HeaderRead,
                        PayloadRead, ServerFailsToRead, ServerFailsToWrite
  <2>4. ClosedBeforeCleared'
    BY <1>1, <2>3, SocketStaysClosed DEF FlowInv
  <2> QED
    BY <2>1, <2>2, <2>4, NothingHandedOver DEF FlowInv
<1>3. CASE ServerSends
  <2> DEFINE x == Responses[Len(responded) + 1]
  <2>1. x \in Response
    BY <1>3, NextOfScript
  <2> HIDE DEF x
  <2>2. /\ Post("SERVER", x) /\ responded' = Append(responded, x)
        /\ UNCHANGED <<queueVars, pushed, tcp, socket, sendQueue, writing, written, stream, reader,
                       received>>
    BY <1>3 DEF ServerSends, x
  <2>3. Upstream' /\ \A s \in Side : Direction(s)'
    BY <2>1, <2>2, ServerSendsFlow
  <2>4. ClosedBeforeCleared'
    BY <1>1, <2>2, SocketStaysClosed DEF FlowInv
  <2> QED
    BY <2>3, <2>4 DEF FlowInv
<1>4. CASE SystemActs
  <2>1. System /\ HandsOverNothing
    BY <1>4 DEF SystemActs, HandsOverNothing
  <2>2. \A s \in Side : Direction(s)'
    BY <2>1, SystemFlow
  <2>3. UNCHANGED socket
    BY <2>1 DEF System, Connects, TransmitsByte, WriteFails, ReadCompletes, ReadFails
  <2>4. ClosedBeforeCleared'
    BY <1>1, <2>3, SocketStaysClosed DEF FlowInv
  <2> QED
    BY <2>1, <2>2, <2>4, NothingHandedOver DEF FlowInv
<1>5. CASE LinkBreaks
  <2>1. /\ UNCHANGED <<queueVars, pushed, responded, socket, stream, reader, received>>
        /\ tcp' = "DOWN"
    BY <1>5 DEF LinkBreaks, Breaks
  <2>2. \A s \in Side : Direction(s)'
    BY <2>1, LostFlow DEF Lost
  <2>3. ClosedBeforeCleared' /\ Upstream'
    BY <1>1, <2>1, SocketStaysClosed, NothingHandedOver DEF FlowInv, HandsOverNothing
  <2> QED
    BY <2>2, <2>3 DEF FlowInv
<1> QED
  BY <1>2, <1>3, <1>4, <1>5

LEMMA InitFlow == Init => FlowInv
<1> SUFFICES ASSUME Init PROVE FlowInv
  OBVIOUS
<1>1. ClosedBeforeCleared
  BY DEF Init, ClosedBeforeCleared, AfterClear
<1>2. /\ queue = <<>> /\ pushed = <<>> /\ responded = <<>> /\ consumer = "CHECKING"
      /\ Len(<<>>) = 0 /\ OnHand = 0
  BY DEF Init, QueueInit, OnHand
<1>3. Upstream
  BY <1>2 DEF Upstream, Handed
<1>4. ASSUME NEW s \in Side PROVE Direction(s)
  <2> DEFINE off == [i \in 0 .. 0 |-> 0]
  <2>1. Peer(s) \in Side
    BY Sides
  <2>2. /\ Sent(s) = <<>> /\ Handed(s) = 0 /\ posted[s] = <<>> /\ sendQueue[s] = <<>>
        /\ stream[s] = <<>> /\ received[Peer(s)] = <<>> /\ writing[s] = "NONE"
        /\ reader[Peer(s)].phase = "NOT_STARTED" /\ reader[Peer(s)].op = "NONE"
    BY <1>2, <2>1 DEF Init, NetInit, Sent, Handed
  <2>3. Taken(s) = 0 /\ Done(s) = 0
    <3>1. Len(posted[s]) = 0 /\ Len(sendQueue[s]) = 0
      BY <1>2, <2>2
    <3>2. Taken(s) = 0 - 0 - 0
      BY <2>2, <3>1 DEF Taken
    <3>3. Done(s) = 0
      BY <2>2 DEF Done
    <3> QED
      BY <3>2, <3>3
  <2>4. IsOffsets(off, <<>>)
    BY <1>2 DEF IsOffsets
  <2>5. Arriving(off, <<>>, reader[Peer(s)], 0, <<>>) /\ ReadUpTo(off, reader[Peer(s)], 0) = 0
    BY <1>2, <2>2 DEF Arriving, ReadUpTo
  <2>6. Flow(s, off)
    <3>1. off[0] = 0
      OBVIOUS
    <3> HIDE DEF off
    <3> QED
      BY <1>2, <2>2, <2>3, <2>5, <3>1 DEF Flow, Alive
  <2>7. Pipe(s)
    BY <1>2, <2>2, <2>3 DEF Pipe
  <2> QED
    BY <2>2, <2>4, <2>6, <2>7 DEF Direction
<1> QED
  BY <1>1, <1>3, <1>4 DEF FlowInv

LEMMA NextFlow == IInv /\ FlowInv /\ [Next]_vars => FlowInv'
<1> SUFFICES ASSUME IInv, FlowInv, [Next]_vars PROVE FlowInv'
  OBVIOUS
<1>1. NetInv /\ ThreadInv
  BY IInvParts
<1>2. CASE UNCHANGED vars
  <2>1. UNCHANGED <<queueVars, netVars, gui, pushed, responded>>
    BY <1>2 DEF vars
  <2>2. ClosedBeforeCleared'
    BY <2>1 DEF FlowInv, ClosedBeforeCleared, netVars
  <2> QED
    BY <2>1, <2>2, QuietFlow DEF queueVars
<1>3. CASE Next
  <2>1. \/ GuiPushes \/ GuiNotifies \/ GuiQuits \/ Destructor
        \/ SenderWaits \/ SenderWakes \/ SenderSends
        \/ IoHandles \/ IoPopsEmptyQueue \/ IoEnds
        \/ ServerHandles \/ ServerSends \/ SystemActs \/ LinkBreaks
    BY <1>3 DEF Next, ClientThreads
  <2> QED
    BY <1>1, <2>1, GuiFlow, SenderFlow, IoFlow, OthersFlow
<1> QED
  BY <1>2, <1>3

LEMMA FlowInvariance == Spec => [](IInv /\ FlowInv)
<1>1. Init => FlowInv
  BY InitFlow
<1>2. IInv /\ FlowInv /\ [Next]_vars => FlowInv'
  BY NextFlow
<1> QED
  BY <1>1, <1>2, Invariance, PTL DEF Spec

(* What is read as a length is the length of the packet that comes next:   *)
(* however bytes are cut into writes and reads, the readers never take a   *)
(* byte of a payload for one (Connection::readHeader and readPayload).     *)
THEOREM LengthsAreRead == Spec => []LengthsAreLengths
<1>1. ASSUME ThreadInv, FlowInv PROVE LengthsAreLengths
  <2> SUFFICES ASSUME NEW r \in Side, reader[r].op = "OK", reader[r].phase = "HEADER"
               PROVE  LET sent == IF r = "SERVER" THEN pushed ELSE responded
                          next == Len(received[r]) + 1
                      IN next <= Len(sent) /\ reader[r].buffer = <<Len(sent[next])>>
    BY DEF LengthsAreLengths
  <2>1. Direction(Peer(r))
    BY <1>1, Sides DEF FlowInv
  <2>2. Sent(Peer(r)) = IF r = "SERVER" THEN pushed ELSE responded
    BY DEF Sent, Peer, Side
  <2> QED
    BY <1>1, <2>1, <2>2, NextLength
<1>2. IInv /\ FlowInv => LengthsAreLengths
  BY <1>1, IInvParts
<1> QED
  BY <1>2, FlowInvariance, PTL

(* What a step does to the packets for r. *)
LEMMA PayloadsArrive ==
  ASSUME NetInv, ThreadInv, NEW r \in Side, Direction(Peer(r)), PayloadRead(r)
  PROVE  /\ Len(received[r]) < Len(Sent(Peer(r)))
         /\ received'[r] = Append(received[r], Sent(Peer(r))[Len(received[r]) + 1])
         /\ received'[Peer(r)] = received[Peer(r)]
<1> DEFINE s == Peer(r)
           k == Len(received[r])
<1>1. s \in Side /\ s # r /\ Peer(s) = r
  BY Sides
<1>2. PICK off : Flow(s, off)
  BY DEF Direction
<1>3. reader[r].op = "OK" /\ reader[r].phase = "PAYLOAD"
  BY DEF PayloadRead
<1>4. Arriving(off, Sent(s), reader[r], k, stream[s])
  BY <1>1, <1>2, <1>3 DEF Flow, Alive
<1>5. k < Len(Sent(s)) /\ reader[r].buffer = Sent(s)[k + 1]
  BY <1>3, <1>4 DEF Arriving
<1>6. /\ received'[r] = Append(received[r], reader[r].buffer)
      /\ received'[s] = received[s]
  BY <1>1, NetTypeFacts DEF PayloadRead, NetInv
<1> QED
  BY <1>5, <1>6

LEMMA ChannelStep ==
  ASSUME NetInv, ThreadInv, FlowInv, [Next]_vars, NEW r \in Side
  PROVE  \/ UNCHANGED <<Sent(Peer(r)), received[r]>>
         \/ /\ \E p \in IF r = "SERVER" THEN Request ELSE Response :
                 Sent(Peer(r))' = Append(Sent(Peer(r)), p)
            /\ UNCHANGED received[r]
         \/ /\ Len(received[r]) < Len(Sent(Peer(r)))
            /\ received'[r] = Append(received[r], Sent(Peer(r))[Len(received[r]) + 1])
            /\ UNCHANGED Sent(Peer(r))
<1>1. CASE GuiPushes
  <2>1. Requests[Len(pushed) + 1] \in Request
    BY <1>1, NextOfScript
  <2> QED
    BY <1>1, <2>1 DEF GuiPushes, netVars, Sent, Peer, Side
<1>2. CASE ServerSends
  <2>1. Responses[Len(responded) + 1] \in Response
    BY <1>2, NextOfScript
  <2> QED
    BY <1>2, <2>1 DEF ServerSends, Sent, Peer, Side
<1>3. ASSUME NEW t \in Side, PayloadRead(t), UNCHANGED <<pushed, responded>>
      PROVE  \/ UNCHANGED <<Sent(Peer(r)), received[r]>>
             \/ /\ Len(received[r]) < Len(Sent(Peer(r)))
                /\ received'[r] = Append(received[r], Sent(Peer(r))[Len(received[r]) + 1])
                /\ UNCHANGED Sent(Peer(r))
  <2>1. UNCHANGED Sent(Peer(r))
    BY <1>3 DEF Sent
  <2>2. CASE t = r
    BY <1>3, <2>1, <2>2, Sides, PayloadsArrive DEF FlowInv
  <2>3. CASE t # r
    <3>1. r = Peer(t) /\ Direction(Peer(t))
      BY <2>3, Sides DEF FlowInv
    <3> QED
      BY <1>3, <2>1, <3>1, PayloadsArrive
  <2> QED
    BY <2>2, <2>3
<1>4. CASE UNCHANGED <<pushed, responded, received>>
  BY <1>4 DEF Sent
<1>5. \/ GuiPushes \/ ServerSends \/ UNCHANGED <<pushed, responded, received>>
      \/ /\ PayloadRead("CLIENT") \/ PayloadRead("SERVER")
         /\ UNCHANGED <<pushed, responded>>
  <2>1. CASE UNCHANGED vars \/ GuiNotifies \/ GuiQuits \/ Destructor \/ IoPopsEmptyQueue \/ IoEnds
    BY <2>1 DEF vars, netVars, GuiNotifies, GuiQuits, Destructor, GuiStopsQueue, GuiNotifiesAll,
                GuiClosesSocket, GuiClearsQueue, GuiStopsIO, GuiJoinsIO, GuiJoinsSender,
                IoPopsEmptyQueue, IoEnds
  <2>2. CASE SenderWaits \/ SenderWakes \/ SenderSends
    BY <2>2 DEF SenderWaits, SenderWakes, SenderSends, netVars
  <2>3. CASE SystemActs \/ LinkBreaks
    BY <2>3 DEF SystemActs, LinkBreaks, Breaks, System, Connects, TransmitsByte, WriteFails,
                ReadCompletes, ReadFails
  <2>4. CASE IoHandles
    BY <2>4 DEF IoHandles, ClientIO, Handler, Starts, RunsPosted, PacketWritten, HeaderRead,
                ClientStopsReading, ClientStopsWriting
  <2>5. CASE ServerHandles
    BY <2>5 DEF ServerHandles, ServerIO, Handler, Starts, RunsPosted, PacketWritten, HeaderRead,
                ServerFailsToRead, ServerFailsToWrite
  <2> QED
    BY <2>1, <2>2, <2>3, <2>4, <2>5 DEF Next, ClientThreads
<1> QED
  BY <1>1, <1>2, <1>3, <1>4, <1>5 DEF Side

(* ClientProcess implements Channel: what the GUI pushes is what reaches   *)
(* onPacket of the server, once, in order and with nothing missed out, for *)
(* every script and whatever is closed, lost or cleared on the way         *)
(* (ThreadSafeMQ, ChessClient::send, Connection::send, write and           *)
(* readPayload).                                                           *)
THEOREM RequestsArriveInOrder == Spec => RequestsInOrder
<1>1. Init => RequestChannel!ChannelInit
  BY DEF Init, NetInit, RequestChannel!ChannelInit, Side
<1>2. IInv /\ FlowInv /\ [Next]_vars =>
        [RequestChannel!Send \/ RequestChannel!Receive]_<<pushed, received["SERVER"]>>
  <2> SUFFICES ASSUME IInv, FlowInv, [Next]_vars
               PROVE  [RequestChannel!Send \/ RequestChannel!Receive]_<<pushed, received["SERVER"]>>
    OBVIOUS
  <2>1. NetInv /\ ThreadInv /\ "SERVER" \in Side
    BY IInvParts DEF Side
  <2>2. Sent(Peer("SERVER")) = pushed /\ Sent(Peer("SERVER"))' = pushed'
    BY DEF Sent, Peer
  <2> QED
    BY <2>1, <2>2, ChannelStep DEF RequestChannel!Send, RequestChannel!Receive
<1> QED
  BY <1>1, <1>2, FlowInvariance, PTL DEF Spec, RequestsInOrder, RequestChannel!ChannelSpec

(* The same for what the server sends: no response is missed out, taken    *)
(* for another or passed to onPacket of the client twice.                  *)
THEOREM ResponsesArriveInOrder == Spec => ResponsesInOrder
<1>1. Init => ResponseChannel!ChannelInit
  BY DEF Init, NetInit, ResponseChannel!ChannelInit, Side
<1>2. IInv /\ FlowInv /\ [Next]_vars =>
        [ResponseChannel!Send \/ ResponseChannel!Receive]_<<responded, received["CLIENT"]>>
  <2> SUFFICES ASSUME IInv, FlowInv, [Next]_vars
               PROVE  [ResponseChannel!Send \/ ResponseChannel!Receive]_<<responded, received["CLIENT"]>>
    OBVIOUS
  <2>1. NetInv /\ ThreadInv /\ "CLIENT" \in Side
    BY IInvParts DEF Side
  <2>2. Sent(Peer("CLIENT")) = responded /\ Sent(Peer("CLIENT"))' = responded'
    BY DEF Sent, Peer
  <2> QED
    BY <2>1, <2>2, ChannelStep DEF ResponseChannel!Send, ResponseChannel!Receive
<1> QED
  BY <1>1, <1>2, FlowInvariance, PTL DEF Spec, ResponsesInOrder, ResponseChannel!ChannelSpec
=============================================================================
