---------------------------- MODULE ClientProcess ----------------------------
(***************************************************************************)
(* A client program from connect to the end of main, with the connection   *)
(* to the server: the GUI thread, which runs the destructor of ChessClient *)
(* in the end, the sender and the io thread of the client, and the thread  *)
(* of the server.  What the packets mean is left to ChessMatch and Lobby.  *)
(***************************************************************************)
EXTENDS MessageQueue, Connection

CONSTANTS
  Requests, \* what the player asks for, one packet after the other
  Responses, \* what the server sends to this player
  MaxPackets \* bound: packets in both directions

ASSUME ScriptAssumption ==
  /\ Requests \in Seq(Payload) /\ Responses \in Seq(Payload)
  /\ \A i \in DOMAIN Requests : Len(Requests[i]) \in 1 .. 6
  /\ \A i \in DOMAIN Responses : Len(Responses[i]) \in 1 .. 134
  /\ MaxPackets \in Nat

Request == {Requests[i] : i \in DOMAIN Requests}
Response == {Responses[i] : i \in DOMAIN Responses}

VARIABLES
  gui,       \* where the GUI thread is
  io,        \* does the io thread run?
  ioStopped, \* m_io.stop() has been called
  pushed,    \* requests pushed so far
  responded  \* packets the server has passed to send so far

vars == <<queueVars, netVars, gui, io, ioStopped, pushed, responded>>

(* RTWgui::run, with the notification of a push that is still to come;     *)
(* then the destructor, step by step; DONE when it has returned, CRASHED   *)
(* if the program has been ended by undefined behaviour.                   *)
Destruction == {"STOP", "NOTIFY_ALL", "CLOSE", "CLEAR", "STOP_IO", "JOIN_IO", "JOIN_SENDER"}
GuiState == {"RUNNING", "NOTIFY_ONE", "DONE", "CRASHED"} \cup Destruction

Init ==
  /\ QueueInit /\ NetInit
  /\ gui = "RUNNING"
  /\ io = "RUNNING"
  /\ ioStopped = FALSE
  /\ pushed = <<>>
  /\ responded = <<>>

MorePackets == Len(pushed) + Len(responded) < MaxPackets

At(here, next) == gui = here /\ gui' = next

-----------------------------------------------------------------------------
(* The GUI thread. *)

(* A request of the player, whichever it is: g_MQ.gui2net.push. *)
GuiPushes ==
  /\ Len(pushed) < Len(Requests) /\ MorePackets
  /\ LET m == Requests[Len(pushed) + 1] IN
     /\ PushMessage(m)
     /\ pushed' = Append(pushed, m)
  /\ At("RUNNING", "NOTIFY_ONE")
  /\ UNCHANGED <<netVars, io, ioStopped, responded>>

(* Mutant: push does not notify. *)
MutantPushIsSilent ==
  At("NOTIFY_ONE", "RUNNING") /\ UNCHANGED <<queueVars, netVars, io, ioStopped, pushed, responded>>

GuiNotifies ==
  At("NOTIFY_ONE", "RUNNING") /\ Notify /\ UNCHANGED <<netVars, io, ioStopped, pushed, responded>>

(* RTWgui::run returns: CTRL+Q, or a ShutdownMsg. *)
GuiQuits ==
  At("RUNNING", "STOP") /\ UNCHANGED <<queueVars, netVars, io, ioStopped, pushed, responded>>

GuiStopsQueue ==
  At("STOP", "NOTIFY_ALL") /\ StopQueue /\ UNCHANGED <<netVars, io, ioStopped, pushed, responded>>

GuiNotifiesAll ==
  At("NOTIFY_ALL", "CLOSE") /\ Notify /\ UNCHANGED <<netVars, io, ioStopped, pushed, responded>>

(* Mutant: the queue is cleared first. *)
MutantClearsFirst ==
  /\ At("CLOSE", "CLEAR")
  /\ sendQueue' = [sendQueue EXCEPT !["CLIENT"] = <<>>]
  /\ UNCHANGED <<queueVars, tcp, socket, stream, posted, writing, written, reader, received,
                 disconnected, io, ioStopped, pushed, responded>>

(* Connection::close of the client, on the thread of the GUI, while the io *)
(* thread is running: first the socket, then the queue.                    *)
GuiClosesSocket ==
  /\ At("CLOSE", "CLEAR")
  /\ ClosesSocket("CLIENT")
  /\ UNCHANGED <<queueVars, tcp, posted, sendQueue, writing, written, reader, received,
                 disconnected, io, ioStopped, pushed, responded>>

GuiClearsQueue ==
  /\ At("CLEAR", "STOP_IO")
  /\ sendQueue' = [sendQueue EXCEPT !["CLIENT"] = <<>>]
  /\ UNCHANGED <<queueVars, tcp, socket, posted, writing, written, stream, reader,
                 received, disconnected, io, ioStopped, pushed, responded>>

GuiStopsIO ==
  /\ At("STOP_IO", "JOIN_IO")
  /\ ioStopped' = TRUE
  /\ UNCHANGED <<queueVars, netVars, io, pushed, responded>>

GuiJoinsIO ==
  /\ At("JOIN_IO", "JOIN_SENDER")
  /\ io = "ENDED"
  /\ UNCHANGED <<queueVars, netVars, io, ioStopped, pushed, responded>>

GuiJoinsSender ==
  /\ At("JOIN_SENDER", "DONE")
  /\ consumer = "FINISHED"
  /\ UNCHANGED <<queueVars, netVars, io, ioStopped, pushed, responded>>

Destructor ==
  \/ GuiStopsQueue \/ GuiNotifiesAll \/ GuiClosesSocket \/ GuiClearsQueue
  \/ GuiStopsIO \/ GuiJoinsIO \/ GuiJoinsSender

-----------------------------------------------------------------------------
(* The other threads. *)

SenderWaits == WaitPop /\ UNCHANGED <<netVars, gui, io, ioStopped, pushed, responded>>
SenderWakes == WakeUp /\ UNCHANGED <<netVars, gui, io, ioStopped, pushed, responded>>

(* ChessClient::send and Connection::send: a handler is posted. *)
SenderSends ==
  /\ consumer = "SENDING"
  /\ consumer' = "CHECKING"
  /\ popped' = <<>>
  /\ Post("CLIENT", popped)
  /\ UNCHANGED <<queue, stopped, tcp, socket, sendQueue, writing, written, stream, reader,
                 received, disconnected, gui, io, ioStopped, pushed, responded>>

(* io_context::run does not begin another handler once it has been stopped. *)
IoHandles ==
  /\ io = "RUNNING" /\ ~ioStopped
  /\ ClientIO
  /\ UNCHANGED <<queueVars, gui, io, ioStopped, pushed, responded>>

(* The handler of a write finds m_sendQueue empty, because close() has     *)
(* cleared it.  pop_front is undefined then: the program crashes, or the   *)
(* queue is taken to have a front and is written.                          *)
IoPopsEmptyQueue ==
  /\ io = "RUNNING" /\ ~ioStopped
  /\ writing["CLIENT"] = "OK" /\ sendQueue["CLIENT"] = <<>>
  /\ \/ gui' = "CRASHED" /\ io' = "ENDED" /\ UNCHANGED writing
     \/ writing' = [writing EXCEPT !["CLIENT"] = "PENDING"] /\ UNCHANGED <<gui, io>>
  /\ UNCHANGED <<queueVars, tcp, socket, posted, sendQueue, written, stream, reader,
                 received, disconnected, ioStopped, pushed, responded>>

IoEnds ==
  /\ io = "RUNNING" /\ ioStopped
  /\ io' = "ENDED"
  /\ UNCHANGED <<queueVars, netVars, gui, ioStopped, pushed, responded>>

ServerHandles == ServerIO /\ UNCHANGED <<queueVars, gui, io, ioStopped, pushed, responded>>

(* A packet for this player, as long as the server has the connection. *)
ServerSends ==
  /\ reader["SERVER"].phase # "NOT_STARTED" /\ ~disconnected
  /\ Len(responded) < Len(Responses) /\ MorePackets
  /\ LET p == Responses[Len(responded) + 1] IN
     /\ Post("SERVER", p)
     /\ responded' = Append(responded, p)
  /\ UNCHANGED <<queueVars, tcp, socket, sendQueue, writing, written, stream, reader,
                 received, disconnected, gui, io, ioStopped, pushed>>

SystemActs == System /\ UNCHANGED <<queueVars, gui, io, ioStopped, pushed, responded>>
LinkBreaks == Breaks /\ UNCHANGED <<queueVars, gui, io, ioStopped, pushed, responded>>

-----------------------------------------------------------------------------
ClientThreads ==
  \/ GuiPushes \/ GuiNotifies \/ GuiQuits \/ Destructor
  \/ SenderWaits \/ SenderWakes \/ SenderSends
  \/ IoHandles \/ IoPopsEmptyQueue \/ IoEnds

Next ==
  \/ gui # "CRASHED" /\ ClientThreads
  \/ ServerHandles \/ ServerSends \/ SystemActs \/ LinkBreaks

Spec == Init /\ [][Next]_vars

(* Threads that can go on do, and the system carries out what it has been  *)
(* asked for.  The player need neither ask for anything nor quit.          *)
Fairness ==
  /\ WF_vars(gui # "CRASHED" /\ (GuiNotifies \/ Destructor))
  /\ WF_vars(gui # "CRASHED" /\ (SenderWaits \/ SenderSends))
  /\ WF_vars(gui # "CRASHED" /\ (IoHandles \/ IoPopsEmptyQueue \/ IoEnds))
  /\ WF_vars(ServerHandles)
  /\ WF_vars(SystemActs)

FairSpec == Spec /\ Fairness

-----------------------------------------------------------------------------
TypeOK ==
  /\ NetTypeOK
  /\ queue \in Seq(Request) /\ stopped \in BOOLEAN
  /\ consumer \in ConsumerState /\ popped \in {<<>>} \cup Request
  /\ gui \in GuiState /\ io \in {"RUNNING", "ENDED"} /\ ioStopped \in BOOLEAN
  /\ pushed \in Seq(Request) /\ responded \in Seq(Response)

(* The sender never sleeps on something to do: if there is a message or    *)
(* the queue has been stopped, the thread that did it is about to notify   *)
(* (ThreadSafeMQ::waitPop, push and stop, which notify after unlocking).   *)
NoLostWakeUp ==
  consumer = "ASLEEP" /\ (queue # <<>> \/ stopped) => gui \in {"NOTIFY_ONE", "NOTIFY_ALL"}

(* A side with packets to write and no write under way has lost the        *)
(* connection: nothing else makes a Connection fall silent, though a write *)
(* is only ever started by the handler of the one before or into an empty  *)
(* queue (Connection::send, Connection::write).                            *)
SilentOnlyIfLost == \A s \in Side :
  sendQueue[s] # <<>> /\ writing[s] = "NONE" => Lost(s)

(* A write that has completed finds its packet at the front of the queue,  *)
(* unless the destructor has cleared the queue under it                    *)
(* (Connection::write, Connection::close).                                 *)
PopsWhatItWrote == \A s \in Side :
  writing[s] = "OK" =>
    \/ sendQueue[s] # <<>> /\ written[s] = Len(Head(sendQueue[s]))
    \/ s = "CLIENT" /\ gui \in {"STOP_IO", "JOIN_IO", "JOIN_SENDER", "DONE", "CRASHED"}

(* The readers keep step with the writers: what a reader takes for a       *)
(* length is the length of the packet that comes next, and no byte of a    *)
(* payload, however packets are cut into writes and reads                  *)
(* (Connection::readHeader and readPayload, Serializer::serialize).        *)
LengthsAreLengths == \A s \in Side :
  reader[s].op = "OK" /\ reader[s].phase = "HEADER" =>
    LET sent == IF s = "SERVER" THEN pushed ELSE responded
        next == Len(received[s]) + 1
    IN next <= Len(sent) /\ reader[s].buffer = <<Len(sent[next])>>

(* What the GUI pushes reaches onPacket of the server once and in order,   *)
(* through the queue, the sender, posted handlers, the send queue, partial *)
(* writes and reads, and whatever failures and closing cut off.            *)
RequestChannel == INSTANCE Channel WITH
  Packet <- Request, sent <- pushed, received <- received["SERVER"]
RequestsInOrder == RequestChannel!ChannelSpec

(* The same for what the server sends. *)
ResponseChannel == INSTANCE Channel WITH
  Packet <- Response, sent <- responded, received <- received["CLIENT"]
ResponsesInOrder == ResponseChannel!ChannelSpec

(* In the end every request has arrived, unless the player has quit or the *)
(* connection is lost (ThreadSafeMQ::waitPop, Connection::send).           *)
RequestsArrive ==
  <>[](\/ Len(received["SERVER"]) = Len(pushed)
       \/ tcp = "DOWN"
       \/ gui \notin {"RUNNING", "NOTIFY_ONE"})

(* The destructor does not hang: both threads can be joined, whatever they *)
(* were doing, and it returns (ChessClient::~ChessClient).  Only the end   *)
(* of the whole program in undefined behaviour, which ShutdownIsGraceful   *)
(* is about, keeps it from that.                                           *)
DestructorNeverHangs ==
  <>[](gui \in {"RUNNING", "NOTIFY_ONE", "DONE"}) \/ <>(gui = "CRASHED")

(* In the end the server has found out that a client has gone or that the  *)
(* connection is lost, and has called onDisconnect (Connection::close).    *)
ServerNotices ==
  <>[](reader["SERVER"].phase # "NOT_STARTED" /\ Lost("SERVER") => disconnected)

(* "Perform a graceful shutdown of all the networking side"                *)
(* (ChessClient.cpp:7): a handler of a write that may still run finds its  *)
(* packet in m_sendQueue, although close() clears the queue on another     *)
(* thread.                                                                 *)
ShutdownIsGraceful ==
  io = "RUNNING" /\ ~ioStopped /\ writing["CLIENT"] = "OK" => sendQueue["CLIENT"] # <<>>
=============================================================================
