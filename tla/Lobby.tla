-------------------------------- MODULE Lobby --------------------------------
(***************************************************************************)
(* The server above its sessions: connections that come and go, the player *)
(* who waits for an opponent, and the sessions, with as much of each       *)
(* client as reacts to it.  A client is one run of the client program: it  *)
(* connects once.  The server runs its handlers on one thread, so that     *)
(* each of them is a step.                                                 *)
(***************************************************************************)
EXTENDS ChessTypes, Sequences

CONSTANTS
  Client,     \* the runs of the client program
  Nobody,     \* nullptr
  MaxRestarts \* bound: times the players may press R in a behaviour

ASSUME LobbyAssumption == Nobody \notin Client /\ MaxRestarts \in Nat

VARIABLES
  connections,   \* m_connections
  waitingPlayer, \* m_waitingPlayer
  sessions,      \* m_sessions, without the games
  inbox,         \* inbox[c]: packets on their way to client c
  requests,      \* requests[c]: packets on their way from client c
  client,        \* client[c]: what client c knows and does
  broken,        \* the clients that run although their connection was reset
  restarts       \* times R has been pressed; only bounds the model

vars == <<connections, waitingPlayer, sessions, inbox, requests, client, broken, restarts>>

Session == [white : Client, black : Client]
Players(s) == {s.white, s.black}
Seated(c) == \E s \in sessions : c \in Players(s)
SessionOf(c) == CHOOSE s \in sessions : c \in Players(s)

(* The packets that the lobby sends; a game is left out of RESTART. *)
Packet == {"WHITE", "BLACK", "RESTART", "PLAYER_DISCONNECT"}

(* life: the program is not running, runs, has been told to quit, is gone. *)
(* started: a RESTART has been received, the pieces are on the board.      *)
ClientState == [life : {"OFF", "PLAYING", "QUITTING", "GONE"},
                teamColor : Color \cup {"UNKNOWN"}, started : BOOLEAN]

NotRunning(life) == [life |-> life, teamColor |-> "UNKNOWN", started |-> FALSE]

Init ==
  /\ connections = {}
  /\ waitingPlayer = Nobody
  /\ sessions = {}
  /\ inbox = [c \in Client |-> <<>>]
  /\ requests = [c \in Client |-> <<>>]
  /\ client = [c \in Client |-> NotRunning("OFF")]
  /\ broken = {}
  /\ restarts = 0

-----------------------------------------------------------------------------
(* The server. *)

(* Packets to and from these clients are lost. *)
CutOff(c) == client[c].life = "GONE" \/ c \in broken

Sent(box, to, packet) ==
  IF CutOff(to) THEN box ELSE [box EXCEPT ![to] = Append(@, packet)]

(* performRestart: black is sent to first. *)
Restarted(box, s) == Sent(Sent(box, s.black, "RESTART"), s.white, "RESTART")

Joins(c) ==
  /\ client[c].life = "OFF"
  /\ client' = [client EXCEPT ![c].life = "PLAYING"]
  /\ connections' = connections \cup {c}
  /\ UNCHANGED <<requests, broken, restarts>>

(* onConnect, with nobody waiting. *)
StartsWaiting(c) ==
  /\ Joins(c)
  /\ waitingPlayer = Nobody
  /\ waitingPlayer' = c
  /\ inbox' = Sent(inbox, c, "WHITE")
  /\ UNCHANGED sessions

(* Mutants: the waiting player is reset before it is read; the newcomer is *)
(* seated as white.                                                        *)
MutantPairsNobody(c) ==
  /\ Joins(c)
  /\ waitingPlayer # Nobody
  /\ waitingPlayer' = Nobody
  /\ sessions' = sessions \cup {[white |-> waitingPlayer', black |-> c]}
  /\ inbox' = Sent(Sent(inbox, c, "BLACK"), c, "RESTART")

MutantSwapsSeats(c) ==
  /\ Joins(c)
  /\ waitingPlayer # Nobody
  /\ waitingPlayer' = Nobody
  /\ LET s == [white |-> c, black |-> waitingPlayer] IN
     /\ sessions' = sessions \cup {s}
     /\ inbox' = Restarted(Sent(inbox, c, "BLACK"), s)

(* onConnect and createSession, with an opponent waiting. *)
IsPaired(c) ==
  /\ Joins(c)
  /\ waitingPlayer # Nobody
  /\ waitingPlayer' = Nobody
  /\ LET s == [white |-> waitingPlayer, black |-> c] IN
     /\ sessions' = sessions \cup {s}
     /\ inbox' = Restarted(Sent(inbox, c, "BLACK"), s)

OnConnect(c) == StartsWaiting(c) \/ IsPaired(c)

(* Mutants of removeSession: the session stays; the opponent is not told;  *)
(* only the sessions in which c is white are searched.                     *)
MutantKeepsSession(c) ==
  IF Seated(c)
  THEN \E opponent \in Players(SessionOf(c)) \ {c} :
         /\ inbox' = Sent(inbox, opponent, "PLAYER_DISCONNECT")
         /\ waitingPlayer' = opponent
         /\ UNCHANGED sessions
  ELSE UNCHANGED <<inbox, waitingPlayer, sessions>>

MutantTellsNobody(c) ==
  IF Seated(c)
  THEN /\ \E opponent \in Players(SessionOf(c)) \ {c} : waitingPlayer' = opponent
       /\ sessions' = sessions \ {SessionOf(c)}
       /\ UNCHANGED inbox
  ELSE UNCHANGED <<inbox, waitingPlayer, sessions>>

MutantFindsWhite(c) ==
  IF \E s \in sessions : s.white = c
  THEN LET s == SessionOf(c) IN
       /\ inbox' = Sent(inbox, s.black, "PLAYER_DISCONNECT")
       /\ waitingPlayer' = s.black
       /\ sessions' = sessions \ {s}
  ELSE UNCHANGED <<inbox, waitingPlayer, sessions>>

(* The opponent of c becomes the waiting player, whoever waited before. *)
RemoveSession(c) ==
  IF Seated(c)
  THEN LET s == SessionOf(c)
           opponent == IF s.white = c THEN s.black ELSE s.white
       IN /\ inbox' = Sent(inbox, opponent, "PLAYER_DISCONNECT")
          /\ waitingPlayer' = opponent
          /\ sessions' = sessions \ {s}
  ELSE UNCHANGED <<inbox, waitingPlayer, sessions>>

(* Mutant: the waiting player is not looked at. *)
MutantOnlyRemovesSession(c) ==
  /\ connections' = connections \ {c}
  /\ RemoveSession(c)

OnDisconnect(c) ==
  /\ connections' = connections \ {c}
  /\ IF waitingPlayer = c
     THEN waitingPlayer' = Nobody /\ UNCHANGED <<inbox, sessions>>
     ELSE RemoveSession(c)

(* Connection::close: the reader has come to the end of the stream of a    *)
(* client that is gone, or the connection was reset, whether its client is *)
(* gone or not, and a packet could not be read or written.  Then the       *)
(* packets not yet read are lost, but for one whose read has completed     *)
(* already and which is still handled.                                     *)
Closes(c) ==
  /\ c \in connections
  /\ CutOff(c)
  /\ \E n \in {0, 1} : n <= Len(requests[c]) /\ requests' = [requests EXCEPT ![c] = SubSeq(@, 1, n)]
  /\ OnDisconnect(c)
  /\ UNCHANGED <<client, broken, restarts>>

(* onPacket with a RESTART, dropped if the connection has no session. *)
OnPacket(c) ==
  /\ requests[c] # <<>>
  /\ requests' = [requests EXCEPT ![c] = Tail(@)]
  /\ inbox' = IF Seated(c) THEN Restarted(inbox, SessionOf(c)) ELSE inbox
  /\ UNCHANGED <<connections, waitingPlayer, sessions, client, broken, restarts>>

-----------------------------------------------------------------------------
(* The connection of a running client is reset.  Of what is on its way to  *)
(* the client, the packets that have come as far as its socket are still   *)
(* received; then its reader stops and the program goes on without it      *)
(* (readHeader and readPayload of the client).                             *)
Breaks(c) ==
  /\ c \in connections \ broken
  /\ client[c].life \in {"PLAYING", "QUITTING"}
  /\ broken' = broken \cup {c}
  /\ \E n \in 0 .. Len(inbox[c]) : inbox' = [inbox EXCEPT ![c] = SubSeq(@, 1, n)]
  /\ UNCHANGED <<connections, waitingPlayer, sessions, requests, client, restarts>>

-----------------------------------------------------------------------------
(* A client. *)

(* ChessClient::onPacket; the shutdown message it posts for a packet it    *)
(* does not know makes the GUI quit.                                       *)
Receives(c) ==
  /\ client[c].life \in {"PLAYING", "QUITTING"}
  /\ inbox[c] # <<>>
  /\ inbox' = [inbox EXCEPT ![c] = Tail(@)]
  /\ LET packet == Head(inbox[c]) IN
     client' = [client EXCEPT ![c] =
       CASE packet \in Color -> [@ EXCEPT !.teamColor = packet]
         [] packet = "RESTART" -> [@ EXCEPT !.started = TRUE]
         [] OTHER -> [@ EXCEPT !.life = "QUITTING"]]
  /\ UNCHANGED <<connections, waitingPlayer, sessions, requests, broken, restarts>>

(* The R key sends a RESTART, in a session or not.  What a client whose    *)
(* connection was reset sends stays in its m_sendQueue.                    *)
PressesR(c) ==
  /\ client[c].life = "PLAYING"
  /\ c \notin broken
  /\ restarts < MaxRestarts
  /\ restarts' = restarts + 1
  /\ requests' = [requests EXCEPT ![c] = Append(@, "RESTART")]
  /\ UNCHANGED <<connections, waitingPlayer, sessions, inbox, client, broken>>

(* CTRL+Q. *)
Quits(c) ==
  /\ client[c].life = "PLAYING"
  /\ client' = [client EXCEPT ![c].life = "QUITTING"]
  /\ UNCHANGED <<connections, waitingPlayer, sessions, inbox, requests, broken, restarts>>

(* The GUI has ended, and the destructor of ChessClient closes the socket: *)
(* what is on its way to it is lost.                                       *)
Leaves(c) ==
  /\ client[c].life = "QUITTING"
  /\ client' = [client EXCEPT ![c] = NotRunning("GONE")]
  /\ inbox' = [inbox EXCEPT ![c] = <<>>]
  /\ UNCHANGED broken
  /\ UNCHANGED <<connections, waitingPlayer, sessions, requests, restarts>>

-----------------------------------------------------------------------------
Next == \E c \in Client :
  \/ OnConnect(c) \/ Closes(c) \/ OnPacket(c) \/ Breaks(c)
  \/ Receives(c) \/ PressesR(c) \/ Quits(c) \/ Leaves(c)

Spec == Init /\ [][Next]_vars

(* The server handles what arrives and notices what is cut off, since a    *)
(* read of each connection is always under way; the clients receive, and   *)
(* one that has been told to quit does.  Nobody has to connect, to play or *)
(* to leave, and no connection has to break.                               *)
Fairness == \A c \in Client :
  WF_vars(Closes(c)) /\ WF_vars(OnPacket(c)) /\ WF_vars(Receives(c)) /\ WF_vars(Leaves(c))

FairSpec == Spec /\ Fairness

-----------------------------------------------------------------------------
TypeOK ==
  /\ connections \subseteq Client
  /\ waitingPlayer \in Client \cup {Nobody}
  /\ sessions \subseteq Session
  /\ inbox \in [Client -> Seq(Packet)]
  /\ requests \in [Client -> Seq({"RESTART"})]
  /\ client \in [Client -> ClientState]
  /\ broken \subseteq Client
  /\ restarts \in 0 .. MaxRestarts

(* A connection has at most one place: a seat in one session or the place  *)
(* of the waiting player.  onPacket and removeSession take the first       *)
(* session they find, and nothing checks that it is the only one, while    *)
(* players come, go and are moved from a session to the waiting place.     *)
OnePlace ==
  /\ \A s, t \in sessions : Players(s) \cap Players(t) # {} => s = t
  /\ \A s \in sessions : s.white # s.black /\ waitingPlayer \notin Players(s)

(* The server sends to and waits for connections that it still has: a      *)
(* closed one keeps no place, so that a packet of it that is handled late  *)
(* reaches no session (Connection::close, ChessServer::onDisconnect).      *)
PlacesAreOpen ==
  /\ waitingPlayer # Nobody => waitingPlayer \in connections
  /\ \A s \in sessions : Players(s) \subseteq connections

(* A player who is connected and has received everything plays the colour  *)
(* of their seat, on a board with pieces, or has no seat and sees no       *)
(* pieces: the colour is sent when a player connects, the seat given when  *)
(* a second one does, and a waiting player may have had another colour in  *)
(* an earlier session.  Of a player whose connection was reset nothing is  *)
(* said: their seat is gone once the server notices, their pieces stay.    *)
ClientsKnowTheirSeats == \A c \in Client \ broken :
  client[c].life = "PLAYING" /\ inbox[c] = <<>> =>
    /\ client[c].started <=> Seated(c)
    /\ Seated(c) => client[c].teamColor = IF SessionOf(c).white = c THEN "WHITE" ELSE "BLACK"

(* "an active connection with a player who hasn't joined a session"        *)
(* (ChessServer.h, of m_waitingPlayer): a connected player who has not     *)
(* been told to quit either has a session or is the one who waits.         *)
NobodyIsForgotten == \A c \in connections :
  \/ Seated(c)
  \/ waitingPlayer = c
  \/ client[c].life # "PLAYING" \/ c \in broken
  \/ \E i \in DOMAIN inbox[c] : inbox[c][i] = "PLAYER_DISCONNECT"

(* Clients come and go finitely often, so the promises of the lobby about  *)
(* them are about what is true in the end.                                 *)

(* Nobody whose own connection holds is left behind with a game: when      *)
(* their opponent leaves, or loses the connection, they are told and their *)
(* program ends too                                                        *)
(* (removeSession, ChessClient::onPacket, BoardInteractor::onNetworkMessage). *)
(* The one who lost the connection is told nothing and keeps a game that   *)
(* no session has (Client/src/Connection.cpp:61, 76).                      *)
NobodyIsLeftBehind == <>[] \A c \in Client \ broken :
  client[c].life \in {"PLAYING", "QUITTING"} /\ client[c].started
    => \E s \in sessions : c \in Players(s) /\ \A d \in Players(s) :
                              client[d].life = "PLAYING" /\ d \notin broken

(* The server lets go of everything that belonged to clients that are gone *)
(* or cut off: connections, sessions and the waiting place                 *)
(* (Connection::close, ChessServer::onDisconnect).                         *)
ServerForgets == <>[] \A c \in Client :
  CutOff(c) => c \notin connections /\ waitingPlayer # c /\ ~Seated(c)
=============================================================================
