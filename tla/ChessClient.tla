----------------------------- MODULE ChessClient -----------------------------
(***************************************************************************)
(* The two network threads of a client: the sender (m_mainThread), which   *)
(* turns requests of the GUI into packets, and the receiver (m_ioThread),  *)
(* which turns packets into messages for the GUI.  m_cache is not          *)
(* initialised by the constructor: Uninitialized stands for what it holds. *)
(***************************************************************************)
EXTENDS BoardInteractor, Wire

CONSTANT Uninitialized

ASSUME UninitializedAssumption ==
  /\ Uninitialized \notin Square
  /\ Uninitialized \notin Color
  /\ Uninitialized \notin GameStateCache

VARIABLES
  selectedPiece, \* selectedPiece[p]: m_cache.selectedPiece, of the sender
  cache,         \* cache[p]: m_cache.state, of the receiver
  teamColor      \* teamColor[p]: m_cache.teamColor, of the receiver

clientVars == <<selectedPiece, cache, teamColor>>

(* Mutants: the square of a selection is not remembered while another one  *)
(* is, and the square a piece has moved to is not remembered.              *)
MutantSends(p, m, remembered) ==
  /\ gui2net' = [gui2net EXCEPT ![p] = Tail(@)]
  /\ toServer' = [toServer EXCEPT ![p] = Append(@,
       CASE m.req = "AvailableMovesReq" -> [type |-> "CALCULATE_MOVES", pos |-> m.from]
         [] m.req = "MoveCommitReq" -> [type |-> "COMMIT_MOVE", from |-> selectedPiece[p], to |-> m.to]
         [] m.req = "RestartReq" -> [type |-> "RESTART"]
         [] OTHER -> [type |-> "PROMOTE", piece |-> m.type, pos |-> selectedPiece[p]])]
  /\ selectedPiece' = [selectedPiece EXCEPT ![p] = remembered]
  /\ UNCHANGED <<gui, menus, net2gui, issued, toClient, cache, teamColor>>

MutantRemembersFirst(p) ==
  /\ gui2net[p] # <<>>
  /\ LET m == Head(gui2net[p]) IN
     MutantSends(p, m, CASE m.req = "AvailableMovesReq" /\ selectedPiece[p] = Uninitialized -> m.from
                         [] m.req = "MoveCommitReq" -> m.to
                         [] OTHER -> selectedPiece[p])

MutantStaysBehind(p) ==
  /\ gui2net[p] # <<>>
  /\ LET m == Head(gui2net[p]) IN
     MutantSends(p, m, IF m.req = "AvailableMovesReq" THEN m.from ELSE selectedPiece[p])

(* The sender: one request popped and sent. *)
SendRequest(p) ==
  /\ gui2net[p] # <<>>
  /\ gui2net' = [gui2net EXCEPT ![p] = Tail(@)]
  /\ LET m == Head(gui2net[p])
         Send(packet) == toServer' = [toServer EXCEPT ![p] = Append(@, packet)]
     IN \/ /\ m.req = "AvailableMovesReq"
           /\ Send([type |-> "CALCULATE_MOVES", pos |-> m.from])
           /\ selectedPiece' = [selectedPiece EXCEPT ![p] = m.from]
        \/ /\ m.req = "MoveCommitReq"
           /\ Send([type |-> "COMMIT_MOVE", from |-> selectedPiece[p], to |-> m.to])
           /\ selectedPiece' = [selectedPiece EXCEPT ![p] = m.to]
        \/ /\ m.req = "RestartReq"
           /\ Send([type |-> "RESTART"])
           /\ UNCHANGED selectedPiece
        \/ /\ m.req = "PromotionReq"
           /\ Send([type |-> "PROMOTE", piece |-> m.type, pos |-> selectedPiece[p]])
           /\ UNCHANGED selectedPiece
  /\ UNCHANGED <<gui, menus, net2gui, issued, toClient, cache, teamColor>>

(* Mutant: a promotion is left to the next snapshot. *)
MutantSkipsPromotion(state, packet) ==
  IF packet.type \in {"COMMIT_MOVE", "RESTART"} THEN packet.cache ELSE state

(* What ChessClient::onPacket makes of m_cache.state. *)
Applied(state, packet) ==
  CASE packet.type \in {"COMMIT_MOVE", "RESTART"} -> packet.cache
    [] packet.type = "PROMOTE" ->
         [state EXCEPT !.board = SetType(@, packet.pos, packet.piece)]
    [] OTHER -> state

(* The receiver: Connection::readPayload passes one packet to onPacket. *)
ReceiveResponse(p) ==
  /\ toClient[p] # <<>>
  /\ toClient' = [toClient EXCEPT ![p] = Tail(@)]
  /\ LET packet == Head(toClient[p])
         state  == Applied(cache[p], packet)
         Post(m) == net2gui' = [net2gui EXCEPT ![p] = Append(@, m)]
     IN /\ cache' = [cache EXCEPT ![p] = state]
        /\ \/ /\ packet.type = "CALCULATE_MOVES"
              /\ Post([msg |-> "Moves", moves |-> packet.moves])
              /\ UNCHANGED teamColor
           \/ /\ packet.type \in {"COMMIT_MOVE", "PROMOTE"}
              /\ Post([msg |-> "StateUpdateMsg", cache |-> state, myColor |-> teamColor[p]])
              /\ UNCHANGED teamColor
           \/ /\ packet.type = "RESTART"
              /\ Post([msg |-> "RestartMsg", cache |-> state, myColor |-> teamColor[p]])
              /\ UNCHANGED teamColor
           \/ /\ packet.type = "ASSIGN_COLOR"
              /\ teamColor' = [teamColor EXCEPT ![p] = packet.color]
              /\ UNCHANGED net2gui
  /\ UNCHANGED <<gui, menus, gui2net, issued, toServer, selectedPiece>>

ClientTypeOK ==
  /\ selectedPiece \in [Color -> Square \cup {Uninitialized}]
  /\ cache \in [Color -> GameStateCache \cup {Uninitialized}]
  /\ teamColor \in [Color -> Color \cup {Uninitialized}]
=============================================================================
