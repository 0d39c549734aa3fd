----------------------------- MODULE GameSession -----------------------------
(***************************************************************************)
(* A session of the server: GameSession::State and the requests that       *)
(* ChessServer::onPacket dispatches to it.  The server runs every handler  *)
(* on the one thread that calls io_context::run, so a handler is a step.   *)
(***************************************************************************)
EXTENDS Wire

VARIABLE session \* GameSession::State: board, score, currentTeam

NewSession == [board |-> InitBoard, score |-> [white |-> 0, black |-> 0],
               currentTeam |-> "WHITE"]

(* The GameStateCache of the session with a flag. *)
Snapshot(s, f) ==
  [board |-> Get(s.board), score |-> s.score, flag |-> f, currentTeam |-> s.currentTeam]

Requested(p, type) ==
  /\ toServer[p] # <<>>
  /\ Head(toServer[p]).type = type
  /\ toServer' = [toServer EXCEPT ![p] = Tail(@)]

(* session.black->send(packet); session.white->send(packet) *)
SendBoth(packet) == toClient' = [c \in Color |-> Append(toClient[c], packet)]

(* The moves are those of the team to move, whoever asks. *)
PerformAvailableMoves(p) ==
  /\ Requested(p, "CALCULATE_MOVES")
  /\ toClient' = [toClient EXCEPT ![p] = Append(@,
       [type  |-> "CALCULATE_MOVES",
        moves |-> LegalMoves(session.board, Head(toServer[p]).pos, session.currentTeam)])]
  /\ UNCHANGED session

(* The move is committed for the team to move, whoever sent it, and is not *)
(* compared with the legal moves.                                          *)
PerformCommitMove(p) ==
  /\ Requested(p, "COMMIT_MOVE")
  /\ LET r    == Head(toServer[p])
         team == session.currentTeam
         res  == CommitMove(session.board, r.from, r.to, team)
         next == [board |-> res.board, score |-> Credited(session.score, team, res.score),
                  currentTeam |-> Opposite(team)]
     IN /\ session' = next
        /\ SendBoth([type |-> "COMMIT_MOVE", cache |-> Snapshot(next, res.flag)])

PerformPromotion(p) ==
  /\ Requested(p, "PROMOTE")
  /\ LET r == Head(toServer[p]) IN
     /\ session' = [session EXCEPT !.board = Promote(@, r.pos, r.piece)]
     /\ SendBoth([type |-> "PROMOTE", piece |-> r.piece, pos |-> r.pos])

PerformRestart(p) ==
  /\ Requested(p, "RESTART")
  /\ session' = NewSession
  /\ SendBoth([type |-> "RESTART", cache |-> Snapshot(NewSession, "NONE")])

OnPacket(p) ==
  PerformAvailableMoves(p) \/ PerformCommitMove(p) \/ PerformPromotion(p) \/ PerformRestart(p)

SessionTypeOK == session \in [board : Board, score : Score, currentTeam : Color]
=============================================================================
