------------------------------ MODULE ChessGame ------------------------------
(***************************************************************************)
(* What a session promises to its players: a game of chess.  The team to   *)
(* move makes one of its legal moves, the team that has just moved turns a *)
(* pawn of its own into another piece, or the players start over.          *)
(***************************************************************************)
EXTENDS ChessRules

VARIABLE game

NewGame == [board |-> InitBoard, score |-> [white |-> 0, black |-> 0],
            currentTeam |-> "WHITE"]

IsLegal(g, from, to) ==
  /\ Get(g.board)[from].col = g.currentTeam
  /\ to \in LegalMoves(g.board, from, g.currentTeam)

Move(from, to) ==
  /\ IsLegal(game, from, to)
  /\ LET res == CommitMove(game.board, from, to, game.currentTeam) IN
     game' = [board |-> res.board,
              score |-> Credited(game.score, game.currentTeam, res.score),
              currentTeam |-> Opposite(game.currentTeam)]

PawnPromotion(pos, type) ==
  /\ Get(game.board)[pos] = [type |-> "PAWN", col |-> Opposite(game.currentTeam)]
  /\ game' = [game EXCEPT !.board = Promote(@, pos, type)]

NewGameStarts == game' = NewGame

GameInit == game = NewGame

GameNext ==
  \/ \E from, to \in Square : Move(from, to)
  \/ \E pos \in Square, type \in PromotionChoice : PawnPromotion(pos, type)
  \/ NewGameStarts

GameSpec == GameInit /\ [][GameNext]_game
=============================================================================
