----------------------------- MODULE ChessRules -----------------------------
(***************************************************************************)
(* What a session needs from class Board: its public operations, as        *)
(* constant operators.  The session, the clients and the messages between  *)
(* them do not depend on how a piece moves, so they are specified, and     *)
(* proved about, for every Board that has these operations.                *)
(***************************************************************************)
EXTENDS ChessTypes

CONSTANTS
  Square,              \* the positions a click can name
  Position,            \* the values of struct Pos, squares or not (Pos.h)
  Origin,              \* Pos{}: the value-initialised position
  Board,               \* the values of class Board, castling rights and all
  InitBoard,           \* Board(): the position a game starts from
  Get(_),              \* Get(b): Board::get, the tiles that are sent around
  LegalMoves(_, _, _), \* LegalMoves(b, pos, team): Board::calculatePieceMoves
  CommitMove(_, _, _, _), \* CommitMove(b, from, to, team): Board::commitMove,
                          \* the new board with the flag and the score returned
  Promote(_, _, _),    \* Promote(b, pos, type): Board::promote
  PromotionChoice      \* the piece types the promotion menu offers

(* BoardType, and its value-initialised value. *)
BoardType == [Square -> Piece]
NoTiles   == [pos \in Square |-> NoPiece]

(* board[posToIndex(pos)].type = type *)
SetType(tiles, pos, type) == [tiles EXCEPT ![pos].type = type]

(* The gain of a move travels in the low four bits of commitMove's result. *)
MoveResult == [board : Board, flag : Flag, score : 0 .. 15]

(* GameStateCache: the snapshot of a game that COMMIT_MOVE and RESTART carry. *)
GameStateCache == [board : BoardType, score : Score, flag : Flag, currentTeam : Color]

(* score.white or score.black, of type uint8_t, grows by the captured piece. *)
Credited(score, team, gain) ==
  IF team = "WHITE" THEN [score EXCEPT !.white = (@ + gain) % 256]
                    ELSE [score EXCEPT !.black = (@ + gain) % 256]

ASSUME RulesAssumption ==
  /\ Square \subseteq Position /\ Origin \in Square
  /\ InitBoard \in Board
  /\ PromotionChoice \subseteq PieceType
  /\ \A b \in Board :
       /\ Get(b) \in BoardType
       /\ \A pos \in Square, c \in Color : LegalMoves(b, pos, c) \subseteq Position
       /\ \A pos \in Square, t \in PromotionChoice :
            /\ Promote(b, pos, t) \in Board
            /\ Get(Promote(b, pos, t)) = SetType(Get(b), pos, t)
       /\ \A from, to \in Square, c \in Color : CommitMove(b, from, to, c) \in MoveResult

(* A legal move that has to be followed by a promotion leaves a pawn of    *)
(* the team that made it on the square it ends on.                         *)
ASSUME PromotionAssumption ==
  \A b \in Board, from, to \in Square, c \in Color :
    LET res == CommitMove(b, from, to, c) IN
    Get(b)[from].col = c /\ to \in LegalMoves(b, from, c) /\ res.flag = "PROMOTION"
      => Get(res.board)[to] = [type |-> "PAWN", col |-> c]
=============================================================================
