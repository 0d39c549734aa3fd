----------------------------- MODULE ChessTypes -----------------------------
(***************************************************************************)
(* The enumerations that client and server share (Common/headers).         *)
(* A player is named by the colour the server assigned to its connection.  *)
(***************************************************************************)
EXTENDS Integers

(* Piece::Color and Piece::Type of Piece.h. *)
Color     == {"BLACK", "WHITE"}
PieceType == {"NONE", "PAWN", "ROOK", "KNIGHT", "BISHOP", "QUEEN", "KING"}
Piece     == [type : PieceType, col : Color]

(* What std::exchange leaves on a square a piece has moved away from. *)
NoPiece == [type |-> "NONE", col |-> "BLACK"]

Opposite(c) == IF c = "WHITE" THEN "BLACK" ELSE "WHITE"

(* GameState::Flags of GameState.h. *)
Flag         == {"NONE", "STALE_MATE", "CHECK_MATE", "PROMOTION"}
GameOverFlag == {"STALE_MATE", "CHECK_MATE"}

(* Score of GameState.h: two counters of type uint8_t. *)
UInt8 == 0 .. 255
Score == [white : UInt8, black : UInt8]
=============================================================================
