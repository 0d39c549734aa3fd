---------------------------- MODULE MCChessMatch ----------------------------
(* ChessMatch with the rules of MiniChess. *)
EXTENDS ChessMatch, MiniChess, TLC
=============================================================================
