---------------------------- MODULE MCBoardGame ----------------------------
(***************************************************************************)
(* Positions with few pieces from which the special moves, promotions and  *)
(* both endings are a few moves away.  A king or a rook on the square it   *)
(* starts from has not moved.                                              *)
(***************************************************************************)
EXTENDS BoardGame

Put(pieces) == [s \in Square |->
  LET on == {p \in pieces : At(p[3], p[4]) = s} IN
  IF on = {} THEN NoPiece ELSE LET p == CHOOSE q \in on : TRUE IN [type |-> p[1], col |-> p[2]]]

Opening(pieces, toMove, plies) ==
  LET tiles == Put(pieces)
  IN [board |-> [tiles |-> tiles,
                 kingPos |-> [c \in Color |-> CHOOSE s \in Square : Is(tiles, s, "KING", c)],
                 qSide |-> [c \in Color |-> AtHome(tiles, c, 0)],
                 kSide |-> [c \in Color |-> AtHome(tiles, c, 7)],
                 ep |-> At(0, 0), epEnabled |-> FALSE],
      team |-> toMove, plies |-> plies]

W == "WHITE"
B == "BLACK"

(* Castling on either side, with rooks that may move away before; a bishop *)
(* that can take one of them.                                              *)
Castle == Opening({<<"KING", W, 4, 0>>, <<"ROOK", W, 0, 0>>, <<"ROOK", W, 7, 0>>,
                   <<"KING", B, 4, 7>>, <<"BISHOP", B, 5, 5>>}, W, 2)

(* A pawn that can pass another one, a pawn that can be promoted on the    *)
(* corner of the rook that may castle.                                     *)
Pawns == Opening({<<"KING", W, 6, 1>>, <<"PAWN", W, 4, 4>>, <<"PAWN", W, 6, 6>>,
                  <<"KING", B, 4, 7>>, <<"ROOK", B, 7, 7>>, <<"PAWN", B, 3, 6>>}, B, 3)

(* A pawn that shields its king on the row of a rook. *)
Pinned == Opening({<<"KING", W, 0, 4>>, <<"PAWN", W, 1, 4>>,
                   <<"KING", B, 7, 7>>, <<"PAWN", B, 2, 6>>, <<"ROOK", B, 7, 4>>}, B, 3)

(* A double step that gives check to a king with nowhere to go. *)
Cornered == Opening({<<"KING", W, 7, 3>>, <<"PAWN", W, 7, 4>>,
                     <<"KING", B, 5, 3>>, <<"PAWN", B, 6, 6>>, <<"BISHOP", B, 2, 7>>}, B, 3)

(* Checkmate and stalemate are one move away. *)
Endings == Opening({<<"KING", W, 5, 5>>, <<"QUEEN", W, 6, 4>>, <<"KNIGHT", W, 0, 0>>,
                    <<"KING", B, 7, 7>>}, W, 3)

(* The pawn that reaches the last row leaves Black without a move. *)
LastPawn == Opening({<<"KING", W, 0, 5>>, <<"BISHOP", W, 3, 5>>, <<"PAWN", W, 7, 6>>,
                     <<"KING", B, 0, 7>>}, W, 2)

(* A promotion that may be chosen too late, with check to the other king.  *)
Late == Opening({<<"KING", W, 6, 1>>, <<"PAWN", W, 6, 6>>,
                 <<"KING", B, 4, 7>>, <<"PAWN", B, 0, 6>>}, W, 3)

(* A new game. *)
Start == [board |-> InitBoard, team |-> W, plies |-> 2]

AllOpenings == {Start, LastPawn, Late, Castle, Pawns, Pinned, Cornered, Endings}
CastleOnly == {Castle}
PinnedOnly == {Pinned}
=============================================================================
