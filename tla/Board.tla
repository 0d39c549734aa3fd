-------------------------------- MODULE Board --------------------------------
(***************************************************************************)
(* Class Board of the server: how pieces move, what a move does to the     *)
(* board and to the data kept beside it, and which flag and score it has.  *)
(***************************************************************************)
EXTENDS ChessTypes

(* Pos.h: two numbers of type int8_t, the squares of the board among them. *)
(* A direction is a pair of steps.                                         *)
Pos    == [x : -128 .. 127, y : -128 .. 127]
Square == [x : 0 .. 7, y : 0 .. 7]
At(x, y) == [x |-> x, y |-> y]
Step(pos, dir, k) == At(pos.x + k * dir[1], pos.y + k * dir[2])

RookDirections   == {<<0, 1>>, <<0, -1>>, <<1, 0>>, <<-1, 0>>}
BishopDirections == {<<1, 1>>, <<1, -1>>, <<-1, -1>>, <<-1, 1>>}
KingDirections   == RookDirections \cup BishopDirections
KnightDirections == {d \in (-2 .. 2) \X (-2 .. 2) : d[1] * d[1] + d[2] * d[2] = 5}

(* The rows of a colour: where its pieces start, where its pawns start,    *)
(* where they are promoted, and the direction they move in.                *)
HomeRow(col)  == IF col = "WHITE" THEN 0 ELSE 7
PawnRow(col)  == IF col = "WHITE" THEN 1 ELSE 6
LastRow(col)  == IF col = "WHITE" THEN 7 ELSE 0
Ahead(p, col) == Step(p, <<0, IF col = "WHITE" THEN 1 ELSE -1>>, 1)

(* m_board is tiles; kingPos and the castling rights are those of TeamData, *)
(* by colour; ep and epEnabled are m_enPassantTarget and m_enPassantEnabled. *)
Tiles == [Square -> Piece]
BoardObject == [tiles : Tiles, kingPos : [Color -> Square],
                qSide : [Color -> BOOLEAN], kSide : [Color -> BOOLEAN],
                ep : Pos, epEnabled : BOOLEAN]

Get(b) == b.tiles

BackRank == <<"ROOK", "KNIGHT", "BISHOP", "QUEEN", "KING", "BISHOP", "KNIGHT", "ROOK">>

InitTiles == [s \in Square |->
  CASE s.y \in {0, 7}      -> [type |-> BackRank[s.x + 1], col |-> IF s.y = 0 THEN "WHITE" ELSE "BLACK"]
    [] s.y = PawnRow("WHITE") -> [type |-> "PAWN", col |-> "WHITE"]
    [] s.y = PawnRow("BLACK") -> [type |-> "PAWN", col |-> "BLACK"]
    [] OTHER                  -> NoPiece]

InitBoard == [tiles |-> InitTiles, kingPos |-> [c \in Color |-> At(4, HomeRow(c))],
              qSide |-> [c \in Color |-> TRUE], kSide |-> [c \in Color |-> TRUE],
              ep |-> At(0, 0), epEnabled |-> FALSE]

-----------------------------------------------------------------------------
(* Moves of single pieces (sets: the order of a list of moves is not       *)
(* observed by anyone).                                                    *)

Empty(tiles, s) == tiles[s].type = "NONE"
IsFoe(tiles, s, col) == ~Empty(tiles, s) /\ tiles[s].col # col
Is(tiles, s, type, col) == tiles[s] = [type |-> type, col |-> col]

(* The squares a loop over a direction visits until a piece stops it. *)
Ray(tiles, pos, dir) ==
  LET reached(k) == /\ Step(pos, dir, k) \in Square
                    /\ \A j \in 1 .. k - 1 : Empty(tiles, Step(pos, dir, j))
  IN {Step(pos, dir, k) : k \in {n \in 1 .. 7 : reached(n)}}

CalculateSlidingMoves(tiles, dirs, pos, col) ==
  {s \in UNION {Ray(tiles, pos, d) : d \in dirs} : Empty(tiles, s) \/ tiles[s].col # col}

CalculateRoundMoves(tiles, dirs, pos, col) ==
  {s \in {Step(pos, d, 1) : d \in dirs} \cap Square : Empty(tiles, s) \/ tiles[s].col # col}

CalculatePawnMoves(tiles, pos, col) ==
  LET ahead == Ahead(pos, col)
      twice == Ahead(ahead, col)
  IN {s \in {ahead} \cap Square : Empty(tiles, s)}
     \cup {s \in {twice} : pos.y = PawnRow(col) /\ Empty(tiles, ahead) /\ Empty(tiles, s)}
     \cup {s \in {Step(ahead, <<1, 0>>, 1), Step(ahead, <<-1, 0>>, 1)} \cap Square :
             IsFoe(tiles, s, col)}

-----------------------------------------------------------------------------
(* Attacks on the king. *)

IsKingAttackedByPawn(tiles, king, col) ==
  \E dx \in {1, -1} : LET s == Step(Ahead(king, col), <<dx, 0>>, 1) IN
    s \in Square /\ Is(tiles, s, "PAWN", Opposite(col))

IsKingAttackedBySliding(tiles, dirs, king, type, col) ==
  \E d \in dirs : \E s \in Ray(tiles, king, d) :
    IsFoe(tiles, s, col) /\ tiles[s].type \in {type, "QUEEN"}

IsKingAttackedByRound(tiles, dirs, king, type, col) ==
  \E d \in dirs : LET s == Step(king, d, 1) IN s \in Square /\ Is(tiles, s, type, Opposite(col))

IsKingAttacked(tiles, king, col) ==
  \/ IsKingAttackedByPawn(tiles, king, col)
  \/ IsKingAttackedBySliding(tiles, RookDirections, king, "ROOK", col)
  \/ IsKingAttackedBySliding(tiles, BishopDirections, king, "BISHOP", col)
  \/ IsKingAttackedByRound(tiles, KnightDirections, king, "KNIGHT", col)
  \/ IsKingAttackedByRound(tiles, KingDirections, king, "KING", col)

(* The piece that moves leaves an empty square behind. *)
Moved(tiles, from, to) == [tiles EXCEPT ![from] = NoPiece, ![to] = tiles[from]]

(* Mutant: the king is looked for where it came from. *)
MutantKingStaysBehind(b, col, from, to) ==
  IsKingAttacked(Moved(b.tiles, from, to), b.kingPos[col], col)

(* The move is tried out: nothing but the one piece is moved. *)
IsKingEndangered(b, col, from, to) ==
  IsKingAttacked(Moved(b.tiles, from, to),
                 IF b.tiles[from].type = "KING" THEN to ELSE b.kingPos[col], col)

CanCastle(tiles, king, col, isQSide) ==
  LET dir  == IF isQSide THEN <<-1, 0>> ELSE <<1, 0>>
      path == {Step(king, dir, 1), Step(king, dir, 2)}
  IN /\ isQSide => Empty(tiles, Step(king, dir, 3))
     /\ \A s \in path : Empty(tiles, s)
     /\ \A s \in path \cup {king} : ~IsKingAttacked(tiles, s, col)

-----------------------------------------------------------------------------
(* calculatePieceMoves *)

EnPassantMoves(b, pos) ==
  LET ahead == Ahead(pos, b.tiles[pos].col) IN
  {s \in {b.ep} : b.epEnabled /\ s.y = ahead.y /\ s.x - ahead.x \in {1, -1}}

CastlingMoves(b, pos, team) ==
       {s \in {Step(pos, <<-2, 0>>, 1)} : b.qSide[team] /\ CanCastle(b.tiles, pos, team, TRUE)}
  \cup {s \in {Step(pos, <<2, 0>>, 1)}  : b.kSide[team] /\ CanCastle(b.tiles, pos, team, FALSE)}

CandidateMoves(b, pos, team) ==
  LET t == b.tiles IN
  CASE t[pos].type = "PAWN"   -> CalculatePawnMoves(t, pos, team) \cup EnPassantMoves(b, pos)
    [] t[pos].type = "ROOK"   -> CalculateSlidingMoves(t, RookDirections, pos, team)
    [] t[pos].type = "KNIGHT" -> CalculateRoundMoves(t, KnightDirections, pos, team)
    [] t[pos].type = "BISHOP" -> CalculateSlidingMoves(t, BishopDirections, pos, team)
    [] t[pos].type = "QUEEN"  -> CalculateSlidingMoves(t, KingDirections, pos, team)
    [] t[pos].type = "KING"   -> CalculateRoundMoves(t, KingDirections, pos, team)
                                   \cup CastlingMoves(b, pos, team)
    [] OTHER                  -> {}

LegalMoves(b, pos, team) ==
  {to \in CandidateMoves(b, pos, team) : ~IsKingEndangered(b, team, pos, to)}

Owned(tiles, col) == {s \in Square : tiles[s].col = col /\ ~Empty(tiles, s)}

(* Mutant: moves of pinned pieces count. *)
MutantAnyCandidate(b, col) == \E s \in Owned(b.tiles, col) : CandidateMoves(b, s, col) # {}

HasAnyMoves(b, col) == \E s \in Owned(b.tiles, col) : LegalMoves(b, s, col) # {}

-----------------------------------------------------------------------------
(* commitMove *)

(* The score of a captured piece. *)
Worth(type) == CASE type = "PAWN" -> 1 [] type = "ROOK" -> 5 [] type = "QUEEN" -> 9
                 [] type \in {"KNIGHT", "BISHOP"} -> 3 [] OTHER -> 0

(* Mutant: the corner is not looked at. *)
MutantForgetsRook(right, tiles, x, moved) == right /\ moved.type # "KING"

(* A castling right lasts while the corner holds a rook of the colour that *)
(* moved, which is looked at when that colour moves, and until its king    *)
(* moves.                                                                  *)
KeepsRight(right, tiles, x, moved) ==
  right /\ moved.type # "KING" /\ Is(tiles, At(x, HomeRow(moved.col)), "ROOK", moved.col)

(* Mutant: the rook stays in its corner as well. *)
MutantRookTwice(b, tiles, to, team) ==
  LET row == b.kingPos[team].y
      old == At(IF to.x = 2 THEN 0 ELSE 7, row)
      new == At(IF to.x = 2 THEN 3 ELSE 5, row)
  IN [tiles EXCEPT ![new] = tiles[old]]

(* The rook changes places with what is beside the castled king. *)
RookBeside(b, tiles, to, team) ==
  LET row   == b.kingPos[team].y
      old   == At(IF to.x = 2 THEN 0 ELSE 7, row)
      new   == At(IF to.x = 2 THEN 3 ELSE 5, row)
  IN [tiles EXCEPT ![old] = tiles[new], ![new] = tiles[old]]

(* The tiles after a move, the rook of a castling and the pawn captured en *)
(* passant included.                                                       *)
TilesAfter(b, from, to, team) ==
  LET moved  == b.tiles[from]
      tiles  == Moved(b.tiles, from, to)
      beside == At(to.x, from.y)
  IN CASE moved.type = "KING" /\ b.kingPos[team].x - to.x \in {2, -2} ->
            RookBeside(b, tiles, to, team)
       [] moved.type = "PAWN" /\ b.epEnabled /\ to = b.ep ->
            [tiles EXCEPT ![beside].type = "NONE"]
       [] OTHER -> tiles

(* Mutant: a king that castles is not tracked. *)
MutantCastlingForgetsKing(b, from, to, team) ==
  IF b.tiles[from].type = "KING" /\ from.x - to.x \notin {2, -2}
  THEN [b.kingPos EXCEPT ![team] = to] ELSE b.kingPos

KingPosAfter(b, from, to, team) ==
  IF b.tiles[from].type = "KING" THEN [b.kingPos EXCEPT ![team] = to] ELSE b.kingPos

(* Mutant: a capture en passant stays possible. *)
MutantEnPassantStays(b, from, to) ==
  b.epEnabled \/ (b.tiles[from].type = "PAWN" /\ from.y - to.y \in {2, -2})

EnablesEnPassant(b, from, to) == b.tiles[from].type = "PAWN" /\ from.y - to.y \in {2, -2}

BoardAfter(b, from, to, team) ==
  LET moved  == b.tiles[from]
      tiles  == Moved(b.tiles, from, to)
  IN [tiles |-> TilesAfter(b, from, to, team),
      kingPos |-> KingPosAfter(b, from, to, team),
      qSide |-> [b.qSide EXCEPT ![team] = KeepsRight(@, tiles, 0, moved)],
      kSide |-> [b.kSide EXCEPT ![team] = KeepsRight(@, tiles, 7, moved)],
      ep |-> IF EnablesEnPassant(b, from, to) THEN Ahead(from, moved.col) ELSE b.ep,
      epEnabled |-> EnablesEnPassant(b, from, to)]

(* A pawn that reaches the last row has to be promoted. *)
AtEnd(b, from, to) == b.tiles[from].type = "PAWN" /\ to.y = LastRow(b.tiles[from].col)

(* Mutant: the flags are added up. *)
MutantFlagsAddUp(next, atEnd, foe) ==
  IF HasAnyMoves(next, foe) THEN IF atEnd THEN "PROMOTION" ELSE "NONE"
  ELSE IF IsKingAttacked(next.tiles, next.kingPos[foe], foe)
       THEN IF atEnd THEN "PROMOTION AND CHECK_MATE" ELSE "CHECK_MATE"
       ELSE IF atEnd THEN "PROMOTION AND STALE_MATE" ELSE "STALE_MATE"

(* Checkmate and stalemate take the place of a promotion. *)
FlagAfter(next, atEnd, foe) ==
  IF HasAnyMoves(next, foe)
  THEN IF atEnd THEN "PROMOTION" ELSE "NONE"
  ELSE IF IsKingAttacked(next.tiles, next.kingPos[foe], foe) THEN "CHECK_MATE" ELSE "STALE_MATE"

CommitMove(b, from, to, team) ==
  LET next == BoardAfter(b, from, to, team)
  IN [board |-> next,
      flag  |-> FlagAfter(next, AtEnd(b, from, to), Opposite(team)),
      score |-> Worth(b.tiles[to].type)]

Promote(b, pos, type) == [b EXCEPT !.tiles[pos].type = type]
=============================================================================
