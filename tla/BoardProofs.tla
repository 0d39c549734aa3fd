----------------------------- MODULE BoardProofs -----------------------------
(***************************************************************************)
(* Class Board has what ChessRules assumes of the rules of a session.      *)
(***************************************************************************)
EXTENDS Board, TLAPS

(* The pieces the promotion menu offers. *)
MenuChoice == {"ROOK", "KNIGHT", "BISHOP", "QUEEN"}

Rules == INSTANCE ChessRules WITH
  Position <- Pos, Origin <- At(0, 0), Board <- BoardObject, PromotionChoice <- MenuChoice

-----------------------------------------------------------------------------
(* Squares and steps. *)
LEMMA SquareCoordinates ==
  ASSUME NEW s \in Square
  PROVE  s = At(s.x, s.y) /\ s.x \in 0 .. 7 /\ s.y \in 0 .. 7
BY DEF Square, At

LEMMA AtSquare ==
  ASSUME NEW x \in 0 .. 7, NEW y \in 0 .. 7
  PROVE  At(x, y) \in Square
BY DEF Square, At

LEMMA SquaresArePositions == Square \subseteq Pos
BY DEF Square, Pos

(* A direction never leads further than a position can hold. *)
LEMMA StepIsPosition ==
  ASSUME NEW pos \in Square, NEW d, d[1] \in -2 .. 2, d[2] \in -2 .. 2
  PROVE  Step(pos, d, 1) \in Pos
<1>1. pos.x \in 0 .. 7 /\ pos.y \in 0 .. 7
  BY DEF Square
<1>2. pos.x + 1 * d[1] \in -128 .. 127 /\ pos.y + 1 * d[2] \in -128 .. 127
  BY <1>1
<1> QED
  BY <1>2 DEF Step, At, Pos

LEMMA AheadIsPosition ==
  ASSUME NEW pos \in Square, NEW col \in Color
  PROVE  /\ Ahead(pos, col) \in Pos
         /\ Ahead(pos, col) = At(pos.x, pos.y + (IF col = "WHITE" THEN 1 ELSE -1))
<1>1. pos.x \in 0 .. 7 /\ pos.y \in 0 .. 7
  BY DEF Square
<1> QED
  BY <1>1 DEF Ahead, Step, At, Pos

-----------------------------------------------------------------------------
(* Every candidate is a position, though not always a square: a pawn beside *)
(* a target out of bounds, or a king that castles away from its home row's  *)
(* middle, may be sent there.                                               *)
LEMMA RaySquares == \A tiles, pos, dir : Ray(tiles, pos, dir) \subseteq Square
BY DEF Ray

LEMMA CandidatesArePositions ==
  ASSUME NEW b \in BoardObject, NEW pos \in Square, NEW col \in Color
  PROVE  CandidateMoves(b, pos, col) \subseteq Pos
<1> DEFINE t == b.tiles
<1>1. \A dirs : CalculateSlidingMoves(t, dirs, pos, col) \subseteq Pos
  BY RaySquares, SquaresArePositions DEF CalculateSlidingMoves
<1>2. \A dirs : CalculateRoundMoves(t, dirs, pos, col) \subseteq Pos
  BY SquaresArePositions DEF CalculateRoundMoves
<1>3. CalculatePawnMoves(t, pos, col) \subseteq Pos
  <2> DEFINE ahead == Ahead(pos, col)
             twice == Ahead(ahead, col)
  <2>1. pos.y = PawnRow(col) => twice \in Pos
    <3>1. pos.x \in 0 .. 7 /\ pos.y \in 0 .. 7
      BY DEF Square
    <3>2. col \in {"WHITE", "BLACK"}
      BY DEF Color
    <3> QED
      BY <3>1, <3>2 DEF PawnRow, Ahead, Step, At, Pos
  <2> QED
    BY <2>1, SquaresArePositions DEF CalculatePawnMoves
<1>4. EnPassantMoves(b, pos) \subseteq Pos
  BY DEF EnPassantMoves, BoardObject
<1>5. CastlingMoves(b, pos, col) \subseteq Pos
  <2>1. Step(pos, <<-2, 0>>, 1) \in Pos /\ Step(pos, <<2, 0>>, 1) \in Pos
    BY StepIsPosition
  <2> QED
    BY <2>1 DEF CastlingMoves
<1> QED
  BY <1>1, <1>2, <1>3, <1>4, <1>5 DEF CandidateMoves

-----------------------------------------------------------------------------
(* What a move makes of the members of a Board. *)
LEMMA MovedTiles ==
  ASSUME NEW tiles \in Tiles, NEW from \in Square, NEW to \in Square
  PROVE  /\ Moved(tiles, from, to) \in Tiles
         /\ Moved(tiles, from, to)[to] = tiles[from]
         /\ from # to => Moved(tiles, from, to)[from] = NoPiece
         /\ \A s \in Square \ {from, to} : Moved(tiles, from, to)[s] = tiles[s]
<1>1. NoPiece \in Piece
  BY DEF NoPiece, Piece, PieceType, Color
<1> QED
  BY <1>1 DEF Moved, Tiles

LEMMA TilesAfterType ==
  ASSUME NEW b \in BoardObject, NEW from \in Square, NEW to \in Square, NEW team \in Color
  PROVE  TilesAfter(b, from, to, team) \in Tiles
<1> DEFINE tiles == Moved(b.tiles, from, to)
           row   == b.kingPos[team].y
           old   == At(IF to.x = 2 THEN 0 ELSE 7, row)
           new   == At(IF to.x = 2 THEN 3 ELSE 5, row)
           beside == At(to.x, from.y)
<1>1. tiles \in Tiles
  BY MovedTiles DEF BoardObject
<1>2. /\ row \in 0 .. 7 /\ old \in Square /\ new \in Square /\ beside \in Square
  <2>1. b.kingPos[team] \in Square
    BY DEF BoardObject
  <2>2. row \in 0 .. 7 /\ to.x \in 0 .. 7 /\ from.y \in 0 .. 7
    BY <2>1 DEF Square
  <2> HIDE DEF row
  <2> QED
    BY <2>2 DEF Square, At
<1> HIDE DEF tiles, row, old, new
<1>3. [tiles EXCEPT ![old] = tiles[new], ![new] = tiles[old]] \in Tiles
  BY <1>1, <1>2 DEF Tiles
<1>4. RookBeside(b, tiles, to, team) \in Tiles
  BY <1>3 DEF RookBeside, row, old, new
<1>5. [tiles EXCEPT ![beside].type = "NONE"] \in Tiles
  BY <1>1, <1>2 DEF Tiles, Piece, PieceType
<1> QED
  BY <1>1, <1>4, <1>5 DEF TilesAfter, tiles

LEMMA BoardAfterType ==
  ASSUME NEW b \in BoardObject, NEW from \in Square, NEW to \in Square, NEW team \in Color
  PROVE  BoardAfter(b, from, to, team) \in BoardObject
<1>1. TilesAfter(b, from, to, team) \in Tiles
  BY TilesAfterType
<1>2. KingPosAfter(b, from, to, team) \in [Color -> Square]
  BY DEF BoardObject, KingPosAfter
<1>3. \A right \in BOOLEAN : \A tiles, x, moved : KeepsRight(right, tiles, x, moved) \in BOOLEAN
  BY DEF KeepsRight, Is
<1>4. b.tiles[from].col \in Color
  BY DEF BoardObject, Tiles, Piece
<1>5. Ahead(from, b.tiles[from].col) \in Pos
  BY <1>4, AheadIsPosition
<1>6. EnablesEnPassant(b, from, to) \in BOOLEAN
  BY DEF EnablesEnPassant
<1>7. /\ b.qSide \in [Color -> BOOLEAN] /\ b.kSide \in [Color -> BOOLEAN] /\ b.ep \in Pos
  BY DEF BoardObject
<1> QED
  BY <1>1, <1>2, <1>3, <1>5, <1>6, <1>7 DEF BoardAfter, BoardObject

LEMMA FlagAfterType ==
  ASSUME NEW next, NEW atEnd, NEW foe
  PROVE  FlagAfter(next, atEnd, foe) \in Flag
BY DEF FlagAfter, Flag

LEMMA WorthFits == \A type : Worth(type) \in 0 .. 9
BY DEF Worth

LEMMA PromotedTiles ==
  ASSUME NEW b \in BoardObject, NEW pos \in Square, NEW type \in MenuChoice
  PROVE  /\ Promote(b, pos, type) \in BoardObject
         /\ Get(Promote(b, pos, type)) = [b.tiles EXCEPT ![pos].type = type]
<1>1. type \in PieceType
  BY DEF MenuChoice, PieceType
<1>2. [b.tiles EXCEPT ![pos].type = type] \in Tiles
  BY <1>1 DEF BoardObject, Tiles, Piece
<1>3. Promote(b, pos, type) = [b EXCEPT !.tiles = [b.tiles EXCEPT ![pos].type = type]]
  BY DEF Promote, BoardObject
<1> QED
  BY <1>2, <1>3 DEF BoardObject, Get

LEMMA InitialBoard == InitBoard \in BoardObject
<1>1. ASSUME NEW s \in Square PROVE InitTiles[s] \in Piece
  <2>1. s.x \in 0 .. 7 /\ s.y \in 0 .. 7
    BY DEF Square
  <2>2. BackRank[s.x + 1] \in PieceType
    BY <2>1 DEF BackRank, PieceType
  <2> QED
    BY <2>2 DEF InitTiles, Piece, PieceType, Color, NoPiece
<1>2. InitTiles \in Tiles
  BY <1>1 DEF Tiles, InitTiles
<1>3. \A c \in Color : At(4, HomeRow(c)) \in Square
  BY DEF HomeRow, At, Square
<1>4. At(0, 0) \in Pos
  BY DEF At, Pos
<1> QED
  BY <1>2, <1>3, <1>4 DEF InitBoard, BoardObject

-----------------------------------------------------------------------------
(* A pawn never moves along its row. *)
LEMMA PawnLeavesItsRow ==
  ASSUME NEW b \in BoardObject, NEW from \in Square, NEW to \in Square,
         b.tiles[from].type = "PAWN", to \in CandidateMoves(b, from, b.tiles[from].col)
  PROVE  to.y # from.y
<1> DEFINE col == b.tiles[from].col
           ahead == Ahead(from, col)
<1>1. from.x \in 0 .. 7 /\ from.y \in 0 .. 7
  BY DEF Square
<1>2. col \in Color
  BY DEF BoardObject, Tiles, Piece
<1>3. ahead = At(from.x, from.y + (IF col = "WHITE" THEN 1 ELSE -1))
  BY <1>2, AheadIsPosition
<1>4. to \in CalculatePawnMoves(b.tiles, from, col) \cup EnPassantMoves(b, from)
  BY DEF CandidateMoves
<1>5. CASE to \in EnPassantMoves(b, from)
  BY <1>1, <1>3, <1>5 DEF EnPassantMoves, At
<1>6. CASE to \in CalculatePawnMoves(b.tiles, from, col)
  <2>1. ahead.y # from.y /\ Step(ahead, <<1, 0>>, 1).y # from.y /\ Step(ahead, <<-1, 0>>, 1).y # from.y
    BY <1>1, <1>3 DEF At, Step
  <2>2. Ahead(ahead, col).y # from.y
    BY <1>1, <1>3 DEF At, Step, Ahead
  <2> QED
    BY <1>6, <2>1, <2>2 DEF CalculatePawnMoves
<1> QED
  BY <1>4, <1>5, <1>6

(* The pawn that is to be promoted stands where it has moved to. *)
LEMMA PawnArrives ==
  ASSUME NEW b \in BoardObject, NEW from \in Square, NEW to \in Square, NEW team \in Color,
         b.tiles[from].col = team, to \in LegalMoves(b, from, team),
         CommitMove(b, from, to, team).flag = "PROMOTION"
  PROVE  TilesAfter(b, from, to, team)[to] = [type |-> "PAWN", col |-> team]
<1>1. AtEnd(b, from, to)
  BY DEF CommitMove, FlagAfter
<1>2. b.tiles[from].type = "PAWN" /\ b.tiles[from] \in Piece /\ b.tiles \in Tiles
  BY <1>1 DEF AtEnd, BoardObject, Tiles
<1>3. b.tiles[from] = [type |-> "PAWN", col |-> team]
  BY <1>2 DEF Piece
<1>4. to.y # from.y
  BY <1>2, PawnLeavesItsRow DEF LegalMoves
<1> DEFINE tiles  == Moved(b.tiles, from, to)
           beside == At(to.x, from.y)
<1>5. tiles \in Tiles /\ tiles[to] = b.tiles[from]
  BY <1>2, MovedTiles
<1>6. beside # to
  BY <1>4 DEF At
<1> HIDE DEF tiles, beside
<1>7. [tiles EXCEPT ![beside].type = "NONE"][to] = tiles[to]
  BY <1>5, <1>6 DEF Tiles
<1> QED
  BY <1>2, <1>3, <1>5, <1>7 DEF TilesAfter, tiles, beside

-----------------------------------------------------------------------------
(* Class Board has the types a session relies on, on every board, whatever *)
(* is committed on it: what is proved of ChessMatch from RulesAssumption   *)
(* holds with Board::calculatePieceMoves, commitMove and promote.          *)
THEOREM BoardIsTyped == Rules!RulesAssumption
<1>1. Rules!BoardType = Tiles
  BY DEF Rules!BoardType, Tiles, Rules!Piece, Piece, Rules!PieceType, PieceType, Rules!Color, Color
<1>2. Square \subseteq Pos /\ At(0, 0) \in Square
  BY SquaresArePositions DEF At, Square
<1>3. MenuChoice \subseteq PieceType
  BY DEF MenuChoice, PieceType
<1>4. ASSUME NEW b \in BoardObject
      PROVE  /\ Get(b) \in Tiles
             /\ \A pos \in Square, c \in Color : LegalMoves(b, pos, c) \subseteq Pos
  BY CandidatesArePositions DEF Get, BoardObject, LegalMoves
<1>5. ASSUME NEW b \in BoardObject, NEW pos \in Square, NEW t \in MenuChoice
      PROVE  /\ Promote(b, pos, t) \in BoardObject
             /\ Get(Promote(b, pos, t)) = Rules!SetType(Get(b), pos, t)
  BY PromotedTiles DEF Rules!SetType, Get
<1>6. ASSUME NEW b \in BoardObject, NEW from \in Square, NEW to \in Square, NEW c \in Color
      PROVE  CommitMove(b, from, to, c) \in Rules!MoveResult
  <2>1. Worth(b.tiles[to].type) \in 0 .. 15
    BY WorthFits
  <2> QED
    BY <2>1, BoardAfterType, FlagAfterType DEF CommitMove, Rules!MoveResult, Flag, Rules!Flag
<1> QED
  BY <1>1, <1>2, <1>3, <1>4, <1>5, <1>6, InitialBoard
     DEF Rules!RulesAssumption, Rules!PieceType, PieceType, Rules!Color, Color

(* A legal move with the flag PROMOTION leaves a pawn of the mover on the   *)
(* square that its client will name in PROMOTE, on every board             *)
(* (Board::commitMove): PromotionAssumption holds as well.                 *)
THEOREM PawnsArrive == Rules!PromotionAssumption
<1> SUFFICES ASSUME NEW b \in BoardObject, NEW from \in Square, NEW to \in Square, NEW c \in Color,
                    Get(b)[from].col = c, to \in LegalMoves(b, from, c),
                    CommitMove(b, from, to, c).flag = "PROMOTION"
             PROVE  Get(CommitMove(b, from, to, c).board)[to] = [type |-> "PAWN", col |-> c]
  BY DEF Rules!PromotionAssumption, Rules!Color, Color
<1>1. TilesAfter(b, from, to, c)[to] = [type |-> "PAWN", col |-> c]
  BY PawnArrives DEF Get
<1>2. Get(CommitMove(b, from, to, c).board) = TilesAfter(b, from, to, c)
  BY DEF CommitMove, BoardAfter, Get
<1> QED
  BY <1>1, <1>2
=============================================================================
