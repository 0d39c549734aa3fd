------------------------------ MODULE BoardGame ------------------------------
(***************************************************************************)
(* A game on one Board: the moves it offers are committed for the team to  *)
(* move, and a promotion is carried out when the player has chosen, which  *)
(* may be after the opponent has moved (ChessServer::performCommitMove and *)
(* performPromotion; the session does not wait).                           *)
(***************************************************************************)
EXTENDS Board, FiniteSets

CONSTANTS
  Openings,        \* the positions games start from: the board, the team to
                   \* move and, as a bound, the moves that are made from there
  PromotionChoice  \* the piece types pawns are promoted to

VARIABLES
  board,    \* State::board
  team,     \* State::currentTeam
  score,    \* State::score, by colour
  flag,     \* the flag sent with the last move
  owed,     \* the squares of promotions that have not been chosen yet
  history   \* for the properties: the last move, the squares touched by
            \* moves, those on which a rook that had not moved was taken, the
            \* moves left, whether a move was the last thing that happened,
            \* and whether the game went astray

vars == <<board, team, score, flag, owed, history>>

L == INSTANCE ChessLaws

(* A king on the square where it starts and a rook in its corner may       *)
(* castle; nobody has just made a double step.                             *)
AtHome(tiles, c, x) ==
  Is(tiles, At(4, HomeRow(c)), "KING", c) /\ Is(tiles, At(x, HomeRow(c)), "ROOK", c)

(* The team that has just moved is not in check, the Board knows where the *)
(* kings are and which pieces have moved, and no team has more pieces than *)
(* it starts a new game with.                                              *)
ASSUME OpeningsAssumption ==
  /\ PromotionChoice \subseteq {"ROOK", "KNIGHT", "BISHOP", "QUEEN"}
  /\ \A o \in Openings :
       /\ o.board \in BoardObject /\ o.team \in Color /\ o.plies \in Nat
       /\ ~L!InCheck(o.board.tiles, Opposite(o.team))
       /\ ~o.board.epEnabled
       /\ \A c \in Color :
            /\ Cardinality(Owned(o.board.tiles, c)) <= 16
            /\ L!Kings(o.board.tiles, c) = {o.board.kingPos[c]}
            /\ o.board.qSide[c] = AtHome(o.board.tiles, c, 0)
            /\ o.board.kSide[c] = AtHome(o.board.tiles, c, 7)

Init == \E o \in Openings :
  /\ board = o.board
  /\ team = o.team
  /\ score = [c \in Color |-> 0]
  /\ flag = "NONE"
  /\ owed = {}
  /\ history = [last |-> [from |-> At(0, 0), to |-> At(0, 0)],
                touched |-> {s \in Square : o.board.tiles[s] # InitTiles[s]}, taken |-> {},
                left |-> o.plies, fresh |-> FALSE, astray |-> FALSE]

(* A game is followed until it leaves the laws of chess for good. *)
Followed == ~history.astray

(* performAvailableMoves *)
Offered(from) == LegalMoves(board, from, team)

(* performCommitMove with one of the moves that were offered. *)
Move(from, to) ==
  /\ Followed
  /\ history.left > 0
  /\ LET res == CommitMove(board, from, to, team) IN
     /\ board' = res.board
     /\ score' = [score EXCEPT ![team] = (@ + res.score) % 256]
     /\ flag' = res.flag
     /\ owed' = IF res.flag = "PROMOTION" THEN owed \cup {to} ELSE owed
     /\ history' = [last |-> [from |-> from, to |-> to],
                    touched |-> history.touched \cup {from, to},
                    taken |-> history.taken \cup
                      {s \in {to} : s \notin history.touched /\ board.tiles[s].type = "ROOK"},
                    left |-> history.left - 1, fresh |-> TRUE,
                    astray |-> L!InCheck(res.board.tiles, team)]
  /\ team' = Opposite(team)

(* performPromotion: the square is named by the client that moved there. *)
Promotion(pos, type) ==
  /\ Followed
  /\ pos \in owed
  /\ board' = Promote(board, pos, type)
  /\ owed' = owed \ {pos}
  /\ history' = [history EXCEPT !.fresh = FALSE,
                                !.astray = \/ board.tiles[pos].type # "PAWN"
                                           \/ L!InCheck(board'.tiles, Opposite(team))]
  /\ UNCHANGED <<team, score, flag>>

Next ==
  \/ \E from \in Owned(board.tiles, team) : \E to \in Offered(from) : Move(from, to)
  \/ \E pos \in owed, type \in PromotionChoice : Promotion(pos, type)

Spec == Init /\ [][Next]_vars

-----------------------------------------------------------------------------
(* Every variable has its type. *)
TypeOK ==
  /\ board \in BoardObject
  /\ team \in Color
  /\ score \in [Color -> UInt8]
  /\ flag \in Flag
  /\ owed \subseteq Square
  /\ history.left \in Nat

(* TeamData::kingPos, which every legality test starts from, is where the  *)
(* one king of the colour stands (Board::commitMove).                      *)
KingsWhereKept ==
  Followed => \A c \in Color : L!Kings(board.tiles, c) = {board.kingPos[c]}

IsCastling(from, to)  == board.tiles[from].type = "KING" /\ from.x - to.x \in {2, -2}
IsEnPassant(tiles, from, to) ==
  tiles[from].type = "PAWN" /\ from.x # to.x /\ Empty(tiles, to)

(* Apart from castling and capturing en passant, the moves that are        *)
(* offered are those of the laws of chess, pins and checks included        *)
(* (Board::calculatePieceMoves).                                           *)
PlainMovesAreLawful ==
  Followed => \A from \in Owned(board.tiles, team) :
    {to \in Offered(from) : ~IsCastling(from, to) /\ ~IsEnPassant(board.tiles, from, to)}
      = L!PlainMoves(board.tiles, from)

(* The flags of TeamData never lose a lawful castling, and allow another   *)
(* one only from the square of a king that has not moved and towards a     *)
(* corner in which its own rook, which had not moved either, was captured: *)
(* a rook that has moved away takes its right along (Board.cpp:105-112).   *)
CastlingFollowsTheKing ==
  Followed => \A from \in Owned(board.tiles, team) :
    LET castling == {to \in Offered(from) : IsCastling(from, to)}
        lawful   == L!CastlingMoves(board.tiles, history.touched, from)
    IN /\ lawful \subseteq castling
       /\ \A to \in castling \ lawful :
            /\ from = At(4, HomeRow(team)) /\ from \notin history.touched
            /\ At(IF to.x = 2 THEN 0 ELSE 7, from.y) \in history.taken

(* A capture en passant is offered in the move after the double step only, *)
(* beside the pawn that made it, and is missing only when that pawn gives  *)
(* check (m_enPassantEnabled, m_enPassantTarget).                          *)
EnPassantOnTime ==
  Followed => \A from \in Owned(board.tiles, team) :
    LET last == history.last IN
    /\ \A to \in Offered(from) : IsEnPassant(board.tiles, from, to) =>
         /\ L!DoubleStep(board.tiles, last)
         /\ last.to = At(to.x, from.y)
         /\ board.tiles[last.to] = [type |-> "PAWN", col |-> Opposite(team)]
    /\ L!EnPassantMoves(board.tiles, last, from) \subseteq Offered(from)
         \/ L!Attacks(board.tiles, last.to, board.kingPos[team])

HasEnPassant ==
  /\ L!DoubleStep(board.tiles, history.last)
  /\ \E from \in Owned(board.tiles, team) :
       /\ board.tiles[from].type = "PAWN" /\ from.y = history.last.to.y
       /\ from.x - history.last.to.x \in {1, -1}

Stuck(tiles) == ~L!HasLawfulMove(tiles, history.last, history.touched, team)

(* The move just made takes a pawn to the last row: the laws of chess      *)
(* judge the board on which it has been promoted.                          *)
Promoting ==
  Is(board.tiles, history.last.to, "PAWN", Opposite(team)) /\ history.last.to.y = LastRow(Opposite(team))
Promoted(type) == [board.tiles EXCEPT ![history.last.to].type = type]

(* The flag of a move tells checkmate and stalemate by the laws of chess,  *)
(* as long as no capture en passant is at hand.  If it takes the place of  *)
(* a promotion, the game is over whatever the pawn would have become, and  *)
(* a checkmate is one; that a stalemate is one, or that a promotion which  *)
(* is chosen does not end the game, is not said                            *)
(* (Board::hasAnyMoves, Board.cpp:144-150).                                *)
FlagTellsTheEnd ==
  Followed /\ history.fresh /\ ~HasEnPassant =>
    IF Promoting
    THEN \A type \in PromotionChoice :
           /\ flag \in {"CHECK_MATE", "STALE_MATE"} => Stuck(Promoted(type))
           /\ flag = "CHECK_MATE" => L!InCheck(Promoted(type), team)
    ELSE /\ flag = "CHECK_MATE" <=> Stuck(board.tiles) /\ L!InCheck(board.tiles, team)
         /\ flag = "STALE_MATE" <=> Stuck(board.tiles) /\ ~L!InCheck(board.tiles, team)

(* Every piece counts as often as it is worth. *)
Material(tiles, c) ==
  Cardinality(UNION {{s} \X (1 .. Worth(tiles[s].type)) : s \in Owned(tiles, c)})

(* What a move takes from the other team is credited to the team that made *)
(* it, and nothing is taken from the team itself, castling included        *)
(* (Board.cpp:93, 152-162).  A capture en passant takes one pawn.  What it *)
(* scores is not said here: "a score of the taken piece" by Board.h:19, 0  *)
(* by Board.cpp:93.                                                        *)
CapturesAreScored ==
  [][team' # team =>
       LET m    == history'.last
           foe  == Opposite(team)
           lost == Material(board.tiles, foe) - Material(board'.tiles, foe)
       IN /\ Material(board'.tiles, team) = Material(board.tiles, team)
          /\ IF IsEnPassant(board.tiles, m.from, m.to) THEN lost = 1
             ELSE score'[team] - score[team] = lost]_vars

-----------------------------------------------------------------------------
(* What comments of Board.cpp say, and the code does not do. *)

(* "filter out moves that are illegal if king is pinned": no move that is  *)
(* offered leaves the king of its team attacked.                           *)
NoMoveExposesKing == ~(history.fresh /\ L!InCheck(board.tiles, Opposite(team)))

(* "Calculate and return legal moves": a castling that is offered has a    *)
(* rook to castle with.                                                    *)
CastlingHasRook ==
  \A from \in Owned(board.tiles, team) : \A to \in Offered(from) :
    IsCastling(from, to) =>
      Is(board.tiles, At(IF to.x = 2 THEN 0 ELSE 7, from.y), "ROOK", team)
=============================================================================
