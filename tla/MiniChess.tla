------------------------------ MODULE MiniChess ------------------------------
(***************************************************************************)
(* A game small enough for exhaustive search with every kind of result     *)
(* Board::commitMove has: plain moves, captures, promotions, and both      *)
(* endings.  On a line of N squares White has a pawn on 1 that is promoted *)
(* on 2 and Black a queen on N; a queen moves up to two squares.           *)
(***************************************************************************)
EXTENDS ChessTypes, FiniteSets

CONSTANT N

ASSUME NAssumption == N \in Nat /\ N > 2

MiniSquare == 1 .. N
MiniPiece  == {NoPiece} \cup [type : {"PAWN", "QUEEN"}, col : Color]
MiniBoard  == [MiniSquare -> MiniPiece]

BlankMini == [s \in MiniSquare |-> NoPiece]
InitMini  == [BlankMini EXCEPT ![1] = [type |-> "PAWN", col |-> "WHITE"],
                               ![N] = [type |-> "QUEEN", col |-> "BLACK"]]

MiniGet(b) == b
MiniPromote(b, s, t) == [b EXCEPT ![s].type = t]
Empty(b, s) == b[s].type = "NONE"

MiniLegalMoves(b, s, team) ==
  CASE b[s].type = "PAWN"  -> {t \in {s + 1} : t <= 2 /\ Empty(b, t)}
    [] b[s].type = "QUEEN" -> {t \in MiniSquare \ {s} :
                                 t - s \in -2 .. 2 /\ (Empty(b, t) \/ b[t].col # team)}
    [] OTHER -> {}

Mine(b, team) == {s \in MiniSquare : b[s].col = team /\ ~Empty(b, s)}

MiniCommitMove(b, from, to, team) ==
  LET board == [[b EXCEPT ![from] = NoPiece] EXCEPT ![to] = b[from]]
      foes  == Mine(board, Opposite(team))
      stuck == \A s \in foes : MiniLegalMoves(board, s, Opposite(team)) = {}
      worth == [t \in {"PAWN", "QUEEN", "NONE"} |->
                  CASE t = "PAWN" -> 1 [] t = "QUEEN" -> 9 [] OTHER -> 0]
  IN [board |-> board,
      score |-> worth[b[to].type],
      flag  |-> CASE foes = {} -> "CHECK_MATE"
                  [] foes # {} /\ stuck -> "STALE_MATE"
                  [] ~stuck /\ b[from].type = "PAWN" /\ to = 2 -> "PROMOTION"
                  [] OTHER -> "NONE"]
=============================================================================
