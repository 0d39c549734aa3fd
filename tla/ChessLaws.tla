------------------------------ MODULE ChessLaws ------------------------------
(***************************************************************************)
(* The laws of chess, stated without looking at the code: attacks by       *)
(* geometry instead of by walking, rights by the history of the game       *)
(* instead of by flags.  It is what class Board is compared with.          *)
(***************************************************************************)
EXTENDS ChessTypes

Square == [x : 0 .. 7, y : 0 .. 7]

Sq(x, y) == [x |-> x, y |-> y]
Abs(n) == IF n < 0 THEN -n ELSE n
Holds(t, s, type, col) == t[s].type = type /\ t[s].col = col
Free(t, s) == t[s].type = "NONE"

Rows == [WHITE |-> [back |-> 0, pawns |-> 1, up |-> 1], BLACK |-> [back |-> 7, pawns |-> 6, up |-> -1]]

SameLine(a, b)     == a # b /\ (a.x = b.x \/ a.y = b.y)
SameDiagonal(a, b) == a # b /\ Abs(a.x - b.x) = Abs(a.y - b.y)

(* The squares strictly between two squares of a line or a diagonal. *)
Between == [p \in Square \X Square |->
  LET a == p[1]
      b == p[2]
      dx == b.x - a.x
      dy == b.y - a.y
  IN {s \in Square : /\ SameLine(a, b) \/ SameDiagonal(a, b)
                     /\ s \notin {a, b}
                     /\ (s.x - a.x) * dy = (s.y - a.y) * dx
                     /\ (s.x - a.x) * (s.x - b.x) <= 0
                     /\ (s.y - a.y) * (s.y - b.y) <= 0}]

Clear(t, a, b) == \A s \in Between[<<a, b>>] : Free(t, s)

(* The piece on a attacks b. *)
Attacks(t, a, b) ==
  LET dx == Abs(a.x - b.x)
      dy == Abs(a.y - b.y)
  IN \/ t[a].type = "PAWN" /\ dx = 1 /\ b.y = a.y + Rows[t[a].col].up
     \/ t[a].type = "KNIGHT" /\ dx * dy = 2
     \/ t[a].type = "KING" /\ a # b /\ dx <= 1 /\ dy <= 1
     \/ t[a].type \in {"ROOK", "QUEEN"} /\ SameLine(a, b) /\ Clear(t, a, b)
     \/ t[a].type \in {"BISHOP", "QUEEN"} /\ SameDiagonal(a, b) /\ Clear(t, a, b)

Pieces(t, col) == {s \in Square : ~Free(t, s) /\ t[s].col = col}
Attacked(t, s, col) == \E a \in Pieces(t, Opposite(col)) : Attacks(t, a, s)
Kings(t, col) == {s \in Square : Holds(t, s, "KING", col)}
InCheck(t, col) == \E k \in Kings(t, col) : Attacked(t, k, col)

Lift(t, from, to) == [t EXCEPT ![from] = NoPiece, ![to] = t[from]]

(* Moves of one piece to a free square or a square of the other colour. *)
PlainMoves(t, from) ==
  LET col == t[from].col
      up  == Rows[col].up
      pushes  == {s \in Square : /\ s.x = from.x /\ Free(t, s) /\ Clear(t, from, s)
                                 /\ \/ s.y = from.y + up
                                    \/ s.y = from.y + 2 * up /\ from.y = Rows[col].pawns}
      reached == {s \in Square : Attacks(t, from, s)}
      strikes == {s \in reached : ~Free(t, s) /\ t[s].col # col}
      steps   == {s \in reached : Free(t, s)}
      all     == strikes \cup (IF t[from].type = "PAWN" THEN pushes ELSE steps)
  IN {s \in all : ~InCheck(Lift(t, from, s), col)}

(* last is the move before this one: a pawn that stepped over a square is  *)
(* captured on that square by a pawn it now stands beside.                 *)
DoubleStep(t, last) == t[last.to].type = "PAWN" /\ Abs(last.to.y - last.from.y) = 2

EnPassantMoves(t, last, from) ==
  LET col    == t[from].col
      target == Sq(last.to.x, from.y + Rows[col].up)
  IN {s \in {target} : /\ t[from].type = "PAWN" /\ DoubleStep(t, last)
                       /\ t[last.to].col # col
                       /\ from.y = last.to.y /\ Abs(from.x - last.to.x) = 1
                       /\ ~InCheck([Lift(t, from, s) EXCEPT ![last.to] = NoPiece], col)}

(* touched holds the squares a move has started from or ended on: a piece  *)
(* on any other square has never moved.                                    *)
CastlingMoves(t, touched, from) ==
  LET col == t[from].col
      row == Rows[col].back
      king == Sq(4, row)
      side(corner, way) ==
        {s \in {Sq(4 + 2 * way, row)} :
           /\ Holds(t, corner, "ROOK", col) /\ corner \notin touched
           /\ Clear(t, king, corner)
           /\ \A k \in 0 .. 2 : ~Attacked(t, Sq(4 + k * way, row), col)}
  IN IF from = king /\ Holds(t, king, "KING", col) /\ king \notin touched
     THEN side(Sq(0, row), -1) \cup side(Sq(7, row), 1) ELSE {}

Lawful(t, last, touched, from) ==
  PlainMoves(t, from) \cup EnPassantMoves(t, last, from) \cup CastlingMoves(t, touched, from)

HasLawfulMove(t, last, touched, col) ==
  \E from \in Pieces(t, col) : Lawful(t, last, touched, from) # {}
=============================================================================
