--------------------------- MODULE BoardGameProofs ---------------------------
(***************************************************************************)
(* Proofs about a game on one Board: attacks and moves are compared with   *)
(* the laws of chess square by square, and the data the Board keeps beside *)
(* its tiles with the tiles and with the history of the game.              *)
(***************************************************************************)
EXTENDS BoardGame, BoardProofs, FiniteSetTheorems

-----------------------------------------------------------------------------
(* Both modules speak of the same squares and pieces. *)
LEMMA SameSquares == L!Square = Square
BY DEF L!Square, Square

LEMMA SameOpposite == \A c : L!Opposite(c) = Opposite(c)
BY DEF L!Opposite, Opposite

LEMMA AbsTest == \A n \in Int : L!Abs(n) >= 0 /\ (L!Abs(n) = n \/ L!Abs(n) = -n)
BY DEF L!Abs

-----------------------------------------------------------------------------
(* Integers. *)
LEMMA ProductSign ==
  ASSUME NEW u \in Int, NEW v \in Int
  PROVE  u * v <= 0 <=> (u <= 0 /\ v >= 0) \/ (u >= 0 /\ v <= 0)
OBVIOUS

LEMMA Cancelled ==
  ASSUME NEW u \in Int, NEW v \in Int, NEW k \in Int, k > 0
  PROVE  u * k = v * k <=> u = v
OBVIOUS

Unit == {-1, 0, 1}

(* The points strictly between 0 and k steps in a direction, as the laws of *)
(* chess have them and as a loop over the direction visits them.            *)
Inside(k, dx, dy, u, v) ==
  /\ u * (k * dy) = v * (k * dx)
  /\ u * (u - k * dx) <= 0 /\ v * (v - k * dy) <= 0
  /\ ~(u = 0 /\ v = 0) /\ ~(u = k * dx /\ v = k * dy)

Visited(k, dx, dy, u, v) == \E j \in 1 .. k - 1 : u = j * dx /\ v = j * dy

LEMMA Path ==
  ASSUME NEW k \in 1 .. 7, NEW dx \in Unit, NEW dy \in Unit, dx # 0 \/ dy # 0,
         NEW u \in Int, NEW v \in Int
  PROVE  Inside(k, dx, dy, u, v) <=> Visited(k, dx, dy, u, v)
<1>1. /\ u * (u - k * dx) <= 0 <=> (u <= 0 /\ u - k * dx >= 0) \/ (u >= 0 /\ u - k * dx <= 0)
      /\ v * (v - k * dy) <= 0 <=> (v <= 0 /\ v - k * dy >= 0) \/ (v >= 0 /\ v - k * dy <= 0)
  <2>1. u - k * dx \in Int /\ v - k * dy \in Int
    BY DEF Unit
  <2> QED
    BY <2>1, ProductSign
<1>2. u * (k * dy) = v * (k * dx) <=> u * dy = v * dx
  <2>1. u * (k * dy) = (u * dy) * k /\ v * (k * dx) = (v * dx) * k
        /\ u * dy \in Int /\ v * dx \in Int
    BY DEF Unit
  <2> QED
    BY <2>1, Cancelled
<1>3. ASSUME NEW j \in 1 .. k - 1, u = j * dx, v = j * dy
      PROVE  /\ u * dy = v * dx
             /\ (u <= 0 /\ u - k * dx >= 0) \/ (u >= 0 /\ u - k * dx <= 0)
             /\ (v <= 0 /\ v - k * dy >= 0) \/ (v >= 0 /\ v - k * dy <= 0)
             /\ ~(u = 0 /\ v = 0) /\ ~(u = k * dx /\ v = k * dy)
  BY <1>3 DEF Unit
<1>4. ASSUME u * dy = v * dx,
             (u <= 0 /\ u - k * dx >= 0) \/ (u >= 0 /\ u - k * dx <= 0),
             (v <= 0 /\ v - k * dy >= 0) \/ (v >= 0 /\ v - k * dy <= 0),
             ~(u = 0 /\ v = 0), ~(u = k * dx /\ v = k * dy)
      PROVE  \E j \in 1 .. k - 1 : u = j * dx /\ v = j * dy
  <2> DEFINE j == IF dx = 0 THEN v * dy ELSE u * dx
  <2>1. j \in 1 .. k - 1 /\ u = j * dx /\ v = j * dy
    BY <1>4 DEF Unit
  <2> QED
    BY <2>1
<1> QED
  BY <1>1, <1>2, <1>3, <1>4 DEF Inside, Visited

-----------------------------------------------------------------------------
(* Directions. *)
LEMMA DirectionSteps ==
  \A d \in KingDirections :
    /\ d[1] \in Unit /\ d[2] \in Unit /\ (d[1] # 0 \/ d[2] # 0)
    /\ d \in RookDirections <=> d[1] = 0 \/ d[2] = 0
    /\ d \in BishopDirections <=> d[1] # 0 /\ d[2] # 0
BY DEF KingDirections, RookDirections, BishopDirections, Unit

LEMMA DirectionOf ==
  ASSUME NEW dx \in Unit, NEW dy \in Unit, dx # 0 \/ dy # 0
  PROVE  /\ <<dx, dy>> \in KingDirections
         /\ dx = 0 \/ dy = 0 => <<dx, dy>> \in RookDirections
         /\ dx # 0 /\ dy # 0 => <<dx, dy>> \in BishopDirections
BY DEF KingDirections, RookDirections, BishopDirections, Unit

LEMMA Multiple ==
  ASSUME NEW k \in Int, NEW e \in Unit
  PROVE  k * e = (IF e = 0 THEN 0 ELSE IF e = 1 THEN k ELSE -k) /\ k * e \in Int
BY DEF Unit

LEMMA StepCoordinates ==
  ASSUME NEW a \in Square, NEW d, NEW k
  PROVE  Step(a, d, k).x = a.x + k * d[1] /\ Step(a, d, k).y = a.y + k * d[2]
BY DEF Step, At

LEMMA EqualSquares ==
  ASSUME NEW a \in Square, NEW b \in Square
  PROVE  a = b <=> a.x = b.x /\ a.y = b.y
BY SquareCoordinates

LEMMA BetweenSquares ==
  ASSUME NEW a \in Square, NEW b \in Square, NEW s
  PROVE  s \in L!Between[<<a, b>>] <=>
           /\ s \in Square
           /\ L!SameLine(a, b) \/ L!SameDiagonal(a, b)
           /\ s # a /\ s # b
           /\ (s.x - a.x) * (b.y - a.y) = (s.y - a.y) * (b.x - a.x)
           /\ (s.x - a.x) * (s.x - b.x) <= 0
           /\ (s.y - a.y) * (s.y - b.y) <= 0
<1> DEFINE p == <<a, b>>
<1>1. p \in L!Square \X L!Square /\ p[1] = a /\ p[2] = b
  BY SameSquares
<1> HIDE DEF p
<1>2. L!Between[p] =
        {r \in L!Square : /\ L!SameLine(a, b) \/ L!SameDiagonal(a, b)
                          /\ r \notin {a, b}
                          /\ (r.x - a.x) * (b.y - a.y) = (r.y - a.y) * (b.x - a.x)
                          /\ (r.x - a.x) * (r.x - b.x) <= 0
                          /\ (r.y - a.y) * (r.y - b.y) <= 0}
  BY <1>1 DEF L!Between
<1> QED
  BY <1>2, SameSquares DEF p

(* Two squares share a row, a column or a diagonal when one is reached from *)
(* the other by steps in one direction.                                     *)
LEMMA LineOfSteps ==
  ASSUME NEW a \in Square, NEW d \in KingDirections, NEW k \in 1 .. 7, Step(a, d, k) \in Square
  PROVE  /\ d \in RookDirections => L!SameLine(a, Step(a, d, k))
         /\ d \in BishopDirections => L!SameDiagonal(a, Step(a, d, k))
         /\ a # Step(a, d, k)
<1> DEFINE b == Step(a, d, k)
<1>1. b.x = a.x + k * d[1] /\ b.y = a.y + k * d[2]
  BY StepCoordinates
<1>2. a.x \in Int /\ a.y \in Int /\ b.x \in Int /\ b.y \in Int
  BY DEF Square
<1>3. /\ d[1] \in Unit /\ d[2] \in Unit /\ (d[1] # 0 \/ d[2] # 0)
      /\ d \in RookDirections => d[1] = 0 \/ d[2] = 0
      /\ d \in BishopDirections => d[1] # 0 /\ d[2] # 0
  BY DirectionSteps
<1> HIDE DEF b
<1>4. a.x # b.x \/ a.y # b.y
  BY <1>1, <1>2, <1>3 DEF Unit
<1>5. d[1] = 0 \/ d[2] = 0 => a.x = b.x \/ a.y = b.y
  BY <1>1, <1>2, <1>3 DEF Unit
<1>6. d[1] # 0 /\ d[2] # 0 => L!Abs(a.x - b.x) = k /\ L!Abs(a.y - b.y) = k
  BY <1>1, <1>2, <1>3 DEF Unit, L!Abs
<1> QED
  BY <1>3, <1>4, <1>5, <1>6 DEF L!SameLine, L!SameDiagonal, b

LEMMA StepsOfLine ==
  ASSUME NEW a \in Square, NEW b \in Square
  PROVE  /\ L!SameLine(a, b) => \E d \in RookDirections, k \in 1 .. 7 : b = Step(a, d, k)
         /\ L!SameDiagonal(a, b) => \E d \in BishopDirections, k \in 1 .. 7 : b = Step(a, d, k)
<1> DEFINE sign(n) == IF n = 0 THEN 0 ELSE IF n < 0 THEN -1 ELSE 1
           d == <<sign(b.x - a.x), sign(b.y - a.y)>>
           k == IF b.x = a.x THEN L!Abs(b.y - a.y) ELSE L!Abs(b.x - a.x)
<1>1. a.x \in 0 .. 7 /\ a.y \in 0 .. 7 /\ b.x \in 0 .. 7 /\ b.y \in 0 .. 7
  BY DEF Square
<1>2. d[1] = sign(b.x - a.x) /\ d[2] = sign(b.y - a.y)
  OBVIOUS
<1>3. sign(b.x - a.x) \in Unit /\ sign(b.y - a.y) \in Unit
  BY DEF Unit
<1>4. a # b => a.x # b.x \/ a.y # b.y
  BY EqualSquares
<1>5. L!SameLine(a, b) \/ L!SameDiagonal(a, b) =>
        /\ k \in 1 .. 7
        /\ b.x = a.x + k * sign(b.x - a.x) /\ b.y = a.y + k * sign(b.y - a.y)
  BY <1>1, <1>4 DEF L!SameLine, L!SameDiagonal, L!Abs
<1>6. /\ L!SameLine(a, b) => d \in RookDirections
      /\ L!SameDiagonal(a, b) => d \in BishopDirections
  <2>1. /\ L!SameLine(a, b) => \/ sign(b.x - a.x) = 0 /\ sign(b.y - a.y) # 0
                               \/ sign(b.x - a.x) # 0 /\ sign(b.y - a.y) = 0
        /\ L!SameDiagonal(a, b) => sign(b.x - a.x) # 0 /\ sign(b.y - a.y) # 0
    BY <1>1, <1>4 DEF L!SameLine, L!SameDiagonal, L!Abs
  <2> HIDE DEF sign
  <2> QED
    BY <2>1, <1>3, DirectionOf
<1>7. L!SameLine(a, b) \/ L!SameDiagonal(a, b) => b = Step(a, d, k)
  <2> HIDE DEF k, d
  <2> QED
    BY <1>2, <1>5, SquareCoordinates DEF Step, At
<1> HIDE DEF k, d
<1> QED
  BY <1>5, <1>6, <1>7

LEMMA BetweenSteps ==
  ASSUME NEW a \in Square, NEW b \in Square, NEW d \in KingDirections, NEW k \in 1 .. 7,
         b = Step(a, d, k), NEW s
  PROVE  s \in L!Between[<<a, b>>] <=> \E j \in 1 .. k - 1 : s = Step(a, d, j)
<1>1. b.x = a.x + k * d[1] /\ b.y = a.y + k * d[2]
  BY StepCoordinates
<1>2. a.x \in 0 .. 7 /\ a.y \in 0 .. 7 /\ b.x \in 0 .. 7 /\ b.y \in 0 .. 7
  BY DEF Square
<1>3. d[1] \in Unit /\ d[2] \in Unit /\ (d[1] # 0 \/ d[2] # 0)
  BY DirectionSteps
<1>4. L!SameLine(a, b) \/ L!SameDiagonal(a, b)
  BY LineOfSteps DEF KingDirections
<1>5. b \in Square
  OBVIOUS
<1>6. ASSUME NEW j \in 1 .. k - 1 PROVE Step(a, d, j) \in Square
  <2>1. a.x + j * d[1] \in 0 .. 7 /\ a.y + j * d[2] \in 0 .. 7
    <3>1. /\ j * d[1] = (IF d[1] = 0 THEN 0 ELSE IF d[1] = 1 THEN j ELSE -j)
          /\ j * d[2] = (IF d[2] = 0 THEN 0 ELSE IF d[2] = 1 THEN j ELSE -j)
          /\ k * d[1] = (IF d[1] = 0 THEN 0 ELSE IF d[1] = 1 THEN k ELSE -k)
          /\ k * d[2] = (IF d[2] = 0 THEN 0 ELSE IF d[2] = 1 THEN k ELSE -k)
      BY <1>3, Multiple
    <3>2. j * d[1] \in Int /\ j * d[2] \in Int /\ k * d[1] \in Int /\ k * d[2] \in Int
      BY <1>3, Multiple
    <3> DEFINE jx == j * d[1]
               jy == j * d[2]
               kx == k * d[1]
               ky == k * d[2]
    <3>3. /\ jx \in Int /\ kx \in Int
          /\ (kx = 0 /\ jx = 0) \/ (kx = k /\ jx = j) \/ (kx = -k /\ jx = -j)
      BY <3>1, <3>2
    <3>4. /\ jy \in Int /\ ky \in Int
          /\ (ky = 0 /\ jy = 0) \/ (ky = k /\ jy = j) \/ (ky = -k /\ jy = -j)
      BY <3>1, <3>2
    <3>5. b.x = a.x + kx /\ b.y = a.y + ky
      BY <1>1
    <3> HIDE DEF jx, jy, kx, ky
    <3>6. a.x + jx \in 0 .. 7 /\ a.y + jy \in 0 .. 7
      BY <3>3, <3>4, <3>5, <1>2
    <3> QED
      BY <3>6 DEF jx, jy
  <2> QED
    BY <2>1 DEF Step, At, Square
<1>7. ASSUME s \in Square
      PROVE  s \in L!Between[<<a, b>>] <=> \E j \in 1 .. k - 1 : s = Step(a, d, j)
  <2> DEFINE u == s.x - a.x
             v == s.y - a.y
  <2>1. s.x \in Int /\ s.y \in Int
    BY <1>7 DEF Square
  <2>2. b.x - a.x = k * d[1] /\ b.y - a.y = k * d[2] /\ k * d[1] \in Int /\ k * d[2] \in Int
    <3>1. k * d[1] \in Int /\ k * d[2] \in Int
      BY <1>3, Multiple
    <3> QED
      BY <3>1, <1>1, <1>2
  <2>3. s.x - b.x = u - k * d[1] /\ s.y - b.y = v - k * d[2]
    BY <2>1, <2>2, <1>2
  <2>4. (s = a <=> u = 0 /\ v = 0) /\ (s = b <=> u = k * d[1] /\ v = k * d[2])
    <3>1. (s = a <=> s.x = a.x /\ s.y = a.y) /\ (s = b <=> s.x = b.x /\ s.y = b.y)
      BY <1>5, <1>7, EqualSquares
    <3> QED
      BY <3>1, <1>2, <2>1, <2>2
  <2>5. \A j \in 1 .. k - 1 : s = Step(a, d, j) <=> u = j * d[1] /\ v = j * d[2]
    <3> TAKE j \in 1 .. k - 1
    <3>1. s = Step(a, d, j) <=> s.x = a.x + j * d[1] /\ s.y = a.y + j * d[2]
      BY <1>6, <1>7, EqualSquares, StepCoordinates
    <3>2. j * d[1] \in Int /\ j * d[2] \in Int
      BY <1>3 DEF Unit
    <3> QED
      BY <3>1, <3>2, <2>1, <1>2
  <2>6. u \in Int /\ v \in Int
    BY <2>1, <1>2
  <2>7. s \in L!Between[<<a, b>>] <=> Inside(k, d[1], d[2], u, v)
    <3>1. s \in L!Between[<<a, b>>] <=>
           /\ s # a /\ s # b
           /\ u * (b.y - a.y) = v * (b.x - a.x)
           /\ u * (s.x - b.x) <= 0
           /\ v * (s.y - b.y) <= 0
      BY <1>4, <1>5, <1>7, BetweenSquares
    <3> QED
      BY <3>1, <2>2, <2>3, <2>4 DEF Inside
  <2> HIDE DEF u, v
  <2>8. Inside(k, d[1], d[2], u, v) <=> Visited(k, d[1], d[2], u, v)
    BY <2>6, <1>3, Path
  <2> QED
    BY <2>5, <2>7, <2>8 DEF Visited
<1> QED
  BY <1>6, <1>7, BetweenSquares

(* What a sliding piece passes over is what lies between two squares. *)
LEMMA RayIsClear ==
  ASSUME NEW t, NEW a \in Square, NEW d \in KingDirections, NEW b \in Square
  PROVE  b \in Ray(t, a, d) <=> (\E k \in 1 .. 7 : b = Step(a, d, k)) /\ L!Clear(t, a, b)
<1>1. b \in Ray(t, a, d) <=>
        \E k \in 1 .. 7 : b = Step(a, d, k) /\ \A j \in 1 .. k - 1 : Empty(t, Step(a, d, j))
  BY DEF Ray
<1>2. ASSUME NEW k \in 1 .. 7, b = Step(a, d, k)
      PROVE  L!Clear(t, a, b) <=> \A j \in 1 .. k - 1 : Empty(t, Step(a, d, j))
  <2>1. \A s : s \in L!Between[<<a, b>>] <=> \E j \in 1 .. k - 1 : s = Step(a, d, j)
    BY <1>2, BetweenSteps
  <2> QED
    BY <2>1 DEF L!Clear, L!Free, Empty
<1> QED
  BY <1>1, <1>2

LEMMA RookRays ==
  ASSUME NEW t, NEW a \in Square, NEW b \in Square
  PROVE  (\E d \in RookDirections : b \in Ray(t, a, d)) <=> L!SameLine(a, b) /\ L!Clear(t, a, b)
<1>1. \A d \in RookDirections : d \in KingDirections
  BY DEF KingDirections
<1>2. ASSUME NEW d \in RookDirections, NEW k \in 1 .. 7, b = Step(a, d, k)
      PROVE  L!SameLine(a, b)
  BY <1>1, <1>2, LineOfSteps
<1> QED
  BY <1>1, <1>2, RayIsClear, StepsOfLine

LEMMA BishopRays ==
  ASSUME NEW t, NEW a \in Square, NEW b \in Square
  PROVE  (\E d \in BishopDirections : b \in Ray(t, a, d))
           <=> L!SameDiagonal(a, b) /\ L!Clear(t, a, b)
<1>1. \A d \in BishopDirections : d \in KingDirections
  BY DEF KingDirections
<1>2. ASSUME NEW d \in BishopDirections, NEW k \in 1 .. 7, b = Step(a, d, k)
      PROVE  L!SameDiagonal(a, b)
  BY <1>1, <1>2, LineOfSteps
<1> QED
  BY <1>1, <1>2, RayIsClear, StepsOfLine

(* The laws look along a line from either end. *)
LEMMA LinesGoBothWays ==
  ASSUME NEW a \in Square, NEW b \in Square
  PROVE  /\ L!SameLine(a, b) <=> L!SameLine(b, a)
         /\ L!SameDiagonal(a, b) <=> L!SameDiagonal(b, a)
         /\ \A t : L!Clear(t, a, b) <=> L!Clear(t, b, a)
<1>1. a.x \in Int /\ a.y \in Int /\ b.x \in Int /\ b.y \in Int
  BY DEF Square
<1>2. L!SameLine(a, b) <=> L!SameLine(b, a)
  BY DEF L!SameLine
<1>3. L!SameDiagonal(a, b) <=> L!SameDiagonal(b, a)
  BY <1>1 DEF L!SameDiagonal, L!Abs
<1>4. ASSUME NEW s PROVE s \in L!Between[<<a, b>>] <=> s \in L!Between[<<b, a>>]
  <2>1. ASSUME s \in Square
        PROVE  /\ (s.x - a.x) * (b.y - a.y) = (s.y - a.y) * (b.x - a.x)
                    <=> (s.x - b.x) * (a.y - b.y) = (s.y - b.y) * (a.x - b.x)
               /\ (s.x - a.x) * (s.x - b.x) = (s.x - b.x) * (s.x - a.x)
               /\ (s.y - a.y) * (s.y - b.y) = (s.y - b.y) * (s.y - a.y)
    <3>1. s.x \in Int /\ s.y \in Int
      BY <2>1 DEF Square
    <3> DEFINE ax == a.x
               ay == a.y
               bx == b.x
               by == b.y
               x == s.x
               y == s.y
    <3>2. ax \in Int /\ ay \in Int /\ bx \in Int /\ by \in Int /\ x \in Int /\ y \in Int
      BY <1>1, <3>1
    <3> HIDE DEF ax, ay, bx, by, x, y
    <3>3. /\ (x - ax) * (by - ay) = (y - ay) * (bx - ax)
               <=> (x - bx) * (ay - by) = (y - by) * (ax - bx)
          /\ (x - ax) * (x - bx) = (x - bx) * (x - ax)
          /\ (y - ay) * (y - by) = (y - by) * (y - ay)
      BY <3>2
    <3> QED
      BY <3>3 DEF ax, ay, bx, by, x, y
  <2> QED
    BY <2>1, <1>2, <1>3, BetweenSquares
<1> QED
  BY <1>2, <1>3, <1>4 DEF L!Clear

-----------------------------------------------------------------------------
(* Attacks. *)
LEMMA PieceIs ==
  ASSUME NEW t \in Tiles, NEW s \in Square, NEW type, NEW col
  PROVE  Is(t, s, type, col) <=> t[s].type = type /\ t[s].col = col
BY DEF Is, Tiles, Piece

LEMMA FoeIs ==
  ASSUME NEW t \in Tiles, NEW s \in Square, NEW col \in Color
  PROVE  IsFoe(t, s, col) <=> t[s].type # "NONE" /\ t[s].col = Opposite(col)
BY DEF IsFoe, Empty, Tiles, Piece, Color, Opposite

LEMMA StepSquare ==
  ASSUME NEW a \in Square, NEW b \in Square, NEW d
  PROVE  b = Step(a, d, 1) <=> b.x = a.x + 1 * d[1] /\ b.y = a.y + 1 * d[2]
BY SquareCoordinates DEF Step, At

LEMMA ReachedInOneStep ==
  ASSUME NEW a \in Square, NEW b \in Square, NEW u \in Int, NEW v \in Int
  PROVE  b = Step(a, <<u, v>>, 1) <=> b.x - a.x = u /\ b.y - a.y = v
<1>1. a.x \in Int /\ a.y \in Int /\ b.x \in Int /\ b.y \in Int
  BY DEF Square
<1>2. b = Step(a, <<u, v>>, 1) <=> b.x = a.x + 1 * u /\ b.y = a.y + 1 * v
  BY StepSquare
<1> QED
  BY <1>1, <1>2

LEMMA KnightSteps ==
  ASSUME NEW u \in Int, NEW v \in Int
  PROVE  L!Abs(u) * L!Abs(v) = 2 <=> <<u, v>> \in KnightDirections
<1> DEFINE leaps == \/ u \in {1, -1} /\ v \in {2, -2}
                    \/ u \in {2, -2} /\ v \in {1, -1}
<1>1. <<u, v>> \in KnightDirections <=> u \in -2 .. 2 /\ v \in -2 .. 2 /\ u * u + v * v = 5
  BY DEF KnightDirections
<1>2. u \in -2 .. 2 /\ v \in -2 .. 2 /\ u * u + v * v = 5 <=> leaps
  OBVIOUS
<1>3. L!Abs(u) * L!Abs(v) = 2 <=> leaps
  <2>1. \A m \in Nat, n \in Nat : m * n = 2 <=> (m = 1 /\ n = 2) \/ (m = 2 /\ n = 1)
    OBVIOUS
  <2>2. L!Abs(u) \in Nat /\ L!Abs(v) \in Nat
    BY DEF L!Abs
  <2> QED
    BY <2>1, <2>2 DEF L!Abs
<1> QED
  BY <1>1, <1>2, <1>3

LEMMA KingSteps ==
  ASSUME NEW u \in Int, NEW v \in Int
  PROVE  <<u, v>> \in KingDirections <=> (u # 0 \/ v # 0) /\ L!Abs(u) <= 1 /\ L!Abs(v) <= 1
BY DEF KingDirections, RookDirections, BishopDirections, L!Abs

(* Every direction is a pair of integers. *)
LEMMA DirectionsArePairs ==
  /\ \A d \in KingDirections : d = <<d[1], d[2]>> /\ d[1] \in Int /\ d[2] \in Int
  /\ \A d \in KnightDirections : d = <<d[1], d[2]>> /\ d[1] \in Int /\ d[2] \in Int
<1>1. \A d \in KingDirections : d = <<d[1], d[2]>> /\ d[1] \in Int /\ d[2] \in Int
  BY DEF KingDirections, RookDirections, BishopDirections
<1>2. \A d \in KnightDirections : d = <<d[1], d[2]>> /\ d[1] \in Int /\ d[2] \in Int
  BY DEF KnightDirections
<1> QED
  BY <1>1, <1>2

LEMMA OneStepAway ==
  ASSUME NEW a \in Square, NEW b \in Square
  PROVE  /\ (\E d \in KingDirections : b = Step(a, d, 1))
              <=> a # b /\ L!Abs(b.x - a.x) <= 1 /\ L!Abs(b.y - a.y) <= 1
         /\ (\E d \in KnightDirections : b = Step(a, d, 1))
              <=> L!Abs(b.x - a.x) * L!Abs(b.y - a.y) = 2
<1> DEFINE u == b.x - a.x
           v == b.y - a.y
<1>1. a.x \in Int /\ a.y \in Int /\ b.x \in Int /\ b.y \in Int
  BY DEF Square
<1>2. u \in Int /\ v \in Int
  BY <1>1
<1>3. a = b <=> u = 0 /\ v = 0
  BY <1>1, EqualSquares
<1>4. \A m \in Int, n \in Int : b = Step(a, <<m, n>>, 1) <=> u = m /\ v = n
  BY ReachedInOneStep
<1> HIDE DEF u, v
<1>5. (\E d \in KingDirections : b = Step(a, d, 1)) <=> <<u, v>> \in KingDirections
  BY <1>2, <1>4, DirectionsArePairs
<1>6. (\E d \in KnightDirections : b = Step(a, d, 1)) <=> <<u, v>> \in KnightDirections
  BY <1>2, <1>4, DirectionsArePairs
<1>7. <<u, v>> \in KingDirections <=> (u # 0 \/ v # 0) /\ L!Abs(u) <= 1 /\ L!Abs(v) <= 1
  BY <1>2, KingSteps
<1>8. <<u, v>> \in KnightDirections <=> L!Abs(u) * L!Abs(v) = 2
  BY <1>2, KnightSteps
<1> QED
  BY <1>3, <1>5, <1>6, <1>7, <1>8 DEF u, v

LEMMA AbsIsEven == \A m \in Int, n \in Int : L!Abs(m - n) = L!Abs(n - m)
BY DEF L!Abs

(* The pieces of one kind that attack a square, seen from that square and   *)
(* seen from the pieces.                                                    *)
LEMMA PawnAttack ==
  ASSUME NEW t \in Tiles, NEW k \in Square, NEW col \in Color
  PROVE  IsKingAttackedByPawn(t, k, col) <=>
           \E a \in Square : /\ t[a].type = "PAWN" /\ t[a].col = Opposite(col)
                             /\ L!Abs(a.x - k.x) = 1 /\ k.y = a.y + L!Rows[t[a].col].up
<1>1. k.x \in Int /\ k.y \in Int
  BY DEF Square
<1>2. col \in {"WHITE", "BLACK"}
  BY DEF Color
<1> DEFINE up == IF col = "WHITE" THEN 1 ELSE -1
<1>3. L!Rows[Opposite(col)].up = -up
  BY <1>2 DEF L!Rows, Opposite
<1>4. Ahead(k, col) = At(k.x, k.y + up)
  BY AheadIsPosition
<1>5. up \in Int
  OBVIOUS
<1> HIDE DEF up
<1>6. \A dx \in {1, -1} : /\ Step(Ahead(k, col), <<dx, 0>>, 1) = At(k.x + dx, k.y + up)
  BY <1>1, <1>4, <1>5 DEF Step, At
<1>7. ASSUME NEW a \in Square
      PROVE  (\E dx \in {1, -1} : a = At(k.x + dx, k.y + up))
               <=> L!Abs(a.x - k.x) = 1 /\ k.y = a.y + (-up)
  <2>1. a.x \in Int /\ a.y \in Int
    BY DEF Square
  <2>2. \A dx \in {1, -1} : a = At(k.x + dx, k.y + up) <=> a.x = k.x + dx /\ a.y = k.y + up
    BY SquareCoordinates DEF At
  <2> QED
    BY <2>1, <2>2, <1>1, <1>5 DEF L!Abs
<1> QED
  BY <1>3, <1>6, <1>7, PieceIs DEF IsKingAttackedByPawn

LEMMA RoundAttack ==
  ASSUME NEW t \in Tiles, NEW k \in Square, NEW col \in Color
  PROVE  /\ IsKingAttackedByRound(t, KnightDirections, k, "KNIGHT", col) <=>
              \E a \in Square : /\ t[a].type = "KNIGHT" /\ t[a].col = Opposite(col)
                                /\ L!Abs(a.x - k.x) * L!Abs(a.y - k.y) = 2
         /\ IsKingAttackedByRound(t, KingDirections, k, "KING", col) <=>
              \E a \in Square : /\ t[a].type = "KING" /\ t[a].col = Opposite(col)
                                /\ a # k /\ L!Abs(a.x - k.x) <= 1 /\ L!Abs(a.y - k.y) <= 1
<1>1. \A dirs, type : IsKingAttackedByRound(t, dirs, k, type, col) <=>
        \E a \in Square : /\ t[a].type = type /\ t[a].col = Opposite(col)
                          /\ \E d \in dirs : a = Step(k, d, 1)
  BY PieceIs DEF IsKingAttackedByRound
<1> QED
  BY <1>1, OneStepAway

LEMMA SlidingAttack ==
  ASSUME NEW t \in Tiles, NEW k \in Square, NEW col \in Color
  PROVE  /\ IsKingAttackedBySliding(t, RookDirections, k, "ROOK", col) <=>
              \E a \in Square : /\ t[a].type \in {"ROOK", "QUEEN"} /\ t[a].col = Opposite(col)
                                /\ L!SameLine(a, k) /\ L!Clear(t, a, k)
         /\ IsKingAttackedBySliding(t, BishopDirections, k, "BISHOP", col) <=>
              \E a \in Square : /\ t[a].type \in {"BISHOP", "QUEEN"} /\ t[a].col = Opposite(col)
                                /\ L!SameDiagonal(a, k) /\ L!Clear(t, a, k)
<1>1. ASSUME NEW dirs, NEW type \in {"ROOK", "BISHOP"}
      PROVE  IsKingAttackedBySliding(t, dirs, k, type, col) <=>
        \E a \in Square : /\ t[a].type \in {type, "QUEEN"} /\ t[a].col = Opposite(col)
                          /\ \E d \in dirs : a \in Ray(t, k, d)
  <2>1. \A d : Ray(t, k, d) \subseteq Square
    BY RaySquares
  <2>2. \A a \in Square : IsFoe(t, a, col) /\ t[a].type \in {type, "QUEEN"}
                            <=> t[a].type \in {type, "QUEEN"} /\ t[a].col = Opposite(col)
    BY <1>1, FoeIs
  <2> QED
    BY <2>1, <2>2 DEF IsKingAttackedBySliding
<1>2. \A a \in Square : /\ L!SameLine(a, k) <=> L!SameLine(k, a)
                        /\ L!SameDiagonal(a, k) <=> L!SameDiagonal(k, a)
                        /\ L!Clear(t, a, k) <=> L!Clear(t, k, a)
  BY LinesGoBothWays
<1>3. \A a \in Square :
        /\ (\E d \in RookDirections : a \in Ray(t, k, d)) <=> L!SameLine(k, a) /\ L!Clear(t, k, a)
        /\ (\E d \in BishopDirections : a \in Ray(t, k, d))
             <=> L!SameDiagonal(k, a) /\ L!Clear(t, k, a)
  BY RookRays, BishopRays
<1> QED
  BY <1>1, <1>2, <1>3

(* isKingAttacked sees every attack there is by the laws of chess, and no   *)
(* other.                                                                   *)
THEOREM AttacksAreLawful ==
  ASSUME NEW t \in Tiles, NEW k \in Square, NEW col \in Color
  PROVE  IsKingAttacked(t, k, col) <=> L!Attacked(t, k, col)
<1> DEFINE foe == Opposite(col)
<1>1. L!Attacked(t, k, col) <=>
        \E a \in Square : t[a].type # "NONE" /\ t[a].col = foe /\ L!Attacks(t, a, k)
  BY SameSquares, SameOpposite DEF L!Attacked, L!Pieces, L!Free
<1>2. \A a \in Square : L!Attacks(t, a, k) => t[a].type # "NONE"
  BY DEF L!Attacks
<1> QED
  BY <1>1, <1>2, PawnAttack, RoundAttack, SlidingAttack DEF L!Attacks, IsKingAttacked

-----------------------------------------------------------------------------
(* The inductive invariant: pawns are promoted in the last rows; the kings *)
(* are where they are kept, and the one that has just been moved is safe,  *)
(* so that no move can take it; a castling right implies a king at home;   *)
(* and the data for the capture en passant tell of a double step that has  *)
(* just been made.                                                         *)
KingsKept(b) == \A c \in Color : L!Kings(b.tiles, c) = {b.kingPos[c]}

RightsAtHome(b) ==
  \A c \in Color : b.qSide[c] \/ b.kSide[c] => b.kingPos[c] = At(4, HomeRow(c))

Direction(c) == IF c = "WHITE" THEN 1 ELSE -1

PawnJustPassed(b, foe, last) ==
  /\ last.from \in Square /\ last.to \in Square
  /\ b.epEnabled <=> L!DoubleStep(b.tiles, last)
  /\ b.epEnabled =>
       /\ b.tiles[last.to] = [type |-> "PAWN", col |-> foe]
       /\ last.from.x = last.to.x /\ last.from.y = PawnRow(foe)
       /\ last.to.y = last.from.y + 2 * Direction(foe)
       /\ b.ep = At(last.from.x, last.from.y + Direction(foe))
       /\ Empty(b.tiles, b.ep)

(* mover has just made the move last. *)
SoundBoard(b, mover, last) ==
  /\ b \in BoardObject
  /\ KingsKept(b)
  /\ ~L!InCheck(b.tiles, mover)
  /\ RightsAtHome(b)
  /\ PawnJustPassed(b, mover, last)

PromotedAtTheEnd == owed \subseteq {s \in Square : s.y \in {0, 7}}

History == [last : [from : Square, to : Square], touched : SUBSET Square, taken : SUBSET Square,
            left : Nat, fresh : BOOLEAN, astray : BOOLEAN]

GameInv ==
  /\ TypeOK /\ history \in History
  /\ PromotedAtTheEnd
  /\ Followed => SoundBoard(board, Opposite(team), history.last)

-----------------------------------------------------------------------------
(* Moves of single pieces, as the code finds them and as the laws have them. *)
LEMMA SlidingReach ==
  ASSUME NEW t \in Tiles, NEW a \in Square, NEW s \in Square, NEW col
  PROVE  LET open == Empty(t, s) \/ t[s].col # col IN
         /\ s \in CalculateSlidingMoves(t, RookDirections, a, col)
              <=> L!SameLine(a, s) /\ L!Clear(t, a, s) /\ open
         /\ s \in CalculateSlidingMoves(t, BishopDirections, a, col)
              <=> L!SameDiagonal(a, s) /\ L!Clear(t, a, s) /\ open
         /\ s \in CalculateSlidingMoves(t, KingDirections, a, col)
              <=> (L!SameLine(a, s) \/ L!SameDiagonal(a, s)) /\ L!Clear(t, a, s) /\ open
<1>1. \A dirs : s \in CalculateSlidingMoves(t, dirs, a, col) <=>
                  (\E d \in dirs : s \in Ray(t, a, d)) /\ (Empty(t, s) \/ t[s].col # col)
  BY DEF CalculateSlidingMoves
<1>2. (\E d \in KingDirections : s \in Ray(t, a, d)) <=>
        (\E d \in RookDirections : s \in Ray(t, a, d))
          \/ (\E d \in BishopDirections : s \in Ray(t, a, d))
  BY DEF KingDirections
<1> QED
  BY <1>1, <1>2, RookRays, BishopRays

LEMMA RoundReach ==
  ASSUME NEW t \in Tiles, NEW a \in Square, NEW s \in Square, NEW col
  PROVE  LET open == Empty(t, s) \/ t[s].col # col IN
         /\ s \in CalculateRoundMoves(t, KingDirections, a, col)
              <=> a # s /\ L!Abs(a.x - s.x) <= 1 /\ L!Abs(a.y - s.y) <= 1 /\ open
         /\ s \in CalculateRoundMoves(t, KnightDirections, a, col)
              <=> L!Abs(a.x - s.x) * L!Abs(a.y - s.y) = 2 /\ open
<1>1. \A dirs : s \in CalculateRoundMoves(t, dirs, a, col) <=>
                  (\E d \in dirs : s = Step(a, d, 1)) /\ (Empty(t, s) \/ t[s].col # col)
  BY DEF CalculateRoundMoves
<1>2. L!Abs(a.x - s.x) = L!Abs(s.x - a.x) /\ L!Abs(a.y - s.y) = L!Abs(s.y - a.y)
  <2>1. a.x \in Int /\ a.y \in Int /\ s.x \in Int /\ s.y \in Int
    BY DEF Square
  <2> QED
    BY <2>1, AbsIsEven
<1> QED
  BY <1>1, <1>2, OneStepAway

(* The moves of a pawn: one step, two steps from the row it starts from,   *)
(* and the captures.                                                       *)
PawnSteps(t, a, s, col) ==
  /\ s.x = a.x /\ Empty(t, s)
  /\ \/ s.y = a.y + Direction(col)
     \/ /\ s.y = a.y + 2 * Direction(col) /\ a.y = PawnRow(col)
        /\ Empty(t, At(a.x, a.y + Direction(col)))

PawnStrikes(t, a, s, col) ==
  L!Abs(a.x - s.x) = 1 /\ s.y = a.y + Direction(col) /\ IsFoe(t, s, col)

LEMMA DirectionIsUp ==
  ASSUME NEW c \in Color
  PROVE  /\ Direction(c) \in {1, -1} /\ Direction(Opposite(c)) = -Direction(c)
         /\ L!Rows[c].up = Direction(c) /\ L!Rows[c].pawns = PawnRow(c)
         /\ L!Rows[c].back = HomeRow(c)
         /\ PawnRow(c) + 2 * Direction(c) \in 3 .. 4 /\ PawnRow(c) \in {1, 6}
         /\ PawnRow(c) + Direction(c) \in {2, 5}
BY DEF Direction, Opposite, L!Rows, PawnRow, HomeRow, Color

LEMMA PawnReach ==
  ASSUME NEW t \in Tiles, NEW a \in Square, NEW col \in Color
  PROVE  /\ CalculatePawnMoves(t, a, col) \subseteq Square
         /\ \A s \in Square : s \in CalculatePawnMoves(t, a, col) <=>
                                PawnSteps(t, a, s, col) \/ PawnStrikes(t, a, s, col)
<1> DEFINE up == Direction(col)
           ahead == Ahead(a, col)
           twice == Ahead(ahead, col)
           left  == Step(ahead, <<-1, 0>>, 1)
           right == Step(ahead, <<1, 0>>, 1)
<1>1. a.x \in 0 .. 7 /\ a.y \in 0 .. 7
  BY DEF Square
<1>2. up \in {1, -1} /\ up = (IF col = "WHITE" THEN 1 ELSE -1)
  BY DirectionIsUp DEF Direction
<1>3. a.y = PawnRow(col) => a.y + 2 * up \in 0 .. 7
  BY DirectionIsUp
<1>4. \A p : (\E x \in Int, y \in Int : p = At(x, y)) => Ahead(p, col) = At(p.x, p.y + up)
  BY <1>2 DEF Ahead, Step, At
<1> HIDE DEF up
<1>5. ahead = At(a.x, a.y + up)
  BY <1>1, <1>4, SquareCoordinates
<1>6. twice = At(a.x, a.y + 2 * up)
  <2>1. ahead.x = a.x /\ ahead.y = a.y + up /\ a.x \in Int /\ a.y + up \in Int
    BY <1>1, <1>2, <1>5 DEF At
  <2>2. twice = At(ahead.x, ahead.y + up)
    BY <2>1, <1>4, <1>5
  <2>3. (a.y + up) + up = a.y + 2 * up
    BY <1>1, <1>2
  <2> QED
    BY <2>1, <2>2, <2>3
<1>7. left = At(a.x + (-1), a.y + up) /\ right = At(a.x + 1, a.y + up)
  BY <1>1, <1>2, <1>5 DEF Step, At
<1> HIDE DEF ahead, twice, left, right
<1>8. CalculatePawnMoves(t, a, col) =
             {s \in {ahead} \cap Square : Empty(t, s)}
        \cup {s \in {twice} : a.y = PawnRow(col) /\ Empty(t, ahead) /\ Empty(t, s)}
        \cup {s \in {right, left} \cap Square : IsFoe(t, s, col)}
  BY DEF CalculatePawnMoves, ahead, twice, left, right
<1>9. a.y = PawnRow(col) => twice \in Square
  BY <1>1, <1>3, <1>6 DEF Square, At
<1>10. CalculatePawnMoves(t, a, col) \subseteq Square
  BY <1>8, <1>9
<1>11. ASSUME NEW s \in Square
       PROVE  s \in CalculatePawnMoves(t, a, col) <=>
                PawnSteps(t, a, s, col) \/ PawnStrikes(t, a, s, col)
  <2>1. s.x \in Int /\ s.y \in Int
    BY DEF Square
  <2>2. s = ahead <=> s.x = a.x /\ s.y = a.y + up
    BY <1>5, SquareCoordinates DEF At
  <2>3. s = twice <=> s.x = a.x /\ s.y = a.y + 2 * up
    BY <1>6, SquareCoordinates DEF At
  <2>4. s \in {right, left} <=> L!Abs(a.x - s.x) = 1 /\ s.y = a.y + up
    <3>1. s = right <=> s.x = a.x + 1 /\ s.y = a.y + up
      BY <1>7, SquareCoordinates DEF At
    <3>2. s = left <=> s.x = a.x + (-1) /\ s.y = a.y + up
      BY <1>7, SquareCoordinates DEF At
    <3> QED
      BY <3>1, <3>2, <2>1, <1>1, <1>2 DEF L!Abs
  <2> QED
    BY <1>5, <1>8, <2>2, <2>3, <2>4 DEF PawnSteps, PawnStrikes, up
<1> QED
  BY <1>10, <1>11

LEMMA PawnIsClear ==
  ASSUME NEW t \in Tiles, NEW a \in Square, NEW s \in Square, NEW col \in Color, s.x = a.x
  PROVE  /\ s.y = a.y + Direction(col) => L!Clear(t, a, s)
         /\ s.y = a.y + 2 * Direction(col) =>
              (L!Clear(t, a, s) <=> Empty(t, At(a.x, a.y + Direction(col))))
<1> DEFINE up == Direction(col)
           d  == <<0, up>>
<1>1. a.x \in Int /\ a.y \in Int
  BY DEF Square
<1>2. up \in {1, -1}
  BY DirectionIsUp
<1>3. d \in KingDirections /\ d[1] = 0 /\ d[2] = up
  BY <1>2, DirectionOf DEF Unit
<1> HIDE DEF up, d
<1>4. \A j \in {1, 2} : Step(a, d, j) = At(a.x, a.y + j * up)
  BY <1>1, <1>3 DEF Step
<1>5. \A j \in {1, 2} : s.y = a.y + j * up => s = Step(a, d, j)
  BY <1>4, SquareCoordinates
<1>6. ASSUME s.y = a.y + up PROVE L!Clear(t, a, s)
  <2>1. s = Step(a, d, 1)
    BY <1>1, <1>2, <1>5, <1>6
  <2>2. \A r : r \in L!Between[<<a, s>>] <=> \E j \in 1 .. 0 : r = Step(a, d, j)
    BY <2>1, <1>3, BetweenSteps
  <2> QED
    BY <2>2 DEF L!Clear
<1>7. ASSUME s.y = a.y + 2 * up
      PROVE  L!Clear(t, a, s) <=> Empty(t, At(a.x, a.y + up))
  <2>1. s = Step(a, d, 2)
    BY <1>5, <1>7
  <2>2. \A r : r \in L!Between[<<a, s>>] <=> \E j \in 1 .. 1 : r = Step(a, d, j)
    BY <2>1, <1>3, BetweenSteps
  <2>3. \A r : r \in L!Between[<<a, s>>] <=> r = At(a.x, a.y + up)
    <3>1. a.y + 1 * up = a.y + up
      BY <1>1, <1>2
    <3> QED
      BY <2>2, <3>1, <1>4
  <2> QED
    BY <2>3 DEF L!Clear, L!Free, Empty
<1> QED
  BY <1>6, <1>7 DEF up

(* What a piece reaches by the laws, before its king is looked at. *)
LawReach(t, from, s) ==
  LET col == t[from].col
      up  == L!Rows[col].up
  IN IF t[from].type = "PAWN"
     THEN \/ /\ s.x = from.x /\ Empty(t, s) /\ L!Clear(t, from, s)
             /\ \/ s.y = from.y + up
                \/ s.y = from.y + 2 * up /\ from.y = L!Rows[col].pawns
          \/ L!Attacks(t, from, s) /\ ~Empty(t, s) /\ t[s].col # col
     ELSE L!Attacks(t, from, s) /\ (Empty(t, s) \/ t[s].col # col)

LEMMA LawfulPlain ==
  ASSUME NEW t \in Tiles, NEW from \in Square, NEW s
  PROVE  s \in L!PlainMoves(t, from) <=>
           s \in Square /\ LawReach(t, from, s) /\ ~L!InCheck(Moved(t, from, s), t[from].col)
<1> DEFINE col == t[from].col
           up  == L!Rows[col].up
           pushes  == {r \in L!Square : /\ r.x = from.x /\ L!Free(t, r) /\ L!Clear(t, from, r)
                                        /\ \/ r.y = from.y + up
                                           \/ r.y = from.y + 2 * up /\ from.y = L!Rows[col].pawns}
           reached == {r \in L!Square : L!Attacks(t, from, r)}
           strikes == {r \in reached : ~L!Free(t, r) /\ t[r].col # col}
           steps   == {r \in reached : L!Free(t, r)}
           all     == strikes \cup (IF t[from].type = "PAWN" THEN pushes ELSE steps)
<1>1. L!PlainMoves(t, from) = {r \in all : ~L!InCheck(L!Lift(t, from, r), col)}
  BY DEF L!PlainMoves
<1>2. L!Lift(t, from, s) = Moved(t, from, s)
  BY DEF L!Lift, Moved, L!NoPiece, NoPiece
<1>3. s \in all <=> s \in Square /\ LawReach(t, from, s)
  BY SameSquares DEF LawReach, L!Free, Empty
<1> HIDE DEF all
<1> QED
  BY <1>1, <1>2, <1>3

(* What it reaches by the code, castling and en passant aside. *)
PlainCandidates(t, pos, own) ==
  CASE t[pos].type = "PAWN"   -> CalculatePawnMoves(t, pos, own)
    [] t[pos].type = "ROOK"   -> CalculateSlidingMoves(t, RookDirections, pos, own)
    [] t[pos].type = "KNIGHT" -> CalculateRoundMoves(t, KnightDirections, pos, own)
    [] t[pos].type = "BISHOP" -> CalculateSlidingMoves(t, BishopDirections, pos, own)
    [] t[pos].type = "QUEEN"  -> CalculateSlidingMoves(t, KingDirections, pos, own)
    [] t[pos].type = "KING"   -> CalculateRoundMoves(t, KingDirections, pos, own)
    [] OTHER                  -> {}

LEMMA CandidateKinds ==
  ASSUME NEW b \in BoardObject, NEW pos \in Square, NEW own, NEW to
  PROVE  to \in CandidateMoves(b, pos, own) <=>
           \/ to \in PlainCandidates(b.tiles, pos, own)
           \/ b.tiles[pos].type = "PAWN" /\ to \in EnPassantMoves(b, pos)
           \/ b.tiles[pos].type = "KING" /\ to \in CastlingMoves(b, pos, own)
BY DEF CandidateMoves, PlainCandidates

LEMMA PlainSquares ==
  ASSUME NEW t \in Tiles, NEW pos \in Square, NEW own \in Color
  PROVE  PlainCandidates(t, pos, own) \subseteq Square
<1>1. \A dirs : /\ CalculateSlidingMoves(t, dirs, pos, own) \subseteq Square
                /\ CalculateRoundMoves(t, dirs, pos, own) \subseteq Square
  BY RaySquares DEF CalculateSlidingMoves, CalculateRoundMoves
<1> QED
  BY <1>1, PawnReach DEF PlainCandidates

LEMMA PlainReach ==
  ASSUME NEW t \in Tiles, NEW a \in Square, NEW s \in Square, t[a].type # "NONE"
  PROVE  s \in PlainCandidates(t, a, t[a].col) <=> LawReach(t, a, s)
<1> DEFINE col == t[a].col
<1>1. col \in Color /\ t[a].type \in PieceType
  BY DEF Tiles, Piece
<1>2. a.x \in Int /\ a.y \in Int /\ s.x \in Int /\ s.y \in Int
  BY DEF Square
<1>3. CASE t[a].type = "PAWN"
  <2>1. s \in PlainCandidates(t, a, col) <=>
          PawnSteps(t, a, s, col) \/ PawnStrikes(t, a, s, col)
    BY <1>1, <1>3, PawnReach DEF PlainCandidates
  <2>2. L!Attacks(t, a, s) <=> L!Abs(a.x - s.x) = 1 /\ s.y = a.y + Direction(col)
    BY <1>1, <1>3, DirectionIsUp DEF L!Attacks
  <2>3. PawnStrikes(t, a, s, col) <=>
          L!Attacks(t, a, s) /\ ~Empty(t, s) /\ t[s].col # col
    BY <2>2 DEF PawnStrikes, IsFoe
  <2>4. PawnSteps(t, a, s, col) <=>
          /\ s.x = a.x /\ Empty(t, s) /\ L!Clear(t, a, s)
          /\ \/ s.y = a.y + Direction(col)
             \/ s.y = a.y + 2 * Direction(col) /\ a.y = PawnRow(col)
    BY <1>1, PawnIsClear DEF PawnSteps
  <2> QED
    BY <1>1, <1>3, <2>1, <2>3, <2>4, DirectionIsUp DEF LawReach
<1>4. CASE t[a].type # "PAWN"
  <2>1. LawReach(t, a, s) <=> L!Attacks(t, a, s) /\ (Empty(t, s) \/ t[s].col # col)
    BY <1>4 DEF LawReach
  <2> QED
    BY <1>1, <1>4, <2>1, SlidingReach, RoundReach DEF PlainCandidates, L!Attacks, PieceType
<1> QED
  BY <1>3, <1>4

-----------------------------------------------------------------------------
(* Kings. *)
LEMMA KingsAre ==
  ASSUME NEW t, NEW c, NEW s
  PROVE  s \in L!Kings(t, c) <=> s \in Square /\ t[s].type = "KING" /\ t[s].col = c
BY SameSquares DEF L!Kings, L!Holds

LEMMA KingsAfterMoved ==
  ASSUME NEW t \in Tiles, NEW from \in Square, NEW to \in Square, from # to, NEW c \in Color, NEW s
  PROVE  s \in L!Kings(Moved(t, from, to), c) <=>
           \/ s = to /\ t[from].type = "KING" /\ t[from].col = c
           \/ s \in L!Kings(t, c) /\ s # from /\ s # to
<1>1. NoPiece.type = "NONE"
  BY DEF NoPiece
<1> DEFINE m == Moved(t, from, to)
<1>2. /\ m[to] = t[from] /\ m[from] = NoPiece
      /\ \A r \in Square \ {from, to} : m[r] = t[r]
  BY MovedTiles
<1> HIDE DEF m
<1>3. s \in L!Kings(m, c) <=> s \in Square /\ m[s].type = "KING" /\ m[s].col = c
  BY KingsAre
<1>4. s \in L!Kings(t, c) <=> s \in Square /\ t[s].type = "KING" /\ t[s].col = c
  BY KingsAre
<1>5. CASE s \in {from, to}
  BY <1>1, <1>2, <1>3, <1>5 DEF m
<1>6. CASE s \notin {from, to}
  BY <1>2, <1>3, <1>4, <1>6 DEF m
<1> QED
  BY <1>5, <1>6

(* The king that isKingEndangered looks at is the one of the position that  *)
(* the move leads to.                                                       *)
LEMMA EndangeredIsCheck ==
  ASSUME NEW b \in BoardObject, NEW from \in Square, NEW to \in Square, NEW own \in Color,
         L!Kings(b.tiles, own) = {b.kingPos[own]},
         b.tiles[from].type # "NONE", b.tiles[from].col = own,
         Empty(b.tiles, to) \/ b.tiles[to].col # own
  PROVE  IsKingEndangered(b, own, from, to) <=> L!InCheck(Moved(b.tiles, from, to), own)
<1> DEFINE t    == b.tiles
           next == Moved(t, from, to)
           king == IF t[from].type = "KING" THEN to ELSE b.kingPos[own]
<1>1. t \in Tiles /\ b.kingPos[own] \in Square
  BY DEF BoardObject
<1>2. from # to
  BY DEF Empty
<1>3. next \in Tiles
  BY <1>1, MovedTiles
<1>4. \A s : s \in L!Kings(next, own) <=>
           \/ s = to /\ t[from].type = "KING"
           \/ s \in L!Kings(t, own) /\ s # from /\ s # to
  BY <1>1, <1>2, KingsAfterMoved
<1>5. t[from].type = "KING" => from = b.kingPos[own]
  BY KingsAre
<1>6. b.kingPos[own] # to
  <2>1. b.kingPos[own] \in L!Kings(t, own)
    OBVIOUS
  <2> QED
    BY <2>1, KingsAre DEF Empty
<1>7. t[from].type # "KING" => b.kingPos[own] # from
  <2>1. b.kingPos[own] \in L!Kings(t, own)
    OBVIOUS
  <2> QED
    BY <2>1, KingsAre
<1>8. L!Kings(next, own) = {king}
  BY <1>4, <1>5, <1>6, <1>7
<1> HIDE DEF next, king
<1>9. L!InCheck(next, own) <=> L!Attacked(next, king, own)
  BY <1>8 DEF L!InCheck
<1>10. IsKingEndangered(b, own, from, to) <=> IsKingAttacked(next, king, own)
  BY DEF IsKingEndangered, next, king
<1>11. king \in Square
  BY <1>1 DEF king
<1> QED
  BY <1>3, <1>9, <1>10, <1>11, AttacksAreLawful DEF next

-----------------------------------------------------------------------------
(* Where a candidate leads to: never off the board, never to a square of   *)
(* the own team, and never to the other king, which is not in check.       *)
LEMMA HomeRows == \A c \in Color : HomeRow(c) \in 0 .. 7
BY DEF HomeRow

LEMMA CastlingTargets ==
  ASSUME NEW b \in BoardObject, NEW own \in Color, NEW to,
         to \in CastlingMoves(b, At(4, HomeRow(own)), own)
  PROVE  LET row == HomeRow(own) IN
         \/ /\ to = At(2, row) /\ b.qSide[own]
            /\ \A x \in {1, 2, 3} : Empty(b.tiles, At(x, row))
         \/ /\ to = At(6, row) /\ b.kSide[own]
            /\ \A x \in {5, 6} : Empty(b.tiles, At(x, row))
<1> DEFINE row  == HomeRow(own)
           king == At(4, row)
<1>1. row \in Int
  BY HomeRows
<1> HIDE DEF row
<1>2. /\ Step(king, <<-2, 0>>, 1) = At(2, row)
      /\ Step(king, <<2, 0>>, 1) = At(6, row)
      /\ Step(king, <<-1, 0>>, 1) = At(3, row) /\ Step(king, <<-1, 0>>, 2) = At(2, row)
      /\ Step(king, <<-1, 0>>, 3) = At(1, row)
      /\ Step(king, <<1, 0>>, 1) = At(5, row) /\ Step(king, <<1, 0>>, 2) = At(6, row)
  BY <1>1 DEF Step, At
<1>3. to \in CastlingMoves(b, king, own)
  BY DEF row
<1> HIDE DEF king
<1>4. /\ CanCastle(b.tiles, king, own, TRUE) => \A x \in {1, 2, 3} : Empty(b.tiles, At(x, row))
      /\ CanCastle(b.tiles, king, own, FALSE) => \A x \in {5, 6} : Empty(b.tiles, At(x, row))
  BY <1>2 DEF CanCastle
<1> QED
  BY <1>2, <1>3, <1>4 DEF CastlingMoves, row

LEMMA CheckedBy ==
  ASSUME NEW t, NEW c \in Color, NEW a \in Square, NEW k \in L!Kings(t, c),
         t[a].type # "NONE", t[a].col = Opposite(c), L!Attacks(t, a, k)
  PROVE  L!InCheck(t, c)
BY SameSquares, SameOpposite DEF L!InCheck, L!Attacked, L!Pieces, L!Free

LEMMA PlainTarget ==
  ASSUME NEW t \in Tiles, NEW from \in Square, NEW to, t[from].type # "NONE",
         to \in PlainCandidates(t, from, t[from].col),
         ~L!InCheck(t, Opposite(t[from].col))
  PROVE  /\ to \in Square
         /\ Empty(t, to) \/ (t[to].col = Opposite(t[from].col) /\ t[to].type # "KING")
<1> DEFINE own == t[from].col
<1>1. own \in Color
  BY DEF Tiles, Piece
<1>2. to \in Square
  BY <1>1, PlainSquares
<1>3. LawReach(t, from, to)
  BY <1>2, PlainReach
<1>4. Empty(t, to) \/ (L!Attacks(t, from, to) /\ t[to].col # own)
  BY <1>3 DEF LawReach
<1>5. t[to].col # own => t[to].col = Opposite(own)
  BY <1>1, <1>2 DEF Tiles, Piece, Color, Opposite
<1>6. ASSUME t[to].col = Opposite(own), t[to].type = "KING" PROVE ~L!Attacks(t, from, to)
  <2>1. to \in L!Kings(t, Opposite(own))
    BY <1>2, <1>6, KingsAre
  <2>2. Opposite(own) \in Color /\ Opposite(Opposite(own)) = own
    BY <1>1 DEF Color, Opposite
  <2> QED
    BY <2>1, <2>2, CheckedBy
<1> QED
  BY <1>2, <1>4, <1>5, <1>6

LEMMA CandidateTarget ==
  ASSUME NEW b \in BoardObject, NEW from \in Square, NEW own \in Color, NEW to,
         b.tiles[from].type # "NONE", b.tiles[from].col = own,
         to \in CandidateMoves(b, from, own),
         L!Kings(b.tiles, own) = {b.kingPos[own]},
         ~L!InCheck(b.tiles, Opposite(own)),
         b.qSide[own] \/ b.kSide[own] => b.kingPos[own] = At(4, HomeRow(own)),
         b.epEnabled => b.ep \in Square /\ Empty(b.tiles, b.ep)
  PROVE  /\ to \in Square
         /\ Empty(b.tiles, to) \/ (b.tiles[to].col = Opposite(own) /\ b.tiles[to].type # "KING")
<1>1. b.tiles \in Tiles
  BY DEF BoardObject
<1>2. CASE to \in PlainCandidates(b.tiles, from, own)
  BY <1>1, <1>2, PlainTarget
<1>3. CASE b.tiles[from].type = "PAWN" /\ to \in EnPassantMoves(b, from)
  BY <1>3 DEF EnPassantMoves
<1>4. CASE b.tiles[from].type = "KING" /\ to \in CastlingMoves(b, from, own)
  <2>1. from = b.kingPos[own]
    BY <1>4, KingsAre
  <2>2. b.qSide[own] \/ b.kSide[own]
    BY <1>4 DEF CastlingMoves
  <2>3. to \in CastlingMoves(b, At(4, HomeRow(own)), own)
    BY <1>4, <2>1, <2>2
  <2>4. to \in {At(2, HomeRow(own)), At(6, HomeRow(own))} /\ Empty(b.tiles, to)
    BY <2>3, CastlingTargets
  <2> QED
    BY <2>4, HomeRows, AtSquare
<1> QED
  BY <1>2, <1>3, <1>4, CandidateKinds

-----------------------------------------------------------------------------
(* The kings after a move. *)
LEMMA OppositeColor ==
  \A c \in Color : /\ Opposite(c) \in Color /\ Opposite(c) # c /\ Opposite(Opposite(c)) = c
                   /\ \A d \in Color : d = c \/ d = Opposite(c)
BY DEF Color, Opposite

LEMMA PassedSquare ==
  ASSUME NEW b, NEW foe \in Color, NEW last, PawnJustPassed(b, foe, last), b.epEnabled
  PROVE  b.ep \in Square /\ Empty(b.tiles, b.ep)
<1>1. last.from \in Square
  BY DEF PawnJustPassed
<1>2. last.from.x \in 0 .. 7
  BY <1>1 DEF Square
<1>3. last.from.y + Direction(foe) \in 0 .. 7
  BY DirectionIsUp DEF PawnJustPassed
<1> QED
  BY <1>2, <1>3, AtSquare DEF PawnJustPassed

LEMMA SoundTarget ==
  ASSUME NEW b, NEW own \in Color, NEW last, SoundBoard(b, Opposite(own), last),
         NEW from \in Owned(b.tiles, own), NEW to \in CandidateMoves(b, from, own)
  PROVE  /\ to \in Square /\ from \in Square /\ from # to
         /\ b.tiles[from].type # "NONE" /\ b.tiles[from].col = own
         /\ Empty(b.tiles, to) \/ (b.tiles[to].col = Opposite(own) /\ b.tiles[to].type # "KING")
<1>1. from \in Square /\ b.tiles[from].type # "NONE" /\ b.tiles[from].col = own
  BY DEF Owned, Empty
<1>2. b.epEnabled => b.ep \in Square /\ Empty(b.tiles, b.ep)
  BY PassedSquare, OppositeColor DEF SoundBoard
<1>3. /\ to \in Square
      /\ Empty(b.tiles, to) \/ (b.tiles[to].col = Opposite(own) /\ b.tiles[to].type # "KING")
  BY <1>1, <1>2, CandidateTarget DEF SoundBoard, KingsKept, RightsAtHome
<1>4. from # to
  BY <1>1, <1>3, OppositeColor DEF Empty
<1> QED
  BY <1>1, <1>3, <1>4

LEMMA MovedKings ==
  ASSUME NEW b \in BoardObject, NEW own \in Color, KingsKept(b),
         NEW from \in Square, NEW to \in Square, from # to, b.tiles[from].col = own,
         Empty(b.tiles, to) \/ b.tiles[to].type # "KING",
         NEW c \in Color
  PROVE  L!Kings(Moved(b.tiles, from, to), c) = {KingPosAfter(b, from, to, own)[c]}
<1> DEFINE t    == b.tiles
           m    == Moved(t, from, to)
           king == KingPosAfter(b, from, to, own)[c]
<1>1. t \in Tiles /\ b.kingPos \in [Color -> Square]
  BY DEF BoardObject
<1>2. king = IF t[from].type = "KING" /\ c = own THEN to ELSE b.kingPos[c]
  BY <1>1 DEF KingPosAfter
<1>3. \A s : s \in L!Kings(m, c) <=>
           \/ s = to /\ t[from].type = "KING" /\ t[from].col = c
           \/ s \in L!Kings(t, c) /\ s # from /\ s # to
  BY <1>1, KingsAfterMoved
<1>4. L!Kings(t, c) = {b.kingPos[c]}
  BY DEF KingsKept
<1>5. b.kingPos[c] # to
  BY <1>4, KingsAre DEF Empty
<1>6. b.kingPos[c] = from <=> t[from].type = "KING" /\ c = own
  BY <1>4, KingsAre
<1> HIDE DEF m, king
<1>7. L!Kings(m, c) = {king}
  BY <1>2, <1>3, <1>4, <1>5, <1>6
<1> QED
  BY <1>7 DEF m, king

(* A king only moves two columns to castle. *)
LEMMA KingCastles ==
  ASSUME NEW b, NEW own \in Color, NEW last, SoundBoard(b, Opposite(own), last),
         NEW from \in Owned(b.tiles, own), NEW to \in CandidateMoves(b, from, own),
         b.tiles[from].type = "KING"
  PROVE  LET row == HomeRow(own) IN
         /\ from = b.kingPos[own]
         /\ from.x - to.x \in {2, -2} <=> to \in CastlingMoves(b, from, own)
         /\ from.x - to.x \in {2, -2} =>
              /\ from = At(4, row)
              /\ \/ /\ to = At(2, row) /\ b.qSide[own]
                    /\ \A x \in {1, 2, 3} : Empty(b.tiles, At(x, row))
                 \/ /\ to = At(6, row) /\ b.kSide[own]
                    /\ \A x \in {5, 6} : Empty(b.tiles, At(x, row))
<1>1. from \in Square /\ to \in Square /\ b.tiles[from].col = own /\ b.tiles \in Tiles
  BY SoundTarget DEF SoundBoard, BoardObject
<1>2. from = b.kingPos[own]
  BY <1>1, KingsAre DEF SoundBoard, KingsKept
<1>3. to \in CalculateRoundMoves(b.tiles, KingDirections, from, own)
        \/ to \in CastlingMoves(b, from, own)
  <2>1. b \in BoardObject
    BY DEF SoundBoard
  <2>2. PlainCandidates(b.tiles, from, own) = CalculateRoundMoves(b.tiles, KingDirections, from, own)
    BY DEF PlainCandidates
  <2>3. \/ to \in PlainCandidates(b.tiles, from, own)
        \/ b.tiles[from].type = "PAWN" /\ to \in EnPassantMoves(b, from)
        \/ to \in CastlingMoves(b, from, own)
    BY <1>1, <2>1, CandidateKinds
  <2> QED
    BY <2>2, <2>3
<1>4. to \in CalculateRoundMoves(b.tiles, KingDirections, from, own) =>
        from.x - to.x \notin {2, -2}
  <2>1. to \in CalculateRoundMoves(b.tiles, KingDirections, from, own) =>
          L!Abs(from.x - to.x) <= 1
    BY <1>1, RoundReach
  <2> QED
    BY <2>1 DEF L!Abs
<1>5. ASSUME to \in CastlingMoves(b, from, own)
      PROVE  /\ from = At(4, HomeRow(own)) /\ from.x - to.x \in {2, -2}
             /\ LET row == HomeRow(own) IN
                  \/ /\ to = At(2, row) /\ b.qSide[own]
                     /\ \A x \in {1, 2, 3} : Empty(b.tiles, At(x, row))
                  \/ /\ to = At(6, row) /\ b.kSide[own]
                     /\ \A x \in {5, 6} : Empty(b.tiles, At(x, row))
  <2>1. b.qSide[own] \/ b.kSide[own]
    BY <1>5 DEF CastlingMoves
  <2>2. from = At(4, HomeRow(own))
    BY <1>2, <2>1 DEF SoundBoard, RightsAtHome
  <2>3. b \in BoardObject
    BY DEF SoundBoard
  <2>4. LET row == HomeRow(own) IN
          \/ /\ to = At(2, row) /\ b.qSide[own]
             /\ \A x \in {1, 2, 3} : Empty(b.tiles, At(x, row))
          \/ /\ to = At(6, row) /\ b.kSide[own]
             /\ \A x \in {5, 6} : Empty(b.tiles, At(x, row))
    BY <1>5, <2>2, <2>3, CastlingTargets
  <2>5. from.x - to.x \in {2, -2}
    BY <2>2, <2>4 DEF At
  <2> QED
    BY <2>2, <2>4, <2>5
<1> QED
  BY <1>2, <1>3, <1>4, <1>5

(* A pawn that moves to the passed square captures en passant, and what is *)
(* beside it is the pawn that has just passed.                             *)
CapturesPassed(b, from, to) == b.tiles[from].type = "PAWN" /\ b.epEnabled /\ to = b.ep

LEMMA PassedPawn ==
  ASSUME NEW b, NEW own \in Color, NEW last, SoundBoard(b, Opposite(own), last),
         NEW from \in Owned(b.tiles, own), NEW to \in CandidateMoves(b, from, own),
         CapturesPassed(b, from, to)
  PROVE  to \in EnPassantMoves(b, from) /\ At(to.x, from.y) = last.to
<1> DEFINE foe == Opposite(own)
           up  == Direction(own)
<1>1. /\ from \in Square /\ to \in Square /\ b.tiles[from].col = own
      /\ b \in BoardObject /\ b.tiles \in Tiles
  BY SoundTarget DEF SoundBoard, BoardObject
<1>2. /\ last.to \in Square /\ b.tiles[last.to] = [type |-> "PAWN", col |-> foe]
      /\ last.to.x = last.from.x
      /\ last.to.y = PawnRow(foe) + 2 * Direction(foe)
      /\ b.ep = At(last.from.x, PawnRow(foe) + Direction(foe))
      /\ Empty(b.tiles, b.ep)
      /\ b.tiles[from].type = "PAWN" /\ to = b.ep
  BY DEF SoundBoard, PawnJustPassed, CapturesPassed
<1>3. /\ up \in {1, -1} /\ Direction(foe) = -up
      /\ PawnRow(own) + 2 * up \in 3 .. 4 /\ PawnRow(foe) + Direction(foe) \in {2, 5}
      /\ PawnRow(foe) \in {1, 6}
  BY OppositeColor, DirectionIsUp
<1>4. /\ from.x \in Int /\ from.y \in Int /\ last.to.x \in Int /\ last.to.y \in Int
      /\ last.to = At(last.to.x, last.to.y) /\ from = At(from.x, from.y)
  BY <1>1, <1>2, SquareCoordinates
<1>5. to.x = last.to.x /\ to.y = PawnRow(foe) + Direction(foe)
  BY <1>2 DEF At
<1> HIDE DEF up
<1>6. to.y + (-up) = last.to.y
  BY <1>2, <1>3, <1>5
<1>7. from # last.to
  BY <1>1, <1>2, OppositeColor
<1>8. ~PawnSteps(b.tiles, from, to, own)
  <2>1. to.x = from.x /\ to.y = from.y + up => from = last.to
    BY <1>3, <1>4, <1>5, <1>6
  <2>2. from.y = PawnRow(own) => to.y # from.y + 2 * up
    BY <1>3, <1>5
  <2> QED
    BY <2>1, <2>2, <1>7 DEF PawnSteps, up
<1>9. ~PawnStrikes(b.tiles, from, to, own)
  BY <1>2 DEF PawnStrikes, IsFoe
<1>10. to \notin PlainCandidates(b.tiles, from, own)
  BY <1>1, <1>2, <1>8, <1>9, PawnReach DEF PlainCandidates
<1>11. to \in EnPassantMoves(b, from)
  BY <1>1, <1>2, <1>10, CandidateKinds
<1>12. to.y = from.y + up
  <2>1. Ahead(from, own) = At(from.x, from.y + up)
    BY <1>1, AheadIsPosition DEF Direction, up
  <2>2. to.y = Ahead(from, own).y
    BY <1>1, <1>11 DEF EnPassantMoves
  <2> QED
    BY <2>1, <2>2 DEF At
<1>13. from.y = last.to.y
  BY <1>3, <1>4, <1>6, <1>12
<1> QED
  BY <1>4, <1>5, <1>11, <1>13

(* The rook of a castling, or whatever stands in the corner, comes to      *)
(* stand beside the king: if it is the other king, that is check.          *)
Swapped(m, old, new) == [m EXCEPT ![old] = m[new], ![new] = m[old]]

LEMMA SwappedTiles ==
  ASSUME NEW m \in Tiles, NEW old \in Square, NEW new \in Square, old # new
  PROVE  /\ Swapped(m, old, new) \in Tiles
         /\ Swapped(m, old, new)[old] = m[new] /\ Swapped(m, old, new)[new] = m[old]
         /\ \A s \in Square \ {old, new} : Swapped(m, old, new)[s] = m[s]
BY DEF Tiles, Swapped

RookComesOver(b, own, from, to, next) ==
  \E old \in Square, new \in Square :
    /\ old = At(IF to.x = 2 THEN 0 ELSE 7, HomeRow(own)) /\ from = At(4, HomeRow(own))
    /\ old # from /\ old # to /\ new # to /\ new # from /\ old # new
    /\ L!Abs(new.x - to.x) = 1 /\ L!Abs(new.y - to.y) = 0
    /\ next \in Tiles
    /\ b.tiles[new].type = "NONE"
    /\ next[old] = b.tiles[new] /\ next[new] = b.tiles[old]
    /\ \A s \in Square \ {old, new} : next[s] = Moved(b.tiles, from, to)[s]

LEMMA CastledTiles ==
  ASSUME NEW b, NEW own \in Color, NEW last, SoundBoard(b, Opposite(own), last),
         NEW from \in Owned(b.tiles, own), NEW to \in CandidateMoves(b, from, own),
         b.tiles[from].type = "KING", from.x - to.x \in {2, -2}
  PROVE  RookComesOver(b, own, from, to, TilesAfter(b, from, to, own))
<1> DEFINE m    == Moved(b.tiles, from, to)
           row  == HomeRow(own)
           old  == At(IF to.x = 2 THEN 0 ELSE 7, row)
           new  == At(IF to.x = 2 THEN 3 ELSE 5, row)
<1>1. /\ from \in Square /\ to \in Square /\ from # to
      /\ b.tiles \in Tiles /\ row \in 0 .. 7
  BY SoundTarget, HomeRows DEF SoundBoard, BoardObject
<1>2. /\ from = b.kingPos[own] /\ from = At(4, row)
      /\ \/ to = At(2, row) /\ \A x \in {1, 2, 3} : Empty(b.tiles, At(x, row))
         \/ to = At(6, row) /\ \A x \in {5, 6} : Empty(b.tiles, At(x, row))
  BY KingCastles
<1>3. b.kingPos[own].y = row /\ b.kingPos[own].x = 4
  BY <1>2 DEF At
<1> HIDE DEF row
<1>4. \A x, y : x # y => At(x, row) # At(y, row)
  BY DEF At
<1>5. /\ to.x \in {2, 6} /\ to = At(IF to.x = 2 THEN 2 ELSE 6, row)
      /\ old \notin {from, to} /\ new \notin {from, to} /\ old # new
      /\ Empty(b.tiles, new)
  <2>1. CASE to = At(2, row)
    <3>1. to.x = 2 /\ old = At(0, row) /\ new = At(3, row)
      BY <2>1 DEF At
    <3> QED
      BY <2>1, <3>1, <1>2, <1>4
  <2>2. CASE to = At(6, row)
    <3>1. to.x = 6 /\ old = At(7, row) /\ new = At(5, row)
      BY <2>2 DEF At
    <3> QED
      BY <2>2, <3>1, <1>2, <1>4
  <2> QED
    BY <1>2, <2>1, <2>2
<1>6. old \in Square /\ new \in Square
  BY <1>1, AtSquare
<1>7. TilesAfter(b, from, to, own) = Swapped(m, old, new)
  <2>1. b.kingPos[own].x - to.x \in {2, -2}
    BY <1>2, <1>3, <1>5
  <2>2. TilesAfter(b, from, to, own) = RookBeside(b, m, to, own)
    BY <2>1 DEF TilesAfter
  <2>3. row = b.kingPos[own].y
    BY <1>3
  <2> QED
    BY <2>2, <2>3 DEF RookBeside, Swapped
<1> HIDE DEF old, new, m
<1>8. /\ m \in Tiles /\ m[old] = b.tiles[old] /\ m[new] = b.tiles[new]
  <2>1. m \in Tiles /\ \A s \in Square \ {from, to} : m[s] = b.tiles[s]
    BY <1>1, MovedTiles DEF m
  <2> QED
    BY <2>1, <1>5, <1>6
<1>9. /\ TilesAfter(b, from, to, own) \in Tiles
      /\ TilesAfter(b, from, to, own)[old] = m[new] /\ TilesAfter(b, from, to, own)[new] = m[old]
      /\ \A s \in Square \ {old, new} : TilesAfter(b, from, to, own)[s] = m[s]
  BY <1>5, <1>6, <1>7, <1>8, SwappedTiles
<1>10. L!Abs(new.x - to.x) = 1 /\ L!Abs(new.y - to.y) = 0
  BY <1>1, <1>5 DEF At, new, L!Abs
<1>11. old = At(IF to.x = 2 THEN 0 ELSE 7, HomeRow(own)) /\ from = At(4, HomeRow(own))
  BY <1>2 DEF old, row
<1> QED
  BY <1>5, <1>6, <1>8, <1>9, <1>10, <1>11 DEF Empty, m, RookComesOver

LEMMA SameKings ==
  ASSUME NEW m, NEW next, NEW c,
         \A s \in Square : next[s] = m[s] \/ (m[s].type # "KING" /\ next[s].type # "KING")
  PROVE  L!Kings(next, c) = L!Kings(m, c)
<1>1. \A s : s \in L!Kings(next, c) <=> s \in L!Kings(m, c)
  BY KingsAre
<1> QED
  BY <1>1

LEMMA PassedTiles ==
  ASSUME NEW b, NEW own \in Color, NEW last, SoundBoard(b, Opposite(own), last),
         NEW from \in Owned(b.tiles, own), NEW to \in CandidateMoves(b, from, own),
         CapturesPassed(b, from, to)
  PROVE  /\ last.to \in Square /\ last.to # from /\ last.to # to
         /\ b.tiles[last.to] = [type |-> "PAWN", col |-> Opposite(own)]
         /\ Moved(b.tiles, from, to)[last.to] = b.tiles[last.to]
         /\ TilesAfter(b, from, to, own) \in Tiles
         /\ TilesAfter(b, from, to, own)[last.to].type = "NONE"
         /\ \A s \in Square \ {last.to} :
              TilesAfter(b, from, to, own)[s] = Moved(b.tiles, from, to)[s]
<1> DEFINE m == Moved(b.tiles, from, to)
<1>1. /\ from \in Square /\ to \in Square /\ b.tiles[from].col = own /\ b.tiles \in Tiles
  BY SoundTarget DEF SoundBoard, BoardObject
<1>2. /\ last.to \in Square /\ b.tiles[last.to] = [type |-> "PAWN", col |-> Opposite(own)]
      /\ Empty(b.tiles, to)
  BY DEF SoundBoard, PawnJustPassed, CapturesPassed
<1>3. last.to # from /\ last.to # to
  BY <1>1, <1>2, OppositeColor DEF Empty
<1> HIDE DEF m
<1>4. m \in Tiles /\ m[last.to] = b.tiles[last.to]
  <2>1. m \in Tiles /\ \A s \in Square \ {from, to} : m[s] = b.tiles[s]
    BY <1>1, MovedTiles DEF m
  <2> QED
    BY <2>1, <1>2, <1>3
<1>5. At(to.x, from.y) = last.to
  BY PassedPawn
<1>6. TilesAfter(b, from, to, own) = [m EXCEPT ![last.to].type = "NONE"]
  <2>1. b.tiles[from].type = "PAWN" /\ b.epEnabled /\ to = b.ep
    BY DEF CapturesPassed
  <2> QED
    BY <1>5, <2>1 DEF TilesAfter, m
<1>7. /\ [m EXCEPT ![last.to].type = "NONE"] \in Tiles
      /\ [m EXCEPT ![last.to].type = "NONE"][last.to].type = "NONE"
      /\ \A s \in Square \ {last.to} : [m EXCEPT ![last.to].type = "NONE"][s] = m[s]
  BY <1>2, <1>4 DEF Tiles, Piece, PieceType
<1> QED
  BY <1>2, <1>3, <1>4, <1>6, <1>7 DEF m

LEMMA OtherTiles ==
  ASSUME NEW b, NEW own, NEW from, NEW to,
         ~(b.tiles[from].type = "KING" /\ b.kingPos[own].x - to.x \in {2, -2}),
         ~CapturesPassed(b, from, to)
  PROVE  TilesAfter(b, from, to, own) = Moved(b.tiles, from, to)
BY DEF TilesAfter, CapturesPassed

LEMMA KingsAfterMove ==
  ASSUME NEW b, NEW own \in Color, NEW last, SoundBoard(b, Opposite(own), last),
         NEW from \in Owned(b.tiles, own), NEW to \in CandidateMoves(b, from, own)
  PROVE  \/ L!InCheck(TilesAfter(b, from, to, own), own)
         \/ \A c \in Color :
              L!Kings(TilesAfter(b, from, to, own), c) = {KingPosAfter(b, from, to, own)[c]}
<1> DEFINE m    == Moved(b.tiles, from, to)
           next == TilesAfter(b, from, to, own)
<1>1. /\ from \in Square /\ to \in Square /\ from # to
      /\ b.tiles[from].col = own
      /\ b \in BoardObject /\ b.tiles \in Tiles
  BY SoundTarget DEF SoundBoard, BoardObject
<1>2. \A c \in Color : L!Kings(m, c) = {KingPosAfter(b, from, to, own)[c]}
  BY <1>1, SoundTarget, MovedKings DEF SoundBoard
<1>3. CASE b.tiles[from].type = "KING" /\ b.kingPos[own].x - to.x \in {2, -2}
  <2>1. from = b.kingPos[own] /\ from.x - to.x \in {2, -2}
    BY <1>3, KingCastles
  <2>2. PICK old \in Square, new \in Square :
           /\ old # from /\ old # to /\ new # to /\ new # from /\ old # new
           /\ L!Abs(new.x - to.x) = 1 /\ L!Abs(new.y - to.y) = 0
           /\ b.tiles[new].type = "NONE"
           /\ next[old] = b.tiles[new] /\ next[new] = b.tiles[old]
           /\ \A s \in Square \ {old, new} : next[s] = m[s]
    <3>1. RookComesOver(b, own, from, to, next)
      BY <1>3, <2>1, CastledTiles
    <3> QED
      BY <3>1 DEF RookComesOver
  <2>3. m[old] = b.tiles[old] /\ m[new] = b.tiles[new] /\ m[to] = b.tiles[from]
    <3> HIDE DEF m
    <3>1. m[to] = b.tiles[from] /\ \A s \in Square \ {from, to} : m[s] = b.tiles[s]
      BY <1>1, MovedTiles DEF m
    <3> QED
      BY <2>2, <3>1
  <2> HIDE DEF next, m
  <2>4. CASE m[old].type = "KING"
    <3>1. m[old].col = Opposite(own)
      <4>1. m[old].col = own => old \in L!Kings(b.tiles, own)
        BY <2>3, <2>4, KingsAre
      <4>2. L!Kings(b.tiles, own) = {from}
        BY <2>1 DEF SoundBoard, KingsKept
      <4>3. m[old].col \in Color
        BY <1>1, <2>3 DEF Tiles, Piece
      <4> QED
        BY <4>1, <4>2, <4>3, <2>2, OppositeColor
    <3>2. to \in L!Kings(next, own)
      <4>1. next[to] = m[to]
        BY <1>1, <2>2
      <4> QED
        BY <1>1, <1>3, <2>3, <4>1, KingsAre
    <3>3. next[new].type = "KING" /\ next[new].col = Opposite(own)
      BY <2>2, <2>3, <2>4, <3>1
    <3>4. L!Attacks(next, new, to)
      BY <2>2, <3>3 DEF L!Attacks
    <3> QED
      BY <2>2, <3>2, <3>3, <3>4, CheckedBy DEF next
  <2>5. CASE m[old].type # "KING"
    <3>1. \A s \in Square : next[s] = m[s] \/ (m[s].type # "KING" /\ next[s].type # "KING")
      BY <2>2, <2>3, <2>5
    <3>2. \A c \in Color : L!Kings(next, c) = L!Kings(m, c)
      BY <3>1, SameKings
    <3> QED
      BY <1>2, <3>2 DEF next, m
  <2> QED
    BY <2>4, <2>5
<1>4. CASE CapturesPassed(b, from, to)
  <2>1. /\ m[last.to] = [type |-> "PAWN", col |-> Opposite(own)]
        /\ next[last.to].type = "NONE"
        /\ \A s \in Square \ {last.to} : next[s] = m[s]
    BY <1>4, PassedTiles
  <2> HIDE DEF m, next
  <2>2. \A s \in Square : next[s] = m[s] \/ (m[s].type # "KING" /\ next[s].type # "KING")
    BY <2>1
  <2>3. \A c \in Color : L!Kings(next, c) = L!Kings(m, c)
    BY <2>2, SameKings
  <2> QED
    BY <1>2, <2>3 DEF next, m
<1>5. CASE /\ ~(b.tiles[from].type = "KING" /\ b.kingPos[own].x - to.x \in {2, -2})
           /\ ~CapturesPassed(b, from, to)
  BY <1>2, <1>5, OtherTiles
<1> QED
  BY <1>3, <1>4, <1>5

-----------------------------------------------------------------------------
(* The rest of what a move leaves behind. *)
LEMMA PieceArrives ==
  ASSUME NEW b, NEW own \in Color, NEW last, SoundBoard(b, Opposite(own), last),
         NEW from \in Owned(b.tiles, own), NEW to \in CandidateMoves(b, from, own)
  PROVE  TilesAfter(b, from, to, own)[to] = b.tiles[from]
<1> DEFINE m    == Moved(b.tiles, from, to)
           next == TilesAfter(b, from, to, own)
<1>1. from \in Square /\ to \in Square /\ b.tiles \in Tiles
  BY SoundTarget DEF SoundBoard, BoardObject
<1>2. m[to] = b.tiles[from]
  BY <1>1, MovedTiles
<1>3. CASE b.tiles[from].type = "KING" /\ b.kingPos[own].x - to.x \in {2, -2}
  <2>1. from.x - to.x \in {2, -2}
    BY <1>3, KingCastles
  <2>2. PICK old \in Square, new \in Square :
          old # to /\ new # to /\ \A s \in Square \ {old, new} : next[s] = m[s]
    <3>1. RookComesOver(b, own, from, to, next)
      BY <1>3, <2>1, CastledTiles
    <3> QED
      BY <3>1 DEF RookComesOver
  <2> HIDE DEF next, m
  <2>3. next[to] = m[to]
    BY <1>1, <2>2
  <2> QED
    BY <1>2, <2>3 DEF next, m
<1>4. CASE CapturesPassed(b, from, to)
  <2>1. /\ last.to # to
        /\ m[last.to] = [type |-> "PAWN", col |-> Opposite(own)]
        /\ next[last.to].type = "NONE"
        /\ \A s \in Square \ {last.to} : next[s] = m[s]
    BY <1>4, PassedTiles
  <2> HIDE DEF next, m
  <2>2. next[to] = m[to]
    BY <1>1, <2>1
  <2> QED
    BY <1>2, <2>2 DEF next, m
<1>5. CASE /\ ~(b.tiles[from].type = "KING" /\ b.kingPos[own].x - to.x \in {2, -2})
           /\ ~CapturesPassed(b, from, to)
  BY <1>2, <1>5, OtherTiles
<1> QED
  BY <1>3, <1>4, <1>5

(* A pawn that moves two rows starts in its own and passes an empty square. *)
LEMMA PawnPasses ==
  ASSUME NEW b, NEW own \in Color, NEW last, SoundBoard(b, Opposite(own), last),
         NEW from \in Owned(b.tiles, own), NEW to \in CandidateMoves(b, from, own),
         EnablesEnPassant(b, from, to)
  PROVE  /\ to.x = from.x /\ from.y = PawnRow(own) /\ to.y = from.y + 2 * Direction(own)
         /\ Ahead(from, own) = At(from.x, from.y + Direction(own))
         /\ Empty(b.tiles, Ahead(from, own))
         /\ ~CapturesPassed(b, from, to)
<1> DEFINE up == Direction(own)
<1>1. /\ from \in Square /\ to \in Square /\ b.tiles[from].col = own
      /\ b \in BoardObject /\ b.tiles \in Tiles
  BY SoundTarget DEF SoundBoard, BoardObject
<1>2. b.tiles[from].type = "PAWN" /\ from.y - to.y \in {2, -2}
  BY DEF EnablesEnPassant
<1>3. up \in {1, -1}
  BY DirectionIsUp
<1>4. Ahead(from, own) = At(from.x, from.y + up)
  BY <1>1, AheadIsPosition DEF Direction
<1> HIDE DEF up
<1>5. from.y \in Int /\ to.y \in Int
  BY <1>1 DEF Square
<1>6. to \notin EnPassantMoves(b, from)
  <2>1. to \in EnPassantMoves(b, from) => to.y = from.y + up
    BY <1>1, <1>4 DEF EnPassantMoves, At
  <2> QED
    BY <2>1, <1>2, <1>3, <1>5
<1>7. PawnSteps(b.tiles, from, to, own) \/ PawnStrikes(b.tiles, from, to, own)
  <2>1. to \in PlainCandidates(b.tiles, from, own)
    BY <1>1, <1>2, <1>6, CandidateKinds
  <2> QED
    BY <1>1, <1>2, <2>1, PawnReach DEF PlainCandidates
<1>8. to.y # from.y + up
  BY <1>2, <1>3, <1>5
<1>9. /\ to.x = from.x /\ to.y = from.y + 2 * up /\ from.y = PawnRow(own)
      /\ Empty(b.tiles, At(from.x, from.y + up))
  BY <1>7, <1>8 DEF PawnSteps, PawnStrikes, up
<1>10. ~CapturesPassed(b, from, to)
  <2>1. CapturesPassed(b, from, to) => /\ to \in EnPassantMoves(b, from)
    BY PassedPawn
  <2> QED
    BY <2>1, <1>6
<1> QED
  BY <1>4, <1>9, <1>10 DEF up

LEMMA PassedAfterMove ==
  ASSUME NEW b, NEW own \in Color, NEW last, SoundBoard(b, Opposite(own), last),
         NEW from \in Owned(b.tiles, own), NEW to \in CandidateMoves(b, from, own)
  PROVE  PawnJustPassed(BoardAfter(b, from, to, own), own, [from |-> from, to |-> to])
<1> DEFINE m    == Moved(b.tiles, from, to)
           next == TilesAfter(b, from, to, own)
           nb   == BoardAfter(b, from, to, own)
           here == [from |-> from, to |-> to]
<1>1. /\ from \in Square /\ to \in Square /\ b.tiles[from].col = own /\ b.tiles \in Tiles
  BY SoundTarget DEF SoundBoard, BoardObject
<1>2. /\ nb.tiles = next
      /\ nb.epEnabled = EnablesEnPassant(b, from, to)
      /\ EnablesEnPassant(b, from, to) => nb.ep = Ahead(from, own)
  BY <1>1 DEF BoardAfter
<1>3. next[to] = b.tiles[from]
  BY PieceArrives
<1>4. here.from = from /\ here.to = to
  OBVIOUS
<1>5. L!DoubleStep(next, here) <=> EnablesEnPassant(b, from, to)
  <2>1. from.y \in Int /\ to.y \in Int
    BY <1>1 DEF Square
  <2>2. L!Abs(to.y - from.y) = 2 <=> from.y - to.y \in {2, -2}
    BY <2>1 DEF L!Abs
  <2> HIDE DEF next, here
  <2> QED
    BY <1>3, <1>4, <2>2 DEF L!DoubleStep, EnablesEnPassant
<1> HIDE DEF nb, here, next, m
<1>6. ASSUME EnablesEnPassant(b, from, to)
      PROVE  /\ next[to] = [type |-> "PAWN", col |-> own]
             /\ from.x = to.x /\ from.y = PawnRow(own)
             /\ to.y = from.y + 2 * Direction(own)
             /\ Ahead(from, own) = At(from.x, from.y + Direction(own))
             /\ Empty(next, Ahead(from, own))
  <2>1. next[to] = [type |-> "PAWN", col |-> own]
    BY <1>1, <1>3, <1>6 DEF EnablesEnPassant, Tiles, Piece
  <2>2. /\ to.x = from.x /\ from.y = PawnRow(own) /\ to.y = from.y + 2 * Direction(own)
        /\ Ahead(from, own) = At(from.x, from.y + Direction(own))
        /\ Empty(b.tiles, Ahead(from, own))
        /\ ~CapturesPassed(b, from, to)
    BY <1>6, PawnPasses
  <2>3. next = m
    BY <1>6, <2>2, OtherTiles DEF EnablesEnPassant, next, m
  <2>4. /\ Ahead(from, own) \in Square /\ Ahead(from, own) # from /\ Ahead(from, own) # to
    <3>1. from.x \in 0 .. 7 /\ from.y \in {1, 6} /\ from.y + Direction(own) \in 0 .. 7
      BY <1>1, <2>2, DirectionIsUp DEF Square
    <3>2. Ahead(from, own) \in Square
      BY <2>2, <3>1, AtSquare
    <3>3. Ahead(from, own).y = from.y + Direction(own)
      BY <2>2 DEF At
    <3>4. from.y + Direction(own) # from.y /\ from.y + Direction(own) # to.y
      BY <2>2, <3>1, DirectionIsUp
    <3> QED
      BY <3>2, <3>3, <3>4
  <2>5. \A s \in Square \ {from, to} : m[s] = b.tiles[s]
    BY <1>1, MovedTiles DEF m
  <2> QED
    BY <2>1, <2>2, <2>3, <2>4, <2>5 DEF Empty
<1> QED
  BY <1>1, <1>2, <1>4, <1>5, <1>6 DEF PawnJustPassed, nb, here

LEMMA RightsAfterMove ==
  ASSUME NEW b \in BoardObject, NEW own \in Color, RightsAtHome(b),
         NEW from \in Square, NEW to \in Square
  PROVE  RightsAtHome(BoardAfter(b, from, to, own))
<1> DEFINE nb == BoardAfter(b, from, to, own)
<1> SUFFICES ASSUME NEW c \in Color, nb.qSide[c] \/ nb.kSide[c]
             PROVE  nb.kingPos[c] = At(4, HomeRow(c))
  BY DEF RightsAtHome
<1>1. /\ b.qSide \in [Color -> BOOLEAN] /\ b.kSide \in [Color -> BOOLEAN]
      /\ b.kingPos \in [Color -> Square]
  BY DEF BoardObject
<1>2. /\ nb.kingPos = KingPosAfter(b, from, to, own)
      /\ nb.qSide = [b.qSide EXCEPT ![own] =
                       KeepsRight(@, Moved(b.tiles, from, to), 0, b.tiles[from])]
      /\ nb.kSide = [b.kSide EXCEPT ![own] =
                       KeepsRight(@, Moved(b.tiles, from, to), 7, b.tiles[from])]
  BY DEF BoardAfter
<1>3. CASE c = own
  BY <1>1, <1>2, <1>3 DEF KeepsRight, KingPosAfter, RightsAtHome
<1>4. CASE c # own
  BY <1>1, <1>2, <1>4 DEF KingPosAfter, RightsAtHome
<1> QED
  BY <1>3, <1>4

(* A move leads from a sound board to a sound board, unless it leaves the  *)
(* own king in check, as a capture en passant may.                         *)
LEMMA SoundAfterMove ==
  ASSUME NEW b, NEW own \in Color, NEW last, SoundBoard(b, Opposite(own), last),
         NEW from \in Owned(b.tiles, own), NEW to \in CandidateMoves(b, from, own),
         ~L!InCheck(TilesAfter(b, from, to, own), own)
  PROVE  SoundBoard(BoardAfter(b, from, to, own), own, [from |-> from, to |-> to])
<1> DEFINE nb == BoardAfter(b, from, to, own)
<1>1. from \in Square /\ to \in Square /\ b \in BoardObject /\ RightsAtHome(b)
  BY SoundTarget DEF SoundBoard
<1>2. nb.tiles = TilesAfter(b, from, to, own) /\ nb.kingPos = KingPosAfter(b, from, to, own)
  BY DEF BoardAfter
<1>3. nb \in BoardObject /\ RightsAtHome(nb)
  BY <1>1, BoardAfterType, RightsAfterMove
<1>4. PawnJustPassed(nb, own, [from |-> from, to |-> to])
  BY PassedAfterMove
<1>5. KingsKept(nb)
  BY <1>2, KingsAfterMove DEF KingsKept
<1> HIDE DEF nb
<1>6. ~L!InCheck(nb.tiles, own)
  BY <1>2
<1> QED
  BY <1>3, <1>4, <1>5, <1>6 DEF SoundBoard, nb

-----------------------------------------------------------------------------
(* The invariant holds. *)
LEMMA OpeningIsSound ==
  ASSUME NEW o \in Openings
  PROVE  SoundBoard(o.board, Opposite(o.team), [from |-> At(0, 0), to |-> At(0, 0)])
<1> DEFINE still == [from |-> At(0, 0), to |-> At(0, 0)]
<1>1. /\ o.board \in BoardObject /\ ~o.board.epEnabled
      /\ ~L!InCheck(o.board.tiles, Opposite(o.team))
      /\ \A c \in Color : /\ L!Kings(o.board.tiles, c) = {o.board.kingPos[c]}
                          /\ o.board.qSide[c] = AtHome(o.board.tiles, c, 0)
                          /\ o.board.kSide[c] = AtHome(o.board.tiles, c, 7)
  BY OpeningsAssumption
<1>2. RightsAtHome(o.board)
  <2> SUFFICES ASSUME NEW c \in Color, o.board.qSide[c] \/ o.board.kSide[c]
               PROVE  o.board.kingPos[c] = At(4, HomeRow(c))
    BY DEF RightsAtHome
  <2>1. Is(o.board.tiles, At(4, HomeRow(c)), "KING", c)
    BY <1>1 DEF AtHome
  <2>2. At(4, HomeRow(c)) \in Square
    BY HomeRows, AtSquare
  <2>3. At(4, HomeRow(c)) \in L!Kings(o.board.tiles, c)
    BY <2>1, <2>2, KingsAre DEF Is
  <2> QED
    BY <1>1, <2>3
<1>3. PawnJustPassed(o.board, Opposite(o.team), still)
  <2>1. still.from \in Square /\ still.to \in Square /\ still.to.y = 0 /\ still.from.y = 0
    BY AtSquare DEF At
  <2> HIDE DEF still
  <2>2. ~L!DoubleStep(o.board.tiles, still)
    BY <2>1 DEF L!DoubleStep, L!Abs
  <2> QED
    BY <1>1, <2>1, <2>2 DEF PawnJustPassed
<1> QED
  BY <1>1, <1>2, <1>3 DEF SoundBoard, KingsKept

LEMMA InitGame == Init => GameInv
<1> SUFFICES ASSUME Init PROVE GameInv
  OBVIOUS
<1>1. PICK o \in Openings :
        /\ board = o.board /\ team = o.team /\ score = [c \in Color |-> 0] /\ flag = "NONE"
        /\ owed = {}
        /\ history = [last |-> [from |-> At(0, 0), to |-> At(0, 0)],
                      touched |-> {s \in Square : o.board.tiles[s] # InitTiles[s]}, taken |-> {},
                      left |-> o.plies, fresh |-> FALSE, astray |-> FALSE]
  BY DEF Init
<1>2. o.board \in BoardObject /\ o.team \in Color /\ o.plies \in Nat
  BY OpeningsAssumption
<1>3. At(0, 0) \in Square
  BY AtSquare
<1>4. history \in History /\ history.last = [from |-> At(0, 0), to |-> At(0, 0)]
      /\ history.left = o.plies
  BY <1>1, <1>2, <1>3 DEF History
<1>5. SoundBoard(board, Opposite(team), history.last)
  BY <1>1, <1>4, OpeningIsSound
<1>6. TypeOK
  BY <1>1, <1>2, <1>4 DEF TypeOK, UInt8, Flag
<1> QED
  BY <1>1, <1>4, <1>5, <1>6 DEF GameInv, PromotedAtTheEnd

LEMMA MoveGame ==
  ASSUME GameInv, NEW from \in Owned(board.tiles, team), NEW to \in Offered(from), Move(from, to)
  PROVE  GameInv'
<1>1. /\ team \in Color /\ board \in BoardObject /\ score \in [Color -> UInt8]
      /\ owed \subseteq Square /\ history \in History /\ history.left \in Nat
      /\ Followed
  BY DEF GameInv, TypeOK, Move
<1>2. SoundBoard(board, Opposite(team), history.last)
  BY <1>1 DEF GameInv
<1>3. to \in CandidateMoves(board, from, team)
  BY DEF Offered, LegalMoves
<1>4. from \in Square /\ to \in Square
  BY <1>1, <1>2, <1>3, SoundTarget
<1> DEFINE res  == CommitMove(board, from, to, team)
           here == [from |-> from, to |-> to]
<1>5. /\ board' = BoardAfter(board, from, to, team) /\ team' = Opposite(team)
      /\ score' = [score EXCEPT ![team] = (@ + Worth(board.tiles[to].type)) % 256]
      /\ flag' = res.flag
      /\ owed' = IF res.flag = "PROMOTION" THEN owed \cup {to} ELSE owed
      /\ history' = [last |-> here, touched |-> history.touched \cup {from, to},
                     taken |-> history.taken \cup
                       {s \in {to} : s \notin history.touched /\ board.tiles[s].type = "ROOK"},
                     left |-> history.left - 1, fresh |-> TRUE,
                     astray |-> L!InCheck(TilesAfter(board, from, to, team), team)]
      /\ history.left > 0
  BY DEF Move, CommitMove, BoardAfter
<1>6. res.flag \in Flag /\ (res.flag = "PROMOTION" => AtEnd(board, from, to))
  BY FlagAfterType DEF CommitMove, FlagAfter
<1> HIDE DEF res
<1>7. history' \in History /\ history'.last = here
      /\ history'.astray = L!InCheck(TilesAfter(board, from, to, team), team)
  <2>1. L!InCheck(TilesAfter(board, from, to, team), team) \in BOOLEAN
    BY DEF L!InCheck
  <2>2. /\ history.touched \in SUBSET Square /\ history.taken \in SUBSET Square
        /\ history.left - 1 \in Nat
    BY <1>1, <1>5 DEF History
  <2> QED
    BY <1>4, <1>5, <2>1, <2>2 DEF History
<1>8. TypeOK'
  <2>1. board' \in BoardObject
    BY <1>1, <1>4, <1>5, BoardAfterType
  <2>2. score' \in [Color -> UInt8]
    <3>1. score[team] \in 0 .. 255 /\ Worth(board.tiles[to].type) \in 0 .. 9
      BY <1>1, WorthFits DEF UInt8
    <3>2. (score[team] + Worth(board.tiles[to].type)) % 256 \in 0 .. 255
      BY <3>1
    <3> QED
      BY <1>1, <1>5, <3>2 DEF UInt8
  <2>3. team' \in Color
    BY <1>1, <1>5, OppositeColor
  <2>4. owed' \subseteq Square
    BY <1>1, <1>4, <1>5
  <2>5. history'.left \in Nat
    BY <1>7 DEF History
  <2> QED
    BY <1>5, <1>6, <2>1, <2>2, <2>3, <2>4, <2>5 DEF TypeOK
<1>9. PromotedAtTheEnd'
  <2>1. AtEnd(board, from, to) => to.y \in {0, 7}
    BY DEF AtEnd, LastRow
  <2> QED
    BY <1>4, <1>5, <1>6, <2>1 DEF GameInv, PromotedAtTheEnd
<1>10. ASSUME Followed' PROVE SoundBoard(board, Opposite(team), history.last)'
  <2>1. ~L!InCheck(TilesAfter(board, from, to, team), team)
    BY <1>7, <1>10 DEF Followed
  <2>2. SoundBoard(BoardAfter(board, from, to, team), team, here)
    BY <1>1, <1>2, <1>3, <2>1, SoundAfterMove
  <2>3. Opposite(team') = team
    BY <1>1, <1>5, OppositeColor
  <2> HIDE DEF here
  <2> QED
    BY <1>5, <1>7, <2>2, <2>3
<1> QED
  BY <1>7, <1>8, <1>9, <1>10 DEF GameInv

LEMMA PromoteGame ==
  ASSUME GameInv, NEW pos \in owed, NEW type \in PromotionChoice, Promotion(pos, type)
  PROVE  GameInv'
<1> DEFINE t    == board.tiles
           next == [t EXCEPT ![pos].type = type]
           last == history.last
           foe  == Opposite(team)
<1>1. /\ team \in Color /\ board \in BoardObject /\ score \in [Color -> UInt8] /\ flag \in Flag
      /\ owed \subseteq Square /\ history \in History /\ Followed
  BY DEF GameInv, TypeOK, Promotion
<1>2. SoundBoard(board, foe, last)
  BY <1>1 DEF GameInv
<1>3. pos \in Square /\ pos.y \in {0, 7}
  BY DEF GameInv, PromotedAtTheEnd
<1>4. type \in MenuChoice
  BY OpeningsAssumption DEF MenuChoice
<1>5. /\ Promote(board, pos, type) \in BoardObject
      /\ Promote(board, pos, type) = [board EXCEPT !.tiles = next]
  <2>1. Promote(board, pos, type) = [board EXCEPT !.tiles = next]
    BY <1>1 DEF Promote, BoardObject
  <2> QED
    BY <1>1, <1>3, <1>4, <2>1, PromotedTiles
<1>6. /\ board' = Promote(board, pos, type)
      /\ owed' = owed \ {pos}
      /\ history' = [history EXCEPT !.fresh = FALSE,
                                    !.astray = \/ t[pos].type # "PAWN"
                                               \/ L!InCheck(board'.tiles, foe)]
      /\ UNCHANGED <<team, score, flag>>
  BY DEF Promotion
<1>7. /\ board'.tiles = next /\ board'.kingPos = board.kingPos
      /\ board'.qSide = board.qSide /\ board'.kSide = board.kSide
      /\ board'.ep = board.ep /\ board'.epEnabled = board.epEnabled
  BY <1>1, <1>5, <1>6 DEF BoardObject
<1>8. t \in Tiles
  BY <1>1 DEF BoardObject
<1>9. next[pos].type = type /\ \A s \in Square \ {pos} : next[s] = t[s]
  BY <1>3, <1>8 DEF Tiles, Piece
<1>10. /\ history' \in History /\ history'.last = last /\ history'.left = history.left
       /\ history'.astray = (t[pos].type # "PAWN" \/ L!InCheck(board'.tiles, foe))
  <2>1. L!InCheck(board'.tiles, foe) \in BOOLEAN
    BY DEF L!InCheck
  <2> QED
    BY <1>1, <1>6, <2>1 DEF History
<1> HIDE DEF t, next, last, foe
<1>11. TypeOK'
  BY <1>1, <1>5, <1>6, <1>10 DEF GameInv, TypeOK
<1>12. PromotedAtTheEnd'
  BY <1>6 DEF GameInv, PromotedAtTheEnd
<1>13. ASSUME Followed' PROVE SoundBoard(board, Opposite(team), history.last)'
  <2>1. t[pos].type = "PAWN" /\ ~L!InCheck(board'.tiles, foe)
    BY <1>10, <1>13 DEF Followed
  <2>2. type # "PAWN" /\ type # "KING" /\ type # "NONE"
    BY <1>4 DEF MenuChoice
  <2>3. \A c \in Color : L!Kings(next, c) = L!Kings(t, c)
    <3>1. \A s \in Square : next[s] = t[s] \/ (t[s].type # "KING" /\ next[s].type # "KING")
      BY <1>9, <2>1, <2>2
    <3> QED
      BY <3>1, SameKings
  <2>4. KingsKept(board')
    BY <1>2, <1>7, <2>3 DEF SoundBoard, KingsKept, t
  <2>5. RightsAtHome(board')
    BY <1>2, <1>7 DEF SoundBoard, RightsAtHome
  <2>6. PawnJustPassed(board', foe, last)
    <3>1. /\ last.from \in Square /\ last.to \in Square
          /\ board.epEnabled <=> L!DoubleStep(t, last)
          /\ board.epEnabled =>
               /\ t[last.to] = [type |-> "PAWN", col |-> foe]
               /\ last.from.x = last.to.x /\ last.from.y = PawnRow(foe)
               /\ last.to.y = last.from.y + 2 * Direction(foe)
               /\ board.ep = At(last.from.x, last.from.y + Direction(foe))
               /\ Empty(t, board.ep)
      BY <1>2 DEF SoundBoard, PawnJustPassed, t
    <3>2. board.epEnabled => last.to # pos /\ board.ep \in Square /\ board.ep # pos
      <4>1. foe \in Color
        BY <1>1, OppositeColor DEF foe
      <4>2. board.epEnabled => last.to.y \in 3 .. 4
        BY <3>1, <4>1, DirectionIsUp
      <4>3. board.epEnabled => board.ep.y \in {2, 5}
        BY <3>1, <4>1, DirectionIsUp DEF At
      <4>4. board.epEnabled => board.ep \in Square
        BY <1>2, <4>1, PassedSquare DEF SoundBoard
      <4> QED
        BY <4>2, <4>3, <4>4, <1>3
    <3>3. L!DoubleStep(next, last) <=> L!DoubleStep(t, last)
      <4>1. CASE last.to = pos
        BY <4>1, <1>9, <2>2, <3>1, <3>2 DEF L!DoubleStep
      <4>2. CASE last.to # pos
        BY <4>2, <1>9, <3>1 DEF L!DoubleStep
      <4> QED
        BY <4>1, <4>2
    <3> QED
      BY <1>7, <1>9, <3>1, <3>2, <3>3 DEF PawnJustPassed, Empty
  <2> QED
    BY <1>5, <1>6, <1>10, <2>1, <2>4, <2>5, <2>6 DEF SoundBoard, foe
<1> QED
  BY <1>10, <1>11, <1>12, <1>13 DEF GameInv

LEMMA StutterGame == GameInv /\ UNCHANGED vars => GameInv'
BY DEF GameInv, vars, TypeOK, PromotedAtTheEnd, Followed, SoundBoard, KingsKept, RightsAtHome,
       PawnJustPassed

LEMMA GameIsSound == Spec => []GameInv
<1>1. GameInv /\ [Next]_vars => GameInv'
  BY MoveGame, PromoteGame, StutterGame DEF Next
<1> QED
  BY InitGame, <1>1, PTL DEF Spec

(* Every variable of a game has its type, in every game from every opening: *)
(* no move leads off the board, whatever Board::calculatePieceMoves lists.  *)
THEOREM GameIsTyped == Spec => []TypeOK
<1>1. GameInv => TypeOK
  BY DEF GameInv
<1> QED
  BY GameIsSound, <1>1, PTL

(* The Board always knows where the kings are, and each team has one, until *)
(* the game leaves the laws of chess (TeamData::kingPos, commitMove).       *)
THEOREM KingsAreKept == Spec => []KingsWhereKept
<1>1. GameInv => KingsWhereKept
  BY DEF GameInv, KingsWhereKept, SoundBoard, KingsKept
<1> QED
  BY GameIsSound, <1>1, PTL

-----------------------------------------------------------------------------
(* Captures en passant. *)
LEMMA EnPassantCaptures ==
  ASSUME NEW b \in BoardObject, NEW from \in Square, NEW to \in EnPassantMoves(b, from),
         b.tiles[from].type = "PAWN"
  PROVE  CapturesPassed(b, from, to)
BY DEF EnPassantMoves, CapturesPassed

LEMMA OfferedEnPassant ==
  ASSUME NEW b, NEW own \in Color, NEW last, SoundBoard(b, Opposite(own), last),
         NEW from \in Owned(b.tiles, own), NEW to \in CandidateMoves(b, from, own)
  PROVE  IsEnPassant(b.tiles, from, to) <=> CapturesPassed(b, from, to)
<1>1. /\ from \in Square /\ to \in Square /\ b.tiles[from].col = own
      /\ b \in BoardObject /\ b.tiles \in Tiles
  BY SoundTarget DEF SoundBoard, BoardObject
<1>2. ASSUME IsEnPassant(b.tiles, from, to) PROVE CapturesPassed(b, from, to)
  <2>1. b.tiles[from].type = "PAWN" /\ from.x # to.x /\ Empty(b.tiles, to)
    BY <1>2 DEF IsEnPassant
  <2>2. ~PawnSteps(b.tiles, from, to, own) /\ ~PawnStrikes(b.tiles, from, to, own)
    BY <2>1 DEF PawnSteps, PawnStrikes, IsFoe
  <2>3. to \notin PlainCandidates(b.tiles, from, own)
    BY <1>1, <2>1, <2>2, PawnReach DEF PlainCandidates
  <2>4. to \in EnPassantMoves(b, from)
    BY <1>1, <2>1, <2>3, CandidateKinds
  <2> QED
    BY <1>1, <2>1, <2>4, EnPassantCaptures
<1>3. ASSUME CapturesPassed(b, from, to) PROVE IsEnPassant(b.tiles, from, to)
  <2>1. to \in EnPassantMoves(b, from)
    BY <1>3, PassedPawn
  <2>2. b.tiles[from].type = "PAWN" /\ Empty(b.tiles, to)
    BY <1>3 DEF CapturesPassed, SoundBoard, PawnJustPassed
  <2>3. Ahead(from, own) = At(from.x, from.y + Direction(own))
    BY <1>1, AheadIsPosition DEF Direction
  <2>4. to.x - from.x \in {1, -1}
    BY <1>1, <2>1, <2>3 DEF EnPassantMoves, At
  <2>5. from.x \in Int /\ to.x \in Int
    BY <1>1 DEF Square
  <2> QED
    BY <2>2, <2>4, <2>5 DEF IsEnPassant
<1> QED
  BY <1>2, <1>3

(* By the laws a pawn has at most one such capture. *)
LEMMA LawfulEnPassant ==
  ASSUME NEW b, NEW own \in Color, NEW last, SoundBoard(b, Opposite(own), last),
         NEW from \in Owned(b.tiles, own), NEW s
  PROVE  s \in L!EnPassantMoves(b.tiles, last, from) <=>
           /\ b.tiles[from].type = "PAWN"
           /\ s \in EnPassantMoves(b, from)
           /\ ~L!InCheck([Moved(b.tiles, from, s) EXCEPT ![last.to] = NoPiece], own)
<1> DEFINE foe == Opposite(own)
           up  == Direction(own)
<1>1. /\ from \in Square /\ b.tiles[from].col = own /\ b \in BoardObject
      /\ last.to \in Square
      /\ from.x \in Int /\ from.y \in Int /\ last.to.x \in Int /\ last.to.y \in Int
  <2>1. from \in Square /\ b.tiles[from].col = own /\ b \in BoardObject /\ last.to \in Square
    BY DEF Owned, SoundBoard, PawnJustPassed
  <2> QED
    BY <2>1 DEF Square
<1>2. /\ up \in {1, -1} /\ Direction(foe) = -up /\ L!Rows[own].up = up
      /\ PawnRow(foe) \in Int
  BY OppositeColor, DirectionIsUp
<1>3. Ahead(from, own) = At(from.x, from.y + up)
  BY <1>1, AheadIsPosition DEF Direction
<1>4. /\ b.epEnabled <=> L!DoubleStep(b.tiles, last)
      /\ b.epEnabled =>
           /\ b.tiles[last.to].col = foe
           /\ b.ep = At(last.to.x, PawnRow(foe) + Direction(foe))
           /\ last.to.y = PawnRow(foe) + 2 * Direction(foe)
  BY DEF SoundBoard, PawnJustPassed
<1>5. foe # own
  BY OppositeColor
<1> HIDE DEF up, foe
<1>6. s \in EnPassantMoves(b, from) <=>
        /\ s = b.ep /\ b.epEnabled
        /\ b.ep.y = from.y + up /\ b.ep.x - from.x \in {1, -1}
  BY <1>1, <1>3 DEF EnPassantMoves, At
<1>7. s \in L!EnPassantMoves(b.tiles, last, from) <=>
        /\ s = L!Sq(last.to.x, from.y + up)
        /\ b.tiles[from].type = "PAWN" /\ L!DoubleStep(b.tiles, last)
        /\ b.tiles[last.to].col # own
        /\ from.y = last.to.y /\ L!Abs(from.x - last.to.x) = 1
        /\ ~L!InCheck([Moved(b.tiles, from, s) EXCEPT ![last.to] = NoPiece], own)
  <2>1. L!Lift(b.tiles, from, s) = Moved(b.tiles, from, s)
    BY DEF L!Lift, Moved, L!NoPiece, NoPiece
  <2>2. L!NoPiece = NoPiece
    BY DEF L!NoPiece, NoPiece
  <2> QED
    BY <1>1, <1>2, <2>1, <2>2 DEF L!EnPassantMoves
<1>8. ASSUME b.epEnabled
      PROVE  (/\ s = L!Sq(last.to.x, from.y + up)
              /\ b.tiles[last.to].col # own
              /\ from.y = last.to.y /\ L!Abs(from.x - last.to.x) = 1)
             <=> s \in EnPassantMoves(b, from)
  <2>1. b.ep = At(last.to.x, last.to.y + up) /\ b.ep.x = last.to.x /\ b.ep.y = last.to.y + up
    <3>1. PawnRow(foe) + Direction(foe) = last.to.y + up
      BY <1>1, <1>2, <1>4, <1>8
    <3> QED
      BY <1>4, <1>8, <3>1 DEF At
  <2>2. from.y = last.to.y <=> b.ep.y = from.y + up
    BY <1>1, <1>2, <2>1
  <2>3. L!Abs(from.x - last.to.x) = 1 <=> b.ep.x - from.x \in {1, -1}
    BY <1>1, <2>1 DEF L!Abs
  <2>4. from.y = last.to.y => L!Sq(last.to.x, from.y + up) = b.ep
    BY <2>1 DEF L!Sq, At
  <2> QED
    BY <1>4, <1>5, <1>6, <1>8, <2>2, <2>3, <2>4
<1> QED
  BY <1>4, <1>6, <1>7, <1>8

(* Taking a piece away opens lines and closes none. *)
LEMMA FewerPieces ==
  ASSUME NEW m, NEW gone, NEW col, NEW k \in Square, NEW x \in Square,
         NEW a \in L!Pieces(m, Opposite(col)), a # x, L!Attacks(m, a, k),
         \A s \in Square \ {x} : gone[s] = m[s], gone[x].type = "NONE"
  PROVE  L!Attacked(gone, k, col)
<1>1. a \in Square /\ gone[a] = m[a]
  BY SameSquares DEF L!Pieces
<1>2. a \in L!Pieces(gone, L!Opposite(col))
  BY <1>1, SameSquares, SameOpposite DEF L!Pieces, L!Free
<1>3. L!Clear(m, a, k) => L!Clear(gone, a, k)
  <2>1. \A s \in L!Between[<<a, k>>] : s \in Square
    BY <1>1, BetweenSquares
  <2>2. \A s \in Square : L!Free(m, s) => L!Free(gone, s)
    BY DEF L!Free
  <2> QED
    BY <2>1, <2>2 DEF L!Clear
<1>4. L!Attacks(gone, a, k)
  BY <1>1, <1>3 DEF L!Attacks
<1> QED
  BY <1>2, <1>4 DEF L!Attacked

(* When a lawful capture en passant is refused, the pawn that would be     *)
(* captured gives check: isKingEndangered leaves it on the board.          *)
LEMMA RefusedEnPassant ==
  ASSUME NEW b, NEW own \in Color, NEW last, SoundBoard(b, Opposite(own), last),
         NEW from \in Owned(b.tiles, own),
         NEW s \in L!EnPassantMoves(b.tiles, last, from), s \notin LegalMoves(b, from, own)
  PROVE  L!Attacks(b.tiles, last.to, b.kingPos[own])
<1> DEFINE t    == b.tiles
           m    == Moved(t, from, s)
           gone == [m EXCEPT ![last.to] = NoPiece]
           king == b.kingPos[own]
<1>1. /\ t[from].type = "PAWN" /\ s \in EnPassantMoves(b, from) /\ ~L!InCheck(gone, own)
  BY LawfulEnPassant
<1>2. /\ b \in BoardObject /\ t \in Tiles /\ from \in Square
  BY DEF SoundBoard, BoardObject, Owned
<1>3. s \in CandidateMoves(b, from, own) /\ CapturesPassed(b, from, s)
  BY <1>1, <1>2, CandidateKinds, EnPassantCaptures
<1>4. /\ s \in Square /\ from # s /\ t[from].col = own
      /\ Empty(t, s) \/ t[s].type # "KING"
  BY <1>3, SoundTarget
<1>5. /\ last.to \in Square
      /\ t[last.to] = [type |-> "PAWN", col |-> Opposite(own)] /\ m[last.to] = t[last.to]
  BY <1>3, PassedTiles
<1>6. L!Kings(m, own) = {king} /\ king \in Square /\ m \in Tiles
  <2>1. L!Kings(m, own) = {KingPosAfter(b, from, s, own)[own]}
    BY <1>2, <1>4, MovedKings DEF SoundBoard
  <2>2. KingPosAfter(b, from, s, own) = b.kingPos
    BY <1>1 DEF KingPosAfter
  <2>3. m \in Tiles
    BY <1>2, <1>4, MovedTiles
  <2> QED
    BY <2>1, <2>2, <2>3, <1>2 DEF BoardObject
<1>7. IsKingAttacked(m, king, own)
  <2>1. IsKingEndangered(b, own, from, s)
    BY <1>3 DEF LegalMoves
  <2> QED
    BY <1>1, <2>1 DEF IsKingEndangered
<1> HIDE DEF m, king
<1>8. PICK a \in L!Pieces(m, Opposite(own)) : L!Attacks(m, a, king)
  <2>1. L!Attacked(m, king, own)
    BY <1>6, <1>7, AttacksAreLawful
  <2> QED
    BY <2>1, SameOpposite DEF L!Attacked
<1>9. gone[last.to].type = "NONE" /\ \A r \in Square \ {last.to} : gone[r] = m[r]
  BY <1>5, <1>6 DEF Tiles, NoPiece
<1> HIDE DEF gone, t
<1>10. a = last.to
  <2>1. SUFFICES ASSUME a # last.to PROVE FALSE
    OBVIOUS
  <2>2. L!Attacked(gone, king, own)
    BY <1>5, <1>6, <1>8, <1>9, <2>1, FewerPieces
  <2>3. king \in L!Kings(gone, own)
    <3>1. m[king].type = "KING" /\ m[king].col = own
      BY <1>6, KingsAre
    <3>2. king # last.to
      BY <1>5, <3>1
    <3> QED
      BY <1>6, <1>9, <3>1, <3>2, KingsAre
  <2> QED
    BY <1>1, <2>2, <2>3 DEF L!InCheck
<1>11. m[a] = t[a] /\ t[a].type = "PAWN"
  BY <1>5, <1>10
<1>12. L!Attacks(t, a, king)
  BY <1>8, <1>11 DEF L!Attacks
<1> QED
  BY <1>10, <1>12 DEF t, king

LEMMA EnPassantIsOnTime == GameInv => EnPassantOnTime
<1> SUFFICES ASSUME GameInv, Followed, NEW from \in Owned(board.tiles, team)
             PROVE  LET last == history.last IN
               /\ \A to \in Offered(from) : IsEnPassant(board.tiles, from, to) =>
                    /\ L!DoubleStep(board.tiles, last)
                    /\ last.to = At(to.x, from.y)
                    /\ board.tiles[last.to] = [type |-> "PAWN", col |-> Opposite(team)]
               /\ L!EnPassantMoves(board.tiles, last, from) \subseteq Offered(from)
                    \/ L!Attacks(board.tiles, last.to, board.kingPos[team])
  BY DEF EnPassantOnTime
<1> DEFINE last == history.last
<1>1. team \in Color /\ SoundBoard(board, Opposite(team), last)
  BY DEF GameInv, TypeOK
<1> HIDE DEF last
<1>2. ASSUME NEW to \in Offered(from), IsEnPassant(board.tiles, from, to)
      PROVE  /\ L!DoubleStep(board.tiles, last)
             /\ last.to = At(to.x, from.y)
             /\ board.tiles[last.to] = [type |-> "PAWN", col |-> Opposite(team)]
  <2>1. to \in CandidateMoves(board, from, team)
    BY DEF Offered, LegalMoves
  <2>2. CapturesPassed(board, from, to)
    BY <1>1, <1>2, <2>1, OfferedEnPassant
  <2>3. At(to.x, from.y) = last.to
    BY <1>1, <2>1, <2>2, PassedPawn
  <2> QED
    BY <1>1, <2>2, <2>3 DEF CapturesPassed, SoundBoard, PawnJustPassed
<1>3. ASSUME NEW s \in L!EnPassantMoves(board.tiles, last, from), s \notin Offered(from)
      PROVE  L!Attacks(board.tiles, last.to, board.kingPos[team])
  BY <1>1, <1>3, RefusedEnPassant DEF Offered
<1> QED
  BY <1>2, <1>3 DEF last

(* Captures en passant are offered in the one move after the double step,   *)
(* beside the pawn that made it, and a lawful one is withheld only when that *)
(* pawn gives check (m_enPassantEnabled, m_enPassantTarget, commitMove).     *)
THEOREM EnPassantIsTimely == Spec => []EnPassantOnTime
BY GameIsSound, EnPassantIsOnTime, PTL

-----------------------------------------------------------------------------
(* The other moves. *)
LEMMA PlainIsPlain ==
  ASSUME NEW b, NEW own \in Color, NEW last, SoundBoard(b, Opposite(own), last),
         NEW from \in Owned(b.tiles, own), NEW to \in CandidateMoves(b, from, own)
  PROVE  to \in PlainCandidates(b.tiles, from, own) <=>
           /\ ~(b.tiles[from].type = "KING" /\ from.x - to.x \in {2, -2})
           /\ ~IsEnPassant(b.tiles, from, to)
<1>1. /\ from \in Square /\ to \in Square /\ b.tiles[from].col = own
      /\ b \in BoardObject /\ b.tiles \in Tiles
  BY SoundTarget DEF SoundBoard, BoardObject
<1>2. from.x \in Int /\ to.x \in Int
  BY <1>1 DEF Square
<1>3. ASSUME to \in PlainCandidates(b.tiles, from, own), b.tiles[from].type = "KING"
      PROVE  from.x - to.x \notin {2, -2}
  <2>1. L!Abs(from.x - to.x) <= 1
    BY <1>1, <1>3, RoundReach DEF PlainCandidates
  <2> QED
    BY <2>1 DEF L!Abs
<1>4. ASSUME to \in PlainCandidates(b.tiles, from, own), b.tiles[from].type = "PAWN"
      PROVE  ~IsEnPassant(b.tiles, from, to)
  <2>1. PawnSteps(b.tiles, from, to, own) \/ PawnStrikes(b.tiles, from, to, own)
    BY <1>1, <1>4, PawnReach DEF PlainCandidates
  <2> QED
    BY <2>1 DEF PawnSteps, PawnStrikes, IsFoe, IsEnPassant
<1>5. ASSUME b.tiles[from].type = "PAWN", to \in EnPassantMoves(b, from)
      PROVE  IsEnPassant(b.tiles, from, to)
  BY <1>1, <1>5, EnPassantCaptures, OfferedEnPassant
<1>6. ASSUME b.tiles[from].type = "KING", to \in CastlingMoves(b, from, own)
      PROVE  from.x - to.x \in {2, -2}
  BY <1>6, KingCastles
<1>7. \/ to \in PlainCandidates(b.tiles, from, own)
      \/ b.tiles[from].type = "PAWN" /\ to \in EnPassantMoves(b, from)
      \/ b.tiles[from].type = "KING" /\ to \in CastlingMoves(b, from, own)
  BY <1>1, CandidateKinds
<1>8. IsEnPassant(b.tiles, from, to) => b.tiles[from].type = "PAWN"
  BY DEF IsEnPassant
<1> QED
  BY <1>3, <1>4, <1>5, <1>6, <1>7, <1>8

LEMMA PlainOffer ==
  ASSUME NEW b, NEW own \in Color, NEW last, SoundBoard(b, Opposite(own), last),
         NEW from \in Owned(b.tiles, own), NEW s
  PROVE  s \in L!PlainMoves(b.tiles, from) <=>
           s \in LegalMoves(b, from, own) /\ s \in PlainCandidates(b.tiles, from, own)
<1> DEFINE t == b.tiles
<1>1. /\ from \in Square /\ t[from].col = own /\ t[from].type # "NONE"
      /\ b \in BoardObject /\ t \in Tiles
  BY DEF SoundBoard, BoardObject, Owned, Empty
<1>2. s \in L!PlainMoves(t, from) <=>
        s \in Square /\ LawReach(t, from, s) /\ ~L!InCheck(Moved(t, from, s), own)
  BY <1>1, LawfulPlain
<1>3. s \in PlainCandidates(t, from, own) => s \in Square
  BY <1>1, PlainSquares
<1>4. s \in Square => (LawReach(t, from, s) <=> s \in PlainCandidates(t, from, own))
  BY <1>1, PlainReach
<1>5. ASSUME s \in PlainCandidates(t, from, own)
      PROVE  /\ s \in CandidateMoves(b, from, own)
             /\ IsKingEndangered(b, own, from, s) <=> L!InCheck(Moved(t, from, s), own)
  <2>1. s \in CandidateMoves(b, from, own)
    BY <1>1, <1>5, CandidateKinds
  <2>2. s \in Square /\ (Empty(t, s) \/ t[s].col # own)
    BY <2>1, SoundTarget, OppositeColor
  <2>3. L!Kings(t, own) = {b.kingPos[own]}
    BY DEF SoundBoard, KingsKept
  <2> QED
    BY <1>1, <2>1, <2>2, <2>3, EndangeredIsCheck
<1> QED
  BY <1>2, <1>3, <1>4, <1>5 DEF LegalMoves

LEMMA PlainMovesAgree == GameInv => PlainMovesAreLawful
<1> SUFFICES ASSUME GameInv, Followed, NEW from \in Owned(board.tiles, team), NEW to
             PROVE  to \in {s \in Offered(from) : ~IsCastling(from, s)
                                                    /\ ~IsEnPassant(board.tiles, from, s)}
                      <=> to \in L!PlainMoves(board.tiles, from)
  BY DEF PlainMovesAreLawful
<1>1. team \in Color /\ SoundBoard(board, Opposite(team), history.last)
  BY DEF GameInv, TypeOK
<1>2. to \in L!PlainMoves(board.tiles, from) <=>
        to \in LegalMoves(board, from, team) /\ to \in PlainCandidates(board.tiles, from, team)
  BY <1>1, PlainOffer
<1>3. to \in LegalMoves(board, from, team) =>
        (to \in PlainCandidates(board.tiles, from, team) <=>
           ~IsCastling(from, to) /\ ~IsEnPassant(board.tiles, from, to))
  <2>1. to \in LegalMoves(board, from, team) => to \in CandidateMoves(board, from, team)
    BY DEF LegalMoves
  <2> QED
    BY <1>1, <2>1, PlainIsPlain DEF IsCastling
<1> QED
  BY <1>2, <1>3 DEF Offered

(* Castling and captures en passant aside, the moves that are offered are   *)
(* those of the laws of chess, with every pin and every check, on every     *)
(* board a game can reach (Board::calculatePieceMoves, isKingEndangered).   *)
THEOREM PlainMovesAreTheLaws == Spec => []PlainMovesAreLawful
BY GameIsSound, PlainMovesAgree, PTL

-----------------------------------------------------------------------------
(* Castling.  The flags of a team against the history of the game: a flag   *)
(* that is set tells that the king has not moved, and that the rook has not *)
(* either unless it was taken; one that is not set tells that the king or   *)
(* what stood in the corner has; and a corner nobody has touched holds its  *)
(* rook, until the king castles.                                            *)
Right(b, c, x) == IF x = 0 THEN b.qSide[c] ELSE b.kSide[c]

RightsFollow(b, touched, taken) ==
  \A c \in Color, x \in {0, 7} :
    LET home   == At(4, HomeRow(c))
        corner == At(x, HomeRow(c))
    IN /\ Right(b, c, x) => home \notin touched /\ (corner \in touched => corner \in taken)
       /\ ~Right(b, c, x) => home \in touched \/ corner \in touched
       /\ home \notin touched /\ corner \notin touched => Is(b.tiles, corner, "ROOK", c)

CastlingInv ==
  /\ GameInv
  /\ owed \subseteq history.touched
  /\ Followed => RightsFollow(board, history.touched, history.taken)

LEMMA MovedElsewhere ==
  \A tiles \in Tiles, from, to \in Square : \A s \in Square \ {from, to} :
    Moved(tiles, from, to)[s] = tiles[s]
BY MovedTiles

LEMMA Corners ==
  ASSUME NEW c \in Color, NEW x \in {0, 7}
  PROVE  /\ At(x, HomeRow(c)) \in Square /\ At(4, HomeRow(c)) \in Square
         /\ InitTiles[At(x, HomeRow(c))] = [type |-> "ROOK", col |-> c]
         /\ InitTiles[At(4, HomeRow(c))] = [type |-> "KING", col |-> c]
<1>1. HomeRow(c) \in {0, 7} /\ (HomeRow(c) = 0 <=> c = "WHITE") /\ c \in {"WHITE", "BLACK"}
  BY DEF HomeRow, Color
<1>2. \A y \in {0, 4, 7} : /\ At(y, HomeRow(c)) \in Square
                           /\ At(y, HomeRow(c)).x = y /\ At(y, HomeRow(c)).y = HomeRow(c)
  BY <1>1 DEF At, Square
<1>3. BackRank[0 + 1] = "ROOK" /\ BackRank[7 + 1] = "ROOK" /\ BackRank[4 + 1] = "KING"
  BY DEF BackRank
<1>4. \A s \in Square : s.y \in {0, 7} =>
        InitTiles[s] = [type |-> BackRank[s.x + 1], col |-> IF s.y = 0 THEN "WHITE" ELSE "BLACK"]
  <2> SUFFICES ASSUME NEW s \in Square, s.y \in {0, 7}
               PROVE  InitTiles[s] = [type |-> BackRank[s.x + 1],
                                      col |-> IF s.y = 0 THEN "WHITE" ELSE "BLACK"]
    OBVIOUS
  <2>1. s.y # PawnRow("WHITE") /\ s.y # PawnRow("BLACK")
    BY DEF PawnRow
  <2>2. InitTiles[s] =
          CASE s.y \in {0, 7} -> [type |-> BackRank[s.x + 1],
                                  col |-> IF s.y = 0 THEN "WHITE" ELSE "BLACK"]
            [] s.y = PawnRow("WHITE") -> [type |-> "PAWN", col |-> "WHITE"]
            [] s.y = PawnRow("BLACK") -> [type |-> "PAWN", col |-> "BLACK"]
            [] OTHER -> NoPiece
    BY Zenon DEF InitTiles
  <2> QED
    BY <2>1, <2>2
<1>5. \A y \in {0, 4, 7} : InitTiles[At(y, HomeRow(c))] = [type |-> BackRank[y + 1], col |-> c]
  BY <1>1, <1>2, <1>4
<1> QED
  BY <1>2, <1>3, <1>5

LEMMA OpeningRights ==
  ASSUME NEW o \in Openings
  PROVE  RightsFollow(o.board, {s \in Square : o.board.tiles[s] # InitTiles[s]}, {})
<1> DEFINE t == o.board.tiles
           touched == {s \in Square : t[s] # InitTiles[s]}
<1> SUFFICES ASSUME NEW c \in Color, NEW x \in {0, 7}
             PROVE  LET home   == At(4, HomeRow(c))
                        corner == At(x, HomeRow(c))
                    IN /\ Right(o.board, c, x) => home \notin touched /\ corner \notin touched
                       /\ ~Right(o.board, c, x) => home \in touched \/ corner \in touched
                       /\ home \notin touched /\ corner \notin touched => Is(t, corner, "ROOK", c)
  BY DEF RightsFollow
<1>1. Right(o.board, c, x) <=> AtHome(t, c, x)
  BY OpeningsAssumption DEF Right
<1>2. AtHome(t, c, x) <=> /\ t[At(4, HomeRow(c))] = InitTiles[At(4, HomeRow(c))]
                          /\ t[At(x, HomeRow(c))] = InitTiles[At(x, HomeRow(c))]
  BY Corners DEF AtHome, Is
<1>3. At(4, HomeRow(c)) \in Square /\ At(x, HomeRow(c)) \in Square
  BY Corners
<1>4. t[At(x, HomeRow(c))] = InitTiles[At(x, HomeRow(c))] => Is(t, At(x, HomeRow(c)), "ROOK", c)
  BY Corners DEF Is
<1> QED
  BY <1>1, <1>2, <1>3, <1>4

(* A rook in a corner that a move neither starts from nor ends on stays     *)
(* there, unless its own king castles with it.                              *)
LEMMA CornerStays ==
  ASSUME NEW b, NEW own \in Color, NEW last, SoundBoard(b, Opposite(own), last),
         NEW from \in Owned(b.tiles, own), NEW to \in CandidateMoves(b, from, own),
         NEW c \in Color, NEW x \in {0, 7}, Is(b.tiles, At(x, HomeRow(c)), "ROOK", c),
         At(4, HomeRow(c)) # from, At(x, HomeRow(c)) # from, At(x, HomeRow(c)) # to
  PROVE  TilesAfter(b, from, to, own)[At(x, HomeRow(c))] = b.tiles[At(x, HomeRow(c))]
<1> DEFINE m      == Moved(b.tiles, from, to)
           next   == TilesAfter(b, from, to, own)
           corner == At(x, HomeRow(c))
<1>1. from \in Square /\ to \in Square /\ b.tiles \in Tiles /\ corner \in Square
  BY SoundTarget, Corners DEF SoundBoard, BoardObject
<1>2. b.tiles[corner].type = "ROOK"
  BY DEF Is
<1>3. m[corner] = b.tiles[corner]
  <2> HIDE DEF m, corner, next
  <2>1. \A s \in Square \ {from, to} : m[s] = b.tiles[s]
    BY <1>1, MovedElsewhere DEF m
  <2> QED
    BY <1>1, <2>1 DEF corner
<1>4. CASE b.tiles[from].type = "KING" /\ b.kingPos[own].x - to.x \in {2, -2}
  <2>1. from.x - to.x \in {2, -2}
    BY <1>4, KingCastles
  <2>2. RookComesOver(b, own, from, to, next)
    BY <1>4, <2>1, CastledTiles
  <2>3. PICK old \in Square, new \in Square :
          /\ old = At(IF to.x = 2 THEN 0 ELSE 7, HomeRow(own)) /\ from = At(4, HomeRow(own))
          /\ b.tiles[new].type = "NONE"
          /\ \A s \in Square \ {old, new} : next[s] = m[s]
    BY <2>2 DEF RookComesOver
  <2>4. HomeRow(c) # HomeRow(own)
    BY <2>3
  <2>5. corner # old
    BY <2>3, <2>4 DEF At
  <2>6. corner # new
    BY <1>2, <2>3
  <2> HIDE DEF m, next, corner
  <2>7. next[corner] = m[corner]
    BY <1>1, <2>3, <2>5, <2>6
  <2> QED
    BY <1>3, <2>7 DEF next, corner
<1>5. CASE CapturesPassed(b, from, to)
  <2>1. /\ last.to # to
        /\ m[last.to] = [type |-> "PAWN", col |-> Opposite(own)]
        /\ next[last.to].type = "NONE"
        /\ \A s \in Square \ {last.to} : next[s] = m[s]
    BY <1>5, PassedTiles
  <2> HIDE DEF m, next, corner
  <2>2. corner # last.to
    BY <1>2, <1>3, <2>1
  <2>3. next[corner] = m[corner]
    BY <1>1, <2>1, <2>2
  <2> QED
    BY <1>3, <2>3 DEF next, corner
<1>6. CASE /\ ~(b.tiles[from].type = "KING" /\ b.kingPos[own].x - to.x \in {2, -2})
           /\ ~CapturesPassed(b, from, to)
  BY <1>3, <1>6, OtherTiles
<1> QED
  BY <1>4, <1>5, <1>6

LEMMA RightsFollowMove ==
  ASSUME NEW b, NEW own \in Color, NEW last, SoundBoard(b, Opposite(own), last),
         NEW from \in Owned(b.tiles, own), NEW to \in CandidateMoves(b, from, own),
         NEW touched, NEW taken, RightsFollow(b, touched, taken)
  PROVE  RightsFollow(BoardAfter(b, from, to, own), touched \cup {from, to},
           taken \cup {s \in {to} : s \notin touched /\ b.tiles[s].type = "ROOK"})
<1> DEFINE m    == Moved(b.tiles, from, to)
           nb   == BoardAfter(b, from, to, own)
           seen == touched \cup {from, to}
           lost == taken \cup {s \in {to} : s \notin touched /\ b.tiles[s].type = "ROOK"}
<1> SUFFICES ASSUME NEW c \in Color, NEW x \in {0, 7}
             PROVE  LET home   == At(4, HomeRow(c))
                        corner == At(x, HomeRow(c))
                    IN /\ Right(nb, c, x) => home \notin seen /\ (corner \in seen => corner \in lost)
                       /\ ~Right(nb, c, x) => home \in seen \/ corner \in seen
                       /\ home \notin seen /\ corner \notin seen => Is(nb.tiles, corner, "ROOK", c)
  BY DEF RightsFollow
<1> DEFINE home   == At(4, HomeRow(c))
           corner == At(x, HomeRow(c))
<1>1. /\ from \in Square /\ to \in Square /\ b.tiles[from].col = own
      /\ b \in BoardObject /\ b.tiles \in Tiles /\ home \in Square /\ corner \in Square
  BY SoundTarget, Corners DEF SoundBoard, BoardObject
<1>2. /\ Right(b, c, x) => home \notin touched /\ (corner \in touched => corner \in taken)
      /\ ~Right(b, c, x) => home \in touched \/ corner \in touched
      /\ home \notin touched /\ corner \notin touched => Is(b.tiles, corner, "ROOK", c)
  BY DEF RightsFollow
<1>3. Right(nb, c, x) <=> IF c = own THEN KeepsRight(Right(b, c, x), m, x, b.tiles[from])
                                     ELSE Right(b, c, x)
  <2>1. /\ b.qSide \in [Color -> BOOLEAN] /\ b.kSide \in [Color -> BOOLEAN]
    BY <1>1 DEF BoardObject
  <2>2. /\ nb.qSide = [b.qSide EXCEPT ![own] = KeepsRight(b.qSide[own], m, 0, b.tiles[from])]
        /\ nb.kSide = [b.kSide EXCEPT ![own] = KeepsRight(b.kSide[own], m, 7, b.tiles[from])]
    BY DEF BoardAfter
  <2> HIDE DEF nb, m
  <2> QED
    BY <2>1, <2>2 DEF Right
<1>4. Right(b, c, x) => b.tiles[home].type = "KING" /\ b.tiles[home].col = c
  <2>1. Right(b, c, x) => b.kingPos[c] = home
    BY DEF Right, SoundBoard, RightsAtHome
  <2>2. b.kingPos[c] \in L!Kings(b.tiles, c)
    BY DEF SoundBoard, KingsKept
  <2> QED
    BY <2>1, <2>2, KingsAre
<1>5. Right(b, c, x) => to # home
  <2>1. Empty(b.tiles, to) \/ b.tiles[to].type # "KING"
    BY SoundTarget
  <2> QED
    BY <2>1, <1>4 DEF Empty
<1>6. Right(b, c, x) /\ (c # own \/ b.tiles[from].type # "KING") => from # home
  BY <1>1, <1>4
<1>7. KeepsRight(Right(b, c, x), m, x, b.tiles[from]) <=>
        Right(b, c, x) /\ b.tiles[from].type # "KING" /\ Is(m, At(x, HomeRow(own)), "ROOK", own)
  BY <1>1 DEF KeepsRight
<1>8. corner \notin seen => m[corner] = b.tiles[corner]
  <2> HIDE DEF m, corner, nb
  <2>1. \A s \in Square \ {from, to} : m[s] = b.tiles[s]
    BY <1>1, MovedElsewhere DEF m
  <2> QED
    BY <1>1, <2>1
<1>9. Right(b, c, x) /\ c = own /\ b.tiles[from].type = "KING" => from = home
  <2>1. Right(b, c, x) => b.kingPos[c] = home
    BY DEF Right, SoundBoard, RightsAtHome
  <2>2. b.tiles[from].type = "KING" => from = b.kingPos[own]
    BY KingCastles
  <2> QED
    BY <2>1, <2>2
<1>10. home \notin seen /\ corner \notin seen => Is(nb.tiles, corner, "ROOK", c)
  <2> SUFFICES ASSUME home \notin seen, corner \notin seen
               PROVE  Is(nb.tiles, corner, "ROOK", c)
    OBVIOUS
  <2>1. Is(b.tiles, corner, "ROOK", c)
    BY <1>2
  <2>2. home # from /\ corner # from /\ corner # to
    OBVIOUS
  <2>3. TilesAfter(b, from, to, own)[corner] = b.tiles[corner]
    BY <2>1, <2>2, CornerStays
  <2>4. nb.tiles = TilesAfter(b, from, to, own)
    BY DEF BoardAfter
  <2> HIDE DEF corner, nb
  <2> QED
    BY <2>1, <2>3, <2>4 DEF Is
<1> HIDE DEF m, nb, home, corner
<1>11. Right(nb, c, x) => home \notin seen
  BY <1>2, <1>3, <1>5, <1>6, <1>7
<1>12. ~Right(nb, c, x) => home \in seen \/ corner \in seen
  <2> SUFFICES ASSUME home \notin seen, corner \notin seen PROVE Right(nb, c, x)
    OBVIOUS
  <2>1. Right(b, c, x) /\ Is(b.tiles, corner, "ROOK", c)
    BY <1>2
  <2>2. Is(m, corner, "ROOK", c)
    BY <1>8, <2>1 DEF Is
  <2> QED
    BY <1>3, <1>7, <1>9, <2>1, <2>2 DEF corner
<1>13. ASSUME Right(nb, c, x), corner \in seen PROVE corner \in lost
  <2>1. Right(b, c, x) /\ (c = own => Is(m, corner, "ROOK", c))
    BY <1>3, <1>7, <1>13 DEF corner
  <2>2. from # to
    BY SoundTarget
  <2>3. CASE corner \in touched
    BY <1>2, <2>1, <2>3
  <2>4. CASE corner \notin touched
    <3>1. Is(b.tiles, corner, "ROOK", c)
      BY <1>2, <2>1, <2>4
    <3>2. b.tiles[corner].type = "ROOK" /\ b.tiles[corner].col = c
      BY <3>1 DEF Is
    <3>3. corner # from
      <4>1. m[from] = NoPiece
        BY <1>1, <2>2 DEF m, Moved, Tiles
      <4> QED
        BY <1>1, <2>1, <3>2, <4>1 DEF Is, NoPiece
    <3>4. corner = to
      BY <1>13, <2>4, <3>3
    <3> QED
      BY <2>4, <3>2, <3>4 DEF lost
  <2> QED
    BY <2>3, <2>4
<1> QED
  BY <1>10, <1>11, <1>12, <1>13 DEF home, corner

LEMMA InitCastling == Init => CastlingInv
<1> SUFFICES ASSUME Init PROVE CastlingInv
  OBVIOUS
<1>1. PICK o \in Openings :
        /\ board = o.board /\ owed = {}
        /\ history = [last |-> [from |-> At(0, 0), to |-> At(0, 0)],
                      touched |-> {s \in Square : o.board.tiles[s] # InitTiles[s]}, taken |-> {},
                      left |-> o.plies, fresh |-> FALSE, astray |-> FALSE]
  BY DEF Init
<1>2. RightsFollow(board, history.touched, history.taken)
  BY <1>1, OpeningRights
<1> QED
  BY <1>1, <1>2, InitGame DEF CastlingInv

LEMMA MoveCastling ==
  ASSUME CastlingInv, NEW from \in Owned(board.tiles, team), NEW to \in Offered(from), Move(from, to)
  PROVE  CastlingInv'
<1>1. /\ GameInv /\ Followed /\ owed \subseteq history.touched
      /\ RightsFollow(board, history.touched, history.taken)
  BY DEF CastlingInv, Move
<1>2. team \in Color /\ SoundBoard(board, Opposite(team), history.last)
  BY <1>1 DEF GameInv, TypeOK
<1>3. to \in CandidateMoves(board, from, team)
  BY DEF Offered, LegalMoves
<1>4. /\ board' = BoardAfter(board, from, to, team)
      /\ owed' \subseteq owed \cup {to}
      /\ history'.touched = history.touched \cup {from, to}
      /\ history'.taken = history.taken \cup
           {s \in {to} : s \notin history.touched /\ board.tiles[s].type = "ROOK"}
  BY DEF Move, CommitMove, BoardAfter
<1>5. RightsFollow(board', history'.touched, history'.taken)
  BY <1>1, <1>2, <1>3, <1>4, RightsFollowMove
<1>6. owed' \subseteq history'.touched
  BY <1>1, <1>4
<1>7. RightsFollow(board, history.touched, history.taken)'
  BY <1>5 DEF RightsFollow, Right
<1> QED
  BY <1>1, <1>6, <1>7, MoveGame DEF CastlingInv

LEMMA PromoteCastling ==
  ASSUME CastlingInv, NEW pos \in owed, NEW type \in PromotionChoice, Promotion(pos, type)
  PROVE  CastlingInv'
<1> DEFINE next == [board.tiles EXCEPT ![pos].type = type]
<1>1. /\ GameInv /\ Followed /\ owed \subseteq history.touched
      /\ RightsFollow(board, history.touched, history.taken) /\ board \in BoardObject /\ history \in History
  BY DEF CastlingInv, Promotion, GameInv, TypeOK
<1>2. /\ board'.tiles = next /\ board'.qSide = board.qSide /\ board'.kSide = board.kSide
      /\ owed' = owed \ {pos} /\ history'.touched = history.touched
      /\ history'.taken = history.taken
  BY <1>1 DEF Promotion, Promote, BoardObject, History
<1>3. pos \in history.touched
  BY <1>1
<1>4. \A s \in Square \ {pos} : next[s] = board.tiles[s]
  BY <1>1 DEF BoardObject, Tiles
<1> HIDE DEF next
<1>5. RightsFollow(board', history'.touched, history'.taken)
  <2> SUFFICES ASSUME NEW c \in Color, NEW x \in {0, 7}
               PROVE  LET home   == At(4, HomeRow(c))
                          corner == At(x, HomeRow(c))
                          seen   == history'.touched
                      IN /\ Right(board', c, x) =>
                              home \notin seen /\ (corner \in seen => corner \in history'.taken)
                         /\ ~Right(board', c, x) => home \in seen \/ corner \in seen
                         /\ home \notin seen /\ corner \notin seen =>
                              Is(board'.tiles, corner, "ROOK", c)
    BY DEF RightsFollow
  <2>1. Right(board', c, x) = Right(board, c, x)
    BY <1>2 DEF Right
  <2>2. At(x, HomeRow(c)) \in Square
    BY Corners
  <2>3. At(x, HomeRow(c)) \notin history.touched =>
          next[At(x, HomeRow(c))] = board.tiles[At(x, HomeRow(c))]
    BY <1>3, <1>4, <2>2
  <2> QED
    BY <1>1, <1>2, <2>1, <2>3 DEF RightsFollow, Is
<1>6. RightsFollow(board, history.touched, history.taken)'
  BY <1>5 DEF RightsFollow, Right
<1> QED
  BY <1>1, <1>2, <1>6, PromoteGame DEF CastlingInv

LEMMA StutterCastling == CastlingInv /\ UNCHANGED vars => CastlingInv'
BY StutterGame DEF CastlingInv, vars, Followed, RightsFollow, Right

LEMMA CastlingIsSound == Spec => []CastlingInv
<1>1. CastlingInv /\ [Next]_vars => CastlingInv'
  BY MoveCastling, PromoteCastling, StutterCastling DEF Next
<1> QED
  BY InitCastling, <1>1, PTL DEF Spec

(* The way of a king that castles, as the code and as the laws have it.     *)
Way(x) == IF x = 0 THEN -1 ELSE 1

CastlingIsClear(t, c, x) ==
  /\ L!Clear(t, At(4, HomeRow(c)), At(x, HomeRow(c)))
  /\ \A k \in 0 .. 2 : ~L!Attacked(t, At(4 + k * Way(x), HomeRow(c)), c)

LEMMA CanCastleIsLawful ==
  ASSUME NEW t \in Tiles, NEW c \in Color, NEW x \in {0, 7}
  PROVE  /\ x = 0 => (CanCastle(t, At(4, HomeRow(c)), c, TRUE) <=> CastlingIsClear(t, c, x))
         /\ x = 7 => (CanCastle(t, At(4, HomeRow(c)), c, FALSE) <=> CastlingIsClear(t, c, x))
<1> DEFINE row    == HomeRow(c)
           home   == At(4, row)
           corner == At(x, row)
           dir    == <<Way(x), 0>>
           n      == IF x = 0 THEN 4 ELSE 3
<1>1. row \in 0 .. 7 /\ home \in Square /\ corner \in Square
  BY HomeRows, Corners
<1>2. dir \in KingDirections
  BY DEF KingDirections, RookDirections, Way
<1> HIDE DEF row
<1>3. /\ \A k \in 0 .. 3 : Step(home, dir, k) = At(4 + k * Way(x), row)
      /\ Step(home, dir, 0) = home
  BY <1>1 DEF Step, At, Way
<1>4. corner = Step(home, dir, n) /\ n \in 1 .. 7
  BY <1>1 DEF Step, At, Way
<1>5. \A k \in 0 .. 2 : At(4 + k * Way(x), row) \in Square
  BY <1>1, AtSquare DEF Way
<1>6. dir = IF x = 0 THEN <<-1, 0>> ELSE <<1, 0>>
  BY DEF Way
<1> HIDE DEF home, corner, dir
<1>7. L!Clear(t, home, corner) <=> \A j \in 1 .. n - 1 : Empty(t, Step(home, dir, j))
  <2> HIDE DEF n
  <2>1. \A s : s \in L!Between[<<home, corner>>] <=> \E j \in 1 .. n - 1 : s = Step(home, dir, j)
    BY <1>1, <1>2, <1>4, BetweenSteps
  <2> QED
    BY <2>1 DEF L!Clear, L!Free, Empty
<1>8. \A k \in 0 .. 2 : IsKingAttacked(t, Step(home, dir, k), c)
                          <=> L!Attacked(t, At(4 + k * Way(x), row), c)
  BY <1>3, <1>5, AttacksAreLawful
<1> DEFINE open == /\ \A j \in 1 .. n - 1 : Empty(t, Step(home, dir, j))
                   /\ \A k \in 0 .. 2 : ~IsKingAttacked(t, Step(home, dir, k), c)
<1>9. open <=> /\ x = 0 => Empty(t, Step(home, dir, 3))
               /\ Empty(t, Step(home, dir, 1)) /\ Empty(t, Step(home, dir, 2))
               /\ \A k \in {0, 1, 2} : ~IsKingAttacked(t, Step(home, dir, k), c)
  <2>1. \A j : j \in 1 .. n - 1 <=> j \in {1, 2} \/ (x = 0 /\ j = 3)
    OBVIOUS
  <2>2. 0 .. 2 = {0, 1, 2}
    OBVIOUS
  <2> HIDE DEF n
  <2> QED
    BY <2>1, <2>2
<1>10. open <=> CastlingIsClear(t, c, x)
  BY <1>7, <1>8 DEF CastlingIsClear, home, corner, row
<1> HIDE DEF open
<1>11. /\ x = 0 => (CanCastle(t, home, c, TRUE) <=> open)
       /\ x = 7 => (CanCastle(t, home, c, FALSE) <=> open)
  BY <1>3, <1>6, <1>9 DEF CanCastle
<1> QED
  BY <1>10, <1>11 DEF home, row

LEMMA LawCastling ==
  ASSUME NEW t \in Tiles, NEW c \in Color, NEW from \in Square, t[from].col = c,
         NEW touched, NEW to
  PROVE  to \in L!CastlingMoves(t, touched, from) <=>
           /\ from = At(4, HomeRow(c)) /\ t[from].type = "KING" /\ from \notin touched
           /\ \E x \in {0, 7} : /\ to = At(4 + 2 * Way(x), HomeRow(c))
                                /\ Is(t, At(x, HomeRow(c)), "ROOK", c)
                                /\ At(x, HomeRow(c)) \notin touched
                                /\ CastlingIsClear(t, c, x)
<1>1. L!Rows[c].back = HomeRow(c)
  BY DEF L!Rows, HomeRow, Color
<1>2. \A x, y : L!Sq(x, y) = At(x, y)
  BY DEF L!Sq, At
<1>3. Way(0) = -1 /\ Way(7) = 1
  BY DEF Way
<1>4. \A x \in {0, 7} : L!Holds(t, At(x, HomeRow(c)), "ROOK", c)
                          <=> Is(t, At(x, HomeRow(c)), "ROOK", c)
  <2>1. \A x \in {0, 7} : At(x, HomeRow(c)) \in Square
    BY Corners
  <2> QED
    BY <2>1, PieceIs DEF L!Holds
<1> QED
  BY <1>1, <1>2, <1>3, <1>4 DEF L!CastlingMoves, L!Holds, CastlingIsClear

LEMMA KingMovesTwo ==
  ASSUME NEW b, NEW own \in Color, NEW last, SoundBoard(b, Opposite(own), last),
         NEW from \in Owned(b.tiles, own), NEW to \in CandidateMoves(b, from, own),
         b.tiles[from].type = "KING", from.x - to.x \in {2, -2}
  PROVE  to \in CastlingMoves(b, At(4, HomeRow(own)), own)
BY KingCastles

LEMMA OfferedCastling ==
  ASSUME NEW b, NEW own \in Color, NEW last, SoundBoard(b, Opposite(own), last),
         NEW from \in Owned(b.tiles, own), b.tiles[from].type = "KING", NEW to
  PROVE  to \in CandidateMoves(b, from, own) /\ from.x - to.x \in {2, -2} <=>
           /\ from = At(4, HomeRow(own))
           /\ \E x \in {0, 7} : /\ Right(b, own, x) /\ CastlingIsClear(b.tiles, own, x)
                                /\ to = At(4 + 2 * Way(x), HomeRow(own))
<1> DEFINE row  == HomeRow(own)
           home == At(4, row)
<1>1. b.tiles \in Tiles /\ b \in BoardObject /\ row \in 0 .. 7
  BY HomeRows DEF SoundBoard, BoardObject
<1>2. \A x \in {0, 7} : Step(home, IF x = 0 THEN <<-2, 0>> ELSE <<2, 0>>, 1) = At(4 + 2 * Way(x), row)
  BY <1>1 DEF Step, At, Way
<1>3. to \in CastlingMoves(b, home, own) <=>
        \/ /\ Right(b, own, 0) /\ CanCastle(b.tiles, home, own, TRUE)
           /\ to = At(4 + 2 * Way(0), row)
        \/ /\ Right(b, own, 7) /\ CanCastle(b.tiles, home, own, FALSE)
           /\ to = At(4 + 2 * Way(7), row)
  <2>1. /\ Step(home, <<-2, 0>>, 1) = At(4 + 2 * Way(0), row)
        /\ Step(home, <<2, 0>>, 1) = At(4 + 2 * Way(7), row)
    BY <1>2
  <2>2. Right(b, own, 0) = b.qSide[own] /\ Right(b, own, 7) = b.kSide[own]
    BY DEF Right
  <2> HIDE DEF home, row
  <2>3. to \in CastlingMoves(b, home, own) <=>
          \/ to = Step(home, <<-2, 0>>, 1) /\ b.qSide[own] /\ CanCastle(b.tiles, home, own, TRUE)
          \/ to = Step(home, <<2, 0>>, 1) /\ b.kSide[own] /\ CanCastle(b.tiles, home, own, FALSE)
    BY Zenon DEF CastlingMoves
  <2> QED
    BY <2>1, <2>2, <2>3, Zenon
<1>4. to \in CastlingMoves(b, home, own) <=>
        \E x \in {0, 7} : /\ Right(b, own, x) /\ CastlingIsClear(b.tiles, own, x)
                          /\ to = At(4 + 2 * Way(x), row)
  <2>1. /\ CanCastle(b.tiles, home, own, TRUE) <=> CastlingIsClear(b.tiles, own, 0)
        /\ CanCastle(b.tiles, home, own, FALSE) <=> CastlingIsClear(b.tiles, own, 7)
    <3>1. 0 \in {0, 7} /\ 7 \in {0, 7}
      OBVIOUS
    <3> QED
      BY <1>1, <3>1, CanCastleIsLawful, Zenon
  <2> HIDE DEF home, row
  <2> QED
    BY <1>3, <2>1, Zenon
<1>5. to \in CandidateMoves(b, from, own) /\ from.x - to.x \in {2, -2} =>
        from = home /\ to \in CastlingMoves(b, home, own)
  BY KingCastles
<1>6. from = home /\ to \in CastlingMoves(b, home, own) => to \in CandidateMoves(b, from, own)
  BY DEF CandidateMoves
<1>7. from = home /\ (\E x \in {0, 7} : to = At(4 + 2 * Way(x), row)) => from.x - to.x \in {2, -2}
  BY DEF At, Way
<1> HIDE DEF row, home
<1> QED
  BY <1>4, <1>5, <1>6, <1>7 DEF row, home

(* A square of a row that lies between a piece and another square of that   *)
(* row.                                                                     *)
LEMMA BeforeOnRow ==
  ASSUME NEW a \in Square, NEW to \in Square, NEW home \in L!Between[<<a, to>>],
         home.y = to.y
  PROVE  /\ L!SameLine(a, home) /\ ~L!SameDiagonal(a, to)
         /\ L!Between[<<a, home>>] \subseteq L!Between[<<a, to>>] \ {home, to}
<1>1. L!SameLine(a, to) \/ L!SameDiagonal(a, to)
  BY BetweenSquares
<1>2. PICK d \in KingDirections, k \in 1 .. 7 : to = Step(a, d, k)
  BY <1>1, StepsOfLine DEF KingDirections
<1>3. \A s : s \in L!Between[<<a, to>>] <=> \E j \in 1 .. k - 1 : s = Step(a, d, j)
  BY <1>2, BetweenSteps
<1>4. PICK n \in 1 .. k - 1 : home = Step(a, d, n)
  BY <1>3
<1>5. home \in Square
  BY BetweenSquares
<1>6. d[2] = 0
  <2>1. a.y + n * d[2] = a.y + k * d[2]
    BY <1>2, <1>4, <1>5, StepCoordinates
  <2>2. d[2] \in Unit /\ a.y \in Int
    BY DirectionSteps DEF Square
  <2>3. /\ n * d[2] = (IF d[2] = 0 THEN 0 ELSE IF d[2] = 1 THEN n ELSE -n) /\ n * d[2] \in Int
        /\ k * d[2] = (IF d[2] = 0 THEN 0 ELSE IF d[2] = 1 THEN k ELSE -k) /\ k * d[2] \in Int
    BY <2>2, Multiple
  <2> QED
    BY <2>1, <2>2, <2>3
<1>7. d \in RookDirections /\ n \in 1 .. 7
  BY <1>6, DirectionSteps
<1>8. L!SameLine(a, home) /\ L!SameLine(a, to)
  BY <1>2, <1>4, <1>5, <1>7, LineOfSteps
<1>9. ~L!SameDiagonal(a, to)
  BY <1>8 DEF L!SameLine, L!SameDiagonal, L!Abs, Square
<1>10. \A s : s \in L!Between[<<a, home>>] <=> \E j \in 1 .. n - 1 : s = Step(a, d, j)
  BY <1>4, <1>5, <1>7, BetweenSteps
<1>11. L!Between[<<a, home>>] \subseteq L!Between[<<a, to>>]
  <2>1. \A j \in 1 .. n - 1 : j \in 1 .. k - 1
    OBVIOUS
  <2> QED
    BY <1>3, <1>10, <2>1
<1>12. home \notin L!Between[<<a, home>>] /\ to \notin L!Between[<<a, to>>]
  BY <1>5, BetweenSquares
<1> QED
  BY <1>8, <1>9, <1>11, <1>12

(* A king that castles is safe where it ends, and so it is beside the home  *)
(* square: its leaving that square opens only the row, and who attacks      *)
(* along the row attacked the king at home already.  So isKingEndangered    *)
(* never refuses a castling.                                                *)
LEMMA CastlingIsSafe ==
  ASSUME NEW t \in Tiles, NEW c \in Color, NEW x \in {0, 7}, NEW n \in 1 .. 2, CastlingIsClear(t, c, x),
         t[At(4, HomeRow(c))] = [type |-> "KING", col |-> c]
  PROVE  ~L!Attacked(Moved(t, At(4, HomeRow(c)), At(4 + n * Way(x), HomeRow(c))),
                     At(4 + n * Way(x), HomeRow(c)), c)
<1> DEFINE home == At(4, HomeRow(c))
           to   == At(4 + n * Way(x), HomeRow(c))
           m    == Moved(t, home, to)
<1>1. home \in Square /\ to \in Square /\ home # to /\ home.y = to.y
  <2>1. HomeRow(c) \in 0 .. 7 /\ 4 + n * Way(x) \in {2, 3, 5, 6}
    BY HomeRows DEF Way
  <2> QED
    BY <2>1, AtSquare DEF At
<1>2. ~L!Attacked(t, home, c) /\ ~L!Attacked(t, to, c)
  <2>1. At(4 + 0 * Way(x), HomeRow(c)) = home
    BY DEF Way
  <2> QED
    BY <2>1 DEF CastlingIsClear
<1>3. t[home].type = "KING" /\ t[home].col = c
  OBVIOUS
<1> HIDE DEF home, to
<1>4. m[to] = t[home] /\ m[home].type = "NONE" /\ \A s \in Square \ {home, to} : m[s] = t[s]
  BY <1>1, MovedTiles DEF NoPiece
<1> HIDE DEF m
<1> SUFFICES ASSUME L!Attacked(m, to, c) PROVE FALSE
  BY DEF m, home, to
<1>5. PICK a \in Square : m[a].type # "NONE" /\ m[a].col = Opposite(c) /\ L!Attacks(m, a, to)
  BY SameSquares, SameOpposite DEF L!Attacked, L!Pieces, L!Free
<1>6. a # home /\ a # to /\ m[a] = t[a]
  BY <1>1, <1>3, <1>4, <1>5, OppositeColor
<1>7. ASSUME NEW k \in {home, to} PROVE ~L!Attacks(t, a, k)
  BY <1>2, <1>5, <1>6, <1>7, SameSquares, SameOpposite DEF L!Attacked, L!Pieces, L!Free
<1>8. ~L!Clear(t, a, to) /\ L!Clear(m, a, to)
  BY <1>5, <1>6, <1>7 DEF L!Attacks
<1>9. home \in L!Between[<<a, to>>]
  <2>1. PICK s \in L!Between[<<a, to>>] : ~L!Free(t, s) /\ L!Free(m, s)
    BY <1>8 DEF L!Clear
  <2>2. s \in Square /\ s # to
    BY <2>1, <1>1, BetweenSquares
  <2> QED
    BY <2>1, <2>2, <1>4 DEF L!Free
<1>10. /\ L!SameLine(a, home) /\ ~L!SameDiagonal(a, to)
       /\ L!Between[<<a, home>>] \subseteq L!Between[<<a, to>>] \ {home, to}
  BY <1>1, <1>9, BeforeOnRow
<1>11. L!Clear(t, a, home)
  <2>1. \A s \in L!Between[<<a, home>>] : s \in Square
    BY <1>1, BetweenSquares
  <2> QED
    BY <2>1, <1>4, <1>8, <1>10 DEF L!Clear, L!Free
<1>12. t[a].type \in {"ROOK", "QUEEN"}
  BY <1>5, <1>6, <1>7, <1>8, <1>10 DEF L!Attacks
<1> QED
  BY <1>7, <1>10, <1>11, <1>12 DEF L!Attacks

LEMMA OfferedCastlings ==
  ASSUME GameInv, Followed, NEW from \in Owned(board.tiles, team), NEW to
  PROVE  to \in Offered(from) /\ IsCastling(from, to) <=>
           /\ from = At(4, HomeRow(team)) /\ board.tiles[from].type = "KING"
           /\ \E x \in {0, 7} : /\ Right(board, team, x) /\ CastlingIsClear(board.tiles, team, x)
                                /\ to = At(4 + 2 * Way(x), HomeRow(team))
<1>1. /\ team \in Color /\ SoundBoard(board, Opposite(team), history.last)
      /\ board.tiles \in Tiles
  BY DEF GameInv, TypeOK, BoardObject
<1>2. from \in Square /\ board.tiles[from].col = team
  BY DEF Owned
<1>3. CASE board.tiles[from].type = "KING"
  <2>1. to \in CandidateMoves(board, from, team) /\ from.x - to.x \in {2, -2} <=>
          /\ from = At(4, HomeRow(team))
          /\ \E x \in {0, 7} : /\ Right(board, team, x) /\ CastlingIsClear(board.tiles, team, x)
                               /\ to = At(4 + 2 * Way(x), HomeRow(team))
    BY <1>1, <1>3, OfferedCastling
  <2>2. ASSUME from = At(4, HomeRow(team)), NEW x \in {0, 7},
               CastlingIsClear(board.tiles, team, x), to = At(4 + 2 * Way(x), HomeRow(team))
        PROVE  ~IsKingEndangered(board, team, from, to)
    <3>1. board.tiles[from] = [type |-> "KING", col |-> team]
      BY <1>1, <1>2, <1>3, PieceIs DEF Is
    <3>2. ~L!Attacked(Moved(board.tiles, from, to), to, team)
      <4>1. 2 \in 1 .. 2
        OBVIOUS
      <4> QED
        BY <1>1, <2>2, <3>1, <4>1, CastlingIsSafe
    <3>3. to \in Square
      <4>1. HomeRow(team) \in 0 .. 7 /\ 4 + 2 * Way(x) \in {2, 6}
        BY <1>1, HomeRows DEF Way
      <4> QED
        BY <2>2, <4>1, AtSquare
    <3>4. Moved(board.tiles, from, to) \in Tiles
      BY <1>1, <1>2, <3>3, MovedTiles
    <3>5. ~IsKingAttacked(Moved(board.tiles, from, to), to, team)
      BY <1>1, <3>2, <3>3, <3>4, AttacksAreLawful
    <3> QED
      BY <1>3, <3>5 DEF IsKingEndangered
  <2> QED
    BY <1>3, <2>1, <2>2 DEF Offered, LegalMoves, IsCastling
<1>4. CASE board.tiles[from].type # "KING"
  BY <1>4 DEF IsCastling
<1> QED
  BY <1>3, <1>4

LEMMA CastlingAgrees == CastlingInv => CastlingFollowsTheKing
<1> SUFFICES ASSUME CastlingInv, Followed, NEW from \in Owned(board.tiles, team)
             PROVE  LET castling == {to \in Offered(from) : IsCastling(from, to)}
                        lawful   == L!CastlingMoves(board.tiles, history.touched, from)
                    IN /\ lawful \subseteq castling
                       /\ \A to \in castling \ lawful :
                            /\ from = At(4, HomeRow(team)) /\ from \notin history.touched
                            /\ At(IF to.x = 2 THEN 0 ELSE 7, from.y) \in history.taken
  BY DEF CastlingFollowsTheKing
<1> DEFINE home == At(4, HomeRow(team))
           corner(x) == At(x, HomeRow(team))
           target(x) == At(4 + 2 * Way(x), HomeRow(team))
<1>1. /\ GameInv /\ team \in Color /\ board.tiles \in Tiles
      /\ RightsFollow(board, history.touched, history.taken)
  BY DEF CastlingInv, GameInv, TypeOK, BoardObject
<1>2. from \in Square /\ board.tiles[from].col = team
  BY DEF Owned
<1>3. \A x \in {0, 7} :
        /\ Right(board, team, x) =>
             home \notin history.touched /\ (corner(x) \in history.touched => corner(x) \in history.taken)
        /\ ~Right(board, team, x) => home \in history.touched \/ corner(x) \in history.touched
        /\ home \notin history.touched /\ corner(x) \notin history.touched =>
             Is(board.tiles, corner(x), "ROOK", team)
  BY <1>1 DEF RightsFollow
<1>4. \A to : to \in Offered(from) /\ IsCastling(from, to) <=>
        /\ from = home /\ board.tiles[from].type = "KING"
        /\ \E x \in {0, 7} : /\ Right(board, team, x) /\ CastlingIsClear(board.tiles, team, x)
                             /\ to = target(x)
  BY <1>1, OfferedCastlings
<1>5. \A to : to \in L!CastlingMoves(board.tiles, history.touched, from) <=>
        /\ from = home /\ board.tiles[from].type = "KING" /\ from \notin history.touched
        /\ \E x \in {0, 7} : /\ to = target(x) /\ Is(board.tiles, corner(x), "ROOK", team)
                             /\ corner(x) \notin history.touched
                             /\ CastlingIsClear(board.tiles, team, x)
  BY <1>1, <1>2, LawCastling
<1>6. \A x \in {0, 7} : At(IF target(x).x = 2 THEN 0 ELSE 7, home.y) = corner(x)
  BY DEF At, Way
<1> HIDE DEF home, corner, target
<1>7. \A to \in L!CastlingMoves(board.tiles, history.touched, from) :
        to \in Offered(from) /\ IsCastling(from, to)
  BY <1>3, <1>4, <1>5
<1>8. ASSUME NEW to \in Offered(from), IsCastling(from, to),
             to \notin L!CastlingMoves(board.tiles, history.touched, from)
      PROVE  /\ from = home /\ from \notin history.touched
             /\ At(IF to.x = 2 THEN 0 ELSE 7, from.y) \in history.taken
  <2>1. PICK x \in {0, 7} : /\ Right(board, team, x) /\ CastlingIsClear(board.tiles, team, x)
                            /\ to = target(x)
    BY <1>4, <1>8
  <2>2. from = home /\ board.tiles[from].type = "KING" /\ from \notin history.touched
    BY <1>3, <1>4, <1>8, <2>1
  <2>3. corner(x) \in history.taken
    BY <1>3, <1>5, <1>8, <2>1, <2>2
  <2> QED
    BY <1>6, <2>1, <2>2, <2>3
<1> QED
  BY <1>7, <1>8 DEF home

(* No lawful castling is ever lost, and the only one that is offered beyond *)
(* them is towards a corner in which its own rook was captured before it    *)
(* had moved, by a king that has not moved (TeamData's castling flags,      *)
(* commitMove, calculateCastlingMoves).                                     *)
THEOREM CastlingIsFaithful == Spec => []CastlingFollowsTheKing
BY CastlingIsSound, CastlingAgrees, PTL

-----------------------------------------------------------------------------
(* The end of the game.  A team has a move that the Board finds exactly     *)
(* when it has a lawful one: a castling that only the flags allow comes     *)
(* with a step of the king that the laws allow too.                         *)
LEMMA StepBesideCastling ==
  ASSUME GameInv, Followed, NEW from \in Owned(board.tiles, team), NEW to \in Offered(from),
         IsCastling(from, to)
  PROVE  \E s \in Offered(from) : ~IsCastling(from, s) /\ ~IsEnPassant(board.tiles, from, s)
<1> DEFINE row == HomeRow(team)
<1>1. /\ team \in Color /\ SoundBoard(board, Opposite(team), history.last)
      /\ board \in BoardObject /\ board.tiles \in Tiles /\ row \in 0 .. 7
  BY HomeRows DEF GameInv, TypeOK, BoardObject
<1>2. PICK x \in {0, 7} : /\ CastlingIsClear(board.tiles, team, x)
                          /\ to = At(4 + 2 * Way(x), row)
                          /\ from = At(4, row) /\ board.tiles[from].type = "KING"
  BY OfferedCastlings
<1> DEFINE s == At(4 + 1 * Way(x), row)
<1>3. to \in CandidateMoves(board, from, team)
  BY DEF Offered, LegalMoves
<1>4. \/ /\ to = At(2, row) /\ Empty(board.tiles, At(3, row))
      \/ /\ to = At(6, row) /\ Empty(board.tiles, At(5, row))
  <2>1. from.x - to.x \in {2, -2}
    BY DEF IsCastling
  <2>2. \/ to = At(2, row) /\ \A y \in {1, 2, 3} : Empty(board.tiles, At(y, row))
        \/ to = At(6, row) /\ \A y \in {5, 6} : Empty(board.tiles, At(y, row))
    <3>1. to \in CastlingMoves(board, At(4, HomeRow(team)), team)
      BY <1>1, <1>2, <1>3, <2>1, KingMovesTwo
    <3> QED
      BY <1>1, <3>1, CastlingTargets
  <2> HIDE DEF row
  <2> QED
    BY <2>2
<1>5. s = IF to.x = 2 THEN At(3, row) ELSE At(5, row)
  BY <1>2 DEF At, Way
<1>6. Empty(board.tiles, s)
  <2> HIDE DEF s, row
  <2>1. to.x = 2 => Empty(board.tiles, At(3, row))
    BY <1>4 DEF At
  <2>2. to.x # 2 => Empty(board.tiles, At(5, row))
    BY <1>4 DEF At
  <2> QED
    BY <1>5, <2>1, <2>2
<1>7. s \in Square /\ s.x - from.x \in {1, -1} /\ s.y = from.y /\ from \in Square
  <2>1. 4 + 1 * Way(x) \in {3, 5}
    BY DEF Way
  <2>2. s.x = 4 + 1 * Way(x) /\ s.y = row /\ from.x = 4 /\ from.y = row
    BY <1>2 DEF At
  <2>3. s \in Square /\ from \in Square
    BY <1>1, <1>2, <2>1, AtSquare
  <2> QED
    BY <2>1, <2>2, <2>3
<1>8. ~IsKingEndangered(board, team, from, s)
  <2>1. board.tiles[from] = [type |-> "KING", col |-> team]
    BY <1>1, <1>2, <1>7, PieceIs DEF Is, Owned
  <2>2. ~L!Attacked(Moved(board.tiles, from, s), s, team)
    <3>1. 1 \in 1 .. 2
      OBVIOUS
    <3> QED
      BY <1>1, <1>2, <2>1, <3>1, CastlingIsSafe
  <2> HIDE DEF s
  <2>3. Moved(board.tiles, from, s) \in Tiles
    BY <1>1, <1>7, MovedTiles
  <2>4. ~IsKingAttacked(Moved(board.tiles, from, s), s, team)
    BY <1>1, <1>7, <2>2, <2>3, AttacksAreLawful
  <2> QED
    BY <1>2, <2>4 DEF IsKingEndangered
<1> HIDE DEF s, row
<1>9. s \in CandidateMoves(board, from, team)
  <2>1. from # s /\ L!Abs(from.x - s.x) <= 1 /\ L!Abs(from.y - s.y) <= 1
    <3>1. from.x \in Int /\ from.y \in Int /\ s.x \in Int
      BY <1>7 DEF Square
    <3> QED
      BY <1>7, <3>1 DEF L!Abs
  <2>2. s \in CalculateRoundMoves(board.tiles, KingDirections, from, team)
    BY <1>1, <1>6, <1>7, <2>1, RoundReach
  <2> QED
    BY <1>2, <2>2 DEF CandidateMoves
<1>10. ~IsCastling(from, s)
  <2>1. from.x \in Int /\ s.x \in Int
    BY <1>7 DEF Square
  <2> QED
    BY <1>7, <2>1 DEF IsCastling
<1>11. ~IsEnPassant(board.tiles, from, s)
  BY <1>2 DEF IsEnPassant
<1>12. s \in Offered(from)
  BY <1>8, <1>9 DEF Offered, LegalMoves
<1> QED
  BY <1>10, <1>11, <1>12

LEMMA EnPassantIsBeside ==
  ASSUME NEW b, NEW own \in Color, NEW last, SoundBoard(b, Opposite(own), last),
         NEW from \in Owned(b.tiles, own), NEW to \in CandidateMoves(b, from, own),
         CapturesPassed(b, from, to)
  PROVE  from.x - to.x \in {1, -1}
<1>1. from \in Square /\ to \in Square /\ b.tiles[from].col = own
  BY SoundTarget
<1>2. to \in EnPassantMoves(b, from)
  BY PassedPawn
<1>3. Ahead(from, own) = At(from.x, from.y + Direction(own))
  BY <1>1, AheadIsPosition DEF Direction
<1>4. to.x - from.x \in {1, -1}
  BY <1>1, <1>2, <1>3 DEF EnPassantMoves, At
<1>5. from.x \in Int /\ to.x \in Int
  BY <1>1 DEF Square
<1> QED
  BY <1>4, <1>5

LEMMA EnPassantIsSeen ==
  ASSUME GameInv, Followed, NEW from \in Owned(board.tiles, team)
  PROVE  /\ L!EnPassantMoves(board.tiles, history.last, from) # {} => HasEnPassant
         /\ \A to \in Offered(from) : IsEnPassant(board.tiles, from, to) => HasEnPassant
<1>1. /\ team \in Color /\ SoundBoard(board, Opposite(team), history.last)
      /\ history.last.to \in Square /\ board.tiles \in Tiles
  BY DEF GameInv, TypeOK, BoardObject, History
<1>2. from \in Square /\ from.x \in Int /\ history.last.to.x \in Int /\ history.last.to.y \in Int
  BY <1>1 DEF Owned, Square
<1>3. L!EnPassantMoves(board.tiles, history.last, from) # {} => HasEnPassant
  <2> SUFFICES ASSUME L!EnPassantMoves(board.tiles, history.last, from) # {} PROVE HasEnPassant
    OBVIOUS
  <2>1. /\ board.tiles[from].type = "PAWN" /\ L!DoubleStep(board.tiles, history.last)
        /\ from.y = history.last.to.y /\ L!Abs(from.x - history.last.to.x) = 1
    BY DEF L!EnPassantMoves
  <2>2. from.x - history.last.to.x \in {1, -1}
    BY <1>2, <2>1 DEF L!Abs
  <2> QED
    BY <2>1, <2>2 DEF HasEnPassant
<1>4. ASSUME NEW to \in Offered(from), IsEnPassant(board.tiles, from, to) PROVE HasEnPassant
  <2>1. /\ L!DoubleStep(board.tiles, history.last) /\ history.last.to = At(to.x, from.y)
    BY <1>4, EnPassantIsOnTime DEF EnPassantOnTime
  <2>2. to \in CandidateMoves(board, from, team)
    BY <1>4 DEF Offered, LegalMoves
  <2>3. CapturesPassed(board, from, to)
    BY <1>1, <1>4, <2>2, OfferedEnPassant
  <2>4. from.x - to.x \in {1, -1}
    BY <1>1, <1>2, <2>2, <2>3, EnPassantIsBeside
  <2>5. history.last.to.x = to.x /\ history.last.to.y = from.y
    BY <2>1 DEF At
  <2> QED
    BY <1>4, <2>1, <2>4, <2>5 DEF HasEnPassant, IsEnPassant
<1> QED
  BY <1>3, <1>4

LEMMA MovesAreFound ==
  ASSUME CastlingInv, Followed, ~HasEnPassant
  PROVE  HasAnyMoves(board, team) <=> ~Stuck(board.tiles)
<1>1. GameInv /\ PlainMovesAreLawful /\ CastlingFollowsTheKing
  BY PlainMovesAgree, CastlingAgrees DEF CastlingInv
<1>2. \A from : from \in L!Pieces(board.tiles, team) <=> from \in Owned(board.tiles, team)
  BY SameSquares DEF L!Pieces, L!Free, Owned, Empty
<1>3. ASSUME NEW from \in Owned(board.tiles, team)
      PROVE  Offered(from) # {} <=>
               L!Lawful(board.tiles, history.last, history.touched, from) # {}
  <2>1. L!EnPassantMoves(board.tiles, history.last, from) = {}
    BY <1>1, <1>3, EnPassantIsSeen
  <2>2. \A to \in Offered(from) : ~IsEnPassant(board.tiles, from, to)
    BY <1>1, <1>3, EnPassantIsSeen
  <2>3. \A to : to \in L!PlainMoves(board.tiles, from) <=>
          /\ to \in Offered(from) /\ ~IsCastling(from, to)
          /\ ~IsEnPassant(board.tiles, from, to)
    BY <1>1, <1>3 DEF PlainMovesAreLawful
  <2>4. \A to \in L!CastlingMoves(board.tiles, history.touched, from) : to \in Offered(from)
    BY <1>1, <1>3 DEF CastlingFollowsTheKing
  <2>5. ASSUME NEW to \in Offered(from)
        PROVE  L!PlainMoves(board.tiles, from) # {}
    <3>1. CASE IsCastling(from, to)
      <4>1. PICK s \in Offered(from) : ~IsCastling(from, s) /\ ~IsEnPassant(board.tiles, from, s)
        BY <1>1, <1>3, <2>5, <3>1, StepBesideCastling
      <4> QED
        BY <2>3, <4>1
    <3>2. CASE ~IsCastling(from, to)
      BY <2>2, <2>3, <2>5, <3>2
    <3> QED
      BY <3>1, <3>2
  <2> QED
    BY <2>1, <2>3, <2>4, <2>5 DEF L!Lawful
<1>4. HasAnyMoves(board, team) <=> \E from \in Owned(board.tiles, team) : Offered(from) # {}
  BY DEF HasAnyMoves, Offered
<1> QED
  BY <1>2, <1>3, <1>4 DEF Stuck, L!HasLawfulMove

(* The flag of the last move against what the Board finds on the board that *)
(* the move led to.                                                         *)
FlagInv ==
  /\ CastlingInv
  /\ LET checked == IsKingAttacked(board.tiles, board.kingPos[team], team)
         moves   == HasAnyMoves(board, team)
     IN history.fresh => /\ flag = "CHECK_MATE" <=> ~moves /\ checked
                         /\ flag = "STALE_MATE" <=> ~moves /\ ~checked

LEMMA FlagIsSound == Spec => []FlagInv
<1>1. Init => FlagInv
  <2>1. Init => ~history.fresh
    BY DEF Init
  <2> QED
    BY <2>1, InitCastling DEF FlagInv
<1>2. ASSUME FlagInv, NEW from \in Owned(board.tiles, team), NEW to \in Offered(from), Move(from, to)
      PROVE  FlagInv'
  <2>1. CastlingInv'
    BY <1>2, MoveCastling DEF FlagInv
  <2>2. /\ board' = BoardAfter(board, from, to, team) /\ team' = Opposite(team)
        /\ flag' = FlagAfter(BoardAfter(board, from, to, team), AtEnd(board, from, to), Opposite(team))
    BY <1>2 DEF Move, CommitMove
  <2>3. flag' = FlagAfter(board', AtEnd(board, from, to), team')
    BY <2>2
  <2>4. \A atEnd : LET f == FlagAfter(board', atEnd, team')
                       checked == IsKingAttacked(board'.tiles, board'.kingPos[team'], team')
                       moves   == HasAnyMoves(board', team')
                   IN /\ f = "CHECK_MATE" <=> ~moves /\ checked
                      /\ f = "STALE_MATE" <=> ~moves /\ ~checked
    BY DEF FlagAfter
  <2> QED
    BY <2>1, <2>3, <2>4 DEF FlagInv
<1>3. ASSUME FlagInv, NEW pos \in owed, NEW type \in PromotionChoice, Promotion(pos, type)
      PROVE  FlagInv'
  <2>1. CastlingInv'
    BY <1>3, PromoteCastling DEF FlagInv
  <2>2. history \in History
    BY <1>3 DEF FlagInv, CastlingInv, GameInv
  <2>3. ~history'.fresh
    BY <1>3, <2>2 DEF Promotion, History
  <2> QED
    BY <2>1, <2>3 DEF FlagInv
<1>4. ASSUME FlagInv, UNCHANGED vars PROVE FlagInv'
  BY <1>4, StutterCastling DEF FlagInv, vars
<1>5. FlagInv /\ [Next]_vars => FlagInv'
  BY <1>2, <1>3, <1>4 DEF Next
<1> QED
  BY <1>1, <1>5, PTL DEF Spec

(* A pawn on its last row attacks nothing, so that the piece it becomes can *)
(* only take moves away from the other team, and a check stays one.         *)
Promotes(t, u, pos, c) ==
  /\ t \in Tiles /\ u \in Tiles /\ pos \in Square
  /\ Is(t, pos, "PAWN", c) /\ pos.y = LastRow(c)
  /\ u[pos].col = c /\ u[pos].type \in {"ROOK", "KNIGHT", "BISHOP", "QUEEN"}
  /\ \A s \in Square \ {pos} : u[s] = t[s]

LEMMA PromotedSquares ==
  ASSUME NEW t, NEW u, NEW pos, NEW c \in Color, Promotes(t, u, pos, c)
  PROVE  /\ \A s \in Square : /\ u[s].col = t[s].col
                              /\ L!Free(u, s) <=> L!Free(t, s)
                              /\ Empty(u, s) <=> Empty(t, s)
         /\ \A a, b \in Square : L!Clear(u, a, b) <=> L!Clear(t, a, b)
<1>1. \A s \in Square : u[s].col = t[s].col /\ (u[s].type = "NONE" <=> t[s].type = "NONE")
  <2> SUFFICES ASSUME NEW s \in Square
               PROVE  u[s].col = t[s].col /\ (u[s].type = "NONE" <=> t[s].type = "NONE")
    OBVIOUS
  <2>1. CASE s = pos
    BY <2>1 DEF Promotes, Is
  <2>2. CASE s # pos
    BY <2>2 DEF Promotes
  <2> QED
    BY <2>1, <2>2
<1>2. \A a, b \in Square : L!Between[<<a, b>>] \subseteq Square
  BY BetweenSquares
<1>3. \A s \in Square : L!Free(u, s) <=> L!Free(t, s)
  BY <1>1 DEF L!Free
<1>4. \A a, b \in Square : L!Clear(u, a, b) <=> L!Clear(t, a, b)
  BY <1>2, <1>3 DEF L!Clear
<1> QED
  BY <1>1, <1>3, <1>4 DEF Empty

LEMMA PromotedAttack ==
  ASSUME NEW t, NEW u, NEW pos, NEW c \in Color, Promotes(t, u, pos, c),
         NEW a \in Square, NEW b \in Square
  PROVE  /\ L!Attacks(t, a, b) => L!Attacks(u, a, b)
         /\ a # pos => (L!Attacks(u, a, b) <=> L!Attacks(t, a, b))
<1>1. L!Clear(u, a, b) <=> L!Clear(t, a, b)
  BY PromotedSquares
<1>2. CASE a # pos
  <2>1. u[a] = t[a]
    BY <1>2 DEF Promotes
  <2> QED
    BY <1>1, <1>2, <2>1 DEF L!Attacks
<1>3. CASE a = pos
  <2>1. t[a].type = "PAWN" /\ t[a].col = c /\ a.y = LastRow(c)
    BY <1>3 DEF Promotes, Is
  <2>2. a.y + Direction(c) \in {8, -1} /\ L!Rows[c].up = Direction(c)
    BY <2>1, DirectionIsUp DEF LastRow, Direction
  <2>3. b.y \in 0 .. 7
    BY DEF Square
  <2>4. ~L!Attacks(t, a, b)
    BY <2>1, <2>2, <2>3 DEF L!Attacks
  <2> QED
    BY <1>3, <2>4
<1> QED
  BY <1>2, <1>3

LEMMA PromotedCheck ==
  ASSUME NEW t, NEW u, NEW pos, NEW c \in Color, Promotes(t, u, pos, c)
  PROVE  /\ \A s \in Square : L!Attacked(t, s, Opposite(c)) => L!Attacked(u, s, Opposite(c))
         /\ L!InCheck(t, Opposite(c)) => L!InCheck(u, Opposite(c))
<1>1. \A a : a \in L!Pieces(t, c) <=> a \in L!Pieces(u, c)
  BY PromotedSquares, SameSquares DEF L!Pieces
<1>2. L!Opposite(Opposite(c)) = c
  BY SameOpposite, OppositeColor
<1>3. \A s \in Square : L!Attacked(t, s, Opposite(c)) => L!Attacked(u, s, Opposite(c))
  <2> SUFFICES ASSUME NEW s \in Square, L!Attacked(t, s, Opposite(c))
               PROVE  L!Attacked(u, s, Opposite(c))
    OBVIOUS
  <2>1. PICK a \in L!Pieces(t, c) : L!Attacks(t, a, s)
    BY <1>2 DEF L!Attacked
  <2>2. a \in Square
    BY <2>1, SameSquares DEF L!Pieces
  <2>3. L!Attacks(u, a, s)
    BY <2>1, <2>2, PromotedAttack
  <2> QED
    BY <1>1, <1>2, <2>1, <2>3 DEF L!Attacked
<1>4. \A k \in L!Kings(t, Opposite(c)) : k \in Square /\ k \in L!Kings(u, Opposite(c))
  <2> SUFFICES ASSUME NEW k \in L!Kings(t, Opposite(c))
               PROVE  k \in Square /\ k \in L!Kings(u, Opposite(c))
    OBVIOUS
  <2>1. k \in Square /\ t[k].type = "KING" /\ t[k].col = Opposite(c)
    BY KingsAre
  <2>2. k # pos
    BY <2>1 DEF Promotes, Is
  <2>3. u[k] = t[k]
    BY <2>1, <2>2 DEF Promotes
  <2> QED
    BY <2>1, <2>3, KingsAre
<1> QED
  BY <1>3, <1>4 DEF L!InCheck

(* The same after a move of another piece, which may capture the pawn.      *)
LEMMA PromotedLift ==
  ASSUME NEW t, NEW u, NEW pos, NEW c \in Color, Promotes(t, u, pos, c),
         NEW from \in Square, from # pos, NEW to \in Square, from # to,
         L!InCheck(Moved(t, from, to), Opposite(c))
  PROVE  L!InCheck(Moved(u, from, to), Opposite(c))
<1> DEFINE mt == Moved(t, from, to)
           mu == Moved(u, from, to)
<1>1. /\ mt \in Tiles /\ mt[to] = t[from] /\ mt[from] = NoPiece
      /\ \A s \in Square \ {from, to} : mt[s] = t[s]
  BY MovedTiles DEF Promotes
<1>2. /\ mu \in Tiles /\ mu[to] = u[from] /\ mu[from] = NoPiece
      /\ \A s \in Square \ {from, to} : mu[s] = u[s]
  BY MovedTiles DEF Promotes
<1>3. u[from] = t[from]
  BY DEF Promotes
<1> HIDE DEF mt, mu
<1>4. \A s \in Square \ {pos} : mu[s] = mt[s]
  BY <1>1, <1>2, <1>3 DEF Promotes
<1>5. CASE to = pos
  <2>1. \A s \in Square : mu[s] = mt[s]
    BY <1>1, <1>2, <1>3, <1>4, <1>5
  <2>2. mu = mt
    BY <1>1, <1>2, <2>1 DEF Tiles
  <2> QED
    BY <2>2 DEF mt, mu
<1>6. CASE to # pos
  <2>1. mt[pos] = t[pos] /\ mu[pos] = u[pos]
    BY <1>1, <1>2, <1>6 DEF Promotes
  <2>2. Promotes(mt, mu, pos, c)
    BY <1>1, <1>2, <1>4, <2>1 DEF Promotes, Is
  <2> QED
    BY <2>2, PromotedCheck DEF mt, mu
<1> QED
  BY <1>5, <1>6

LEMMA PromotedMoves ==
  ASSUME NEW t, NEW u, NEW c \in Color, NEW last, Promotes(t, u, last.to, c), NEW touched,
         NEW from \in Square, t[from].col = Opposite(c)
  PROVE  L!Lawful(u, last, touched, from) \subseteq L!Lawful(t, last, touched, from)
<1> DEFINE pos == last.to
           foe == Opposite(c)
<1>1. foe \in Color /\ foe # c
  BY OppositeColor
<1>2. from # pos
  BY <1>1 DEF Promotes, Is
<1>3. u[from] = t[from] /\ u \in Tiles /\ t \in Tiles
  BY <1>2 DEF Promotes
<1>4. ASSUME NEW s \in L!PlainMoves(u, from) PROVE s \in L!PlainMoves(t, from)
  <2>1. s \in Square /\ LawReach(u, from, s) /\ ~L!InCheck(Moved(u, from, s), foe)
    BY <1>3, LawfulPlain
  <2>2. LawReach(t, from, s)
    <3>1. u[s].col = t[s].col /\ (Empty(u, s) <=> Empty(t, s))
      BY <2>1, PromotedSquares
    <3>2. L!Clear(u, from, s) <=> L!Clear(t, from, s)
      BY <2>1, PromotedSquares
    <3>3. L!Attacks(u, from, s) <=> L!Attacks(t, from, s)
      BY <1>2, <2>1, PromotedAttack
    <3> QED
      BY <1>3, <2>1, <3>1, <3>2, <3>3 DEF LawReach
  <2>3. from # s
    <3>1. CASE t[from].type = "NONE"
      BY <2>2, <3>1 DEF LawReach, L!Attacks
    <3>2. CASE t[from].type # "NONE"
      BY <2>2, <3>2 DEF LawReach, Empty
    <3> QED
      BY <3>1, <3>2
  <2>4. ~L!InCheck(Moved(t, from, s), foe)
    BY <1>2, <2>1, <2>3, PromotedLift
  <2> QED
    BY <1>3, <2>1, <2>2, <2>4, LawfulPlain
<1>5. L!EnPassantMoves(u, last, from) = {}
  <2>1. ~L!DoubleStep(u, last)
    BY DEF L!DoubleStep, Promotes
  <2> QED
    BY <2>1 DEF L!EnPassantMoves
<1>6. ASSUME NEW s \in L!CastlingMoves(u, touched, from) PROVE s \in L!CastlingMoves(t, touched, from)
  <2>1. /\ from = At(4, HomeRow(foe)) /\ u[from].type = "KING" /\ from \notin touched
        /\ \E x \in {0, 7} : /\ s = At(4 + 2 * Way(x), HomeRow(foe))
                             /\ Is(u, At(x, HomeRow(foe)), "ROOK", foe)
                             /\ At(x, HomeRow(foe)) \notin touched
                             /\ CastlingIsClear(u, foe, x)
    BY <1>1, <1>3, <1>6, LawCastling
  <2>2. PICK x \in {0, 7} : /\ s = At(4 + 2 * Way(x), HomeRow(foe))
                            /\ Is(u, At(x, HomeRow(foe)), "ROOK", foe)
                            /\ At(x, HomeRow(foe)) \notin touched
                            /\ CastlingIsClear(u, foe, x)
    BY <2>1
  <2>3. At(x, HomeRow(foe)) \in Square /\ At(4, HomeRow(foe)) \in Square
    BY <1>1, Corners
  <2>4. At(x, HomeRow(foe)) # pos
    BY <1>1, <2>2, <2>3 DEF Promotes, Is
  <2>5. Is(t, At(x, HomeRow(foe)), "ROOK", foe)
    BY <2>2, <2>3, <2>4 DEF Promotes, Is
  <2>6. CastlingIsClear(t, foe, x)
    <3>1. L!Clear(t, At(4, HomeRow(foe)), At(x, HomeRow(foe)))
      BY <2>2, <2>3, PromotedSquares DEF CastlingIsClear
    <3>2. ASSUME NEW k \in 0 .. 2 PROVE ~L!Attacked(t, At(4 + k * Way(x), HomeRow(foe)), foe)
      <4>1. HomeRow(foe) \in 0 .. 7 /\ 4 + k * Way(x) \in 0 .. 7
        BY <1>1, <3>2, HomeRows DEF Way
      <4>2. At(4 + k * Way(x), HomeRow(foe)) \in Square
        BY <4>1, AtSquare
      <4> QED
        BY <2>2, <4>2, PromotedCheck DEF CastlingIsClear
    <3> QED
      BY <3>1, <3>2 DEF CastlingIsClear
  <2> QED
    BY <1>1, <1>3, <2>1, <2>2, <2>5, <2>6, LawCastling
<1> QED
  BY <1>4, <1>5, <1>6 DEF L!Lawful

LEMMA PromotionFreesNobody ==
  ASSUME NEW t, NEW u, NEW c \in Color, NEW last, Promotes(t, u, last.to, c), NEW touched,
         L!HasLawfulMove(u, last, touched, Opposite(c))
  PROVE  L!HasLawfulMove(t, last, touched, Opposite(c))
<1>1. PICK from \in L!Pieces(u, Opposite(c)) : L!Lawful(u, last, touched, from) # {}
  BY DEF L!HasLawfulMove
<1>2. from \in Square /\ u[from].col = Opposite(c) /\ ~L!Free(u, from)
  BY SameSquares DEF L!Pieces
<1>3. t[from].col = Opposite(c) /\ ~L!Free(t, from)
  BY <1>2, PromotedSquares
<1>4. from \in L!Pieces(t, Opposite(c))
  BY <1>2, <1>3, SameSquares DEF L!Pieces
<1>5. L!Lawful(t, last, touched, from) # {}
  BY <1>1, <1>2, <1>3, PromotedMoves
<1> QED
  BY <1>4, <1>5 DEF L!HasLawfulMove

LEMMA TheEndIsTold == FlagInv => FlagTellsTheEnd
<1> SUFFICES ASSUME FlagInv, Followed, history.fresh, ~HasEnPassant
             PROVE  IF Promoting
                    THEN \A type \in PromotionChoice :
                           /\ flag \in {"CHECK_MATE", "STALE_MATE"} => Stuck(Promoted(type))
                           /\ flag = "CHECK_MATE" => L!InCheck(Promoted(type), team)
                    ELSE /\ flag = "CHECK_MATE" <=> Stuck(board.tiles) /\ L!InCheck(board.tiles, team)
                         /\ flag = "STALE_MATE" <=> Stuck(board.tiles) /\ ~L!InCheck(board.tiles, team)
  BY DEF FlagTellsTheEnd
<1>1. HasAnyMoves(board, team) <=> ~Stuck(board.tiles)
  BY MovesAreFound DEF FlagInv
<1>2. /\ team \in Color /\ board.tiles \in Tiles /\ board.kingPos[team] \in Square
      /\ L!Kings(board.tiles, team) = {board.kingPos[team]} /\ history.last.to \in Square
  BY DEF FlagInv, CastlingInv, GameInv, TypeOK, BoardObject, SoundBoard, KingsKept, History
<1>3. IsKingAttacked(board.tiles, board.kingPos[team], team) <=> L!InCheck(board.tiles, team)
  BY <1>2, AttacksAreLawful DEF L!InCheck
<1>4. /\ flag = "CHECK_MATE" <=> Stuck(board.tiles) /\ L!InCheck(board.tiles, team)
      /\ flag = "STALE_MATE" <=> Stuck(board.tiles) /\ ~L!InCheck(board.tiles, team)
  BY <1>1, <1>3 DEF FlagInv
<1>5. ASSUME Promoting, NEW type \in PromotionChoice
      PROVE  /\ Stuck(board.tiles) => Stuck(Promoted(type))
             /\ L!InCheck(board.tiles, team) => L!InCheck(Promoted(type), team)
  <2> DEFINE c == Opposite(team)
  <2>1. c \in Color /\ Opposite(c) = team
    BY <1>2, OppositeColor
  <2>2. type \in {"ROOK", "KNIGHT", "BISHOP", "QUEEN"} /\ type \in PieceType
    BY <1>5, OpeningsAssumption DEF PieceType
  <2>3. Promoted(type) \in Tiles
    BY <1>2, <2>2 DEF Promoted, Tiles, Piece
  <2>4. /\ Promoted(type)[history.last.to].type = type
        /\ Promoted(type)[history.last.to].col = board.tiles[history.last.to].col
        /\ \A s \in Square \ {history.last.to} : Promoted(type)[s] = board.tiles[s]
    BY <1>2 DEF Promoted, Tiles, Piece
  <2>5. board.tiles[history.last.to].col = c
    BY <1>5 DEF Promoting, Is
  <2> HIDE DEF c
  <2>6. Promotes(board.tiles, Promoted(type), history.last.to, c)
    BY <1>2, <1>5, <2>2, <2>3, <2>4, <2>5 DEF Promotes, Promoting, c
  <2>7. Stuck(board.tiles) => Stuck(Promoted(type))
    BY <2>1, <2>6, PromotionFreesNobody DEF Stuck
  <2>8. L!InCheck(board.tiles, team) => L!InCheck(Promoted(type), team)
    BY <2>1, <2>6, PromotedCheck
  <2> QED
    BY <2>7, <2>8
<1> QED
  BY <1>4, <1>5

(* The flag that is sent with a move tells checkmate and stalemate by the   *)
(* laws of chess, whatever the flags of castling say, unless a capture en   *)
(* passant is at hand.  A flag that stands where a promotion was due ends a *)
(* game in which the other team has no move whatever the pawn becomes, and  *)
(* a checkmate is one whatever it becomes (Board::hasAnyMoves, commitMove). *)
THEOREM TheEndIsRight == Spec => []FlagTellsTheEnd
BY FlagIsSound, TheEndIsTold, PTL

-----------------------------------------------------------------------------
(* Captures and the score.  The points of a weight w are counted one by    *)
(* one, so that changing the weight of a square changes their number by as *)
(* much.                                                                   *)
Weight == [Square -> 0 .. 9]

Points(w) == {p \in Square \X (1 .. 9) : p[2] <= w[p[1]]}

LEMMA IntervalsAreFinite ==
  ASSUME NEW n \in Nat
  PROVE  IsFiniteSet(1 .. n) /\ Cardinality(1 .. n) = n
<1>1. 1 \in Int /\ n \in Int /\ (IF 1 > n THEN 0 ELSE n - 1 + 1) = n
  OBVIOUS
<1>2. IsFiniteSet(1 .. n) /\ Cardinality(1 .. n) = (IF 1 > n THEN 0 ELSE n - 1 + 1)
  BY <1>1, FS_Interval, Zenon
<1> QED
  BY <1>1, <1>2

LEMMA SquaresAreFinite == IsFiniteSet(Square)
<1> DEFINE pairs == (1 .. 8) \X (1 .. 8)
           f     == [p \in pairs |-> At(p[1] - 1, p[2] - 1)]
<1>1. IsFiniteSet(pairs)
  <2>1. IsFiniteSet(1 .. 8)
    BY IntervalsAreFinite
  <2> QED
    BY <2>1, FS_Product
<1>2. f \in Surjection(pairs, Square)
  <2>1. f \in [pairs -> Square]
    BY AtSquare
  <2>2. ASSUME NEW s \in Square PROVE \E p \in pairs : f[p] = s
    <3>1. <<s.x + 1, s.y + 1>> \in pairs /\ s = At((s.x + 1) - 1, (s.y + 1) - 1)
      BY SquareCoordinates DEF Square
    <3>2. f[<<s.x + 1, s.y + 1>>] = At((s.x + 1) - 1, (s.y + 1) - 1)
      BY <3>1
    <3> QED
      BY <3>1, <3>2
  <2> HIDE DEF f, pairs
  <2> QED
    BY <2>1, <2>2 DEF Surjection
<1> HIDE DEF f, pairs
<1> QED
  BY <1>1, <1>2, FS_Surjection

LEMMA PointsAreFinite == \A w : IsFiniteSet(Points(w)) /\ Cardinality(Points(w)) \in Nat
<1>1. IsFiniteSet(Square \X (1 .. 9))
  <2>1. IsFiniteSet(1 .. 9)
    BY IntervalsAreFinite
  <2> QED
    BY <2>1, SquaresAreFinite, FS_Product
<1> SUFFICES ASSUME NEW w PROVE IsFiniteSet(Points(w)) /\ Cardinality(Points(w)) \in Nat
  OBVIOUS
<1>2. Points(w) \in SUBSET (Square \X (1 .. 9))
  BY DEF Points
<1> QED
  BY <1>1, <1>2, FS_Subset, FS_CardinalityType

Cleared(w, a) == [w EXCEPT ![a] = 0]

LEMMA PointsOfSquare ==
  ASSUME NEW w \in Weight, NEW a \in Square
  PROVE  Cardinality(Points(w)) = Cardinality(Points(Cleared(w, a))) + w[a]
<1> DEFINE here == {a} \X (1 .. w[a])
<1>1. w[a] \in 0 .. 9
  BY DEF Weight
<1>2. Cardinality(here) = w[a]
  <2>1. IsFiniteSet({a}) /\ Cardinality({a}) = 1
    BY FS_Singleton
  <2>2. IsFiniteSet(1 .. w[a]) /\ Cardinality(1 .. w[a]) = w[a]
    BY <1>1, IntervalsAreFinite
  <2>3. Cardinality(here) = Cardinality({a}) * Cardinality(1 .. w[a])
    BY <2>1, <2>2, FS_Product, Zenon
  <2> HIDE DEF here
  <2> QED
    BY <1>1, <2>1, <2>2, <2>3
<1>3. \A p : p \in here <=> p \in Points(w) /\ p[1] = a
  BY <1>1 DEF Points
<1>4. \A p : p \in Points(Cleared(w, a)) <=> p \in Points(w) /\ p[1] # a
  BY DEF Points, Cleared, Weight
<1> HIDE DEF here
<1>5. Points(w) \cap here = here
  BY <1>3
<1>6. Points(w) \ here = Points(Cleared(w, a))
  BY <1>3, <1>4
<1>7. Cardinality(Points(Cleared(w, a))) = Cardinality(Points(w)) - Cardinality(here)
  <2>1. Cardinality(Points(w) \ here) = Cardinality(Points(w)) - Cardinality(Points(w) \cap here)
    BY PointsAreFinite, FS_Difference
  <2> QED
    BY <1>5, <1>6, <2>1, Zenon
<1>8. Cardinality(Points(w)) \in Nat /\ Cardinality(Points(Cleared(w, a))) \in Nat
  BY PointsAreFinite
<1> QED
  BY <1>1, <1>2, <1>7, <1>8

LEMMA PointsOfTwoSquares ==
  ASSUME NEW v \in Weight, NEW w \in Weight, NEW a \in Square, NEW b \in Square, a # b,
         \A s \in Square \ {a, b} : v[s] = w[s]
  PROVE  Cardinality(Points(v)) - v[a] - v[b] = Cardinality(Points(w)) - w[a] - w[b]
<1>1. Cleared(Cleared(v, a), b) = Cleared(Cleared(w, a), b)
  BY DEF Cleared, Weight
<1>2. ASSUME NEW u \in Weight
      PROVE  Cardinality(Points(u)) = Cardinality(Points(Cleared(Cleared(u, a), b))) + u[a] + u[b]
  <2>1. Cleared(u, a) \in Weight /\ Cleared(u, a)[b] = u[b] /\ u[a] \in Int /\ u[b] \in Int
    BY DEF Cleared, Weight
  <2>2. /\ Cardinality(Points(u)) = Cardinality(Points(Cleared(u, a))) + u[a]
        /\ Cardinality(Points(Cleared(u, a)))
             = Cardinality(Points(Cleared(Cleared(u, a), b))) + u[b]
    BY <2>1, PointsOfSquare
  <2>3. Cardinality(Points(Cleared(Cleared(u, a), b))) \in Nat
    BY PointsAreFinite
  <2> QED
    BY <2>1, <2>2, <2>3
<1>3. v[a] \in Int /\ v[b] \in Int /\ w[a] \in Int /\ w[b] \in Int
  BY DEF Weight
<1> DEFINE rest == Cardinality(Points(Cleared(Cleared(v, a), b)))
<1>4. rest \in Nat
  BY PointsAreFinite
<1>5. Cardinality(Points(v)) = rest + v[a] + v[b] /\ Cardinality(Points(w)) = rest + w[a] + w[b]
  BY <1>1, <1>2
<1> HIDE DEF rest
<1> QED
  BY <1>3, <1>4, <1>5

(* A price list says how much a piece counts, an empty square not at all. *)
Price == {g \in [Piece -> 0 .. 9] : \A p \in Piece : p.type = "NONE" => g[p] = 0}

Total(t, g) == Cardinality(Points([s \in Square |-> g[t[s]]]))

LEMMA TotalOnTwoSquares ==
  ASSUME NEW t \in Tiles, NEW u \in Tiles, NEW g \in Price,
         NEW a \in Square, NEW b \in Square, a # b, \A s \in Square \ {a, b} : t[s] = u[s]
  PROVE  /\ Total(t, g) \in Nat /\ Total(u, g) \in Nat
         /\ Total(u, g) - Total(t, g) = (g[u[a]] + g[u[b]]) - (g[t[a]] + g[t[b]])
<1> DEFINE v == [s \in Square |-> g[t[s]]]
           w == [s \in Square |-> g[u[s]]]
<1>1. v \in Weight /\ w \in Weight
  BY DEF Weight, Tiles, Price
<1>2. \A s \in Square \ {a, b} : v[s] = w[s]
  OBVIOUS
<1>3. v[a] = g[t[a]] /\ v[b] = g[t[b]] /\ w[a] = g[u[a]] /\ w[b] = g[u[b]]
  OBVIOUS
<1>4. Total(t, g) = Cardinality(Points(v)) /\ Total(u, g) = Cardinality(Points(w))
  BY DEF Total
<1> HIDE DEF v, w
<1>5. Cardinality(Points(v)) - v[a] - v[b] = Cardinality(Points(w)) - w[a] - w[b]
  BY <1>1, <1>2, PointsOfTwoSquares
<1>6. v[a] \in Int /\ v[b] \in Int /\ w[a] \in Int /\ w[b] \in Int
  BY <1>1 DEF Weight
<1>7. Total(t, g) \in Nat /\ Total(u, g) \in Nat
  BY <1>4, PointsAreFinite
<1>8. Total(t, g) - v[a] - v[b] = Total(u, g) - w[a] - w[b]
  BY <1>4, <1>5
<1>9. Total(u, g) - Total(t, g) = (w[a] + w[b]) - (v[a] + v[b])
  BY <1>6, <1>7, <1>8
<1> QED
  BY <1>3, <1>7, <1>9

(* A move takes what stood where it goes, or the pawn it passes: whatever  *)
(* the pieces count, a castling does not change their total.               *)
LEMMA TotalAfterMove ==
  ASSUME NEW b, NEW own \in Color, NEW last, SoundBoard(b, Opposite(own), last),
         NEW from \in Owned(b.tiles, own), NEW to \in CandidateMoves(b, from, own),
         NEW g \in Price
  PROVE  /\ Total(b.tiles, g) \in Nat
         /\ Total(TilesAfter(b, from, to, own), g) =
              Total(b.tiles, g) - g[b.tiles[to]]
                - (IF CapturesPassed(b, from, to)
                   THEN g[[type |-> "PAWN", col |-> Opposite(own)]] ELSE 0)
<1> DEFINE t    == b.tiles
           m    == Moved(t, from, to)
           next == TilesAfter(b, from, to, own)
           pawn == [type |-> "PAWN", col |-> Opposite(own)]
<1>1. from \in Square /\ to \in Square /\ from # to /\ t \in Tiles
  BY SoundTarget DEF SoundBoard, BoardObject
<1>2. \A u \in Tiles : \A s \in Square : u[s] \in Piece /\ g[u[s]] \in Int
  BY DEF Tiles, Price
<1>3. \A p \in Piece : p.type = "NONE" => g[p] = 0
  BY DEF Price
<1>4. /\ m \in Tiles /\ m[from] = NoPiece /\ m[to] = t[from]
      /\ \A s \in Square \ {from, to} : m[s] = t[s]
  BY <1>1, MovedTiles
<1>5. g[m[from]] = 0
  BY <1>1, <1>2, <1>3, <1>4 DEF NoPiece
<1> HIDE DEF m, next
<1>6. Total(t, g) \in Nat /\ Total(m, g) \in Nat /\ Total(m, g) = Total(t, g) - g[t[to]]
  <2>1. /\ Total(t, g) \in Nat /\ Total(m, g) \in Nat
        /\ Total(m, g) - Total(t, g) = (g[m[from]] + g[m[to]]) - (g[t[from]] + g[t[to]])
    BY <1>1, <1>4, TotalOnTwoSquares
  <2>2. g[m[to]] = g[t[from]] /\ g[t[from]] \in Int /\ g[t[to]] \in Int
    BY <1>1, <1>2, <1>4
  <2> HIDE DEF t
  <2> QED
    BY <1>5, <2>1, <2>2
<1>7. CASE t[from].type = "KING" /\ b.kingPos[own].x - to.x \in {2, -2}
  <2>1. t[from].type = "KING" /\ from.x - to.x \in {2, -2}
    BY <1>7, KingCastles
  <2>2. RookComesOver(b, own, from, to, next)
    BY <2>1, CastledTiles DEF next
  <2>3. PICK old \in Square, new \in Square :
           /\ old # from /\ old # to /\ new # to /\ new # from /\ old # new
           /\ next \in Tiles
           /\ next[old] = t[new] /\ next[new] = t[old]
           /\ \A s \in Square \ {old, new} : next[s] = m[s]
    BY <2>2 DEF RookComesOver, m
  <2>4. Total(next, g) - Total(m, g) = (g[next[old]] + g[next[new]]) - (g[m[old]] + g[m[new]])
        /\ Total(next, g) \in Nat
    BY <1>4, <2>3, TotalOnTwoSquares
  <2>5. g[next[old]] = g[m[new]] /\ g[next[new]] = g[m[old]]
        /\ g[m[old]] \in Int /\ g[m[new]] \in Int
    BY <1>2, <1>4, <2>3
  <2>6. Total(next, g) = Total(m, g)
    BY <1>6, <2>4, <2>5
  <2>7. ~CapturesPassed(b, from, to)
    BY <1>7 DEF CapturesPassed
  <2>8. g[t[to]] \in Int
    BY <1>1, <1>2
  <2> HIDE DEF t
  <2> QED
    BY <1>6, <2>6, <2>7, <2>8 DEF t, next
<1>8. CASE CapturesPassed(b, from, to)
  <2>1. /\ last.to \in Square /\ last.to # from /\ t[last.to] = pawn
        /\ m[last.to] = t[last.to] /\ next \in Tiles /\ next[last.to].type = "NONE"
        /\ \A s \in Square \ {last.to} : next[s] = m[s]
    BY <1>8, PassedTiles DEF m, next
  <2>2. Total(next, g) - Total(m, g) = (g[next[last.to]] + g[next[from]]) - (g[m[last.to]] + g[m[from]])
        /\ Total(next, g) \in Nat
    BY <1>1, <1>4, <2>1, TotalOnTwoSquares
  <2>3. g[next[last.to]] = 0 /\ g[next[from]] = g[m[from]] /\ g[m[last.to]] = g[pawn]
        /\ g[pawn] \in Int /\ g[t[to]] \in Int
    BY <1>1, <1>2, <1>3, <2>1
  <2> HIDE DEF t, pawn
  <2>4. Total(next, g) = Total(t, g) - g[t[to]] - g[pawn]
    BY <1>5, <1>6, <2>2, <2>3
  <2> QED
    BY <1>6, <1>8, <2>4 DEF t, next, pawn
<1>9. CASE /\ ~(t[from].type = "KING" /\ b.kingPos[own].x - to.x \in {2, -2})
           /\ ~CapturesPassed(b, from, to)
  <2>1. next = m
    BY <1>9, OtherTiles DEF m, next
  <2>2. g[t[to]] \in Int
    BY <1>1, <1>2
  <2> HIDE DEF t
  <2> QED
    BY <1>6, <1>9, <2>1, <2>2 DEF t, next
<1> QED
  BY <1>7, <1>8, <1>9

(* The price list of the score, and the one that counts the most a piece   *)
(* can ever bring, whatever it is promoted to.                             *)
Worths(c) == [p \in Piece |-> IF p.col = c THEN Worth(p.type) ELSE 0]
Queens(c) == [p \in Piece |-> IF p.col = c /\ p.type # "NONE" THEN 9 ELSE 0]

LEMMA PricesOfPieces ==
  ASSUME NEW c
  PROVE  /\ Worths(c) \in Price /\ Queens(c) \in Price
         /\ \A p \in Piece : /\ Worths(c)[p] = IF p.col = c THEN Worth(p.type) ELSE 0
                             /\ Queens(c)[p] = IF p.col = c /\ p.type # "NONE" THEN 9 ELSE 0
<1>1. Worth("NONE") = 0
  BY DEF Worth
<1>2. /\ \A p \in Piece : Worths(c)[p] = IF p.col = c THEN Worth(p.type) ELSE 0
      /\ \A p \in Piece : Queens(c)[p] = IF p.col = c /\ p.type # "NONE" THEN 9 ELSE 0
  BY DEF Worths, Queens
<1>3. Worths(c) \in [Piece -> 0 .. 9] /\ Queens(c) \in [Piece -> 0 .. 9]
  BY WorthFits DEF Worths, Queens
<1> QED
  BY <1>1, <1>2, <1>3 DEF Price

LEMMA MaterialIsTotal ==
  ASSUME NEW t \in Tiles, NEW c
  PROVE  Material(t, c) = Total(t, Worths(c))
<1> DEFINE w     == [s \in Square |-> Worths(c)[t[s]]]
           units == UNION {{s} \X (1 .. Worth(t[s].type)) : s \in Owned(t, c)}
<1>1. Worth("NONE") = 0
  BY DEF Worth
<1>2. ASSUME NEW s \in Square
      PROVE  w[s] = IF s \in Owned(t, c) THEN Worth(t[s].type) ELSE 0
  <2>1. t[s] \in Piece
    BY DEF Tiles
  <2> QED
    BY <1>1, <2>1, PricesOfPieces DEF Owned, Empty
<1>3. ASSUME NEW p PROVE p \in units <=> p \in Points(w)
  <2>1. p \in units <=> \E s \in Owned(t, c) : p \in {s} \X (1 .. Worth(t[s].type))
    OBVIOUS
  <2>2. p \in units <=> \E s \in Owned(t, c) : \E k \in 1 .. Worth(t[s].type) : p = <<s, k>>
    BY <2>1
  <2>3. ASSUME NEW s \in Square, NEW k \in 1 .. 9, p = <<s, k>>
        PROVE  p \in Points(w) <=> s \in Owned(t, c) /\ k \in 1 .. Worth(t[s].type)
    <3>1. p \in Points(w) <=> k <= w[s]
      BY <2>3 DEF Points
    <3> QED
      BY <3>1, <2>3, <1>2, WorthFits
  <2>4. \A s : 1 .. Worth(t[s].type) \subseteq 1 .. 9 /\ Owned(t, c) \subseteq Square
    BY WorthFits DEF Owned
  <2>5. p \in Points(w) => \E s \in Square, k \in 1 .. 9 : p = <<s, k>>
    BY DEF Points
  <2> HIDE DEF units, w
  <2> QED
    BY <2>2, <2>3, <2>4, <2>5
<1>4. units = Points(w)
  BY <1>3
<1> QED
  BY <1>4 DEF Material, Total

LEMMA OwnedAsQueens ==
  ASSUME NEW t \in Tiles, NEW c
  PROVE  /\ Cardinality(Owned(t, c)) \in Nat
         /\ Total(t, Queens(c)) = Cardinality(Owned(t, c)) * 9
<1> DEFINE w == [s \in Square |-> Queens(c)[t[s]]]
<1>1. IsFiniteSet(Owned(t, c)) /\ Cardinality(Owned(t, c)) \in Nat
  <2>1. Owned(t, c) \in SUBSET Square
    BY DEF Owned
  <2> QED
    BY <2>1, SquaresAreFinite, FS_Subset, FS_CardinalityType
<1>2. Cardinality(Owned(t, c) \X (1 .. 9)) = Cardinality(Owned(t, c)) * Cardinality(1 .. 9)
      /\ Cardinality(1 .. 9) = 9
  <2>1. IsFiniteSet(1 .. 9) /\ Cardinality(1 .. 9) = 9
    BY IntervalsAreFinite
  <2> QED
    BY <1>1, <2>1, FS_Product, Zenon
<1>3. ASSUME NEW s \in Square PROVE w[s] = IF s \in Owned(t, c) THEN 9 ELSE 0
  <2>1. t[s] \in Piece
    BY DEF Tiles
  <2> QED
    BY <2>1, PricesOfPieces DEF Owned, Empty
<1>4. Owned(t, c) \subseteq Square
  BY DEF Owned
<1> HIDE DEF w
<1>5. Points(w) = Owned(t, c) \X (1 .. 9)
  <2>1. ASSUME NEW p \in Square \X (1 .. 9)
        PROVE  p[2] <= w[p[1]] <=> p[1] \in Owned(t, c)
    BY <1>3
  <2> QED
    BY <1>4, <2>1 DEF Points
<1>6. Total(t, Queens(c)) = Cardinality(Owned(t, c) \X (1 .. 9))
  BY <1>5 DEF Total, w
<1> QED
  BY <1>1, <1>2, <1>6

(* The pieces a team has left, each counted as a queen, keep the score of  *)
(* the other team from wrapping around.                                    *)
ScoresFit ==
  \A c \in Color : score[c] + Total(board.tiles, Queens(Opposite(c))) <= 144

ScoreInv == GameInv /\ (Followed => ScoresFit)

LEMMA InitScore == Init => ScoreInv
<1> SUFFICES ASSUME Init PROVE ScoreInv
  OBVIOUS
<1>1. PICK o \in Openings : board = o.board /\ score = [c \in Color |-> 0]
  BY DEF Init
<1>2. board.tiles \in Tiles /\ \A c \in Color : Cardinality(Owned(board.tiles, c)) <= 16
  BY <1>1, OpeningsAssumption DEF BoardObject
<1>3. ASSUME NEW c \in Color
      PROVE  score[c] + Total(board.tiles, Queens(Opposite(c))) <= 144
  <2>1. Opposite(c) \in Color /\ score[c] = 0
    BY <1>1, OppositeColor
  <2>2. Cardinality(Owned(board.tiles, Opposite(c))) <= 16
    BY <1>2, <2>1
  <2> QED
    BY <1>2, <2>1, <2>2, OwnedAsQueens
<1> QED
  BY <1>3, InitGame DEF ScoreInv, ScoresFit

(* What a move scores, and what it takes. *)
LEMMA MoveScores ==
  ASSUME ScoreInv, NEW from \in Owned(board.tiles, team), NEW to \in Offered(from),
         Move(from, to)
  PROVE  LET foe    == Opposite(team)
             worth  == Worth(board.tiles[to].type)
             passed == IF CapturesPassed(board, from, to) THEN 1 ELSE 0
         IN /\ worth \in 0 .. 9
            /\ score' = [score EXCEPT ![team] = @ + worth]
            /\ Material(board.tiles, foe) \in Nat
            /\ Material(board'.tiles, team) = Material(board.tiles, team)
            /\ Material(board'.tiles, foe) = Material(board.tiles, foe) - worth - passed
            /\ \A c \in Color : Total(board'.tiles, Queens(c)) <= Total(board.tiles, Queens(c))
            /\ Total(board'.tiles, Queens(foe)) <= Total(board.tiles, Queens(foe)) - worth
<1> DEFINE foe    == Opposite(team)
           worth  == Worth(board.tiles[to].type)
           passed == IF CapturesPassed(board, from, to) THEN 1 ELSE 0
           pawn   == [type |-> "PAWN", col |-> foe]
           t      == board.tiles
           next   == TilesAfter(board, from, to, team)
<1>1. /\ team \in Color /\ foe \in Color /\ foe # team /\ board \in BoardObject
      /\ t \in Tiles /\ score \in [Color -> UInt8]
      /\ SoundBoard(board, foe, history.last)
      /\ ScoresFit
  BY OppositeColor DEF ScoreInv, GameInv, TypeOK, Move, BoardObject
<1>2. to \in CandidateMoves(board, from, team)
  BY DEF Offered, LegalMoves
<1>3. /\ to \in Square /\ from \in Square
      /\ Empty(t, to) \/ t[to].col = foe
  <2>1. team \in Color /\ SoundBoard(board, Opposite(team), history.last)
    BY <1>1
  <2> QED
    BY <1>2, <2>1, SoundTarget
<1>4. board'.tiles = next /\ next \in Tiles
  <2>1. board' = BoardAfter(board, from, to, team)
    BY DEF Move, CommitMove
  <2>2. board' \in BoardObject
    BY <1>1, <1>3, <2>1, BoardAfterType
  <2> QED
    BY <2>1, <2>2 DEF BoardAfter, BoardObject
<1>5. \A g \in Price :
        /\ Total(t, g) \in Nat
        /\ Total(next, g) = Total(t, g) - g[t[to]] - (IF CapturesPassed(board, from, to) THEN g[pawn] ELSE 0)
  BY <1>1, <1>2, TotalAfterMove
<1>6. worth \in 0 .. 9 /\ (Empty(t, to) => worth = 0)
  BY WorthFits DEF Empty, Worth
<1>7. t[to] \in Piece /\ pawn \in Piece
  BY <1>1, <1>3 DEF Tiles, Piece, PieceType
<1> HIDE DEF next, foe, worth, pawn
<1>8. ASSUME NEW c \in Color
      PROVE  /\ Worths(c)[t[to]] = IF c = foe THEN worth ELSE 0
             /\ Worths(c)[pawn] = IF c = foe THEN 1 ELSE 0
             /\ Queens(c)[t[to]] \in 0 .. 9 /\ Queens(c)[pawn] \in 0 .. 9
             /\ Queens(foe)[t[to]] >= worth
  <2>1. Worth("PAWN") = 1 /\ pawn.type = "PAWN" /\ pawn.col = foe
    BY DEF Worth, pawn
  <2>2. /\ Worths(c)[t[to]] = IF t[to].col = c THEN worth ELSE 0
        /\ Worths(c)[pawn] = IF pawn.col = c THEN Worth(pawn.type) ELSE 0
    BY <1>7, PricesOfPieces DEF worth
  <2>3. /\ Queens(c)[t[to]] \in 0 .. 9 /\ Queens(c)[pawn] \in 0 .. 9
        /\ Queens(foe)[t[to]] = IF t[to].col = foe /\ t[to].type # "NONE" THEN 9 ELSE 0
    BY <1>7, PricesOfPieces
  <2> QED
    BY <1>3, <1>6, <2>1, <2>2, <2>3 DEF Empty
<1>9. \A c \in Color : Worths(c) \in Price /\ Queens(c) \in Price
  BY PricesOfPieces
<1>10. ASSUME NEW c \in Color
       PROVE  /\ Material(t, c) \in Nat
              /\ Material(next, c) = Material(t, c) - (IF c = foe THEN worth + passed ELSE 0)
  <2>1. Material(t, c) = Total(t, Worths(c)) /\ Material(next, c) = Total(next, Worths(c))
    BY <1>1, <1>4, MaterialIsTotal
  <2>2. /\ Total(t, Worths(c)) \in Nat
        /\ Total(next, Worths(c)) = Total(t, Worths(c)) - Worths(c)[t[to]]
             - (IF CapturesPassed(board, from, to) THEN Worths(c)[pawn] ELSE 0)
    BY <1>5, <1>9
  <2> HIDE DEF t
  <2> QED
    BY <1>6, <1>8, <2>1, <2>2
<1>11. ASSUME NEW c \in Color
       PROVE  /\ Total(t, Queens(c)) \in Nat
              /\ Total(next, Queens(c)) <= Total(t, Queens(c)) - Queens(c)[t[to]]
              /\ Total(next, Queens(c)) \in Int
  <2>1. /\ Total(t, Queens(c)) \in Nat
        /\ Total(next, Queens(c)) = Total(t, Queens(c)) - Queens(c)[t[to]]
             - (IF CapturesPassed(board, from, to) THEN Queens(c)[pawn] ELSE 0)
    BY <1>5, <1>9
  <2> HIDE DEF t
  <2> QED
    BY <1>8, <2>1
<1>12. score' = [score EXCEPT ![team] = @ + worth]
  <2>1. score' = [score EXCEPT ![team] = (score[team] + worth) % 256]
    BY DEF Move, CommitMove, worth
  <2>2. score[team] + Total(t, Queens(foe)) <= 144
    BY <1>1 DEF ScoresFit, foe
  <2>3. score[team] \in Nat /\ Total(t, Queens(foe)) \in Nat
    BY <1>1, <1>11 DEF UInt8
  <2> HIDE DEF t
  <2>4. score[team] + worth \in 0 .. 255
    BY <1>6, <2>2, <2>3
  <2>5. (score[team] + worth) % 256 = score[team] + worth
    BY <2>4
  <2> QED
    BY <2>1, <2>5
<1>13. Total(next, Queens(foe)) <= Total(t, Queens(foe)) - worth
  <2>1. /\ Total(t, Queens(foe)) \in Nat /\ Total(next, Queens(foe)) \in Int
        /\ Total(next, Queens(foe)) <= Total(t, Queens(foe)) - Queens(foe)[t[to]]
        /\ Queens(foe)[t[to]] \in 0 .. 9 /\ Queens(foe)[t[to]] >= worth
    BY <1>1, <1>8, <1>11
  <2> HIDE DEF t
  <2> QED
    BY <1>6, <2>1
<1>14. \A c \in Color : Total(next, Queens(c)) <= Total(t, Queens(c))
  <2> SUFFICES ASSUME NEW c \in Color PROVE Total(next, Queens(c)) <= Total(t, Queens(c))
    BY Zenon
  <2>1. /\ Total(t, Queens(c)) \in Nat /\ Total(next, Queens(c)) \in Int
        /\ Total(next, Queens(c)) <= Total(t, Queens(c)) - Queens(c)[t[to]]
        /\ Queens(c)[t[to]] \in 0 .. 9
    BY <1>8, <1>11
  <2> HIDE DEF t
  <2> QED
    BY <2>1
<1>15. /\ Material(next, team) = Material(t, team) /\ Material(t, foe) \in Nat
       /\ Material(next, foe) = Material(t, foe) - worth - passed
  <2>1. passed \in {0, 1}
    OBVIOUS
  <2> HIDE DEF t, passed
  <2> QED
    BY <1>1, <1>6, <1>10, <2>1
<1> HIDE DEF t, passed
<1>16. /\ worth \in 0 .. 9
       /\ score' = [score EXCEPT ![team] = @ + worth]
       /\ Material(t, foe) \in Nat
       /\ Material(board'.tiles, team) = Material(t, team)
       /\ Material(board'.tiles, foe) = Material(t, foe) - worth - passed
       /\ \A c \in Color : Total(board'.tiles, Queens(c)) <= Total(t, Queens(c))
       /\ Total(board'.tiles, Queens(foe)) <= Total(t, Queens(foe)) - worth
  BY <1>4, <1>6, <1>12, <1>13, <1>14, <1>15
<1> QED
  BY <1>16 DEF t, foe, worth, passed

LEMMA MoveScore ==
  ASSUME ScoreInv, NEW from \in Owned(board.tiles, team), NEW to \in Offered(from),
         Move(from, to)
  PROVE  ScoreInv'
<1> DEFINE foe   == Opposite(team)
           worth == Worth(board.tiles[to].type)
           all   == [c \in Color |-> Total(board.tiles, Queens(c))]
           left  == [c \in Color |-> Total(board'.tiles, Queens(c))]
<1>1. /\ team \in Color /\ score \in [Color -> UInt8] /\ board.tiles \in Tiles /\ ScoresFit
      /\ GameInv
  BY DEF ScoreInv, GameInv, TypeOK, Move, BoardObject
<1>2. GameInv'
  BY <1>1, MoveGame
<1>3. /\ worth \in 0 .. 9 /\ score' = [score EXCEPT ![team] = @ + worth]
      /\ \A c \in Color : left[c] <= all[c]
      /\ left[foe] <= all[foe] - worth
  BY <1>1, OppositeColor, MoveScores
<1>4. \A c \in Color : all[c] \in Nat /\ left[c] \in Nat
  BY PointsAreFinite DEF Total
<1>5. \A c \in Color : score[c] + all[Opposite(c)] <= 144
  BY <1>1, OppositeColor, Zenon DEF ScoresFit
<1> HIDE DEF worth, all, left
<1>6. ASSUME NEW c \in Color PROVE score'[c] + left[Opposite(c)] <= 144
  <2>1. score[c] \in Nat /\ Opposite(c) \in Color
    BY <1>1, OppositeColor DEF UInt8
  <2>2. score'[c] = IF c = team THEN score[c] + worth ELSE score[c]
    BY <1>1, <1>3
  <2> QED
    BY <1>3, <1>4, <1>5, <2>1, <2>2
<1>7. ScoresFit'
  BY <1>6, OppositeColor DEF ScoresFit, left
<1> QED
  BY <1>2, <1>7 DEF ScoreInv

LEMMA PromoteScore ==
  ASSUME ScoreInv, NEW pos \in owed, NEW type \in PromotionChoice, Promotion(pos, type)
  PROVE  ScoreInv'
<1> DEFINE t    == board.tiles
           next == [t EXCEPT ![pos].type = type]
<1>1. /\ board \in BoardObject /\ t \in Tiles /\ pos \in Square /\ ScoresFit /\ GameInv
      /\ board'.tiles = next /\ score' = score
  BY DEF ScoreInv, GameInv, TypeOK, Promotion, Promote, BoardObject
<1>2. GameInv'
  BY <1>1, PromoteGame
<1>3. ASSUME Followed' PROVE ScoresFit'
  <2>1. t[pos].type = "PAWN" /\ type # "NONE" /\ type \in PieceType
    BY <1>3, OpeningsAssumption DEF Promotion, Followed, PieceType
  <2>2. next \in Tiles
    BY <1>1, <2>1 DEF Tiles, Piece
  <2>3. ASSUME NEW c \in Color, NEW s \in Square
        PROVE  Queens(c)[next[s]] = Queens(c)[t[s]]
    <3>1. next[s] \in Piece /\ t[s] \in Piece
      BY <1>1, <2>2 DEF Tiles
    <3>2. next[s].col = t[s].col /\ (next[s].type = "NONE" <=> t[s].type = "NONE")
      BY <1>1, <2>1 DEF Tiles, Piece
    <3> HIDE DEF next, t
    <3> QED
      BY <3>1, <3>2, PricesOfPieces
  <2> HIDE DEF next, t
  <2>4. \A c \in Color : Total(next, Queens(c)) = Total(t, Queens(c))
    BY <2>3, Zenon DEF Total
  <2> QED
    BY <1>1, <2>4, OppositeColor DEF ScoresFit, t
<1> QED
  BY <1>2, <1>3 DEF ScoreInv

LEMMA ScoreIsSound == Spec => []ScoreInv
<1>1. ScoreInv /\ UNCHANGED vars => ScoreInv'
  BY StutterGame DEF ScoreInv, ScoresFit, Followed, vars
<1>2. ScoreInv /\ [Next]_vars => ScoreInv'
  BY <1>1, MoveScore, PromoteScore DEF Next
<1> QED
  BY InitScore, <1>2, PTL DEF Spec

(* What a move takes from the other team on the square it ends on is        *)
(* credited to the team that made it, a capture en passant takes one pawn,  *)
(* nothing is taken from the team itself, castling included, and no score   *)
(* ever wraps around its eight bits (Board::commitMove, Board.cpp:93,       *)
(* 152-162).  What a capture en passant scores is not stated: Board.h:19    *)
(* says the score of the pawn, the code says 0.                             *)
THEOREM CapturesAreCounted == Spec => CapturesAreScored
<1> DEFINE Credited ==
             team' # team =>
               LET m    == history'.last
                   foe  == Opposite(team)
                   lost == Material(board.tiles, foe) - Material(board'.tiles, foe)
               IN /\ Material(board'.tiles, team) = Material(board.tiles, team)
                  /\ IF IsEnPassant(board.tiles, m.from, m.to) THEN lost = 1
                     ELSE score'[team] - score[team] = lost
<1>1. ASSUME ScoreInv, NEW from \in Owned(board.tiles, team), NEW to \in Offered(from),
             Move(from, to)
      PROVE  Credited
  <2> DEFINE foe    == Opposite(team)
             worth  == Worth(board.tiles[to].type)
             before == Material(board.tiles, foe)
             after  == Material(board'.tiles, foe)
  <2>1. /\ team \in Color /\ score \in [Color -> UInt8]
        /\ SoundBoard(board, Opposite(team), history.last)
        /\ to \in CandidateMoves(board, from, team)
    BY <1>1 DEF ScoreInv, GameInv, TypeOK, Move, Offered, LegalMoves
  <2>2. IsEnPassant(board.tiles, from, to) <=> CapturesPassed(board, from, to)
    BY <2>1, OfferedEnPassant
  <2>3. history'.last.from = from /\ history'.last.to = to
    BY <1>1 DEF Move
  <2>4. /\ worth \in 0 .. 9 /\ score' = [score EXCEPT ![team] = @ + worth]
        /\ Material(board'.tiles, team) = Material(board.tiles, team)
        /\ before \in Nat
        /\ after = before - worth - (IF CapturesPassed(board, from, to) THEN 1 ELSE 0)
    BY <1>1, MoveScores
  <2> HIDE DEF worth, before, after
  <2>5. score'[team] - score[team] = worth
    BY <2>1, <2>4 DEF UInt8
  <2>6. IF IsEnPassant(board.tiles, from, to) THEN before - after = 1 ELSE worth = before - after
    <3>1. IsEnPassant(board.tiles, from, to) => worth = 0
      BY DEF IsEnPassant, Empty, worth, Worth
    <3> QED
      BY <2>2, <2>4, <3>1
  <2> QED
    BY <2>3, <2>4, <2>5, <2>6 DEF before, after
<1>2. ASSUME NEW pos \in owed, NEW type \in PromotionChoice, Promotion(pos, type)
      PROVE  Credited
  BY <1>2 DEF Promotion
<1>3. ScoreInv /\ [Next]_vars => [Credited]_vars
  BY <1>1, <1>2 DEF Next
<1> QED
  BY ScoreIsSound, <1>3, PTL DEF Spec, CapturesAreScored
=============================================================================
