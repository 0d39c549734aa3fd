--------------------------- MODULE SelectionProofs ---------------------------
(***************************************************************************)
(* Which square the sender of a client will remember when it reaches a     *)
(* position of its queue: lemmas about one queue of requests, used by      *)
(* ChessMatchProofs.                                                       *)
(***************************************************************************)
EXTENDS ChessMatch, SequenceTheorems, TLAPS

(* The requests that change m_cache.selectedPiece, and to what. *)
Selects(m) == m.req \in {"AvailableMovesReq", "MoveCommitReq"}

SelectedBy(m) == IF m.req = "AvailableMovesReq" THEN m.from ELSE m.to

(* A sender that remembers the square mem and has the queue q before it    *)
(* will remember s when it comes to q[i].                                  *)
Remembered(q, mem, i, s) ==
  \/ /\ mem = s
     /\ \A j \in 1 .. i - 1 : ~Selects(q[j])
  \/ \E j \in 1 .. i - 1 :
       /\ Selects(q[j])
       /\ SelectedBy(q[j]) = s
       /\ \A k \in j + 1 .. i - 1 : ~Selects(q[k])

(* What lies before a position does not depend on what comes after it. *)
LEMMA RememberedAppend ==
  ASSUME NEW q \in Seq(GuiMessage), NEW m \in GuiMessage, NEW mem, NEW s,
         NEW i \in 1 .. Len(q) + 1, Remembered(q, mem, i, s)
  PROVE  Remembered(Append(q, m), mem, i, s)
<1>1. /\ Len(q) \in Nat
      /\ \A j \in 1 .. Len(q) : Append(q, m)[j] = q[j]
  BY LenProperties, AppendProperties
<1>2. \A j \in 1 .. i - 1 : Append(q, m)[j] = q[j]
  BY <1>1
<1> QED
  BY <1>1, <1>2 DEF Remembered

(* A request that selects nothing leaves what is remembered as it was. *)
LEMMA RememberedSkip ==
  ASSUME NEW q \in Seq(GuiMessage), NEW m \in GuiMessage, NEW mem, NEW s,
         ~Selects(m), Remembered(q, mem, Len(q) + 1, s)
  PROVE  Remembered(Append(q, m), mem, Len(q) + 2, s)
<1> DEFINE r == Append(q, m)
           n == Len(q)
<1>1. /\ n \in Nat
      /\ \A j \in 1 .. n : r[j] = q[j]
      /\ r[n + 1] = m
  BY LenProperties, AppendProperties
<1> HIDE DEF r, n
<1>2. Remembered(q, mem, n + 1, s)
  BY DEF n
<1>3. CASE mem = s /\ \A j \in 1 .. n : ~Selects(q[j])
  <2>1. \A j \in 1 .. n + 1 : ~Selects(r[j])
    BY <1>1, <1>3
  <2> QED
    BY <1>1, <1>3, <2>1 DEF Remembered, r, n
<1>4. CASE \E j \in 1 .. n : /\ Selects(q[j])
                             /\ SelectedBy(q[j]) = s
                             /\ \A k \in j + 1 .. n : ~Selects(q[k])
  <2>1. PICK j \in 1 .. n : /\ Selects(q[j])
                            /\ SelectedBy(q[j]) = s
                            /\ \A k \in j + 1 .. n : ~Selects(q[k])
    BY <1>4
  <2>2. \A k \in j + 1 .. n + 1 : ~Selects(r[k])
    BY <1>1, <2>1
  <2>3. r[j] = q[j] /\ j \in 1 .. n + 1
    BY <1>1, <2>1
  <2>4. Remembered(r, mem, n + 2, s)
    BY <1>1, <2>1, <2>2, <2>3 DEF Remembered
  <2> QED
    BY <2>4 DEF r, n
<1> QED
  BY <1>1, <1>2, <1>3, <1>4 DEF Remembered

(* After a request that selects a square, that square is remembered. *)
LEMMA RememberedSelect ==
  ASSUME NEW q \in Seq(GuiMessage), NEW m \in GuiMessage, NEW mem, Selects(m)
  PROVE  Remembered(Append(q, m), mem, Len(q) + 2, SelectedBy(m))
<1>1. Len(q) \in Nat /\ Append(q, m)[Len(q) + 1] = m
  BY LenProperties, AppendProperties
<1> QED
  BY <1>1 DEF Remembered

(* Once the head of the queue is sent, the rest remembers the same. *)
LEMMA RememberedTail ==
  ASSUME NEW q \in Seq(GuiMessage), q # <<>>, NEW mem, NEW s,
         NEW i \in 2 .. Len(q) + 1, Remembered(q, mem, i, s)
  PROVE  Remembered(Tail(q), IF Selects(Head(q)) THEN SelectedBy(Head(q)) ELSE mem, i - 1, s)
<1> DEFINE t   == Tail(q)
           new == IF Selects(Head(q)) THEN SelectedBy(Head(q)) ELSE mem
<1>1. /\ Len(q) \in Nat \ {0}
      /\ Len(t) = Len(q) - 1
      /\ \A j \in 1 .. Len(q) - 1 : t[j] = q[j + 1]
      /\ Head(q) = q[1]
  BY EmptySeq, HeadTailProperties
<1> HIDE DEF t
<1>2. CASE mem = s /\ \A j \in 1 .. i - 1 : ~Selects(q[j])
  <2>1. \A j \in 1 .. i - 2 : ~Selects(t[j])
    BY <1>1, <1>2
  <2>2. new = s
    BY <1>1, <1>2
  <2> QED
    BY <1>1, <2>1, <2>2 DEF Remembered, t
<1>3. ASSUME NEW j \in 1 .. i - 1, Selects(q[j]), SelectedBy(q[j]) = s,
             \A k \in j + 1 .. i - 1 : ~Selects(q[k])
      PROVE  Remembered(t, new, i - 1, s)
  <2>1. \A k \in j .. i - 2 : ~Selects(t[k])
    BY <1>1, <1>3
  <2>2. CASE j = 1
    BY <1>1, <1>3, <2>1, <2>2 DEF Remembered
  <2>3. CASE j > 1
    <3>1. j - 1 \in 1 .. i - 2 /\ t[j - 1] = q[j]
      BY <1>1, <2>3
    <3>2. \A k \in (j - 1) + 1 .. i - 2 : ~Selects(t[k])
      BY <2>1
    <3> QED
      BY <1>1, <1>3, <3>1, <3>2 DEF Remembered
  <2> QED
    BY <2>2, <2>3
<1> QED
  BY <1>2, <1>3 DEF Remembered, t
=============================================================================
