---------------------------- MODULE PatienceProofs ----------------------------
(***************************************************************************)
(* What holds as long as nothing races (PatientSpec): the players see the  *)
(* game of the session, choose in turn and make legal moves, so that the   *)
(* session plays a game of chess.                                          *)
(*                                                                         *)
(* The argument: a client that has something on its way to the server has  *)
(* nothing on its way back, so what it asks for was chosen on the present  *)
(* board.  To keep that true the invariant must know what a client that    *)
(* is behind will make of the updates it has not seen: none of them finds  *)
(* the machine in a state that ignores it, or takes over too little of it. *)
(***************************************************************************)
EXTENDS WaitingProofs

-----------------------------------------------------------------------------
(* Elements of a queue: all of them are in a set, none is, at most one is, *)
(* and those of one set are followed by those of another.                  *)
All(q, F)  == \A i \in 1 .. Len(q) : q[i] \in F
None(q, K) == \A i \in 1 .. Len(q) : q[i] \notin K
AtMostOnce(q, K) == \A i, j \in 1 .. Len(q) : q[i] \in K /\ q[j] \in K => i = j
FollowedBy(q, E, F) == \A i \in 1 .. Len(q) : i < Len(q) /\ q[i] \in E => q[i + 1] \in F

Final(q) == q[Len(q)]

LEMMA AllAppend ==
  ASSUME NEW S, NEW q \in Seq(S), NEW x \in S, NEW F, NEW G,
         All(q, F), F \subseteq G, x \in G
  PROVE  All(Append(q, x), G)
<1> DEFINE r == Append(q, x)
<1>1. /\ Len(q) \in Nat /\ Len(r) = Len(q) + 1
      /\ \A i \in 1 .. Len(q) : r[i] = q[i]
      /\ r[Len(q) + 1] = x
  BY AppendElement
<1> HIDE DEF r
<1>2. ASSUME NEW i \in 1 .. Len(r) PROVE r[i] \in G
  <2>1. i \in 1 .. Len(q) \/ i = Len(q) + 1
    BY <1>1
  <2> QED
    BY <1>1, <2>1 DEF All
<1> QED
  BY <1>2 DEF All, r

LEMMA AllTail ==
  ASSUME NEW S, NEW q \in Seq(S), q # <<>>, NEW F, NEW G, All(q, F), F \subseteq G
  PROVE  All(Tail(q), G) /\ Head(q) \in F
<1> DEFINE r == Tail(q)
<1>1. /\ Len(q) \in Nat \ {0} /\ Len(r) = Len(q) - 1
      /\ \A i \in 1 .. Len(q) - 1 : r[i] = q[i + 1]
      /\ Head(q) = q[1]
  BY TailElement
<1> HIDE DEF r
<1>2. ASSUME NEW i \in 1 .. Len(r) PROVE r[i] \in G
  <2>1. i \in 1 .. Len(q) - 1 /\ i + 1 \in 1 .. Len(q)
    BY <1>1
  <2> QED
    BY <1>1, <2>1 DEF All
<1> QED
  BY <1>1, <1>2 DEF All, r

LEMMA AllExcept ==
  ASSUME NEW q, NEW F, NEW K, NEW G, All(q, F), None(q, K), F \ K \subseteq G
  PROVE  All(q, G)
BY DEF All, None

LEMMA NoneAppend ==
  ASSUME NEW S, NEW q \in Seq(S), NEW x \in S, NEW K, None(q, K), x \notin K
  PROVE  None(Append(q, x), K)
<1> DEFINE r == Append(q, x)
<1>1. /\ Len(q) \in Nat /\ Len(r) = Len(q) + 1
      /\ \A i \in 1 .. Len(q) : r[i] = q[i]
      /\ r[Len(q) + 1] = x
  BY AppendElement
<1> HIDE DEF r
<1>2. ASSUME NEW i \in 1 .. Len(r) PROVE r[i] \notin K
  <2>1. i \in 1 .. Len(q) \/ i = Len(q) + 1
    BY <1>1
  <2> QED
    BY <1>1, <2>1 DEF None
<1> QED
  BY <1>2 DEF None, r

LEMMA NoneTail ==
  ASSUME NEW S, NEW q \in Seq(S), q # <<>>, NEW K, None(q, K)
  PROVE  None(Tail(q), K) /\ Head(q) \notin K
<1> DEFINE r == Tail(q)
<1>1. /\ Len(q) \in Nat \ {0} /\ Len(r) = Len(q) - 1
      /\ \A i \in 1 .. Len(q) - 1 : r[i] = q[i + 1]
      /\ Head(q) = q[1]
  BY TailElement
<1> HIDE DEF r
<1>2. ASSUME NEW i \in 1 .. Len(r) PROVE r[i] \notin K
  <2>1. i \in 1 .. Len(q) - 1 /\ i + 1 \in 1 .. Len(q)
    BY <1>1
  <2> QED
    BY <1>1, <2>1 DEF None
<1> QED
  BY <1>1, <1>2 DEF None, r

(* An element may join if it is not of the kind, or the first of its kind. *)
LEMMA OnceAppend ==
  ASSUME NEW S, NEW q \in Seq(S), NEW x \in S, NEW K, AtMostOnce(q, K),
         x \notin K \/ None(q, K)
  PROVE  AtMostOnce(Append(q, x), K)
<1> DEFINE r == Append(q, x)
<1>1. /\ Len(q) \in Nat /\ Len(r) = Len(q) + 1
      /\ \A i \in 1 .. Len(q) : r[i] = q[i]
      /\ r[Len(q) + 1] = x
  BY AppendElement
<1> HIDE DEF r
<1>2. ASSUME NEW i \in 1 .. Len(r), NEW j \in 1 .. Len(r), r[i] \in K, r[j] \in K
      PROVE  i = j
  <2>1. i \in 1 .. Len(q) \/ i = Len(q) + 1
    BY <1>1
  <2>2. j \in 1 .. Len(q) \/ j = Len(q) + 1
    BY <1>1
  <2> QED
    BY <1>1, <1>2, <2>1, <2>2 DEF AtMostOnce, None
<1> QED
  BY <1>2 DEF AtMostOnce, r

(* Without its head a queue has no more elements of a kind than before,    *)
(* and none if the head was of the kind.                                   *)
LEMMA OnceTail ==
  ASSUME NEW S, NEW q \in Seq(S), q # <<>>, NEW K, AtMostOnce(q, K)
  PROVE  /\ AtMostOnce(Tail(q), K)
         /\ Head(q) \in K => None(Tail(q), K)
<1> DEFINE r == Tail(q)
<1>1. /\ Len(q) \in Nat \ {0} /\ Len(r) = Len(q) - 1
      /\ \A i \in 1 .. Len(q) - 1 : r[i] = q[i + 1]
      /\ Head(q) = q[1]
  BY TailElement
<1> HIDE DEF r
<1>2. ASSUME NEW i \in 1 .. Len(r) PROVE i + 1 \in 1 .. Len(q) /\ r[i] = q[i + 1] /\ i + 1 # 1
  BY <1>1
<1>3. AtMostOnce(r, K)
  <2> SUFFICES ASSUME NEW i \in 1 .. Len(r), NEW j \in 1 .. Len(r), r[i] \in K, r[j] \in K
               PROVE  i = j
    BY DEF AtMostOnce
  <2>1. i + 1 = j + 1
    BY <1>2 DEF AtMostOnce
  <2> QED
    BY <1>1, <2>1
<1>4. ASSUME q[1] \in K, NEW i \in 1 .. Len(r) PROVE r[i] \notin K
  <2>1. 1 \in 1 .. Len(q)
    BY <1>1
  <2> QED
    BY <1>2, <1>4, <2>1 DEF AtMostOnce
<1> QED
  BY <1>1, <1>3, <1>4 DEF None, r

LEMMA NoneIsOnce ==
  ASSUME NEW q, NEW K, None(q, K)
  PROVE  AtMostOnce(q, K)
BY DEF None, AtMostOnce

LEMMA EmptyQueue ==
  ASSUME NEW K
  PROVE  None(<<>>, K) /\ All(<<>>, K) /\ AtMostOnce(<<>>, K) /\ \A F : FollowedBy(<<>>, K, F)
BY DEF None, All, AtMostOnce, FollowedBy

LEMMA FollowedAppend ==
  ASSUME NEW S, NEW q \in Seq(S), NEW x \in S, NEW E, NEW F, FollowedBy(q, E, F),
         q # <<>> /\ Final(q) \in E => x \in F
  PROVE  FollowedBy(Append(q, x), E, F)
<1> DEFINE r == Append(q, x)
<1>1. /\ Len(q) \in Nat /\ Len(r) = Len(q) + 1
      /\ \A i \in 1 .. Len(q) : r[i] = q[i]
      /\ r[Len(q) + 1] = x
  BY AppendElement
<1>2. Len(q) > 0 => q # <<>>
  BY EmptySeq
<1> HIDE DEF r
<1>3. ASSUME NEW i \in 1 .. Len(r), i < Len(r), r[i] \in E PROVE r[i + 1] \in F
  <2>1. i \in 1 .. Len(q) /\ (i < Len(q) => i + 1 \in 1 .. Len(q))
    BY <1>1, <1>3
  <2>2. CASE i < Len(q)
    BY <1>1, <1>3, <2>1, <2>2 DEF FollowedBy
  <2>3. CASE i = Len(q)
    BY <1>1, <1>2, <1>3, <2>1, <2>3 DEF Final
  <2> QED
    BY <1>1, <2>1, <2>2, <2>3
<1> QED
  BY <1>3 DEF FollowedBy, r

LEMMA FollowedTail ==
  ASSUME NEW S, NEW q \in Seq(S), q # <<>>, NEW E, NEW F, FollowedBy(q, E, F)
  PROVE  /\ FollowedBy(Tail(q), E, F)
         /\ Head(q) \in E /\ Tail(q) # <<>> => Head(Tail(q)) \in F
         /\ Tail(q) # <<>> => Final(Tail(q)) = Final(q)
<1> DEFINE r == Tail(q)
<1>1. /\ Len(q) \in Nat \ {0} /\ Len(r) = Len(q) - 1
      /\ \A i \in 1 .. Len(q) - 1 : r[i] = q[i + 1]
      /\ Head(q) = q[1] /\ r \in Seq(S)
  BY TailElement
<1>2. r # <<>> => Head(r) = r[1] /\ Len(r) > 0
  BY <1>1, TailElement
<1> HIDE DEF r
<1>3. ASSUME NEW i \in 1 .. Len(r), i < Len(r), r[i] \in E PROVE r[i + 1] \in F
  <2>1. i \in 1 .. Len(q) - 1 /\ i + 1 \in 1 .. Len(q) - 1 /\ i + 1 \in 1 .. Len(q) /\ i + 1 < Len(q)
    BY <1>1, <1>3
  <2> QED
    BY <1>1, <1>3, <2>1 DEF FollowedBy
<1>4. ASSUME q[1] \in E, r # <<>> PROVE r[1] \in F
  <2>1. 1 \in 1 .. Len(q) - 1 /\ 1 \in 1 .. Len(q) /\ 1 < Len(q)
    BY <1>1, <1>2, <1>4
  <2>2. r[1] = q[1 + 1] /\ q[1 + 1] \in F
    BY <1>1, <1>4, <2>1 DEF FollowedBy
  <2> QED
    BY <2>2
<1>5. ASSUME r # <<>> PROVE r[Len(r)] = q[Len(q)]
  <2>1. Len(r) \in 1 .. Len(q) - 1 /\ Len(r) + 1 = Len(q)
    BY <1>1, <1>2, <1>5
  <2> QED
    BY <1>1, <2>1
<1> QED
  BY <1>1, <1>2, <1>3, <1>4, <1>5 DEF FollowedBy, Final, r

(* All elements but the first follow another one. *)
LEMMA FollowersAll ==
  ASSUME NEW S, NEW q \in Seq(S), q # <<>>, NEW F, FollowedBy(q, S, F)
  PROVE  All(Tail(q), F)
<1> DEFINE r == Tail(q)
<1>1. /\ Len(q) \in Nat \ {0} /\ Len(r) = Len(q) - 1
      /\ \A i \in 1 .. Len(q) - 1 : r[i] = q[i + 1]
      /\ \A i \in 1 .. Len(q) : q[i] \in S
  BY TailElement, ElementOfSeq
<1> HIDE DEF r
<1>2. ASSUME NEW i \in 1 .. Len(r) PROVE r[i] \in F
  <2>1. i \in 1 .. Len(q) - 1 /\ i \in 1 .. Len(q) /\ i < Len(q)
    BY <1>1
  <2> QED
    BY <1>1, <2>1 DEF FollowedBy
<1> QED
  BY <1>2 DEF All, r

-----------------------------------------------------------------------------
(* The kinds of requests, packets and messages the invariant tells apart. *)
Asked     == {m \in GuiMessage : m.req = "AvailableMovesReq"}
Chosen    == {m \in GuiMessage : m.req = "MoveCommitReq"}
Calculate == {r \in Request : r.type = "CALCULATE_MOVES"}
Lists     == {x \in Response : x.type = "CALCULATE_MOVES"}
MoveLists == {m \in NetworkMessage : m.msg = "Moves"}

Overs         == {x \in Response : x.type = "COMMIT_MOVE" /\ x.cache.flag \in GameOverFlag}
Restarts      == {x \in Response : x.type = "RESTART"}
NotAssigning  == {x \in Response : x.type # "ASSIGN_COLOR"}
OverMessages  == {m \in NetworkMessage : m.msg = "StateUpdateMsg" /\ m.cache.flag \in GameOverFlag}
RestartMessages == {m \in NetworkMessage : m.msg = "RestartMsg"}

(* A legal move of the team to move. *)
LegalNow(p, from, to) ==
  /\ session.currentTeam = p
  /\ Get(session.board)[from].col = p
  /\ to \in LegalMoves(session.board, from, p)

(* The sender remembers a pawn of p, on a board where p has just moved. *)
CanPromote(p, board, team) ==
  /\ selectedPiece[p] \in Square
  /\ board[selectedPiece[p]] = [type |-> "PAWN", col |-> p]
  /\ team = Opposite(p)

(* What may be on its way, given the state of the machine: every request   *)
(* was made for the board of the session and belongs to the state the      *)
(* machine is in, and so does every answer.                                *)
FitChoices(p) == {m \in GuiMessage :
  /\ m.req = "AvailableMovesReq" => gui[p].fsm = "MOVE_WAITING" /\ m.from = gui[p].selected
  /\ m.req = "MoveCommitReq" =>
       gui[p].fsm = "MOVE_COMMIT_WAITING" /\ LegalNow(p, m.picked, m.to)
  /\ m.req = "PromotionReq" => gui[p].fsm = "PROMOTION_COMMIT_WAITING"}

FitRequests(p) == {r \in Request :
  /\ r.type = "CALCULATE_MOVES" => gui[p].fsm = "MOVE_WAITING" /\ r.pos = gui[p].selected
  /\ r.type = "COMMIT_MOVE" =>
       /\ gui[p].fsm = "MOVE_COMMIT_WAITING" /\ LegalNow(p, r.from, r.to)
       /\ selectedPiece[p] = r.to /\ None(gui2net[p], Chosen)
  /\ r.type = "PROMOTE" => gui[p].fsm = "PROMOTION_COMMIT_WAITING" /\ r.pos = selectedPiece[p]}

FitPackets(p) == {x \in Response :
  /\ x.type = "CALCULATE_MOVES" =>
       gui[p].fsm = "MOVE_WAITING" /\ x.moves = LegalMoves(session.board, gui[p].selected, p)
  /\ x.type = "ASSIGN_COLOR" => x.color = p /\ cache[p] = Uninitialized
  /\ x.type = "RESTART" => x.cache.flag = "NONE"}

FitMessages(p) == {m \in NetworkMessage :
  /\ m.msg = "Moves" =>
       gui[p].fsm = "MOVE_WAITING" /\ m.moves = LegalMoves(session.board, gui[p].selected, p)
  /\ m.msg # "Moves" => m.myColor = p
  /\ m.msg = "RestartMsg" => m.cache.flag = "NONE"}

Fits(p) ==
  /\ All(gui2net[p], FitChoices(p))
  /\ All(toServer[p], FitRequests(p))
  /\ All(toClient[p], FitPackets(p))
  /\ All(net2gui[p], FitMessages(p))

(* The machine itself: a player chooses in their own turn, among the legal *)
(* moves, and a menu is open in the promotion state only.                  *)
Machine(p) ==
  /\ gui[p].fsm \in {"MOVE_WAITING", "MOVE_SELECTION"} =>
       gui[p].currTeam = p /\ gui[p].board[gui[p].selected].col = p
  /\ gui[p].fsm = "MOVE_SELECTION" =>
       gui[p].moves = LegalMoves(session.board, gui[p].selected, p)
  /\ menus[p] > 0 => gui[p].fsm = "PROMOTION_COMMIT_WAITING"
  /\ gui[p].fsm = "PROMOTION_COMMIT_WAITING" => CanPromote(p, gui[p].board, gui[p].currTeam)
  /\ gui[p].fsm # "IDLE" => gui[p].myColor = p

(* A machine that waits for moves has asked once, and the question or its  *)
(* answer is in one place; a move is chosen once.                          *)
OneAnswer(p) ==
  /\ AtMostOnce(gui2net[p], Asked) /\ AtMostOnce(gui2net[p], Chosen)
  /\ AtMostOnce(toServer[p], Calculate)
  /\ AtMostOnce(toClient[p], Lists)
  /\ AtMostOnce(net2gui[p], MoveLists)
  /\ None(gui2net[p], Asked) \/ None(toServer[p], Calculate)
  /\ None(gui2net[p], Asked) \/ None(toClient[p], Lists)
  /\ None(gui2net[p], Asked) \/ None(net2gui[p], MoveLists)
  /\ None(toServer[p], Calculate) \/ None(toClient[p], Lists)
  /\ None(toServer[p], Calculate) \/ None(net2gui[p], MoveLists)
  /\ None(toClient[p], Lists) \/ None(net2gui[p], MoveLists)

(* After the end of a game only a restart is sent. *)
PacketsInOrder(p) ==
  /\ FollowedBy(toClient[p], Overs, Restarts)
  /\ FollowedBy(toClient[p], Response, NotAssigning)
  /\ teamColor[p] \in {p, Uninitialized}
  /\ cache[p] # Uninitialized =>
       /\ teamColor[p] = p
       /\ cache[p].flag \in GameOverFlag /\ toClient[p] # <<>> => Head(toClient[p]) \in Restarts

(* The same for the messages of the receiver, which post its copy of the   *)
(* game: the last one is the copy it holds.                                *)
MessagesInOrder(p) ==
  /\ FollowedBy(net2gui[p], OverMessages, RestartMessages)
  /\ MessagePending(p) => Final(net2gui[p]).msg # "Moves" /\ Final(net2gui[p]).cache = cache[p]

(* A GUI that has taken over all messages shows the copy of the receiver. *)
ViewKept(p) ==
  ~MessagePending(p) /\ cache[p] # Uninitialized =>
    /\ gui[p].board = cache[p].board
    /\ gui[p].currTeam = cache[p].currentTeam
    /\ gui[p].myColor = p
    /\ (gui[p].fsm = "GAME_OVER" <=> cache[p].flag \in GameOverFlag)

(* The next update finds the machine in a state that takes over what it    *)
(* needs of it.                                                            *)
MessageFits(p, m) ==
  /\ gui[p].fsm = "MOVE_COMMIT_WAITING" =>
       /\ m.msg = "StateUpdateMsg"
       /\ m.cache.flag = "PROMOTION" => CanPromote(p, m.cache.board, m.cache.currentTeam)
  /\ gui[p].fsm = "PROMOTION_COMMIT_WAITING" =>
       /\ m.msg = "StateUpdateMsg"
       /\ m.cache.currentTeam = gui[p].currTeam
       /\ m.cache.flag \notin GameOverFlag
  /\ gui[p].fsm = "GAME_OVER" => m.msg = "RestartMsg"

PacketFits(p, x) ==
  /\ gui[p].fsm = "MOVE_COMMIT_WAITING" =>
       /\ x.type = "COMMIT_MOVE"
       /\ x.cache.flag = "PROMOTION" => CanPromote(p, x.cache.board, x.cache.currentTeam)
  /\ gui[p].fsm = "PROMOTION_COMMIT_WAITING" => x.type = "PROMOTE"

NextFits(p) ==
  /\ MessagePending(p) => MessageFits(p, Head(net2gui[p]))
  /\ ~MessagePending(p) /\ PacketPending(p) => PacketFits(p, Head(toClient[p]))

Local(p) ==
  /\ Fits(p) /\ Machine(p) /\ OneAnswer(p)
  /\ PacketsInOrder(p) /\ MessagesInOrder(p) /\ ViewKept(p) /\ NextFits(p)

(* What the last update sent to p makes of the game. *)
Finished(p) ==
  IF PacketPending(p) THEN Final(toClient[p]) \in Overs
  ELSE cache[p] # Uninitialized /\ cache[p].flag \in GameOverFlag

OverForBoth == Finished("WHITE") <=> Finished("BLACK")

PatientInv ==
  /\ IInv /\ Converging /\ WaitingInv
  /\ ~Race
  /\ OverForBoth
  /\ \A p \in Color : Local(p)

-----------------------------------------------------------------------------
(* A queue whose elements all are and all are not of a kind is empty. *)
LEMMA AllAndNone ==
  ASSUME NEW S, NEW q \in Seq(S), NEW K, All(q, K), None(q, K)
  PROVE  q = <<>>
<1>1. \A i \in 1 .. Len(q) : FALSE
  BY DEF All, None
<1>2. Len(q) \in Nat /\ (Len(q) = 0 => q = <<>>)
  BY LenProperties, EmptySeq
<1>3. Len(q) > 0 => 1 \in 1 .. Len(q)
  BY <1>2
<1> QED
  BY <1>1, <1>2, <1>3

(* The state of the machine tells what is not on its way. *)
LEMMA OnlyWhileWaiting ==
  ASSUME NEW p \in Color, Local(p)
  PROVE  /\ gui[p].fsm # "MOVE_WAITING" =>
              /\ None(gui2net[p], Asked) /\ None(toServer[p], Calculate)
              /\ None(toClient[p], Lists) /\ None(net2gui[p], MoveLists)
         /\ gui[p].fsm # "MOVE_COMMIT_WAITING" => None(gui2net[p], Chosen)
<1>1. /\ All(gui2net[p], FitChoices(p)) /\ All(toServer[p], FitRequests(p))
      /\ All(toClient[p], FitPackets(p)) /\ All(net2gui[p], FitMessages(p))
  BY DEF Local, Fits
<1>2. gui[p].fsm # "MOVE_WAITING" => None(gui2net[p], Asked)
  BY <1>1 DEF All, None, FitChoices, Asked
<1>3. gui[p].fsm # "MOVE_WAITING" => None(toServer[p], Calculate)
  BY <1>1 DEF All, None, FitRequests, Calculate
<1>4. gui[p].fsm # "MOVE_WAITING" => None(toClient[p], Lists)
  BY <1>1 DEF All, None, FitPackets, Lists
<1>5. gui[p].fsm # "MOVE_WAITING" => None(net2gui[p], MoveLists)
  BY <1>1 DEF All, None, FitMessages, MoveLists
<1>6. gui[p].fsm # "MOVE_COMMIT_WAITING" => None(gui2net[p], Chosen)
  BY <1>1 DEF All, None, FitChoices, Chosen
<1> QED
  BY <1>2, <1>3, <1>4, <1>5, <1>6

(* A player who is behind is not engaged: nothing of theirs is on its way  *)
(* to the server, and no list of moves on its way back.                    *)
LEMMA Behind ==
  ASSUME IInv, ~Race, NEW p \in Color, Local(p), PacketPending(p) \/ MessagePending(p)
  PROVE  /\ gui[p].fsm \in {"IDLE", "MOVE_COMMIT_WAITING", "PROMOTION_COMMIT_WAITING", "GAME_OVER"}
         /\ gui2net[p] = <<>> /\ toServer[p] = <<>> /\ menus[p] = 0
         /\ None(toClient[p], Lists) /\ None(net2gui[p], MoveLists)
<1>1. ~Engaged(p)
  BY DEF Race
<1>2. gui[p].fsm \in FsmState /\ menus[p] \in Nat
  BY QueueTypes DEF IInv, Gui
<1>3. gui[p].fsm \notin {"MOVE_WAITING", "MOVE_SELECTION"} /\ ~(menus[p] > 0)
      /\ gui2net[p] = <<>> /\ toServer[p] = <<>>
  BY <1>1 DEF Engaged
<1> QED
  BY <1>2, <1>3, OnlyWhileWaiting DEF FsmState

(* A client to which no update is on its way holds a copy of the game, and *)
(* only lists of moves are on their way to it.                             *)
LEMMA Received ==
  ASSUME IInv, Converging, NEW p \in Color, Local(p), ~PacketPending(p)
  PROVE  /\ cache[p] \in GameStateCache /\ cache[p] # Uninitialized
         /\ cache[p] = Snapshot(session, cache[p].flag)
         /\ teamColor[p] = p
         /\ All(toClient[p], Lists)
<1>1. toClient[p] \in Seq(Response)
  BY QueueTypes DEF IInv
<1>2. \A i \in 1 .. Len(toClient[p]) : ~IsUpdate(toClient[p][i])
  BY <1>1 DEF PacketPending, IsUpdate
<1>3. PICK copies : Replays(p, copies)
  BY DEF Converging
<1>4. Agrees(cache[p], session)
  BY <1>1, <1>2, <1>3 DEF Replays
<1>5. cache[p] \in GameStateCache /\ cache[p] # Uninitialized
      /\ cache[p] = Snapshot(session, cache[p].flag)
  BY <1>4, UninitializedAssumption DEF Agrees
<1>6. ASSUME NEW i \in 1 .. Len(toClient[p]) PROVE toClient[p][i] \in Lists
  <2>1. toClient[p][i] \in Response /\ ~IsUpdate(toClient[p][i])
    BY <1>1, <1>2, ElementOfSeq
  <2>2. toClient[p][i].type # "ASSIGN_COLOR"
    BY <1>5 DEF Local, Fits, All, FitPackets
  <2> QED
    BY <2>1, <2>2 DEF Response, IsUpdate, Lists
<1>7. teamColor[p] = p
  BY <1>5 DEF Local, PacketsInOrder
<1> QED
  BY <1>5, <1>6, <1>7 DEF All

(* When its GUI has taken over everything, the player sees the game.       *)
LEMMA Settled ==
  ASSUME IInv, Converging, NEW p \in Color, Local(p), ~PacketPending(p), ~MessagePending(p)
  PROVE  /\ gui[p].board = Get(session.board)
         /\ gui[p].currTeam = session.currentTeam
         /\ gui[p].myColor = p
         /\ gui[p].fsm = "GAME_OVER" <=> cache[p].flag \in GameOverFlag
         /\ All(net2gui[p], MoveLists)
<1>1. net2gui[p] \in Seq(NetworkMessage)
  BY QueueTypes DEF IInv
<1>2. /\ cache[p] # Uninitialized
      /\ cache[p].board = Get(session.board) /\ cache[p].currentTeam = session.currentTeam
  <2>1. cache[p] # Uninitialized /\ cache[p] = Snapshot(session, cache[p].flag)
    BY Received
  <2> DEFINE f == cache[p].flag
  <2>2. Snapshot(session, f).board = Get(session.board)
        /\ Snapshot(session, f).currentTeam = session.currentTeam
    BY DEF Snapshot
  <2> QED
    BY <2>1, <2>2
<1>3. ASSUME NEW i \in 1 .. Len(net2gui[p]) PROVE net2gui[p][i] \in MoveLists
  <2>1. net2gui[p][i] \in NetworkMessage
    BY <1>1, ElementOfSeq
  <2>2. net2gui[p][i].msg \notin {"StateUpdateMsg", "RestartMsg"}
    BY <1>1 DEF MessagePending
  <2> QED
    BY <2>1, <2>2 DEF NetworkMessage, MoveLists
<1> QED
  BY <1>2, <1>3 DEF Local, ViewKept, All

(* The other player's variables are those of a state before. *)
LEMMA LocalFrame ==
  ASSUME NEW p \in Color, Local(p),
         UNCHANGED <<gui[p], menus[p], gui2net[p], net2gui[p], toServer[p], toClient[p],
                     selectedPiece[p], cache[p], teamColor[p], session>>
  PROVE  Local(p)' /\ (Finished(p)' <=> Finished(p))
<1>1. Fits(p)'
  BY DEF Local, Fits, FitChoices, FitRequests, FitPackets, FitMessages, LegalNow
<1>2. Machine(p)'
  BY DEF Local, Machine, CanPromote
<1>3. OneAnswer(p)'
  BY DEF Local, OneAnswer
<1>4. PacketsInOrder(p)' /\ MessagesInOrder(p)' /\ ViewKept(p)'
  BY DEF Local, PacketsInOrder, MessagesInOrder, ViewKept, MessagePending
<1>5. NextFits(p)'
  BY DEF Local, NextFits, MessageFits, PacketFits, CanPromote, MessagePending, PacketPending
<1>6. Finished(p)' <=> Finished(p)
  BY DEF Finished, PacketPending
<1> QED
  BY <1>1, <1>2, <1>3, <1>4, <1>5, <1>6 DEF Local

-----------------------------------------------------------------------------
(* The player's steps.  An engaged player sees the game as it is. *)
LEMMA EngagedIsSettled ==
  ASSUME IInv, Converging, ~Race, NEW p \in Color, Local(p), Engaged(p)
  PROVE  /\ ~PacketPending(p) /\ ~MessagePending(p)
         /\ gui[p].board = Get(session.board)
         /\ gui[p].currTeam = session.currentTeam
         /\ gui[p].myColor = p
         /\ gui[p].fsm = "GAME_OVER" <=> cache[p].flag \in GameOverFlag
         /\ All(toClient[p], Lists) /\ All(net2gui[p], MoveLists)
<1>1. ~PacketPending(p) /\ ~MessagePending(p)
  BY DEF Race
<1> QED
  BY <1>1, Received, Settled

(* What no step of the player touches. *)
LEMMA PlayerFrame ==
  ASSUME IInv, NEW p \in Color, Local(p),
         UNCHANGED <<net2gui[p], toServer[p], toClient[p], selectedPiece[p], cache[p],
                     teamColor[p], session>>
  PROVE  /\ PacketsInOrder(p)' /\ MessagesInOrder(p)'
         /\ PacketPending(p)' <=> PacketPending(p)
         /\ MessagePending(p)' <=> MessagePending(p)
         /\ Finished(p)' <=> Finished(p)
BY DEF Local, PacketsInOrder, MessagesInOrder, PacketPending, MessagePending, Finished

LEMMA ClickPieceLocal ==
  ASSUME IInv, Converging, ~Race', NEW p \in Color, Local(p), NEW pos \in Square,
         ClickPiece(p, pos), PlayerStep(p)
  PROVE  Local(p)'
<1> DEFINE q == gui2net[p]
           m == [req |-> "AvailableMovesReq", from |-> pos]
<1>1. /\ gui \in [Color -> Gui] /\ menus \in [Color -> Nat]
      /\ gui2net \in [Color -> Seq(GuiMessage)] /\ q \in Seq(GuiMessage)
  BY QueueTypes DEF IInv
<1>2. /\ gui[p].fsm = "IDLE" /\ gui[p].myColor = gui[p].currTeam
      /\ gui[p].board[pos].col = gui[p].myColor
      /\ gui'[p].fsm = "MOVE_WAITING" /\ gui'[p].selected = pos
      /\ gui'[p].board = gui[p].board /\ gui'[p].currTeam = gui[p].currTeam
      /\ gui'[p].myColor = gui[p].myColor /\ gui'[p].moves = gui[p].moves
      /\ gui2net'[p] = Append(q, m)
      /\ UNCHANGED <<menus, net2gui, toServer, toClient, selectedPiece, cache, teamColor, session>>
  BY <1>1 DEF ClickPiece, Push, PlayerStep, clientVars, wireVars, Gui
<1>3. m \in GuiMessage /\ m \in Asked /\ m \notin Chosen
      /\ m.req = "AvailableMovesReq" /\ m.from = pos
  BY DEF GuiMessage, Asked, Chosen
<1> HIDE DEF m
<1>4. /\ PacketsInOrder(p)' /\ MessagesInOrder(p)'
      /\ PacketPending(p)' <=> PacketPending(p)
      /\ MessagePending(p)' <=> MessagePending(p)
  BY <1>2, PlayerFrame
<1>5. ~PacketPending(p) /\ ~MessagePending(p)
  BY <1>2, <1>4 DEF Race, Engaged
<1>6. /\ gui[p].myColor = p
      /\ gui[p].fsm = "GAME_OVER" <=> cache[p].flag \in GameOverFlag
  BY <1>5, Settled
<1>7. /\ None(q, Asked) /\ None(toServer[p], Calculate)
      /\ None(toClient[p], Lists) /\ None(net2gui[p], MoveLists) /\ None(q, Chosen)
  BY <1>2, OnlyWhileWaiting
<1>8. Fits(p)'
  <2>1. /\ All(q, FitChoices(p)) /\ All(toServer[p], FitRequests(p))
        /\ All(toClient[p], FitPackets(p)) /\ All(net2gui[p], FitMessages(p))
    BY DEF Local, Fits
  <2>2. FitChoices(p) \subseteq FitChoices(p)'
    BY <1>2 DEF FitChoices
  <2>3. m \in FitChoices(p)'
    BY <1>2, <1>3 DEF FitChoices
  <2>4. All(gui2net'[p], FitChoices(p)')
    BY <1>1, <1>2, <1>3, <2>1, <2>2, <2>3, AllAppend
  <2>5. FitRequests(p) \subseteq FitRequests(p)'
    BY <1>2 DEF FitRequests
  <2>6. FitPackets(p) \subseteq FitPackets(p)' /\ FitMessages(p) \subseteq FitMessages(p)'
    BY <1>2 DEF FitPackets, FitMessages
  <2> QED
    BY <1>2, <2>1, <2>4, <2>5, <2>6 DEF Fits, All
<1>9. Machine(p)'
  <2>1. ~(menus[p] > 0)
    BY <1>2 DEF Local, Machine
  <2> QED
    BY <1>2, <1>6, <2>1 DEF Machine
<1>10. OneAnswer(p)'
  <2>1. AtMostOnce(gui2net'[p], Asked)
    BY <1>1, <1>2, <1>3, <1>7, NoneIsOnce, OnceAppend
  <2>2. AtMostOnce(gui2net'[p], Chosen)
    BY <1>1, <1>2, <1>3, <1>7, NoneIsOnce, OnceAppend
  <2> QED
    BY <1>2, <1>7, <2>1, <2>2, NoneIsOnce DEF OneAnswer
<1>11. ViewKept(p)' /\ NextFits(p)'
  BY <1>2, <1>4, <1>5, <1>6 DEF Local, ViewKept, NextFits
<1> QED
  BY <1>4, <1>8, <1>9, <1>10, <1>11 DEF Local

LEMMA ClickMoveLocal ==
  ASSUME IInv, Converging, ~Race, NEW p \in Color, Local(p), NEW pos \in Square,
         ClickMove(p, pos), PlayerStep(p)
  PROVE  Local(p)'
<1> DEFINE q == gui2net[p]
           m == [req |-> "MoveCommitReq", to |-> pos, picked |-> gui[p].selected]
<1>1. /\ gui \in [Color -> Gui] /\ menus \in [Color -> Nat] /\ gui[p].selected \in Square
      /\ gui2net \in [Color -> Seq(GuiMessage)] /\ q \in Seq(GuiMessage)
  BY QueueTypes DEF IInv, Gui
<1>2. /\ gui[p].fsm = "MOVE_SELECTION" /\ pos \in gui[p].moves
      /\ gui'[p].fsm = "MOVE_COMMIT_WAITING" /\ gui'[p].selected = gui[p].selected
      /\ gui'[p].board = gui[p].board /\ gui'[p].currTeam = gui[p].currTeam
      /\ gui'[p].myColor = gui[p].myColor
      /\ gui2net'[p] = Append(q, m)
      /\ UNCHANGED <<menus, net2gui, toServer, toClient, selectedPiece, cache, teamColor, session>>
  BY <1>1 DEF ClickMove, Push, PlayerStep, clientVars, wireVars, Gui
<1>3. m \in GuiMessage /\ m \notin Asked /\ m \in Chosen
      /\ m.req = "MoveCommitReq" /\ m.to = pos /\ m.picked = gui[p].selected
  BY <1>1 DEF GuiMessage, Asked, Chosen
<1> HIDE DEF m
<1>4. /\ PacketsInOrder(p)' /\ MessagesInOrder(p)'
      /\ PacketPending(p)' <=> PacketPending(p)
      /\ MessagePending(p)' <=> MessagePending(p)
  BY <1>2, PlayerFrame
<1>5. /\ ~PacketPending(p) /\ ~MessagePending(p)
      /\ gui[p].board = Get(session.board) /\ gui[p].currTeam = session.currentTeam
      /\ gui[p].myColor = p
      /\ gui[p].fsm = "GAME_OVER" <=> cache[p].flag \in GameOverFlag
  BY <1>2, EngagedIsSettled DEF Engaged
<1>6. LegalNow(p, gui[p].selected, pos)
  BY <1>2, <1>5 DEF Local, Machine, LegalNow
<1>7. /\ None(q, Asked) /\ None(toServer[p], Calculate)
      /\ None(toClient[p], Lists) /\ None(net2gui[p], MoveLists) /\ None(q, Chosen)
  BY <1>2, OnlyWhileWaiting
<1>8. Fits(p)'
  <2>1. /\ All(q, FitChoices(p)) /\ All(toServer[p], FitRequests(p))
        /\ All(toClient[p], FitPackets(p)) /\ All(net2gui[p], FitMessages(p))
    BY DEF Local, Fits
  <2>2. FitChoices(p) \subseteq FitChoices(p)'
    BY <1>2 DEF FitChoices
  <2>3. m \in FitChoices(p)'
    BY <1>2, <1>3, <1>6 DEF FitChoices, LegalNow
  <2>4. All(gui2net'[p], FitChoices(p)')
    BY <1>1, <1>2, <1>3, <2>1, <2>2, <2>3, AllAppend
  <2>5. FitRequests(p) \subseteq FitRequests(p)'
    BY <1>2 DEF FitRequests
  <2>6. FitPackets(p) \subseteq FitPackets(p)' /\ FitMessages(p) \subseteq FitMessages(p)'
    BY <1>2 DEF FitPackets, FitMessages
  <2> QED
    BY <1>2, <2>1, <2>4, <2>5, <2>6 DEF Fits, All
<1>9. Machine(p)'
  <2>1. ~(menus[p] > 0)
    BY <1>2 DEF Local, Machine
  <2> QED
    BY <1>2, <1>5, <2>1 DEF Machine
<1>10. OneAnswer(p)'
  <2>1. AtMostOnce(gui2net'[p], Asked) /\ None(gui2net'[p], Asked)
    BY <1>1, <1>2, <1>3, <1>7, NoneIsOnce, NoneAppend
  <2>2. AtMostOnce(gui2net'[p], Chosen)
    BY <1>1, <1>2, <1>3, <1>7, NoneIsOnce, OnceAppend
  <2> QED
    BY <1>2, <1>7, <2>1, <2>2, NoneIsOnce DEF OneAnswer
<1>11. ViewKept(p)' /\ NextFits(p)'
  BY <1>2, <1>4, <1>5 DEF Local, ViewKept, NextFits
<1> QED
  BY <1>4, <1>8, <1>9, <1>10, <1>11 DEF Local

LEMMA ClickSelectedLocal ==
  ASSUME IInv, Converging, ~Race, NEW p \in Color, Local(p), ClickSelected(p), PlayerStep(p)
  PROVE  Local(p)'
<1>1. /\ gui \in [Color -> Gui]
  BY QueueTypes DEF IInv, Gui
<1>2. /\ gui[p].fsm = "MOVE_SELECTION"
      /\ gui'[p].fsm = "IDLE" /\ gui'[p].selected = gui[p].selected
      /\ gui'[p].board = gui[p].board /\ gui'[p].currTeam = gui[p].currTeam
      /\ gui'[p].myColor = gui[p].myColor
      /\ UNCHANGED <<menus, gui2net, net2gui, toServer, toClient, selectedPiece, cache, teamColor,
                     session>>
  BY <1>1 DEF ClickSelected, PlayerStep, clientVars, wireVars, Gui
<1>3. /\ PacketsInOrder(p)' /\ MessagesInOrder(p)'
      /\ PacketPending(p)' <=> PacketPending(p)
      /\ MessagePending(p)' <=> MessagePending(p)
  BY <1>2, PlayerFrame
<1>4. gui[p].myColor = p /\ (gui[p].fsm = "GAME_OVER" <=> cache[p].flag \in GameOverFlag)
  BY <1>2, EngagedIsSettled DEF Engaged
<1>5. Fits(p)'
  <2>1. FitChoices(p) \subseteq FitChoices(p)' /\ FitRequests(p) \subseteq FitRequests(p)'
    BY <1>2 DEF FitChoices, FitRequests
  <2>2. FitPackets(p) \subseteq FitPackets(p)' /\ FitMessages(p) \subseteq FitMessages(p)'
    BY <1>2 DEF FitPackets, FitMessages
  <2> QED
    BY <1>2, <2>1, <2>2 DEF Local, Fits, All
<1>6. Machine(p)' /\ OneAnswer(p)' /\ ViewKept(p)' /\ NextFits(p)'
  BY <1>2, <1>3, <1>4 DEF Local, Machine, OneAnswer, ViewKept, NextFits, MessageFits, PacketFits
<1> QED
  BY <1>3, <1>5, <1>6 DEF Local

(* A request that refers to no square may be queued at any time. *)
LEMMA RequestLocal ==
  ASSUME IInv, NEW p \in Color, Local(p), NEW m \in GuiMessage,
         m.req \notin {"AvailableMovesReq", "MoveCommitReq"}, m \in FitChoices(p),
         gui2net'[p] = Append(gui2net[p], m), menus'[p] > 0 => menus[p] > 0,
         UNCHANGED <<gui, net2gui, toServer, toClient, selectedPiece, cache, teamColor, session>>
  PROVE  Local(p)'
<1> DEFINE q == gui2net[p]
<1>1. q \in Seq(GuiMessage)
  BY QueueTypes DEF IInv
<1>2. m \notin Asked /\ m \notin Chosen
  BY DEF Asked, Chosen
<1>3. /\ PacketsInOrder(p)' /\ MessagesInOrder(p)'
      /\ PacketPending(p)' <=> PacketPending(p)
      /\ MessagePending(p)' <=> MessagePending(p)
  BY PlayerFrame
<1>4. /\ None(q, Chosen) => None(gui2net'[p], Chosen)
      /\ None(q, Asked) => None(gui2net'[p], Asked)
      /\ AtMostOnce(q, Chosen) => AtMostOnce(gui2net'[p], Chosen)
      /\ AtMostOnce(q, Asked) => AtMostOnce(gui2net'[p], Asked)
  BY <1>1, <1>2, NoneAppend, OnceAppend
<1>5. Fits(p)'
  <2>1. /\ All(q, FitChoices(p)) /\ All(toServer[p], FitRequests(p))
        /\ All(toClient[p], FitPackets(p)) /\ All(net2gui[p], FitMessages(p))
    BY DEF Local, Fits
  <2>2. FitChoices(p) = FitChoices(p)'
    BY DEF FitChoices, LegalNow
  <2>3. All(gui2net'[p], FitChoices(p)')
    BY <1>1, <2>1, <2>2, AllAppend
  <2>4. FitRequests(p) \subseteq FitRequests(p)'
    BY <1>4 DEF FitRequests, LegalNow
  <2>5. FitPackets(p) \subseteq FitPackets(p)' /\ FitMessages(p) \subseteq FitMessages(p)'
    BY DEF FitPackets, FitMessages
  <2> QED
    BY <2>1, <2>3, <2>4, <2>5 DEF Fits, All
<1>6. Machine(p)'
  BY DEF Local, Machine, CanPromote
<1>7. OneAnswer(p)'
  BY <1>4 DEF Local, OneAnswer
<1>8. ViewKept(p)' /\ NextFits(p)'
  BY <1>3 DEF Local, ViewKept, NextFits, MessageFits, PacketFits, CanPromote
<1> QED
  BY <1>3, <1>5, <1>6, <1>7, <1>8 DEF Local

LEMMA PlayerLocal ==
  ASSUME IInv, Converging, ~Race, ~Race', NEW p \in Color, Local(p), PlayerStep(p)
  PROVE  Local(p)' /\ (Finished(p)' <=> Finished(p))
<1>1. /\ menus \in [Color -> Nat] /\ gui2net \in [Color -> Seq(GuiMessage)]
  BY QueueTypes DEF IInv
<1>2. CASE PressR(p)
  <2> DEFINE m == [req |-> "RestartReq"]
  <2>1. m \in GuiMessage /\ m.req = "RestartReq"
    BY DEF GuiMessage
  <2>2. /\ gui2net'[p] = Append(gui2net[p], m) /\ menus' = menus
        /\ UNCHANGED <<gui, net2gui, toServer, toClient, selectedPiece, cache, teamColor, session>>
    BY <1>1, <1>2 DEF PressR, Push, PlayerStep, clientVars, wireVars
  <2>3. m \in FitChoices(p)
    BY <2>1 DEF FitChoices
  <2> HIDE DEF m
  <2> QED
    BY <2>1, <2>2, <2>3, RequestLocal, PlayerFrame
<1>3. ASSUME NEW type \in PromotionChoice, ChoosePromotion(p, type)
      PROVE  Local(p)' /\ (Finished(p)' <=> Finished(p))
  <2> DEFINE m == [req |-> "PromotionReq", type |-> type]
  <2>1. m \in GuiMessage /\ m.req = "PromotionReq"
    BY DEF GuiMessage
  <2>2. /\ gui2net'[p] = Append(gui2net[p], m) /\ menus[p] > 0
        /\ UNCHANGED <<gui, net2gui, toServer, toClient, selectedPiece, cache, teamColor, session>>
    BY <1>1, <1>3 DEF ChoosePromotion, Push, PlayerStep, clientVars, wireVars
  <2>3. m \in FitChoices(p)
    BY <2>1, <2>2 DEF FitChoices, Local, Machine
  <2> HIDE DEF m
  <2> QED
    BY <2>1, <2>2, <2>3, RequestLocal, PlayerFrame
<1>4. UNCHANGED <<net2gui, toServer, toClient, selectedPiece, cache, teamColor, session>>
  BY DEF PlayerStep, Player, ClickPiece, ClickMove, ClickSelected, PressR, ChoosePromotion,
     clientVars, wireVars
<1> QED
  BY <1>2, <1>3, <1>4, ClickPieceLocal, ClickMoveLocal, ClickSelectedLocal, PlayerFrame
     DEF PlayerStep, Player

-----------------------------------------------------------------------------
(* The sender.  What it sends, and the square it remembers, are those of   *)
(* the request: no other request that needs the square is under way.       *)
LEMMA SendFits ==
  ASSUME IInv, Converging, ~Race, NEW p \in Color, Local(p), SendStep(p),
         NEW m, m = Head(gui2net[p]), NEW r, toServer'[p] = Append(toServer[p], r),
         \/ /\ m.req = "AvailableMovesReq"
            /\ r.type = "CALCULATE_MOVES" /\ r.pos = m.from /\ selectedPiece'[p] = m.from
         \/ /\ m.req = "MoveCommitReq"
            /\ r.type = "COMMIT_MOVE" /\ r.from = selectedPiece[p] /\ r.to = m.to
            /\ selectedPiece'[p] = m.to
         \/ /\ m.req = "RestartReq"
            /\ r.type = "RESTART" /\ selectedPiece'[p] = selectedPiece[p]
         \/ /\ m.req = "PromotionReq"
            /\ r.type = "PROMOTE" /\ r.pos = selectedPiece[p]
            /\ selectedPiece'[p] = selectedPiece[p]
  PROVE  Fits(p)' /\ OneAnswer(p)' /\ Machine(p)'
<1> DEFINE q == gui2net[p]
           s == toServer[p]
<1>1. /\ q \in Seq(GuiMessage) /\ q # <<>> /\ gui2net'[p] = Tail(q)
      /\ m \in GuiMessage
      /\ UNCHANGED <<gui, menus, net2gui, toClient, cache, teamColor, session>>
  BY SendShape, QueueTypes DEF IInv
<1>2. s \in Seq(Request) /\ toServer'[p] \in Seq(Request)
  <2>1. TypeOK /\ TypeOK'
    BY SendType DEF IInv
  <2> QED
    BY <2>1 DEF TypeOK, WireTypeOK
<1>3. r \in Request
  <2>1. Len(toServer'[p]) = Len(s) + 1 /\ toServer'[p][Len(s) + 1] = r /\ Len(s) \in Nat
    BY <1>2
  <2> DEFINE n == Len(s) + 1
  <2>2. n \in 1 .. Len(toServer'[p]) /\ toServer'[p][n] = r
    BY <2>1
  <2> HIDE DEF n
  <2> QED
    BY <1>2, <2>2, ElementOfSeq
<1>4. /\ All(q, FitChoices(p)) /\ All(s, FitRequests(p))
      /\ All(toClient[p], FitPackets(p)) /\ All(net2gui[p], FitMessages(p))
  BY DEF Local, Fits
<1>5. All(Tail(q), FitChoices(p)) /\ m \in FitChoices(p)
  BY <1>1, <1>4, AllTail
<1>6. OneAnswer(p)
  BY DEF Local
<1>7. /\ AtMostOnce(Tail(q), Asked) /\ AtMostOnce(Tail(q), Chosen)
      /\ m \in Asked => None(Tail(q), Asked)
      /\ m \in Chosen => None(Tail(q), Chosen)
      /\ None(q, Asked) => None(Tail(q), Asked)
      /\ None(q, Chosen) => None(Tail(q), Chosen) /\ m \notin Chosen
      /\ None(q, Asked) => m \notin Asked
  BY <1>1, <1>6, OnceTail, NoneTail DEF OneAnswer
<1>8. /\ m \in Asked <=> m.req = "AvailableMovesReq"
      /\ m \in Chosen <=> m.req = "MoveCommitReq"
      /\ r \in Calculate <=> r.type = "CALCULATE_MOVES"
  BY <1>1, <1>3 DEF Asked, Chosen, Calculate
<1>9. FitRequests(p) \subseteq FitRequests(p)'
  <2>1. CASE m.req = "AvailableMovesReq"
    BY <1>1, <1>5, <2>1 DEF FitChoices, FitRequests
  <2>2. CASE m.req = "MoveCommitReq"
    BY <1>1, <1>5, <1>7, <1>8, <2>2 DEF FitChoices, FitRequests
  <2>3. CASE m.req \in {"RestartReq", "PromotionReq"}
    BY <1>1, <1>7, <2>3 DEF FitRequests, LegalNow
  <2> QED
    BY <2>1, <2>2, <2>3
<1>10. r \in FitRequests(p)'
  <2>1. CASE m.req = "AvailableMovesReq"
    BY <1>1, <1>3, <1>5, <2>1 DEF FitChoices, FitRequests
  <2>2. CASE m.req = "MoveCommitReq"
    <3>1. selectedPiece[p] = m.picked
      <4>1. 1 \in 1 .. Len(q) /\ m = q[1]
        BY <1>1, TailElement
      <4>2. Remembered(q, selectedPiece[p], 1, m.picked)
        BY <2>2, <4>1 DEF IInv, SelectionKnown
      <4> QED
        BY <4>2 DEF Remembered
    <3>2. gui[p].fsm = "MOVE_COMMIT_WAITING" /\ LegalNow(p, r.from, r.to)
      BY <1>5, <2>2, <3>1 DEF FitChoices
    <3>3. None(gui2net'[p], Chosen)
      BY <1>1, <1>7, <1>8, <2>2
    <3> QED
      BY <1>1, <1>3, <2>2, <3>2, <3>3 DEF FitRequests, LegalNow
  <2>3. CASE m.req = "RestartReq"
    BY <1>3, <2>3 DEF FitRequests
  <2>4. CASE m.req = "PromotionReq"
    BY <1>1, <1>3, <1>5, <2>4 DEF FitChoices, FitRequests
  <2> QED
    BY <2>1, <2>2, <2>3, <2>4
<1>11. Fits(p)'
  <2>1. All(toServer'[p], FitRequests(p)')
    BY <1>2, <1>3, <1>4, <1>9, <1>10, AllAppend
  <2>2. FitChoices(p)' = FitChoices(p)
    BY <1>1 DEF FitChoices, LegalNow
  <2>3. FitPackets(p)' = FitPackets(p) /\ FitMessages(p)' = FitMessages(p)
    BY <1>1 DEF FitPackets, FitMessages
  <2> QED
    BY <1>1, <1>4, <1>5, <2>1, <2>2, <2>3 DEF Fits
<1>12. OneAnswer(p)'
  <2>1. CASE m \in Asked
    <3>1. ~None(q, Asked)
      BY <1>7, <2>1
    <3>2. None(s, Calculate) /\ None(toClient[p], Lists) /\ None(net2gui[p], MoveLists)
      BY <1>6, <3>1 DEF OneAnswer
    <3>3. AtMostOnce(toServer'[p], Calculate) /\ None(Tail(q), Asked)
      BY <1>2, <1>3, <1>7, <2>1, <3>2, NoneIsOnce, OnceAppend
    <3> QED
      BY <1>1, <1>6, <1>7, <3>2, <3>3 DEF OneAnswer
  <2>2. CASE m \notin Asked
    <3>1. r \notin Calculate
      BY <1>8, <2>2
    <3>2. /\ AtMostOnce(toServer'[p], Calculate)
          /\ None(s, Calculate) => None(toServer'[p], Calculate)
      BY <1>2, <1>3, <1>6, <3>1, OnceAppend, NoneAppend DEF OneAnswer
    <3> QED
      BY <1>1, <1>6, <1>7, <3>2 DEF OneAnswer
  <2> QED
    BY <2>1, <2>2
<1>13. Machine(p)'
  <2>1. gui[p].fsm = "PROMOTION_COMMIT_WAITING" => selectedPiece'[p] = selectedPiece[p]
    BY <1>5 DEF FitChoices
  <2> QED
    BY <1>1, <2>1 DEF Local, Machine, CanPromote
<1> QED
  BY <1>11, <1>12, <1>13

LEMMA SendLocal ==
  ASSUME IInv, Converging, ~Race, NEW p \in Color, Local(p), SendStep(p)
  PROVE  Local(p)' /\ (Finished(p)' <=> Finished(p))
<1> DEFINE m == Head(gui2net[p])
<1>1. /\ gui2net[p] # <<>> /\ m \in GuiMessage
      /\ UNCHANGED <<gui, menus, net2gui, toClient, cache, teamColor, session>>
  BY SendShape
<1>2. ~PacketPending(p) /\ ~MessagePending(p)
  BY <1>1, EngagedIsSettled DEF Engaged
<1>3. Fits(p)' /\ OneAnswer(p)' /\ Machine(p)'
  <2>1. CASE m.req = "AvailableMovesReq"
    <3> DEFINE r == [type |-> "CALCULATE_MOVES", pos |-> m.from]
    <3>1. r.type = "CALCULATE_MOVES" /\ r.pos = m.from
      OBVIOUS
    <3>2. toServer'[p] = Append(toServer[p], r) /\ selectedPiece'[p] = m.from
      BY <2>1, SendShape
    <3> HIDE DEF r
    <3> QED
      BY <2>1, <3>1, <3>2, SendFits
  <2>2. CASE m.req = "MoveCommitReq"
    <3> DEFINE r == [type |-> "COMMIT_MOVE", from |-> selectedPiece[p], to |-> m.to]
    <3>1. r.type = "COMMIT_MOVE" /\ r.from = selectedPiece[p] /\ r.to = m.to
      OBVIOUS
    <3>2. toServer'[p] = Append(toServer[p], r) /\ selectedPiece'[p] = m.to
      BY <2>2, SendShape
    <3> HIDE DEF r
    <3> QED
      BY <2>2, <3>1, <3>2, SendFits
  <2>3. CASE m.req = "RestartReq"
    <3> DEFINE r == [type |-> "RESTART"]
    <3>1. r.type = "RESTART"
      OBVIOUS
    <3>2. toServer'[p] = Append(toServer[p], r) /\ selectedPiece'[p] = selectedPiece[p]
      BY <2>3, SendShape
    <3> HIDE DEF r
    <3> QED
      BY <2>3, <3>1, <3>2, SendFits
  <2>4. CASE m.req = "PromotionReq"
    <3> DEFINE r == [type |-> "PROMOTE", piece |-> m.type, pos |-> selectedPiece[p]]
    <3>1. r.type = "PROMOTE" /\ r.pos = selectedPiece[p]
      OBVIOUS
    <3>2. toServer'[p] = Append(toServer[p], r) /\ selectedPiece'[p] = selectedPiece[p]
      BY <2>4, SendShape
    <3> HIDE DEF r
    <3> QED
      BY <2>4, <3>1, <3>2, SendFits
  <2> QED
    BY <1>1, <2>1, <2>2, <2>3, <2>4 DEF GuiMessage
<1>4. PacketsInOrder(p)' /\ MessagesInOrder(p)' /\ ViewKept(p)' /\ NextFits(p)'
  BY <1>1, <1>2 DEF Local, PacketsInOrder, MessagesInOrder, ViewKept, NextFits,
     PacketPending, MessagePending
<1>5. Finished(p)' <=> Finished(p)
  BY <1>1 DEF Finished, PacketPending
<1> QED
  BY <1>3, <1>4, <1>5 DEF Local

-----------------------------------------------------------------------------
(* The server.  A list of moves answers the one question on its way. *)
LEMMA ListLocal ==
  ASSUME IInv, Converging, ~Race, NEW p \in Color, Local(p), ServerStep(p),
         Head(toServer[p]).type = "CALCULATE_MOVES"
  PROVE  Local(p)' /\ (Finished(p)' <=> Finished(p))
<1> DEFINE s == toServer[p]
           r == Head(s)
           q == toClient[p]
           x == [type |-> "CALCULATE_MOVES",
                 moves |-> LegalMoves(session.board, r.pos, session.currentTeam)]
<1>1. PerformAvailableMoves(p)
  BY DEF ServerStep, OnPacket, PerformCommitMove, PerformPromotion, PerformRestart, Requested
<1>2. /\ s \in Seq(Request) /\ s # <<>> /\ toServer'[p] = Tail(s)
      /\ q \in Seq(Response) /\ toClient'[p] = Append(q, x)
      /\ UNCHANGED <<gui, menus, gui2net, net2gui, selectedPiece, cache, teamColor, session>>
  BY <1>1, QueueTypes DEF IInv, PerformAvailableMoves, Requested, ServerStep, guiVars, clientVars
<1>3. /\ r \in Request /\ r \in FitRequests(p) /\ r \in Calculate
      /\ All(Tail(s), FitRequests(p))
  BY <1>2, TailElement, AllTail DEF Local, Fits, Calculate
<1>4. /\ ~PacketPending(p) /\ ~MessagePending(p)
      /\ gui[p].currTeam = session.currentTeam /\ gui[p].myColor = p
      /\ gui[p].fsm = "GAME_OVER" <=> cache[p].flag \in GameOverFlag
      /\ All(q, Lists) /\ All(net2gui[p], MoveLists)
  BY <1>2, EngagedIsSettled DEF Engaged
<1>5. gui[p].fsm = "MOVE_WAITING" /\ r.pos = gui[p].selected /\ r.pos \in Square
  BY <1>3 DEF FitRequests, Request
<1>6. session.currentTeam = p
  BY <1>4, <1>5 DEF Local, Machine
<1>7. x \in Response
  BY <1>5, RulesAssumption, QueueTypes DEF IInv, Response
<1>8. x.type = "CALCULATE_MOVES" /\ x.moves = LegalMoves(session.board, gui[p].selected, p)
  BY <1>5, <1>6
<1> HIDE DEF x
<1>9. x \in Lists /\ x \in FitPackets(p) /\ x \in NotAssigning /\ ~IsUpdate(x)
  BY <1>5, <1>7, <1>8 DEF Lists, FitPackets, NotAssigning, IsUpdate
<1>10. Fits(p)'
  <2>1. FitChoices(p)' = FitChoices(p) /\ FitRequests(p)' = FitRequests(p)
    BY <1>2 DEF FitChoices, FitRequests, LegalNow
  <2>2. FitPackets(p)' = FitPackets(p) /\ FitMessages(p)' = FitMessages(p)
    BY <1>2 DEF FitPackets, FitMessages
  <2>3. All(toClient'[p], FitPackets(p)')
    BY <1>2, <1>7, <1>9, <2>2, AllAppend DEF Local, Fits
  <2> QED
    BY <1>2, <1>3, <2>1, <2>2, <2>3 DEF Local, Fits
<1>11. Machine(p)'
  BY <1>2 DEF Local, Machine, CanPromote
<1>12. OneAnswer(p)'
  <2>1. OneAnswer(p)
    BY DEF Local
  <2>2. ~None(s, Calculate)
    BY <1>2, <1>3, NoneTail
  <2>3. AtMostOnce(Tail(s), Calculate) /\ None(Tail(s), Calculate)
    BY <1>2, <1>3, <2>1, OnceTail DEF OneAnswer
  <2>4. None(gui2net[p], Asked) /\ None(q, Lists) /\ None(net2gui[p], MoveLists)
    BY <2>1, <2>2 DEF OneAnswer
  <2>5. AtMostOnce(toClient'[p], Lists)
    BY <1>2, <1>7, <2>4, NoneIsOnce, OnceAppend
  <2> QED
    BY <1>2, <2>1, <2>3, <2>4, <2>5 DEF OneAnswer
<1>13. PacketsInOrder(p)'
  <2>1. cache[p].flag \notin GameOverFlag
    BY <1>4, <1>5
  <2>2. q # <<>> => Final(q) \in Lists
    <3>1. Len(q) \in Nat /\ (Len(q) = 0 => q = <<>>)
      BY <1>2, EmptySeq
    <3> QED
      BY <1>4, <3>1 DEF All, Final
  <2>3. \A y : y \in Lists => y \notin Overs
    BY DEF Lists, Overs
  <2>4. FollowedBy(toClient'[p], Overs, Restarts)
    BY <1>2, <1>7, <2>2, <2>3, FollowedAppend DEF Local, PacketsInOrder
  <2>5. FollowedBy(toClient'[p], Response, NotAssigning)
    BY <1>2, <1>7, <1>9, FollowedAppend DEF Local, PacketsInOrder
  <2> QED
    BY <1>2, <2>1, <2>4, <2>5 DEF Local, PacketsInOrder
<1>14. PacketPending(p)' = FALSE /\ MessagePending(p)' = FALSE
  <2>1. ASSUME PacketPending(p)' PROVE FALSE
    <3>1. toClient'[p] \in Seq(Response)
      BY <1>2, <1>7, AppendElement
    <3>2. PICK i \in 1 .. Len(toClient'[p]) : IsUpdate(toClient'[p][i])
      BY <2>1, <3>1 DEF PacketPending, IsUpdate
    <3>3. All(toClient'[p], Lists)
      BY <1>2, <1>4, <1>7, <1>9, AllAppend
    <3> QED
      BY <3>2, <3>3 DEF All, Lists, IsUpdate
  <2> QED
    BY <1>2, <1>4, <2>1 DEF MessagePending
<1>15. MessagesInOrder(p)' /\ ViewKept(p)' /\ NextFits(p)'
  BY <1>2, <1>4, <1>14 DEF Local, MessagesInOrder, ViewKept, NextFits
<1>16. Finished(p)' <=> Finished(p)
  BY <1>2, <1>4, <1>14 DEF Finished
<1> QED
  BY <1>10, <1>11, <1>12, <1>13, <1>15, <1>16 DEF Local

(* What the server sends when it changes the session. *)
LEMMA UpdateShape ==
  ASSUME IInv, NEW c \in Color, ServerStep(c), Head(toServer[c]).type # "CALCULATE_MOVES"
  PROVE  LET r == Head(toServer[c]) IN
         /\ toServer[c] # <<>> /\ r \in Request
         /\ toServer' = [toServer EXCEPT ![c] = Tail(@)]
         /\ UNCHANGED <<gui, menus, gui2net, net2gui, selectedPiece, cache, teamColor>>
         /\ \E x \in Response :
              /\ IsUpdate(x) /\ SendBoth(x) /\ x.type = r.type
              /\ x.type = "RESTART" => x.cache.flag = "NONE" /\ session' = NewSession
              /\ x.type = "PROMOTE" => session' = [session EXCEPT !.board = Promote(@, r.pos, r.piece)]
              /\ x.type = "COMMIT_MOVE" =>
                   LET res == CommitMove(session.board, r.from, r.to, session.currentTeam) IN
                   /\ session' = [board |-> res.board,
                                  score |-> Credited(session.score, session.currentTeam, res.score),
                                  currentTeam |-> Opposite(session.currentTeam)]
                   /\ x.cache.board = Get(res.board) /\ x.cache.flag = res.flag
                   /\ x.cache.currentTeam = Opposite(session.currentTeam)
<1> DEFINE r == Head(toServer[c])
<1>1. /\ toServer[c] # <<>> /\ toServer' = [toServer EXCEPT ![c] = Tail(@)]
      /\ UNCHANGED <<gui, menus, gui2net, net2gui, selectedPiece, cache, teamColor>>
      /\ PerformCommitMove(c) \/ PerformPromotion(c) \/ PerformRestart(c)
  BY DEF ServerStep, OnPacket, PerformAvailableMoves, PerformCommitMove, PerformPromotion,
     PerformRestart, Requested, guiVars, clientVars
<1>2. r \in Request /\ session.board \in Board /\ session.currentTeam \in Color
  BY <1>1, QueueTypes, TailElement DEF IInv
<1>3. session' \in [board : Board, score : Score, currentTeam : Color]
  BY ServerType DEF IInv, TypeOK, SessionTypeOK
<1>4. CASE PerformCommitMove(c)
  <2> DEFINE res == CommitMove(session.board, r.from, r.to, session.currentTeam)
             x   == [type |-> "COMMIT_MOVE", cache |-> Snapshot(session', res.flag)]
  <2>1. r.type = "COMMIT_MOVE" /\ r.from \in Square /\ r.to \in Square
    BY <1>2, <1>4 DEF PerformCommitMove, Requested, Request
  <2>2. res.flag \in Flag
    BY <1>2, <2>1, RulesAssumption DEF MoveResult
  <2>3. session' = [board |-> res.board,
                    score |-> Credited(session.score, session.currentTeam, res.score),
                    currentTeam |-> Opposite(session.currentTeam)]
        /\ SendBoth(x)
    BY <1>4 DEF PerformCommitMove
  <2> HIDE DEF res
  <2>4. x \in Response
    BY <1>3, <2>2, SnapshotType DEF Response
  <2>5. /\ x.cache.board = Get(res.board) /\ x.cache.flag = res.flag
        /\ x.cache.currentTeam = Opposite(session.currentTeam)
    BY <2>3 DEF Snapshot
  <2>6. x.type = "COMMIT_MOVE"
    OBVIOUS
  <2> HIDE DEF x
  <2> QED
    BY <1>1, <1>2, <2>1, <2>3, <2>4, <2>5, <2>6 DEF IsUpdate, res
<1>5. CASE PerformPromotion(c)
  <2> DEFINE x == [type |-> "PROMOTE", piece |-> r.piece, pos |-> r.pos]
  <2>1. r.type = "PROMOTE" /\ x \in Response
    BY <1>2, <1>5 DEF PerformPromotion, Requested, Request, Response
  <2>2. session' = [session EXCEPT !.board = Promote(@, r.pos, r.piece)] /\ SendBoth(x)
    BY <1>5 DEF PerformPromotion
  <2>3. x.type = "PROMOTE"
    OBVIOUS
  <2> HIDE DEF x
  <2> QED
    BY <1>1, <1>2, <2>1, <2>2, <2>3 DEF IsUpdate
<1>6. CASE PerformRestart(c)
  <2> DEFINE x == [type |-> "RESTART", cache |-> Snapshot(NewSession, "NONE")]
  <2>1. r.type = "RESTART" /\ session' = NewSession /\ SendBoth(x)
    BY <1>6 DEF PerformRestart, Requested
  <2>2. x \in Response
    BY NewSessionType, SnapshotType DEF Response, Flag
  <2>3. x.type = "RESTART" /\ x.cache.flag = "NONE"
    BY DEF Snapshot
  <2> HIDE DEF x
  <2> QED
    BY <1>1, <1>2, <2>1, <2>2, <2>3 DEF IsUpdate
<1> QED
  BY <1>1, <1>4, <1>5, <1>6

(* The player whose request is carried out is settled, so the game is not  *)
(* over for them, nor for the other one, unless it is restarted.           *)
LEMMA NoUpdateAfterTheEnd ==
  ASSUME IInv, Converging, ~Race, OverForBoth, NEW c \in Color, Local(c), ServerStep(c),
         Head(toServer[c]).type \in {"COMMIT_MOVE", "PROMOTE"}, NEW p \in Color
  PROVE  ~Finished(p)
<1>1. toServer[c] \in Seq(Request) /\ toServer[c] # <<>>
  BY QueueTypes, UpdateShape DEF IInv
<1>2. Head(toServer[c]) \in FitRequests(c)
  BY <1>1, AllTail DEF Local, Fits
<1>3. gui[c].fsm # "GAME_OVER"
  BY <1>2 DEF FitRequests
<1>4. ~PacketPending(c) /\ cache[c].flag \notin GameOverFlag
  BY <1>1, <1>3, EngagedIsSettled DEF Engaged
<1>5. ~Finished(c)
  BY <1>4 DEF Finished
<1> QED
  BY <1>5 DEF OverForBoth, Color

LEMMA SentLocal ==
  ASSUME IInv, IInv', Converging, WaitingInv, ~Race, ~Race', OverForBoth,
         NEW c \in Color, Local(c), ServerStep(c), Head(toServer[c]).type # "CALCULATE_MOVES",
         NEW p \in Color, Local(p)
  PROVE  Local(p)'
<1> DEFINE r == Head(toServer[c])
           q == toClient[p]
<1>0. toClient \in [Color -> Seq(Response)] /\ menus \in [Color -> Nat]
        /\ toServer \in [Color -> Seq(Request)]
  BY QueueTypes DEF IInv
<1>1. /\ toServer[c] # <<>> /\ r \in Request
      /\ toServer' = [toServer EXCEPT ![c] = Tail(@)]
      /\ UNCHANGED <<gui, menus, gui2net, net2gui, selectedPiece, cache, teamColor>>
  BY UpdateShape
<1>2. PICK x \in Response :
        /\ IsUpdate(x) /\ SendBoth(x) /\ x.type = r.type
        /\ x.type = "RESTART" => x.cache.flag = "NONE"
        /\ x.type = "COMMIT_MOVE" =>
             LET res == CommitMove(session.board, r.from, r.to, session.currentTeam) IN
             /\ x.cache.board = Get(res.board) /\ x.cache.flag = res.flag
             /\ x.cache.currentTeam = Opposite(session.currentTeam)
  BY UpdateShape
<1>3. /\ q \in Seq(Response) /\ toClient'[p] = Append(q, x) /\ toClient'[p] # <<>>
      /\ toServer \in [Color -> Seq(Request)] /\ menus[p] \in Nat
  <2>1. q \in Seq(Response)
    BY <1>0
  <2>2. toClient'[p] = Append(q, x)
    BY <1>2 DEF SendBoth
  <2> HIDE DEF q
  <2>3. Append(q, x) # <<>>
    BY <2>1, AppendElement
  <2> QED
    BY <1>0, <2>1, <2>2, <2>3
<1>4. PacketPending(p)' /\ PacketPending(c)'
  BY ServerUpdates
<1>5. /\ gui[p].fsm \notin {"MOVE_WAITING", "MOVE_SELECTION"}
      /\ gui2net[p] = <<>> /\ toServer'[p] = <<>> /\ toServer'[c] = <<>> /\ menus[p] = 0
  <2>1. ~Engaged(p)' /\ ~Engaged(c)'
    BY <1>4 DEF Race
  <2> QED
    BY <1>1, <1>3, <2>1 DEF Engaged
<1>6. /\ None(toClient[p], Lists) /\ None(net2gui[p], MoveLists)
  BY <1>5, OnlyWhileWaiting
<1>7. Fits(p)'
  <2>1. FitPackets(p) \subseteq FitPackets(p)' /\ FitMessages(p) \subseteq FitMessages(p)'
    BY <1>1, <1>5 DEF FitPackets, FitMessages
  <2>2. x \in FitPackets(p)'
    BY <1>2 DEF FitPackets, IsUpdate
  <2>3. All(toClient'[p], FitPackets(p)')
    BY <1>3, <2>1, <2>2, AllAppend DEF Local, Fits
  <2>4. All(net2gui'[p], FitMessages(p)')
    BY <1>1, <2>1 DEF Local, Fits, All
  <2>5. gui2net'[p] = <<>>
    BY <1>1, <1>5
  <2> QED
    BY <1>5, <2>3, <2>4, <2>5, EmptyQueue DEF Fits
<1>8. Machine(p)'
  BY <1>1, <1>5 DEF Local, Machine, CanPromote
<1>9. OneAnswer(p)'
  <2>1. x \notin Lists
    BY <1>2 DEF Lists, IsUpdate
  <2>2. None(toClient'[p], Lists)
    BY <1>3, <1>6, <2>1, NoneAppend
  <2>3. gui2net'[p] = <<>> /\ net2gui'[p] = net2gui[p]
    BY <1>1, <1>5
  <2> QED
    BY <1>5, <1>6, <2>2, <2>3, EmptyQueue, NoneIsOnce DEF OneAnswer
<1>10. Finished(p) => x \in Restarts
  <2> SUFFICES ASSUME Finished(p) PROVE x.type = "RESTART"
    BY <1>2 DEF Restarts
  <2>1. r.type \notin {"COMMIT_MOVE", "PROMOTE"}
    BY NoUpdateAfterTheEnd
  <2> QED
    BY <1>2, <2>1 DEF IsUpdate
<1>11. PacketsInOrder(p)'
  <2>1. PacketsInOrder(p)
    BY DEF Local
  <2>2. q # <<>> => Final(q) \in Response /\ Len(q) \in DOMAIN q
    <3>1. Len(q) \in Nat /\ (Len(q) = 0 => q = <<>>)
      BY <1>3, EmptySeq
    <3> QED
      BY <1>3, <3>1, ElementOfSeq DEF Final
  <2>3. q # <<>> /\ Final(q) \in Overs => Finished(p)
    <3>1. \A y \in Overs : y.type = "COMMIT_MOVE"
      BY DEF Overs
    <3>2. q # <<>> /\ Final(q) \in Overs => PacketPending(p)
      BY <2>2, <3>1 DEF PacketPending, Final
    <3> QED
      BY <3>2 DEF Finished
  <2>4. FollowedBy(toClient'[p], Overs, Restarts)
    BY <1>3, <1>10, <2>1, <2>3, FollowedAppend DEF PacketsInOrder
  <2>5. x \in NotAssigning
    BY <1>2 DEF NotAssigning, IsUpdate
  <2>6. FollowedBy(toClient'[p], Response, NotAssigning)
    BY <1>3, <2>1, <2>5, FollowedAppend DEF PacketsInOrder
  <2>7. /\ q # <<>> => Head(toClient'[p]) = Head(q)
        /\ q = <<>> => Head(toClient'[p]) = x
    BY <1>3
  <2>8. ASSUME cache[p] # Uninitialized, cache[p].flag \in GameOverFlag
        PROVE  Head(toClient'[p]) \in Restarts
    <3>1. CASE q # <<>>
      BY <2>1, <2>7, <2>8, <3>1 DEF PacketsInOrder
    <3>2. CASE q = <<>>
      <4>1. ~PacketPending(p)
        BY <3>2 DEF PacketPending
      <4> QED
        BY <1>10, <2>7, <2>8, <3>2, <4>1 DEF Finished
    <3> QED
      BY <3>1, <3>2
  <2> QED
    BY <1>1, <2>1, <2>4, <2>6, <2>8 DEF PacketsInOrder
<1>12. MessagesInOrder(p)' /\ ViewKept(p)' /\ (MessagePending(p)' <=> MessagePending(p))
  BY <1>1 DEF Local, MessagesInOrder, ViewKept, MessagePending
<1>13. ASSUME MessagePending(p)' PROVE MessageFits(p, Head(net2gui[p]))'
  BY <1>1, <1>12, <1>13 DEF Local, NextFits, MessageFits, CanPromote
<1>14. ASSUME ~MessagePending(p)' PROVE PacketFits(p, Head(toClient[p]))'
  <2>1. CASE PacketPending(p)
    <3>1. q # <<>> /\ Head(toClient'[p]) = Head(q)
      BY <1>3, <2>1 DEF PacketPending
    <3> QED
      BY <1>1, <1>12, <1>14, <2>1, <3>1 DEF Local, NextFits, PacketFits, CanPromote
  <2>2. CASE ~PacketPending(p)
    <3>1. Head(toClient'[p]) = x
      <4>1. q = <<>>
        BY <1>3, <1>6, <2>2, Received, AllAndNone
      <4> QED
        BY <1>3, <4>1
    <3>2. toServer[p] # <<>> => p = c
      BY <1>1, <1>3, <1>5
    <3>3. ASSUME NEW i \in DOMAIN toServer[p] PROVE p = c /\ toServer[p][i] = r
      <4> DEFINE s == toServer[c]
      <4>1. p = c
        BY <1>3, <3>2, <3>3
      <4>2. s \in Seq(Request) /\ Tail(s) = <<>> /\ s # <<>>
        BY <1>1, <1>3, <1>5
      <4>3. Len(s) - 1 = 0 /\ Len(s) \in Nat /\ Head(s) = s[1] /\ DOMAIN s = 1 .. Len(s)
        BY <4>2, TailElement
      <4> QED
        BY <3>3, <4>1, <4>3
    <3>4. CASE gui[p].fsm = "MOVE_COMMIT_WAITING"
      <4>1. OnItsWay(p, "MoveCommitReq", "COMMIT_MOVE")
        BY <3>4 DEF WaitingInv, CommitNotLost
      <4>2. \E i \in DOMAIN toServer[p] : toServer[p][i].type = "COMMIT_MOVE"
        BY <1>5, <1>12, <1>14, <2>2, <4>1 DEF OnItsWay
      <4>3. p = c /\ r.type = "COMMIT_MOVE"
        BY <3>3, <4>2
      <4>4. r \in FitRequests(p)
        BY <1>1, <1>3, <4>3, AllTail DEF Local, Fits
      <4>5. /\ LegalNow(p, r.from, r.to) /\ selectedPiece[p] = r.to
            /\ r.from \in Square /\ r.to \in Square
        BY <1>1, <4>3, <4>4 DEF FitRequests, Request
      <4>6. session.board \in Board
        BY QueueTypes DEF IInv
      <4>7. x.type = "COMMIT_MOVE"
        BY <1>2, <4>3
      <4>8. x.cache.flag = "PROMOTION" => CanPromote(p, x.cache.board, x.cache.currentTeam)
        <5> DEFINE res == CommitMove(session.board, r.from, r.to, p)
        <5>1. session.currentTeam = p
          BY <4>5 DEF LegalNow
        <5>2. /\ x.cache.board = Get(res.board) /\ x.cache.flag = res.flag
              /\ x.cache.currentTeam = Opposite(p)
          BY <1>2, <4>7, <5>1
        <5>3. res.flag = "PROMOTION" => Get(res.board)[r.to] = [type |-> "PAWN", col |-> p]
          BY <4>5, <4>6, PromotionAssumption DEF LegalNow
        <5> HIDE DEF res
        <5> QED
          BY <4>5, <5>2, <5>3 DEF CanPromote
      <4> QED
        BY <1>1, <3>1, <3>4, <4>7, <4>8 DEF PacketFits, CanPromote
    <3>5. CASE gui[p].fsm = "PROMOTION_COMMIT_WAITING"
      <4>1. \E i \in DOMAIN toServer[p] : toServer[p][i].type = "PROMOTE"
        <5>1. ~(menus[p] > 0) /\ ~\E i \in DOMAIN gui2net[p] : gui2net[p][i].req = "PromotionReq"
          BY <1>5
        <5> QED
          BY <1>12, <1>14, <2>2, <3>5, <5>1 DEF WaitingInv, PromotionNotLost
      <4>2. r.type = "PROMOTE"
        BY <3>3, <4>1
      <4> QED
        BY <1>1, <1>2, <3>1, <3>5, <4>2 DEF PacketFits
    <3>6. CASE gui[p].fsm \notin {"MOVE_COMMIT_WAITING", "PROMOTION_COMMIT_WAITING"}
      BY <1>1, <3>6 DEF PacketFits
    <3> QED
      BY <3>4, <3>5, <3>6
  <2> QED
    BY <2>1, <2>2
<1> QED
  BY <1>7, <1>8, <1>9, <1>11, <1>12, <1>13, <1>14 DEF Local, NextFits

(* Both players get the same last update. *)
LEMMA SentToBoth ==
  ASSUME IInv, IInv', NEW c \in Color, ServerStep(c), Head(toServer[c]).type # "CALCULATE_MOVES"
  PROVE  OverForBoth'
<1>1. PICK x \in Response : SendBoth(x)
  BY UpdateShape
<1>2. ASSUME NEW p \in Color PROVE Final(toClient'[p]) = x
  BY <1>1, QueueTypes, AppendElement DEF IInv, SendBoth, Final
<1>3. \A p \in Color : PacketPending(p)'
  BY ServerUpdates
<1>4. \A p \in Color : Finished(p)' <=> x \in Overs
  BY <1>2, <1>3 DEF Finished, Final
<1> QED
  BY <1>4 DEF OverForBoth, Color

-----------------------------------------------------------------------------
(* The receiver.  It passes on a list of moves. *)
LEMMA ReceiveListLocal ==
  ASSUME IInv, IInv', Converging, ~Race, ~Race', NEW p \in Color, Local(p), ReceiveStep(p),
         Head(toClient[p]).type = "CALCULATE_MOVES"
  PROVE  Local(p)' /\ (Finished(p)' <=> Finished(p))
<1> DEFINE q == toClient[p]
           x == Head(q)
           s == net2gui[p]
           m == [msg |-> "Moves", moves |-> x.moves]
<1>1. /\ q # <<>> /\ toClient'[p] = Tail(q) /\ x \in Response
      /\ UNCHANGED <<gui, menus, gui2net, toServer, selectedPiece, session>>
      /\ cache'[p] = cache[p] /\ s' = Append(s, m) /\ teamColor' = teamColor
  BY ReceiveShape DEF Applied
<1>2. q \in Seq(Response) /\ s \in Seq(NetworkMessage)
  BY QueueTypes DEF IInv
<1>3. x \in Lists /\ x \in FitPackets(p) /\ All(Tail(q), FitPackets(p))
  BY <1>1, <1>2, AllTail DEF Local, Fits, Lists
<1>4. gui[p].fsm = "MOVE_WAITING" /\ x.moves = LegalMoves(session.board, gui[p].selected, p)
  BY <1>3 DEF FitPackets, Lists
<1>5. /\ ~PacketPending(p) /\ ~MessagePending(p)
      /\ gui[p].fsm = "GAME_OVER" <=> cache[p].flag \in GameOverFlag
      /\ All(s, MoveLists)
  BY <1>4, EngagedIsSettled DEF Engaged
<1>6. ~PacketPending(p)' /\ ~MessagePending(p)'
  BY <1>1, <1>4 DEF Race, Engaged
<1>7. m \in MoveLists /\ m \in NetworkMessage /\ m \in FitMessages(p)
  <2>1. x.moves \in SUBSET Position
    BY <1>1, <1>3 DEF Response, Lists
  <2>2. m \in NetworkMessage
    BY <2>1 DEF NetworkMessage
  <2>3. m.msg = "Moves" /\ m.moves = x.moves
    OBVIOUS
  <2> HIDE DEF m
  <2> QED
    BY <1>4, <2>2, <2>3 DEF MoveLists, FitMessages
<1> HIDE DEF m
<1>8. Fits(p)'
  <2>1. FitChoices(p)' = FitChoices(p) /\ FitRequests(p)' = FitRequests(p)
    BY <1>1 DEF FitChoices, FitRequests, LegalNow
  <2>2. FitPackets(p)' = FitPackets(p) /\ FitMessages(p)' = FitMessages(p)
    BY <1>1 DEF FitPackets, FitMessages
  <2>3. All(s', FitMessages(p)')
    BY <1>1, <1>2, <1>7, <2>2, AllAppend DEF Local, Fits
  <2> QED
    BY <1>1, <1>3, <2>1, <2>2, <2>3 DEF Local, Fits
<1>9. Machine(p)'
  BY <1>1 DEF Local, Machine, CanPromote
<1>10. OneAnswer(p)'
  <2>1. OneAnswer(p)
    BY DEF Local
  <2>2. ~None(q, Lists)
    BY <1>1, <1>2, <1>3, NoneTail
  <2>3. AtMostOnce(Tail(q), Lists) /\ None(Tail(q), Lists)
    BY <1>1, <1>2, <1>3, <2>1, OnceTail DEF OneAnswer
  <2>4. None(gui2net[p], Asked) /\ None(toServer[p], Calculate) /\ None(s, MoveLists)
    BY <2>1, <2>2 DEF OneAnswer
  <2>5. AtMostOnce(s', MoveLists)
    BY <1>1, <1>2, <1>7, <2>4, NoneIsOnce, OnceAppend
  <2> QED
    BY <1>1, <2>1, <2>3, <2>4, <2>5 DEF OneAnswer
<1>11. PacketsInOrder(p)'
  <2>1. FollowedBy(Tail(q), Overs, Restarts) /\ FollowedBy(Tail(q), Response, NotAssigning)
    BY <1>1, <1>2, FollowedTail DEF Local, PacketsInOrder
  <2>2. cache[p].flag \notin GameOverFlag
    BY <1>4, <1>5
  <2> QED
    BY <1>1, <2>1, <2>2 DEF Local, PacketsInOrder
<1>12. MessagesInOrder(p)'
  <2>1. s # <<>> => Final(s) \in MoveLists
    <3>1. Len(s) \in Nat /\ (Len(s) = 0 => s = <<>>)
      BY <1>2, EmptySeq
    <3> QED
      BY <1>5, <3>1 DEF All, Final
  <2>2. \A y : y \in MoveLists => y \notin OverMessages
    BY DEF MoveLists, OverMessages
  <2>3. FollowedBy(s', OverMessages, RestartMessages)
    BY <1>1, <1>2, <1>7, <2>1, <2>2, FollowedAppend DEF Local, MessagesInOrder
  <2> QED
    BY <1>6, <2>3 DEF MessagesInOrder
<1>13. ViewKept(p)' /\ NextFits(p)'
  BY <1>1, <1>5, <1>6 DEF Local, ViewKept, NextFits
<1>14. Finished(p)' <=> Finished(p)
  BY <1>1, <1>5, <1>6 DEF Finished
<1> QED
  BY <1>8, <1>9, <1>10, <1>11, <1>12, <1>13, <1>14 DEF Local

(* It takes down its colour, before it has a copy of the game. *)
LEMMA AssignLocal ==
  ASSUME IInv, IInv', NEW p \in Color, Local(p), ReceiveStep(p),
         Head(toClient[p]).type = "ASSIGN_COLOR"
  PROVE  Local(p)' /\ (Finished(p)' <=> Finished(p))
<1> DEFINE q == toClient[p]
           x == Head(q)
<1>1. /\ q # <<>> /\ toClient'[p] = Tail(q) /\ x \in Response /\ x = q[1]
      /\ UNCHANGED <<gui, menus, gui2net, toServer, selectedPiece, session>>
      /\ cache'[p] = cache[p] /\ net2gui'[p] = net2gui[p] /\ teamColor'[p] = x.color
  BY ReceiveShape DEF Applied
<1>2. q \in Seq(Response)
  BY QueueTypes DEF IInv
<1>3. All(Tail(q), FitPackets(p)) /\ x.color = p /\ cache[p] = Uninitialized
  <2>1. All(q, FitPackets(p))
    BY DEF Local, Fits
  <2>2. All(Tail(q), FitPackets(p)) /\ x \in FitPackets(p)
    BY <1>1, <1>2, <2>1, AllTail
  <2> QED
    BY <2>2 DEF FitPackets
<1>4. Fits(p)'
  <2>1. FitChoices(p)' = FitChoices(p) /\ FitRequests(p)' = FitRequests(p)
    BY <1>1 DEF FitChoices, FitRequests, LegalNow
  <2>2. FitPackets(p)' = FitPackets(p) /\ FitMessages(p)' = FitMessages(p)
    BY <1>1 DEF FitPackets, FitMessages
  <2> QED
    BY <1>1, <1>3, <2>1, <2>2 DEF Local, Fits
<1>5. Machine(p)'
  BY <1>1 DEF Local, Machine, CanPromote
<1>6. OneAnswer(p)'
  <2>1. /\ AtMostOnce(q, Lists) => AtMostOnce(Tail(q), Lists)
        /\ None(q, Lists) => None(Tail(q), Lists)
    BY <1>1, <1>2, OnceTail, NoneTail
  <2> QED
    BY <1>1, <2>1 DEF Local, OneAnswer
<1>7. PacketsInOrder(p)'
  <2>1. FollowedBy(Tail(q), Overs, Restarts) /\ FollowedBy(Tail(q), Response, NotAssigning)
    BY <1>1, <1>2, FollowedTail DEF Local, PacketsInOrder
  <2> QED
    BY <1>1, <1>3, <2>1 DEF PacketsInOrder
<1>8. PacketPending(p)' <=> PacketPending(p)
  <2>1. /\ Len(q) \in Nat \ {0} /\ DOMAIN q = 1 .. Len(q) /\ DOMAIN Tail(q) = 1 .. Len(q) - 1
        /\ \A i \in 1 .. Len(q) - 1 : Tail(q)[i] = q[i + 1]
    BY <1>1, <1>2, TailElement
  <2>2. PacketPending(p)' <=> \E i \in 1 .. Len(q) - 1 : IsUpdate(q[i + 1])
    BY <1>1, <2>1 DEF PacketPending, IsUpdate
  <2>3. PacketPending(p) <=> \E i \in 1 .. Len(q) : IsUpdate(q[i])
    BY <2>1 DEF PacketPending, IsUpdate
  <2>4. ~IsUpdate(q[1])
    BY <1>1 DEF IsUpdate
  <2>5. ASSUME NEW i \in 1 .. Len(q), IsUpdate(q[i])
        PROVE  \E j \in 1 .. Len(q) - 1 : IsUpdate(q[j + 1])
    <3>1. i - 1 \in 1 .. Len(q) - 1 /\ (i - 1) + 1 = i
      BY <2>1, <2>4, <2>5
    <3> DEFINE j == i - 1
    <3>2. j \in 1 .. Len(q) - 1 /\ IsUpdate(q[j + 1])
      BY <2>5, <3>1
    <3> HIDE DEF j
    <3> QED
      BY <3>2
  <2>6. ASSUME NEW i \in 1 .. Len(q) - 1, IsUpdate(q[i + 1])
        PROVE  \E j \in 1 .. Len(q) : IsUpdate(q[j])
    <3>1. i + 1 \in 1 .. Len(q)
      BY <2>1
    <3> QED
      BY <2>6, <3>1
  <2> QED
    BY <2>2, <2>3, <2>5, <2>6
<1>9. MessagesInOrder(p)' /\ ViewKept(p)' /\ (MessagePending(p)' <=> MessagePending(p))
  BY <1>1, <1>3 DEF Local, MessagesInOrder, ViewKept, MessagePending
<1>10. NextFits(p)'
  <2>1. ASSUME MessagePending(p)' PROVE MessageFits(p, Head(net2gui[p]))'
    BY <1>1, <1>9, <2>1 DEF Local, NextFits, MessageFits, CanPromote
  <2>2. ASSUME ~MessagePending(p)', PacketPending(p)' PROVE PacketFits(p, Head(toClient[p]))'
    <3>1. gui[p].fsm \notin {"MOVE_COMMIT_WAITING", "PROMOTION_COMMIT_WAITING"}
      BY <1>8, <1>9, <2>2 DEF Local, NextFits, PacketFits
    <3> QED
      BY <1>1, <3>1 DEF PacketFits
  <2> QED
    BY <2>1, <2>2 DEF NextFits
<1>11. Finished(p)' <=> Finished(p)
  <2>1. PacketPending(p)' => Tail(q) # <<>>
    BY <1>1 DEF PacketPending
  <2>2. PacketPending(p)' => Final(toClient'[p]) = Final(q)
    BY <1>1, <1>2, <2>1, FollowedTail DEF Local, PacketsInOrder
  <2> QED
    BY <1>1, <1>8, <2>2 DEF Finished, Final
<1> QED
  BY <1>4, <1>5, <1>6, <1>7, <1>9, <1>10, <1>11 DEF Local

(* It applies an update to its copy, and posts the copy.                   *)
LEMMA ReceiveUpdateShape ==
  ASSUME IInv, NEW p \in Color, Local(p), ReceiveStep(p), IsUpdate(Head(toClient[p]))
  PROVE  LET x     == Head(toClient[p])
             state == Applied(cache[p], x)
         IN
         /\ state \in GameStateCache
         /\ x.type \in {"COMMIT_MOVE", "RESTART"} => state = x.cache
         /\ x.type = "RESTART" => state.flag = "NONE"
         /\ x.type = "PROMOTE" =>
              /\ cache[p] \in GameStateCache /\ cache[p].flag \notin GameOverFlag
              /\ state.flag = cache[p].flag /\ state.currentTeam = cache[p].currentTeam
         /\ cache[p] # Uninitialized \/ x.type = "RESTART"
         /\ \E m \in NetworkMessage :
              /\ net2gui'[p] = Append(net2gui[p], m)
              /\ m.msg = IF x.type = "RESTART" THEN "RestartMsg" ELSE "StateUpdateMsg"
              /\ m.cache = state /\ m.myColor = p
         /\ teamColor'[p] = p
<1> DEFINE q     == toClient[p]
           x     == Head(q)
           state == Applied(cache[p], x)
<1>1. /\ q # <<>> /\ x \in Response /\ x = q[1] /\ q \in Seq(Response)
      /\ cache[p] \in GameStateCache \cup {Uninitialized}
  BY ReceiveShape, QueueTypes DEF IInv
<1>2. x \in FitPackets(p)
  BY <1>1, AllTail DEF Local, Fits
<1>3. x.type # "ASSIGN_COLOR" /\ x.type # "CALCULATE_MOVES"
  BY DEF IsUpdate
<1>4. /\ teamColor[p] \in Color
      /\ cache[p] \in GameStateCache \/ x.type = "RESTART"
  BY <1>1, <1>3 DEF IInv, StartupOrder
<1>5. teamColor[p] = p
  BY <1>4, UninitializedAssumption DEF Local, PacketsInOrder
<1>6. state \in GameStateCache
  BY <1>1, <1>4, AppliedType
<1>7. x.type \in {"COMMIT_MOVE", "RESTART"} => state = x.cache
  BY DEF Applied
<1>8. x.type = "RESTART" => state.flag = "NONE"
  BY <1>2, <1>7 DEF FitPackets
<1>9. x.type = "PROMOTE" =>
        /\ cache[p] \in GameStateCache /\ cache[p] # Uninitialized
        /\ cache[p].flag \notin GameOverFlag
        /\ state.flag = cache[p].flag /\ state.currentTeam = cache[p].currentTeam
  <2> SUFFICES ASSUME x.type = "PROMOTE"
               PROVE  /\ cache[p] \in GameStateCache /\ cache[p] # Uninitialized
                      /\ cache[p].flag \notin GameOverFlag
                      /\ state.flag = cache[p].flag /\ state.currentTeam = cache[p].currentTeam
    OBVIOUS
  <2>1. cache[p] \in GameStateCache /\ cache[p] # Uninitialized
    BY <1>4, UninitializedAssumption
  <2>2. cache[p].flag \notin GameOverFlag
    BY <1>1, <2>1 DEF Local, PacketsInOrder, Restarts
  <2> DEFINE b == SetType(cache[p].board, x.pos, x.piece)
  <2>3. state = [cache[p] EXCEPT !.board = b]
    BY DEF Applied
  <2> HIDE DEF b, state
  <2>4. state.flag = cache[p].flag /\ state.currentTeam = cache[p].currentTeam
    BY <2>1, <2>3 DEF GameStateCache
  <2> QED
    BY <2>1, <2>2, <2>4
<1>10. cache[p] # Uninitialized \/ x.type = "RESTART"
  BY <1>4, UninitializedAssumption
<1> HIDE DEF state
<1>11. \E m \in NetworkMessage :
         /\ net2gui'[p] = Append(net2gui[p], m)
         /\ m.msg = IF x.type = "RESTART" THEN "RestartMsg" ELSE "StateUpdateMsg"
         /\ m.cache = state /\ m.myColor = p
  <2> DEFINE msg == IF x.type = "RESTART" THEN "RestartMsg" ELSE "StateUpdateMsg"
             m   == [msg |-> msg, cache |-> state, myColor |-> teamColor[p]]
  <2>1. net2gui'[p] = Append(net2gui[p], m)
    <3>1. CASE x.type = "RESTART"
      BY <3>1, ReceiveShape DEF state
    <3>2. CASE x.type \in {"COMMIT_MOVE", "PROMOTE"}
      BY <3>2, ReceiveShape DEF state
    <3> QED
      BY <3>1, <3>2 DEF IsUpdate
  <2>2. msg \in {"StateUpdateMsg", "RestartMsg"}
    OBVIOUS
  <2>3. m.msg = msg /\ m.cache = state /\ m.myColor = p
    BY <1>5
  <2>4. m \in NetworkMessage
    <3> HIDE DEF msg
    <3> QED
      BY <1>4, <1>6, <2>2 DEF NetworkMessage
  <2> HIDE DEF m
  <2> QED
    BY <2>1, <2>3, <2>4
<1>12. teamColor'[p] = p
  BY <1>3, <1>5, ReceiveShape
<1> QED
  BY <1>6, <1>7, <1>8, <1>9, <1>10, <1>11, <1>12 DEF state

LEMMA ReceiveUpdateLocal ==
  ASSUME IInv, IInv', Converging, ~Race, ~Race', NEW p \in Color, Local(p), ReceiveStep(p),
         IsUpdate(Head(toClient[p]))
  PROVE  Local(p)' /\ (Finished(p)' <=> Finished(p))
<1> DEFINE q == toClient[p]
           x == Head(q)
           s == net2gui[p]
           state == cache'[p]
<1>1. /\ q # <<>> /\ toClient'[p] = Tail(q) /\ x \in Response /\ x = q[1]
      /\ UNCHANGED <<gui, menus, gui2net, toServer, selectedPiece, session>>
      /\ cache'[p] = Applied(cache[p], x)
  BY ReceiveShape
<1>2. q \in Seq(Response) /\ s \in Seq(NetworkMessage) /\ Tail(q) \in Seq(Response)
  BY <1>1, QueueTypes, TailElement DEF IInv
<1>3. /\ state \in GameStateCache /\ state # Uninitialized
      /\ x.type \in {"COMMIT_MOVE", "RESTART"} => state = x.cache
      /\ x.type = "RESTART" => state.flag = "NONE"
      /\ x.type = "PROMOTE" =>
           /\ cache[p] \in GameStateCache /\ cache[p].flag \notin GameOverFlag
           /\ state.flag = cache[p].flag /\ state.currentTeam = cache[p].currentTeam
      /\ cache[p] # Uninitialized \/ x.type = "RESTART"
      /\ teamColor'[p] = p
  BY <1>1, ReceiveUpdateShape, UninitializedAssumption
<1>4. PICK m \in NetworkMessage :
        /\ s' = Append(s, m)
        /\ m.msg = IF x.type = "RESTART" THEN "RestartMsg" ELSE "StateUpdateMsg"
        /\ m.cache = state /\ m.myColor = p
  BY <1>1, ReceiveUpdateShape
<1>5. PacketPending(p)
  <2>1. 1 \in DOMAIN q
    BY <1>1, <1>2, TailElement
  <2> QED
    BY <1>1, <2>1 DEF PacketPending, IsUpdate
<1>6. /\ gui[p].fsm \in {"IDLE", "MOVE_COMMIT_WAITING", "PROMOTION_COMMIT_WAITING", "GAME_OVER"}
      /\ gui2net[p] = <<>> /\ toServer[p] = <<>>
      /\ None(q, Lists) /\ None(s, MoveLists)
  BY <1>5, Behind
<1>7. m \notin MoveLists /\ m \in FitMessages(p)
  <2>1. m.msg # "Moves" /\ (m.msg = "RestartMsg" <=> x.type = "RESTART")
    BY <1>4
  <2> QED
    BY <1>3, <1>4, <2>1 DEF MoveLists, FitMessages
<1>8. All(Tail(q), FitPackets(p)) /\ All(Tail(q), NotAssigning)
  <2>1. All(q, FitPackets(p)) /\ FollowedBy(q, Response, NotAssigning)
    BY DEF Local, Fits, PacketsInOrder
  <2> QED
    BY <1>1, <1>2, <2>1, AllTail, FollowersAll
<1>9. Fits(p)'
  <2>1. FitMessages(p)' = FitMessages(p)
    BY <1>1 DEF FitMessages
  <2>2. FitPackets(p) \cap NotAssigning \subseteq FitPackets(p)'
    BY <1>1 DEF FitPackets, NotAssigning
  <2>3. All(toClient'[p], FitPackets(p)')
    BY <1>1, <1>8, <2>2 DEF All
  <2>4. All(s', FitMessages(p)')
    BY <1>2, <1>4, <1>7, <2>1, AllAppend DEF Local, Fits
  <2>5. gui2net'[p] = <<>> /\ toServer'[p] = <<>>
    BY <1>1, <1>6
  <2> QED
    BY <2>3, <2>4, <2>5, EmptyQueue DEF Fits
<1>10. Machine(p)'
  BY <1>1 DEF Local, Machine, CanPromote
<1>11. OneAnswer(p)'
  <2>1. None(Tail(q), Lists) /\ None(s', MoveLists)
    BY <1>1, <1>2, <1>4, <1>6, <1>7, NoneTail, NoneAppend
  <2>2. gui2net'[p] = <<>> /\ toServer'[p] = <<>>
    BY <1>1, <1>6
  <2> QED
    BY <1>1, <2>1, <2>2, EmptyQueue, NoneIsOnce DEF OneAnswer
<1>12. state.flag \in GameOverFlag => x \in Overs
  <2>1. "NONE" \notin GameOverFlag
    BY DEF GameOverFlag
  <2> QED
    BY <1>1, <1>3, <2>1 DEF Overs, IsUpdate
<1>13. PacketsInOrder(p)'
  <2>1. /\ FollowedBy(Tail(q), Overs, Restarts) /\ FollowedBy(Tail(q), Response, NotAssigning)
        /\ x \in Overs /\ Tail(q) # <<>> => Head(Tail(q)) \in Restarts
    BY <1>1, <1>2, FollowedTail DEF Local, PacketsInOrder
  <2> QED
    BY <1>1, <1>3, <1>12, <2>1 DEF PacketsInOrder
<1>14. MessagePending(p)' /\ Final(s') = m /\ s' # <<>>
  <2>1. /\ Len(s) \in Nat /\ Len(s') = Len(s) + 1 /\ DOMAIN s' = 1 .. Len(s) + 1
        /\ s'[Len(s) + 1] = m /\ s' # <<>>
    BY <1>2, <1>4, AppendElement
  <2>2. m.msg \in {"StateUpdateMsg", "RestartMsg"}
    BY <1>4
  <2> DEFINE n == Len(s) + 1
  <2>3. n \in DOMAIN s' /\ s'[n] = m /\ n = Len(s')
    BY <2>1
  <2> HIDE DEF n
  <2> QED
    BY <2>1, <2>2, <2>3 DEF MessagePending, Final
<1>15. MessagesInOrder(p)'
  <2>1. s # <<>> /\ Final(s) \in OverMessages => m \in RestartMessages
    <3> SUFFICES ASSUME s # <<>>, Final(s) \in OverMessages PROVE x.type = "RESTART"
      BY <1>4 DEF RestartMessages
    <3>1. Len(s) \in DOMAIN s
      <4>1. Len(s) \in Nat /\ (Len(s) = 0 => s = <<>>)
        BY <1>2, EmptySeq
      <4> QED
        BY <1>2, <4>1
    <3>2. MessagePending(p)
      BY <3>1 DEF OverMessages, Final, MessagePending
    <3>3. Final(s).cache = cache[p] /\ Final(s).cache.flag \in GameOverFlag
          /\ Final(s).cache \in GameStateCache
      BY <3>2 DEF Local, MessagesInOrder, OverMessages, NetworkMessage
    <3>4. x \in Restarts
      BY <1>1, <3>3, UninitializedAssumption DEF Local, PacketsInOrder
    <3> QED
      BY <3>4 DEF Restarts
  <2>2. FollowedBy(s', OverMessages, RestartMessages)
    BY <1>2, <1>4, <2>1, FollowedAppend DEF Local, MessagesInOrder
  <2>3. m.msg # "Moves"
    BY <1>4
  <2> QED
    BY <1>4, <1>14, <2>2, <2>3 DEF MessagesInOrder, Final
<1>16. NextFits(p)'
  <2>1. MessageFits(p, Head(s))'
    <3>1. CASE MessagePending(p)
      <4>1. s # <<>>
        BY <3>1 DEF MessagePending
      <4>2. Head(s') = Head(s)
        BY <1>2, <1>4, <4>1
      <4> QED
        BY <1>1, <3>1, <4>2 DEF Local, NextFits, MessageFits, CanPromote
    <3>2. CASE ~MessagePending(p)
      <4>1. s = <<>>
        <5>1. All(s, MoveLists)
          BY <1>2, <3>2 DEF MessagePending, All, MoveLists, NetworkMessage
        <5> QED
          BY <1>2, <1>6, <5>1, AllAndNone
      <4>2. Head(s') = m
        BY <1>4, <4>1
      <4>3. PacketFits(p, x)
        BY <1>5, <3>2 DEF Local, NextFits
      <4>4. ViewKept(p)
        BY DEF Local
      <4>5. CASE gui[p].fsm = "MOVE_COMMIT_WAITING"
        <5>1. x.type = "COMMIT_MOVE" /\ state = x.cache
          BY <1>3, <4>3, <4>5 DEF PacketFits
        <5> QED
          BY <1>1, <1>4, <4>2, <4>3, <4>5, <5>1 DEF PacketFits, MessageFits, CanPromote
      <4>6. CASE gui[p].fsm = "PROMOTION_COMMIT_WAITING"
        <5>1. x.type = "PROMOTE"
          BY <4>3, <4>6 DEF PacketFits
        <5>2. /\ state.flag \notin GameOverFlag
              /\ state.currentTeam = gui[p].currTeam
          BY <1>3, <3>2, <4>4, <5>1, UninitializedAssumption DEF ViewKept
        <5> QED
          BY <1>1, <1>4, <4>2, <4>6, <5>1, <5>2 DEF MessageFits
      <4>7. CASE gui[p].fsm = "GAME_OVER"
        <5>1. x.type = "RESTART"
          <6>1. CASE cache[p] # Uninitialized
            <7>1. cache[p].flag \in GameOverFlag
              BY <3>2, <4>4, <4>7, <6>1 DEF ViewKept
            <7> QED
              BY <1>1, <6>1, <7>1 DEF Local, PacketsInOrder, Restarts
          <6> QED
            BY <1>3, <6>1
        <5> QED
          BY <1>1, <1>4, <4>2, <4>7, <5>1 DEF MessageFits
      <4>8. CASE gui[p].fsm = "IDLE"
        BY <1>1, <4>8 DEF MessageFits
      <4> QED
        BY <1>6, <4>5, <4>6, <4>7, <4>8
    <3> QED
      BY <3>1, <3>2
  <2> QED
    BY <1>14, <2>1 DEF NextFits
<1>17. ViewKept(p)'
  BY <1>14 DEF ViewKept
<1>18. Finished(p)' <=> Finished(p)
  <2>1. CASE Tail(q) = <<>>
    <3>1. ~PacketPending(p)'
      BY <1>1, <2>1 DEF PacketPending
    <3>2. Final(q) = x
      <4>1. Len(q) \in Nat \ {0} /\ Len(Tail(q)) = Len(q) - 1
        BY <1>1, <1>2, TailElement
      <4> DEFINE t == Tail(q)
      <4>2. t = <<>> /\ Len(t) = Len(q) - 1 /\ Len(q) \in Nat
        BY <2>1, <4>1
      <4> HIDE DEF t
      <4>3. Len(q) = 1
        BY <4>2
      <4> QED
        BY <1>1, <4>3 DEF Final
    <3>3. x \in Overs => state.flag \in GameOverFlag
      BY <1>3 DEF Overs
    <3> QED
      BY <1>3, <1>5, <1>12, <3>1, <3>2, <3>3 DEF Finished
  <2>2. CASE Tail(q) # <<>>
    <3>1. Final(Tail(q)) = Final(q)
      BY <1>1, <1>2, <2>2, FollowedTail DEF Local, PacketsInOrder
    <3>2. PacketPending(p)'
      <4> DEFINE t == Tail(q)
      <4>1. t \in Seq(Response) /\ 1 \in DOMAIN t /\ 1 \in 1 .. Len(t) /\ t[1] \in Response
        <5>1. t \in Seq(Response) /\ t # <<>>
          BY <1>2, <2>2
        <5> HIDE DEF t
        <5> QED
          BY <5>1, TailElement
      <4>2. None(t, Lists)
        BY <1>1, <1>2, <1>6, NoneTail
      <4>3. t[1] \notin Lists /\ t[1] \in NotAssigning
        BY <1>8, <4>1, <4>2 DEF All, None
      <4>4. IsUpdate(t[1])
        BY <4>1, <4>3 DEF Response, Lists, NotAssigning, IsUpdate
      <4>5. t = toClient'[p]
        BY <1>1
      <4> HIDE DEF t
      <4> QED
        BY <4>1, <4>4, <4>5 DEF PacketPending, IsUpdate
    <3> QED
      BY <1>1, <1>5, <3>1, <3>2 DEF Finished, Final
  <2> QED
    BY <2>1, <2>2
<1> QED
  BY <1>9, <1>10, <1>11, <1>13, <1>15, <1>16, <1>17, <1>18 DEF Local

LEMMA ReceiveLocal ==
  ASSUME IInv, IInv', Converging, ~Race, ~Race', NEW p \in Color, Local(p), ReceiveStep(p)
  PROVE  Local(p)' /\ (Finished(p)' <=> Finished(p))
<1>1. Head(toClient[p]) \in Response
  BY ReceiveShape
<1> QED
  BY <1>1, ReceiveListLocal, AssignLocal, ReceiveUpdateLocal DEF Response, IsUpdate

-----------------------------------------------------------------------------
(* The GUI.  A list of moves ends the wait for it: nothing else was on its *)
(* way.                                                                    *)
LEMMA MovesLocal ==
  ASSUME IInv, Converging, ~Race, NEW p \in Color, Local(p), OnMoves(p), UpdateStep(p)
  PROVE  Local(p)' /\ (Finished(p)' <=> Finished(p))
<1> DEFINE s == net2gui[p]
           m == Head(s)
<1>1. gui \in [Color -> Gui] /\ net2gui \in [Color -> Seq(NetworkMessage)] /\ s \in Seq(NetworkMessage)
  BY QueueTypes DEF IInv
<1>2. /\ s # <<>> /\ m.msg = "Moves" /\ net2gui'[p] = Tail(s)
      /\ UNCHANGED <<menus, gui2net, toServer, toClient, selectedPiece, cache, teamColor, session>>
  BY <1>1 DEF OnMoves, Arrives, UpdateStep, clientVars, wireVars
<1>3. m \in MoveLists /\ m \in FitMessages(p) /\ All(Tail(s), FitMessages(p))
  <2>1. m \in NetworkMessage
    BY <1>1, <1>2, TailElement
  <2> QED
    BY <1>1, <1>2, <2>1, AllTail DEF Local, Fits, MoveLists
<1>4. gui[p].fsm = "MOVE_WAITING" /\ m.moves = LegalMoves(session.board, gui[p].selected, p)
  BY <1>2, <1>3 DEF FitMessages
<1>5. /\ ~PacketPending(p) /\ ~MessagePending(p) /\ gui[p].myColor = p
      /\ gui[p].fsm = "GAME_OVER" <=> cache[p].flag \in GameOverFlag
      /\ All(s, MoveLists)
  BY <1>4, EngagedIsSettled DEF Engaged
<1>6. /\ gui'[p].board = gui[p].board /\ gui'[p].currTeam = gui[p].currTeam
      /\ gui'[p].myColor = gui[p].myColor /\ gui'[p].selected = gui[p].selected
      /\ \/ gui'[p].fsm = "IDLE"
         \/ gui'[p].fsm = "MOVE_SELECTION" /\ gui'[p].moves = m.moves
  BY <1>1, <1>4 DEF OnMoves, Gui
<1>7. OneAnswer(p)
  BY DEF Local
<1>8. None(gui2net[p], Asked) /\ None(toServer[p], Calculate) /\ None(toClient[p], Lists)
  <2>1. ~None(s, MoveLists)
    BY <1>1, <1>2, <1>3, NoneTail
  <2> QED
    BY <1>7, <2>1 DEF OneAnswer
<1>9. None(Tail(s), MoveLists)
  BY <1>1, <1>2, <1>3, <1>7, OnceTail DEF OneAnswer
<1>10. Fits(p)'
  <2>1. /\ All(gui2net[p], FitChoices(p)) /\ All(toServer[p], FitRequests(p))
        /\ All(toClient[p], FitPackets(p))
    BY DEF Local, Fits
  <2>2. FitChoices(p) \ Asked \subseteq FitChoices(p)'
    BY <1>4 DEF FitChoices, Asked
  <2>3. FitRequests(p) \ Calculate \subseteq FitRequests(p)'
    BY <1>4 DEF FitRequests, Calculate
  <2>4. FitPackets(p) \ Lists \subseteq FitPackets(p)'
    BY <1>2 DEF FitPackets, Lists
  <2>5. FitMessages(p) \ MoveLists \subseteq FitMessages(p)'
    BY <1>2 DEF FitMessages, MoveLists
  <2>6. /\ All(gui2net[p], FitChoices(p)') /\ All(toServer[p], FitRequests(p)')
        /\ All(toClient[p], FitPackets(p)') /\ All(Tail(s), FitMessages(p)')
    BY <1>3, <1>8, <1>9, <2>1, <2>2, <2>3, <2>4, <2>5, AllExcept
  <2> QED
    BY <1>2, <2>6 DEF Fits
<1>11. Machine(p)'
  BY <1>2, <1>4, <1>5, <1>6 DEF Local, Machine
<1>12. OneAnswer(p)'
  BY <1>2, <1>7, <1>8, <1>9, NoneIsOnce DEF OneAnswer
<1>13. ~PacketPending(p)' /\ ~MessagePending(p)'
  <2>1. All(Tail(s), MoveLists)
    BY <1>1, <1>2, <1>5, AllTail
  <2>2. Tail(s) = <<>>
    <3>1. Tail(s) \in Seq(NetworkMessage)
      BY <1>1, <1>2, TailElement
    <3> QED
      BY <1>9, <2>1, <3>1, AllAndNone
  <2>3. net2gui'[p] = <<>>
    BY <1>2, <2>2
  <2>4. DOMAIN (net2gui'[p]) = {}
    BY <2>3
  <2>5. ~MessagePending(p)'
    BY <2>4 DEF MessagePending
  <2>6. ~PacketPending(p)'
    BY <1>2, <1>5 DEF PacketPending
  <2> QED
    BY <2>5, <2>6
<1>14. MessagesInOrder(p)'
  <2>1. FollowedBy(Tail(s), OverMessages, RestartMessages)
    BY <1>1, <1>2, FollowedTail DEF Local, MessagesInOrder
  <2> QED
    BY <1>2, <1>13, <2>1 DEF MessagesInOrder
<1>15. PacketsInOrder(p)' /\ ViewKept(p)' /\ NextFits(p)'
  BY <1>2, <1>4, <1>5, <1>6, <1>13 DEF Local, PacketsInOrder, ViewKept, NextFits
<1>16. Finished(p)' <=> Finished(p)
  BY <1>2 DEF Finished, PacketPending
<1> QED
  BY <1>10, <1>11, <1>12, <1>14, <1>15, <1>16 DEF Local

(* The GUI takes over an update.  It shows m from now on, and if it was    *)
(* the last one it shows what the receiver holds.                          *)
LEMMA TakenOver ==
  ASSUME IInv, ~Race, ~Race', NEW p \in Color, Local(p), UpdateStep(p),
         NEW m, m = Head(net2gui[p]), m.msg # "Moves",
         gui'[p].fsm \in {"IDLE", "PROMOTION_COMMIT_WAITING", "GAME_OVER"},
         gui'[p].fsm = "GAME_OVER" <=> m.cache.flag \in GameOverFlag,
         gui'[p].fsm = "GAME_OVER" => m.msg = "StateUpdateMsg",
         gui'[p].fsm = "PROMOTION_COMMIT_WAITING" =>
           menus'[p] > 0 /\ CanPromote(p, m.cache.board, m.cache.currentTeam),
         menus'[p] > 0 => gui'[p].fsm = "PROMOTION_COMMIT_WAITING",
         gui'[p].board = m.cache.board, gui'[p].currTeam = m.cache.currentTeam,
         gui'[p].myColor = p
  PROVE  Local(p)' /\ (Finished(p)' <=> Finished(p))
<1> DEFINE s == net2gui[p]
<1>1. s \in Seq(NetworkMessage) /\ net2gui \in [Color -> Seq(NetworkMessage)]
  BY QueueTypes DEF IInv
<1>2. /\ s # <<>> /\ net2gui'[p] = Tail(s)
      /\ UNCHANGED <<gui2net, toServer, toClient, selectedPiece, cache, teamColor, session>>
  BY <1>1 DEF UpdateStep, Update, OnRestart, OnMoves, OnStateUpdate, Arrives, clientVars, wireVars
<1>3. /\ m \in NetworkMessage /\ m = s[1] /\ 1 \in DOMAIN s
      /\ Len(s) \in Nat \ {0} /\ Len(Tail(s)) = Len(s) - 1 /\ Tail(s) \in Seq(NetworkMessage)
  BY <1>1, <1>2, TailElement
<1>4. MessagePending(p)
  BY <1>3 DEF MessagePending, NetworkMessage
<1>5. /\ gui[p].fsm \in {"IDLE", "MOVE_COMMIT_WAITING", "PROMOTION_COMMIT_WAITING", "GAME_OVER"}
      /\ gui2net[p] = <<>> /\ toServer[p] = <<>>
      /\ None(toClient[p], Lists) /\ None(s, MoveLists)
  BY <1>4, Behind
<1>6. None(Tail(s), MoveLists)
  BY <1>1, <1>2, <1>5, NoneTail
<1>7. Fits(p)'
  <2>1. FitPackets(p) \subseteq FitPackets(p)' /\ FitMessages(p) \subseteq FitMessages(p)'
    BY <1>2, <1>5 DEF FitPackets, FitMessages
  <2>2. All(toClient'[p], FitPackets(p)')
    BY <1>2, <2>1 DEF Local, Fits, All
  <2>3. All(Tail(s), FitMessages(p)')
    BY <1>1, <1>2, <2>1, AllTail DEF Local, Fits
  <2>4. gui2net'[p] = <<>> /\ toServer'[p] = <<>>
    BY <1>2, <1>5
  <2> QED
    BY <1>2, <2>2, <2>3, <2>4, EmptyQueue DEF Fits
<1>8. Machine(p)'
  BY <1>2 DEF Machine, CanPromote
<1>9. OneAnswer(p)'
  <2>1. gui2net'[p] = <<>> /\ toServer'[p] = <<>>
    BY <1>2, <1>5
  <2> QED
    BY <1>2, <1>5, <1>6, <2>1, EmptyQueue, NoneIsOnce DEF OneAnswer
<1>10. PacketsInOrder(p)' /\ (PacketPending(p)' <=> PacketPending(p))
  BY <1>2 DEF Local, PacketsInOrder, PacketPending
<1>11. /\ FollowedBy(Tail(s), OverMessages, RestartMessages)
       /\ m \in OverMessages /\ Tail(s) # <<>> => Head(Tail(s)) \in RestartMessages
       /\ Tail(s) # <<>> => Final(Tail(s)) = Final(s)
  BY <1>1, <1>2, FollowedTail DEF Local, MessagesInOrder
<1>12. MessagePending(p)' => Tail(s) # <<>>
  BY <1>2 DEF MessagePending
<1>13. MessagesInOrder(p)'
  BY <1>2, <1>4, <1>11, <1>12 DEF Local, MessagesInOrder
<1>14. Final(s).cache = cache[p]
  BY <1>4 DEF Local, MessagesInOrder
<1>15. ViewKept(p)'
  <2> SUFFICES ASSUME ~MessagePending(p)' PROVE m.cache = cache[p]
    BY <1>2 DEF ViewKept
  <2> DEFINE t == Tail(s)
  <2>2. t \in Seq(NetworkMessage)
    BY <1>3
  <2>7. t = net2gui'[p]
    BY <1>2
  <2>1. \A i \in DOMAIN t : t[i].msg \notin {"StateUpdateMsg", "RestartMsg"}
    <3> HIDE DEF t
    <3> QED
      BY <2>7 DEF MessagePending
  <2> HIDE DEF t
  <2>3. All(t, MoveLists)
    BY <2>1, <2>2 DEF All, MoveLists, NetworkMessage
  <2>4. t = <<>>
    BY <1>6, <2>2, <2>3, AllAndNone DEF t
  <2>5. Len(t) = Len(s) - 1
    BY <1>3 DEF t
  <2>6. Len(s) = 1
    BY <1>3, <2>4, <2>5
  <2> QED
    BY <1>3, <1>14, <2>6 DEF Final
<1>16. NextFits(p)'
  <2>1. CASE gui'[p].fsm = "PROMOTION_COMMIT_WAITING"
    <3>1. ~PacketPending(p)' /\ ~MessagePending(p)'
      BY <2>1 DEF Race, Engaged
    <3> QED
      BY <3>1 DEF NextFits
  <2>2. CASE gui'[p].fsm = "GAME_OVER"
    <3>1. m \in OverMessages
      BY <1>3, <2>2 DEF OverMessages
    <3>2. MessagePending(p)' => Head(Tail(s)).msg = "RestartMsg"
      BY <1>11, <1>12, <3>1 DEF RestartMessages
    <3> QED
      BY <1>2, <2>2, <3>2 DEF NextFits, MessageFits, PacketFits
  <2>3. CASE gui'[p].fsm = "IDLE"
    BY <2>3 DEF NextFits, MessageFits, PacketFits
  <2> QED
    BY <2>1, <2>2, <2>3
<1>17. Finished(p)' <=> Finished(p)
  BY <1>2 DEF Finished, PacketPending
<1> QED
  BY <1>7, <1>8, <1>9, <1>10, <1>13, <1>15, <1>16, <1>17 DEF Local

LEMMA UpdateLocal ==
  ASSUME IInv, Converging, ~Race, ~Race', NEW p \in Color, Local(p), UpdateStep(p)
  PROVE  Local(p)' /\ (Finished(p)' <=> Finished(p))
<1> DEFINE s == net2gui[p]
           m == Head(s)
<1>1. /\ gui \in [Color -> Gui] /\ menus \in [Color -> Nat]
      /\ s \in Seq(NetworkMessage)
  BY QueueTypes DEF IInv
<1>2. CASE OnMoves(p)
  BY <1>2, MovesLocal
<1>3. CASE ~OnMoves(p)
  <2>1. s # <<>> /\ m.msg \in {"StateUpdateMsg", "RestartMsg"}
    BY <1>3 DEF UpdateStep, Update, OnRestart, OnStateUpdate, Arrives
  <2>2. m \in NetworkMessage /\ m = s[1] /\ 1 \in DOMAIN s
    BY <1>1, <2>1, TailElement
  <2>3. MessagePending(p) /\ m.cache \in GameStateCache /\ m.cache.flag \in Flag
    BY <2>1, <2>2 DEF MessagePending, NetworkMessage, GameStateCache
  <2>4. /\ gui[p].fsm \in {"IDLE", "MOVE_COMMIT_WAITING", "PROMOTION_COMMIT_WAITING", "GAME_OVER"}
        /\ menus[p] = 0
    BY <2>3, Behind
  <2>5. m.myColor = p /\ (m.msg = "RestartMsg" => m.cache.flag = "NONE")
    <3>1. m \in FitMessages(p)
      BY <1>1, <2>1, AllTail DEF Local, Fits
    <3> QED
      BY <2>1, <3>1 DEF FitMessages
  <2>6. MessageFits(p, m) /\ Machine(p)
    BY <2>3 DEF Local, NextFits
  <2>7. CASE OnRestart(p)
    <3>1. /\ gui'[p].fsm = "IDLE" /\ gui'[p].board = m.cache.board
          /\ gui'[p].currTeam = m.cache.currentTeam /\ gui'[p].myColor = m.myColor
          /\ menus' = menus /\ m.msg = "RestartMsg"
      BY <1>1, <2>7 DEF OnRestart, Arrives
    <3>2. m.cache.flag \notin GameOverFlag
      BY <2>5, <3>1 DEF GameOverFlag
    <3> HIDE DEF m
    <3> QED
      BY <2>4, <2>5, <3>1, <3>2, TakenOver DEF m
  <2>8. CASE OnStateUpdate(p)
    <3>1. /\ m.msg = "StateUpdateMsg"
          /\ IdleUpdate(p, m) \/ CommitUpdate(p, m) \/ PromotionUpdate(p, m) \/ IgnoredUpdate(p)
      BY <2>8 DEF OnStateUpdate, Arrives
    <3>2. gui[p].fsm # "GAME_OVER"
      BY <2>6, <3>1 DEF MessageFits
    <3>3. m = Head(net2gui[p])
      OBVIOUS
    <3> HIDE DEF m
    <3>4. CASE IdleUpdate(p, m)
      <4>1. /\ gui'[p].fsm = IF m.cache.flag \in GameOverFlag THEN "GAME_OVER" ELSE "IDLE"
            /\ gui'[p].board = m.cache.board
            /\ gui'[p].currTeam = m.cache.currentTeam /\ gui'[p].myColor = m.myColor
            /\ menus' = menus
        BY <1>1, <3>4 DEF IdleUpdate, Gui
      <4> QED
        BY <2>4, <2>5, <3>1, <3>3, <4>1, TakenOver
    <3>5. CASE CommitUpdate(p, m)
      <4>1. /\ gui[p].fsm = "MOVE_COMMIT_WAITING"
            /\ gui'[p].fsm = AfterCommit(m.cache.flag)
            /\ gui'[p].board = m.cache.board
            /\ gui'[p].currTeam = m.cache.currentTeam /\ gui'[p].myColor = gui[p].myColor
            /\ menus'[p] = IF m.cache.flag = "PROMOTION" THEN menus[p] + 1 ELSE menus[p]
        BY <1>1, <3>5 DEF CommitUpdate, Gui
      <4>2. /\ gui'[p].fsm \in {"IDLE", "PROMOTION_COMMIT_WAITING", "GAME_OVER"}
            /\ gui'[p].fsm = "GAME_OVER" <=> m.cache.flag \in GameOverFlag
            /\ gui'[p].fsm = "PROMOTION_COMMIT_WAITING" <=> m.cache.flag = "PROMOTION"
        BY <2>3, <4>1 DEF AfterCommit, Flag, GameOverFlag
      <4>3. gui'[p].myColor = p
        BY <2>6, <4>1 DEF Machine
      <4>4. menus'[p] > 0 <=> m.cache.flag = "PROMOTION"
        BY <2>4, <4>1
      <4>5. m.cache.flag = "PROMOTION" => CanPromote(p, m.cache.board, m.cache.currentTeam)
        BY <2>6, <4>1 DEF MessageFits
      <4> QED
        BY <3>1, <3>3, <4>1, <4>2, <4>3, <4>4, <4>5, TakenOver
    <3>6. CASE PromotionUpdate(p, m)
      <4>1. /\ gui[p].fsm = "PROMOTION_COMMIT_WAITING" /\ gui'[p].fsm = "IDLE"
            /\ gui'[p].board = m.cache.board
            /\ gui'[p].currTeam = gui[p].currTeam /\ gui'[p].myColor = gui[p].myColor
            /\ menus' = menus
        BY <1>1, <3>6 DEF PromotionUpdate, Gui
      <4>2. m.cache.currentTeam = gui[p].currTeam /\ m.cache.flag \notin GameOverFlag
        BY <2>6, <4>1 DEF MessageFits
      <4>3. gui'[p].myColor = p
        BY <2>6, <4>1 DEF Machine
      <4> QED
        BY <2>4, <3>1, <3>3, <4>1, <4>2, <4>3, TakenOver
    <3>7. ~IgnoredUpdate(p)
      BY <2>4, <3>2 DEF IgnoredUpdate
    <3> QED
      BY <3>1, <3>4, <3>5, <3>6, <3>7
  <2> QED
    BY <1>3, <2>7, <2>8 DEF UpdateStep, Update
<1> QED
  BY <1>2, <1>3
-----------------------------------------------------------------------------
(* The session has just been created and nobody has clicked on the board. *)
LEMMA InitPatient == Init /\ ~Race => PatientInv
<1> SUFFICES ASSUME Init, ~Race PROVE PatientInv
  OBVIOUS
<1> DEFINE restart == [type |-> "RESTART", cache |-> Snapshot(NewSession, "NONE")]
           first(p) == [type |-> "ASSIGN_COLOR", color |-> p]
<1>1. IInv /\ Converging /\ WaitingInv
  BY InitIInv, InitConverging, InitWaiting
<1>2. ASSUME NEW p \in Color
      PROVE  /\ toClient[p] = <<first(p), restart>> /\ gui2net[p] = <<>> /\ net2gui[p] = <<>>
             /\ toServer[p] = <<>> /\ menus[p] = 0
             /\ cache[p] = Uninitialized /\ teamColor[p] = Uninitialized
  BY DEF Init
<1>3. first("WHITE") \in Response /\ first("BLACK") \in Response /\ restart \in Response
  BY NewSessionType, SnapshotType DEF Response, Flag, Color
<1>4. restart.type = "RESTART" /\ restart.cache.flag = "NONE"
  BY DEF Snapshot
<1> HIDE DEF restart
<1>5. ASSUME NEW p \in Color
      PROVE  /\ Len(toClient[p]) = 2 /\ toClient[p][1] = first(p) /\ toClient[p][2] = restart
             /\ PacketPending(p) /\ ~MessagePending(p)
  <2>1. Len(toClient[p]) = 2 /\ toClient[p][1] = first(p) /\ toClient[p][2] = restart
        /\ DOMAIN toClient[p] = 1 .. 2 /\ DOMAIN net2gui[p] = {}
    <3> DEFINE f == first(p)
    <3>1. toClient[p] = <<f, restart>> /\ net2gui[p] = <<>>
      BY <1>2
    <3> HIDE DEF f
    <3>2. /\ Len(toClient[p]) = 2 /\ toClient[p][1] = f /\ toClient[p][2] = restart
          /\ DOMAIN toClient[p] = 1 .. 2
      BY <3>1
    <3>3. DOMAIN net2gui[p] = {}
      BY <3>1
    <3> QED
      BY <3>2, <3>3 DEF f
  <2>2. PacketPending(p)
    BY <1>4, <2>1 DEF PacketPending
  <2>3. ~MessagePending(p)
    BY <2>1 DEF MessagePending
  <2> QED
    BY <2>1, <2>2, <2>3
<1>6. ASSUME NEW p \in Color PROVE gui[p].fsm = "IDLE"
  <2>1. gui[p].fsm # "MOVE_WAITING"
    BY <1>5 DEF Race, Engaged
  <2>2. NewGui.fsm = "IDLE" /\ \A clicked : ClickedGui(clicked).fsm = "MOVE_WAITING"
    BY DEF NewGui, ClickedGui
  <2> QED
    BY <2>1, <2>2 DEF Init
<1>7. ASSUME NEW p \in Color PROVE Local(p) /\ ~Finished(p)
  <2>1. first(p).type = "ASSIGN_COLOR" /\ first(p).color = p /\ first(p) \in Response
    BY <1>3 DEF Color
  <2> DEFINE f == first(p)
             q == toClient[p]
  <2>2. \A i \in 1 .. Len(q) : q[i] = f \/ q[i] = restart
    BY <1>5
  <2>3. Len(q) = 2 /\ q[1] = f /\ q[2] = restart /\ q # <<>>
    BY <1>2, <1>5
  <2>4. f.type = "ASSIGN_COLOR" /\ f.color = p /\ f \in Response
    BY <2>1
  <2> HIDE DEF f
  <2>5. All(q, FitPackets(p)) /\ None(q, Lists) /\ Final(q) \notin Overs
    BY <1>2, <1>3, <1>4, <2>2, <2>3, <2>4 DEF All, FitPackets, None, Lists, Final, Overs
  <2>6. FollowedBy(q, Overs, Restarts) /\ FollowedBy(q, Response, NotAssigning)
    <3>1. \A i \in 1 .. Len(q) : i < Len(q) => i = 1
      BY <2>3
    <3>2. q[1] \notin Overs /\ q[1 + 1] \in NotAssigning
      BY <1>3, <1>4, <2>3, <2>4 DEF Overs, NotAssigning
    <3> QED
      BY <3>1, <3>2 DEF FollowedBy
  <2> HIDE DEF q
  <2>7. Fits(p) /\ OneAnswer(p)
    BY <1>2, <2>5, EmptyQueue, NoneIsOnce DEF Fits, OneAnswer, q
  <2>8. Machine(p) /\ NextFits(p)
    <3>1. gui[p].fsm = "IDLE"
      BY <1>6
    <3>2. menus[p] = 0
      BY <1>2
    <3>3. ~MessagePending(p)
      BY <1>5
    <3>4. Machine(p)
      BY <3>1, <3>2 DEF Machine
    <3> QED
      BY <3>1, <3>3, <3>4 DEF NextFits, PacketFits
  <2>9. PacketsInOrder(p) /\ MessagesInOrder(p) /\ ViewKept(p)
    BY <1>2, <1>5, <2>6, EmptyQueue DEF PacketsInOrder, MessagesInOrder, ViewKept, q
  <2>10. ~Finished(p)
    BY <1>5, <2>5 DEF Finished, q
  <2> QED
    BY <2>7, <2>8, <2>9, <2>10 DEF Local
<1> QED
  BY <1>1, <1>7 DEF PatientInv, OverForBoth, Color

(* A step of one player's threads leaves alone what belongs to the other,  *)
(* except that the server sends its updates to both.                       *)
LEMMA OtherFrame ==
  ASSUME IInv, NEW c \in Color, NEW p \in Color, p # c,
         \/ PlayerStep(c) \/ UpdateStep(c) \/ SendStep(c) \/ ReceiveStep(c)
         \/ ServerStep(c) /\ Head(toServer[c]).type = "CALCULATE_MOVES"
  PROVE  UNCHANGED <<gui[p], menus[p], gui2net[p], net2gui[p], toServer[p], toClient[p],
                     selectedPiece[p], cache[p], teamColor[p], session>>
<1>1. /\ gui \in [Color -> Gui] /\ menus \in [Color -> Nat]
      /\ gui2net \in [Color -> Seq(GuiMessage)]
      /\ net2gui \in [Color -> Seq(NetworkMessage)]
      /\ toServer \in [Color -> Seq(Request)]
      /\ toClient \in [Color -> Seq(Response)]
      /\ selectedPiece \in [Color -> Square \cup {Uninitialized}]
      /\ cache \in [Color -> GameStateCache \cup {Uninitialized}]
      /\ teamColor \in [Color -> Color \cup {Uninitialized}]
  BY QueueTypes DEF IInv
<1>2. CASE PlayerStep(c)
  BY <1>1, <1>2 DEF PlayerStep, Player, ClickPiece, ClickMove, ClickSelected, PressR,
     ChoosePromotion, Push, clientVars, wireVars
<1>3. CASE UpdateStep(c)
  BY <1>1, <1>3 DEF UpdateStep, Update, OnRestart, OnMoves, OnStateUpdate, IdleUpdate,
     CommitUpdate, PromotionUpdate, IgnoredUpdate, Arrives, clientVars, wireVars
<1>4. CASE SendStep(c)
  BY <1>1, <1>4 DEF SendStep, SendRequest
<1>5. CASE ReceiveStep(c)
  BY <1>1, <1>5 DEF ReceiveStep, ReceiveResponse
<1>6. CASE ServerStep(c) /\ Head(toServer[c]).type = "CALCULATE_MOVES"
  BY <1>1, <1>6 DEF ServerStep, OnPacket, PerformAvailableMoves, PerformCommitMove,
     PerformPromotion, PerformRestart, Requested, guiVars, clientVars
<1> QED
  BY <1>2, <1>3, <1>4, <1>5, <1>6

LEMMA NextPatient == PatientInv /\ [Next /\ ~Race']_vars => PatientInv'
<1> SUFFICES ASSUME PatientInv, [Next /\ ~Race']_vars PROVE PatientInv'
  OBVIOUS
<1>1. /\ IInv /\ Converging /\ WaitingInv /\ ~Race /\ OverForBoth
      /\ \A p \in Color : Local(p)
  BY DEF PatientInv
<1>2. [Next]_vars
  OBVIOUS
<1>3. IInv' /\ Converging' /\ WaitingInv'
  BY <1>1, <1>2, NextIInv, NextConverging, NextWaiting
<1>4. ~Race'
  BY <1>1 DEF vars, Race, Engaged, PacketPending, MessagePending
<1>5. OverForBoth' /\ \A p \in Color : Local(p)'
  <2>1. CASE UNCHANGED vars
    <3>1. \A p \in Color : Local(p)' /\ (Finished(p)' <=> Finished(p))
      BY <1>1, <2>1, LocalFrame DEF vars
    <3> QED
      BY <1>1, <3>1 DEF OverForBoth, Color
  <2>2. CASE Next
    <3>1. PICK c \in Color :
            PlayerStep(c) \/ UpdateStep(c) \/ SendStep(c) \/ ReceiveStep(c) \/ ServerStep(c)
      BY <2>2 DEF Next
    <3>2. CASE ServerStep(c) /\ Head(toServer[c]).type # "CALCULATE_MOVES"
      BY <1>1, <1>3, <1>4, <3>2, SentLocal, SentToBoth
    <3>3. CASE \/ PlayerStep(c) \/ UpdateStep(c) \/ SendStep(c) \/ ReceiveStep(c)
               \/ ServerStep(c) /\ Head(toServer[c]).type = "CALCULATE_MOVES"
      <4>1. Local(c)' /\ (Finished(c)' <=> Finished(c))
        BY <1>1, <1>3, <1>4, <3>3, PlayerLocal, UpdateLocal, SendLocal, ReceiveLocal, ListLocal
      <4>2. ASSUME NEW p \in Color, p # c PROVE Local(p)' /\ (Finished(p)' <=> Finished(p))
        BY <1>1, <3>3, <4>2, OtherFrame, LocalFrame
      <4>3. \A p \in Color : Local(p)' /\ (Finished(p)' <=> Finished(p))
        BY <4>1, <4>2
      <4> QED
        BY <1>1, <4>3 DEF OverForBoth, Color
    <3> QED
      BY <3>1, <3>2, <3>3
  <2> QED
    BY <1>2, <2>1, <2>2
<1> QED
  BY <1>3, <1>4, <1>5 DEF PatientInv
-----------------------------------------------------------------------------
(* What the invariant says of the players. *)
LEMMA ChoosersMove ==
  ASSUME PatientInv, NEW p \in Color, Choosing(p)
  PROVE  session.currentTeam = p
<1>1. IInv /\ Converging /\ ~Race /\ Local(p)
  BY DEF PatientInv
<1>2. CASE gui[p].fsm \in {"MOVE_WAITING", "MOVE_SELECTION"}
  BY <1>1, <1>2, EngagedIsSettled DEF Engaged, Local, Machine
<1>3. ASSUME NEW i \in DOMAIN gui2net[p], gui2net[p][i].req = "MoveCommitReq"
      PROVE  session.currentTeam = p
  <2>1. gui2net[p] \in Seq(GuiMessage)
    BY <1>1, QueueTypes DEF IInv
  <2>2. gui2net[p][i] \in FitChoices(p)
    BY <1>1, <2>1 DEF Local, Fits, All
  <2> QED
    BY <1>3, <2>2 DEF FitChoices, LegalNow
<1>4. ASSUME NEW i \in DOMAIN toServer[p], toServer[p][i].type = "COMMIT_MOVE"
      PROVE  session.currentTeam = p
  <2>1. toServer[p] \in Seq(Request)
    BY <1>1, QueueTypes DEF IInv
  <2>2. toServer[p][i] \in FitRequests(p)
    BY <1>1, <2>1 DEF Local, Fits, All
  <2> QED
    BY <1>4, <2>2 DEF FitRequests, LegalNow
<1> QED
  BY <1>2, <1>3, <1>4 DEF Choosing

LEMMA SelectionIsOffered == PatientInv => OfferedMovesAreLegal
<1> SUFFICES ASSUME PatientInv, NEW p \in Color, gui[p].fsm = "MOVE_SELECTION"
             PROVE  /\ session.currentTeam = p
                    /\ Get(session.board)[gui[p].selected].col = p
                    /\ gui[p].moves = LegalMoves(session.board, gui[p].selected, p)
  BY DEF OfferedMovesAreLegal
<1>1. IInv /\ Converging /\ ~Race /\ Local(p)
  BY DEF PatientInv
<1>2. gui[p].board = Get(session.board) /\ gui[p].currTeam = session.currentTeam
  BY <1>1, EngagedIsSettled DEF Engaged
<1> QED
  BY <1>1, <1>2 DEF Local, Machine

LEMMA QuietIsSettled ==
  ASSUME PatientInv, Quiet, NEW p \in Color
  PROVE  /\ gui[p].board = Get(session.board)
         /\ gui[p].currTeam = session.currentTeam
         /\ gui[p].myColor = p
         /\ gui[p].fsm = "GAME_OVER" <=> Finished(p)
<1>1. IInv /\ Converging /\ Local(p)
  BY DEF PatientInv
<1>2. DOMAIN toClient[p] = {} /\ DOMAIN net2gui[p] = {}
  BY DEF Quiet
<1>3. ~PacketPending(p)
  BY <1>2 DEF PacketPending
<1>4. ~MessagePending(p)
  BY <1>2 DEF MessagePending
<1>5. cache[p] # Uninitialized
  BY <1>1, <1>3, Received
<1> QED
  BY <1>1, <1>3, <1>4, <1>5, Settled DEF Finished

-----------------------------------------------------------------------------
(* The requests the server carries out are moves of a game of chess. *)
LEMMA RequestsPlayChess ==
  ASSUME PatientInv, NEW c \in Color, ServerStep(c), Head(toServer[c]).type # "CALCULATE_MOVES"
  PROVE  Game!GameNext
<1> DEFINE r == Head(toServer[c])
<1>1. /\ IInv /\ Converging /\ ~Race /\ Local(c)
      /\ toServer[c] \in Seq(Request)
      /\ session \in [board : Board, score : Score, currentTeam : Color]
  BY QueueTypes DEF PatientInv, IInv
<1>2. /\ toServer[c] # <<>> /\ r \in Request
      /\ r.type = "RESTART" => session' = NewSession
      /\ r.type = "PROMOTE" => session' = [session EXCEPT !.board = Promote(@, r.pos, r.piece)]
      /\ r.type = "COMMIT_MOVE" =>
           LET res == CommitMove(session.board, r.from, r.to, session.currentTeam) IN
           session' = [board |-> res.board,
                       score |-> Credited(session.score, session.currentTeam, res.score),
                       currentTeam |-> Opposite(session.currentTeam)]
  BY <1>1, UpdateShape
<1>3. r \in FitRequests(c)
  BY <1>1, <1>2, AllTail DEF Local, Fits
<1>4. r.type \in {"COMMIT_MOVE", "PROMOTE", "RESTART"}
  BY <1>2 DEF Request
<1> HIDE DEF r
<1>5. CASE r.type = "COMMIT_MOVE"
  <2>1. r.from \in Square /\ r.to \in Square
    BY <1>2, <1>5 DEF Request
  <2>2. Game!IsLegal(session, r.from, r.to)
    BY <1>3, <1>5 DEF FitRequests, LegalNow, Game!IsLegal
  <2>3. Game!Move(r.from, r.to)
    BY <1>2, <1>5, <2>2 DEF Game!Move, Credited, Opposite, Game!Credited, Game!Opposite
  <2> QED
    BY <2>1, <2>3 DEF Game!GameNext
<1>6. CASE r.type = "PROMOTE"
  <2>1. r.pos \in Square /\ r.piece \in PromotionChoice
    BY <1>2, <1>6 DEF Request
  <2>2. gui[c].fsm = "PROMOTION_COMMIT_WAITING" /\ r.pos = selectedPiece[c]
    BY <1>3, <1>6 DEF FitRequests
  <2>3. gui[c].board = Get(session.board) /\ gui[c].currTeam = session.currentTeam
    BY <1>1, <1>2, EngagedIsSettled DEF Engaged
  <2>4. CanPromote(c, gui[c].board, gui[c].currTeam)
    BY <1>1, <2>2 DEF Local, Machine
  <2>5. Get(session.board)[r.pos] = [type |-> "PAWN", col |-> c]
        /\ session.currentTeam = Opposite(c)
    BY <2>2, <2>3, <2>4 DEF CanPromote
  <2>6. c = Game!Opposite(session.currentTeam)
    BY <2>5 DEF Opposite, Game!Opposite, Color
  <2>7. Game!PawnPromotion(r.pos, r.piece)
    BY <1>2, <1>6, <2>5, <2>6 DEF Game!PawnPromotion
  <2> QED
    BY <2>1, <2>7 DEF Game!GameNext
<1>7. CASE r.type = "RESTART"
  <2>1. Game!NewGameStarts
    BY <1>2, <1>7 DEF Game!NewGameStarts, Game!NewGame, NewSession
  <2> QED
    BY <2>1 DEF Game!GameNext
<1> QED
  BY <1>4, <1>5, <1>6, <1>7

LEMMA StepsPlayChess == PatientInv /\ [Next /\ ~Race']_vars => [Game!GameNext]_session
<1> SUFFICES ASSUME PatientInv, Next PROVE Game!GameNext \/ session' = session
  BY DEF vars
<1>1. PICK c \in Color :
        PlayerStep(c) \/ UpdateStep(c) \/ SendStep(c) \/ ReceiveStep(c) \/ ServerStep(c)
  BY DEF Next
<1>2. CASE PlayerStep(c) \/ UpdateStep(c) \/ SendStep(c) \/ ReceiveStep(c)
  BY <1>2 DEF PlayerStep, UpdateStep, SendStep, ReceiveStep
<1>3. CASE ServerStep(c) /\ Head(toServer[c]).type = "CALCULATE_MOVES"
  BY <1>3 DEF ServerStep, OnPacket, PerformAvailableMoves, PerformCommitMove,
     PerformPromotion, PerformRestart, Requested
<1>4. CASE ServerStep(c) /\ Head(toServer[c]).type # "CALCULATE_MOVES"
  BY <1>4, RequestsPlayChess
<1> QED
  BY <1>1, <1>2, <1>3, <1>4

-----------------------------------------------------------------------------
(* When both players wait for what the other one did, never are both       *)
(* choosing a move, although each client goes by its own copy of the turn  *)
(* and the server compares no request with the turn.                       *)
THEOREM OnlyOneMoves == PatientSpec => []OneMover
<1>1. PatientInv => OneMover
  BY ChoosersMove DEF OneMover
<1> QED
  BY InitPatient, NextPatient, <1>1, PTL DEF PatientSpec

(* The moves a player is offered are the legal moves of a piece of theirs  *)
(* in the present position of the session, for every set of rules.         *)
THEOREM OffersAreLegal == PatientSpec => []OfferedMovesAreLegal
BY InitPatient, NextPatient, SelectionIsOffered, PTL DEF PatientSpec

(* When nothing is on its way, both players see the board and the turn of  *)
(* the session, whatever the six states of each machine took over or       *)
(* dropped of the updates before.                                          *)
THEOREM ViewsEndUpEqual == PatientSpec => []ViewsAgree
<1>1. PatientInv => ViewsAgree
  BY QuietIsSettled DEF ViewsAgree
<1> QED
  BY InitPatient, NextPatient, <1>1, PTL DEF PatientSpec

(* When nothing is on its way, a game is over for both players or for      *)
(* neither, however often it has been restarted.                           *)
THEOREM GamesEndForBoth == PatientSpec => []GameOverForBoth
<1>1. PatientInv => GameOverForBoth
  BY QuietIsSettled DEF PatientInv, OverForBoth, GameOverForBoth, Color
<1> QED
  BY InitPatient, NextPatient, <1>1, PTL DEF PatientSpec

(* The session implements a game of chess: although the server checks      *)
(* neither the turn nor the move, every move it carries out is a legal one *)
(* of the team to move, and every promotion turns a pawn of the team that  *)
(* has just moved.                                                         *)
THEOREM SessionPlaysChess == PatientSpec => PlaysChess
<1>1. Init => Game!GameInit
  BY DEF Init, NewSession, Game!GameInit, Game!NewGame
<1> QED
  BY InitPatient, NextPatient, StepsPlayChess, <1>1, PTL DEF PatientSpec, PlaysChess, Game!GameSpec
=============================================================================
