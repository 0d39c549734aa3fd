-------------------------- MODULE ChessMatchProofs --------------------------
(***************************************************************************)
(* Theorems about ChessMatch.                                              *)
(*                                                                         *)
(* A client starts with a copy of the game, a colour and a square it has   *)
(* not initialised.  That none of them is ever used is not a matter of     *)
(* types alone: it depends on the order of the packets and on the order of *)
(* the requests of the player.  IInv states that order.                    *)
(***************************************************************************)
EXTENDS SelectionProofs

(* A client that misses its colour or the game will be told in time: the   *)
(* first packets of a session are ASSIGN_COLOR and RESTART.                *)
StartupOrder(p) ==
  \/ teamColor[p] \in Color /\ cache[p] \in GameStateCache
  \/ teamColor[p] \in Color /\ toClient[p] # <<>> /\ toClient[p][1].type = "RESTART"
  \/ /\ Len(toClient[p]) >= 2
     /\ toClient[p][1].type = "ASSIGN_COLOR"
     /\ toClient[p][2].type = "RESTART"

(* The sender of p will remember the square s after all it has to send. *)
WillRemember(p, s) == Remembered(gui2net[p], selectedPiece[p], Len(gui2net[p]) + 1, s)

(* The sender will remember the right square for every request that needs  *)
(* one, and for every request that the state of the GUI may lead to.       *)
SelectionKnown(p) ==
  /\ gui[p].fsm \in {"MOVE_WAITING", "MOVE_SELECTION"} => WillRemember(p, gui[p].selected)
  /\ gui[p].fsm \in {"MOVE_COMMIT_WAITING", "PROMOTION_COMMIT_WAITING"} \/ menus[p] > 0
       => \E s \in Square : WillRemember(p, s)
  /\ \A i \in 1 .. Len(gui2net[p]) :
       LET m == gui2net[p][i] IN
       /\ m.req = "MoveCommitReq" => Remembered(gui2net[p], selectedPiece[p], i, m.picked)
       /\ m.req = "PromotionReq" =>
            \E s \in Square : Remembered(gui2net[p], selectedPiece[p], i, s)

IInv == TypeOK /\ \A p \in Color : StartupOrder(p) /\ SelectionKnown(p)

-----------------------------------------------------------------------------
(* The types of the GUI's variables. *)
LEMMA PlayerType ==
  ASSUME TypeOK, NEW p \in Color, PlayerStep(p)
  PROVE  TypeOK'
<1> DEFINE g == gui[p]
<1>1. /\ gui \in [Color -> Gui] /\ g \in Gui
      /\ menus \in [Color -> Nat]
      /\ gui2net \in [Color -> Seq(GuiMessage)]
      /\ net2gui \in [Color -> Seq(NetworkMessage)]
      /\ issued \in [commits : 0 .. MaxCommits, restarts : 0 .. MaxRestarts]
  BY DEF TypeOK, GuiTypeOK
<1>2. /\ g.fsm \in FsmState /\ g.board \in BoardType /\ g.moves \in SUBSET Position
      /\ g.selected \in Square /\ g.myColor \in Color /\ g.currTeam \in Color
  BY <1>1 DEF Gui
<1>3. SUFFICES GuiTypeOK'
  BY DEF TypeOK, WireTypeOK, ClientTypeOK, SessionTypeOK, clientVars, wireVars, PlayerStep
<1>4. ASSUME NEW pos \in Square, ClickPiece(p, pos) PROVE GuiTypeOK'
  <2>1. gui'[p] = [fsm |-> "MOVE_WAITING", board |-> g.board, moves |-> g.moves,
                   selected |-> pos, myColor |-> g.myColor, currTeam |-> g.currTeam]
    BY <1>1, <1>4 DEF ClickPiece, Gui
  <2>2. gui'[p] \in Gui
    BY <1>2, <2>1 DEF Gui, FsmState
  <2>3. gui' \in [Color -> Gui]
    BY <1>1, <1>4, <2>2 DEF ClickPiece
  <2>4. gui2net' \in [Color -> Seq(GuiMessage)]
    BY <1>1, <1>4 DEF ClickPiece, Push, GuiMessage
  <2> QED
    BY <1>1, <1>4, <2>3, <2>4 DEF ClickPiece, GuiTypeOK
<1>5. ASSUME NEW pos \in Square, ClickMove(p, pos) PROVE GuiTypeOK'
  <2>1. gui'[p] \in Gui
    BY <1>1, <1>5 DEF ClickMove, Gui, FsmState
  <2>2. gui' \in [Color -> Gui]
    BY <1>1, <1>5, <2>1 DEF ClickMove
  <2>3. [req |-> "MoveCommitReq", to |-> pos, picked |-> g.selected] \in GuiMessage
    BY <1>2 DEF GuiMessage
  <2>4. gui2net' \in [Color -> Seq(GuiMessage)]
    BY <1>1, <1>5, <2>3 DEF ClickMove, Push
  <2>5. issued' \in [commits : 0 .. MaxCommits, restarts : 0 .. MaxRestarts]
    <3> DEFINE n == issued.commits + 1
    <3>1. n \in 0 .. MaxCommits
      BY <1>1, <1>5, BoundsAssumption DEF ClickMove
    <3>2. issued' = [issued EXCEPT !.commits = n]
      BY <1>5 DEF ClickMove
    <3> HIDE DEF n
    <3> QED
      BY <1>1, <3>1, <3>2
  <2> QED
    BY <1>1, <1>5, <2>2, <2>4, <2>5 DEF ClickMove, GuiTypeOK
<1>6. ASSUME ClickSelected(p) PROVE GuiTypeOK'
  <2>1. gui'[p] = [fsm |-> "IDLE", board |-> g.board, moves |-> {},
                   selected |-> g.selected, myColor |-> g.myColor, currTeam |-> g.currTeam]
    BY <1>1, <1>6 DEF ClickSelected, Gui
  <2>2. gui'[p] \in Gui
    BY <1>2, <2>1 DEF Gui, FsmState
  <2>3. gui' \in [Color -> Gui]
    BY <1>1, <1>6, <2>2 DEF ClickSelected
  <2> QED
    BY <1>1, <1>6, <2>3 DEF ClickSelected, GuiTypeOK
<1>7. ASSUME PressR(p) PROVE GuiTypeOK'
  <2>1. gui2net' \in [Color -> Seq(GuiMessage)]
    BY <1>1, <1>7 DEF PressR, Push, GuiMessage
  <2>2. issued' \in [commits : 0 .. MaxCommits, restarts : 0 .. MaxRestarts]
    <3> DEFINE n == issued.restarts + 1
    <3>1. n \in 0 .. MaxRestarts
      BY <1>1, <1>7, BoundsAssumption DEF PressR
    <3>2. issued' = [issued EXCEPT !.restarts = n]
      BY <1>7 DEF PressR
    <3> HIDE DEF n
    <3> QED
      BY <1>1, <3>1, <3>2
  <2> QED
    BY <1>1, <1>7, <2>1, <2>2 DEF PressR, GuiTypeOK
<1>8. ASSUME NEW type \in PromotionChoice, ChoosePromotion(p, type) PROVE GuiTypeOK'
  <2>1. gui2net' \in [Color -> Seq(GuiMessage)]
    BY <1>1, <1>8 DEF ChoosePromotion, Push, GuiMessage
  <2>2. menus' \in [Color -> Nat]
    BY <1>1, <1>8 DEF ChoosePromotion
  <2> QED
    BY <1>1, <1>8, <2>1, <2>2 DEF ChoosePromotion, GuiTypeOK
<1> QED
  BY <1>4, <1>5, <1>6, <1>7, <1>8 DEF PlayerStep, Player

LEMMA UpdateType ==
  ASSUME TypeOK, NEW p \in Color, UpdateStep(p)
  PROVE  TypeOK'
<1> DEFINE g == gui[p]
           m == Head(net2gui[p])
<1>1. /\ gui \in [Color -> Gui] /\ g \in Gui
      /\ menus \in [Color -> Nat]
      /\ gui2net \in [Color -> Seq(GuiMessage)]
      /\ net2gui \in [Color -> Seq(NetworkMessage)]
      /\ issued \in [commits : 0 .. MaxCommits, restarts : 0 .. MaxRestarts]
  BY DEF TypeOK, GuiTypeOK
<1>2. /\ g.fsm \in FsmState /\ g.board \in BoardType /\ g.moves \in SUBSET Position
      /\ g.selected \in Square /\ g.myColor \in Color /\ g.currTeam \in Color
  BY <1>1 DEF Gui
<1>3. SUFFICES GuiTypeOK'
  BY DEF TypeOK, WireTypeOK, ClientTypeOK, SessionTypeOK, clientVars, wireVars, UpdateStep
<1>4. m \in NetworkMessage /\ net2gui' \in [Color -> Seq(NetworkMessage)]
  <2>1. net2gui[p] # <<>> /\ net2gui' = [net2gui EXCEPT ![p] = Tail(@)]
    BY DEF UpdateStep, Update, OnRestart, OnMoves, OnStateUpdate, Arrives
  <2>2. m \in NetworkMessage /\ Tail(net2gui[p]) \in Seq(NetworkMessage)
    BY <1>1, <2>1, HeadTailProperties
  <2> QED
    BY <1>1, <2>1, <2>2
<1>5. m.msg \in {"StateUpdateMsg", "RestartMsg"} =>
        /\ m.cache.board \in BoardType /\ m.cache.currentTeam \in Color
        /\ m.cache.flag \in Flag /\ m.myColor \in Color
  BY <1>4 DEF NetworkMessage, GameStateCache
<1>6. ASSUME OnRestart(p) PROVE GuiTypeOK'
  <2>1. gui'[p] = [fsm |-> "IDLE", board |-> m.cache.board, moves |-> {},
                   selected |-> Origin, myColor |-> m.myColor, currTeam |-> m.cache.currentTeam]
    BY <1>1, <1>6 DEF OnRestart
  <2>2. m.msg = "RestartMsg"
    BY <1>6 DEF OnRestart, Arrives
  <2>3. gui'[p] \in Gui
    BY <1>5, <2>1, <2>2, RulesAssumption DEF Gui, FsmState
  <2>4. gui' \in [Color -> Gui]
    BY <1>1, <1>6, <2>3 DEF OnRestart
  <2> QED
    BY <1>1, <1>4, <1>6, <2>4 DEF OnRestart, GuiTypeOK
<1>7. ASSUME OnMoves(p) PROVE GuiTypeOK'
  <2>1. m.moves \in SUBSET Position
    BY <1>4, <1>7 DEF OnMoves, Arrives, NetworkMessage
  <2>2. \/ gui'[p] = [fsm |-> "IDLE", board |-> g.board, moves |-> {},
                      selected |-> g.selected, myColor |-> g.myColor, currTeam |-> g.currTeam]
        \/ gui'[p] = [fsm |-> "MOVE_SELECTION", board |-> g.board, moves |-> m.moves,
                      selected |-> g.selected, myColor |-> g.myColor, currTeam |-> g.currTeam]
        \/ gui'[p] = g
    BY <1>1, <1>7 DEF OnMoves, Gui
  <2>3. gui'[p] \in Gui
    BY <1>1, <1>2, <2>1, <2>2 DEF Gui, FsmState
  <2>4. gui' \in [Color -> Gui]
    BY <1>1, <1>7, <2>3 DEF OnMoves
  <2> QED
    BY <1>1, <1>4, <1>7, <2>4 DEF OnMoves, GuiTypeOK
<1>8. ASSUME OnStateUpdate(p) PROVE GuiTypeOK'
  <2>1. /\ m.msg = "StateUpdateMsg"
        /\ gui2net' = gui2net /\ issued' = issued
        /\ IdleUpdate(p, m) \/ CommitUpdate(p, m) \/ PromotionUpdate(p, m) \/ IgnoredUpdate(p)
    BY <1>8 DEF OnStateUpdate, Arrives
  <2>2. /\ m.cache.board \in BoardType /\ m.cache.currentTeam \in Color
        /\ m.cache.flag \in Flag /\ m.myColor \in Color
    BY <1>5, <2>1
  <2> SUFFICES gui' \in [Color -> Gui] /\ menus' \in [Color -> Nat]
    BY <1>1, <1>4, <2>1 DEF GuiTypeOK
  <2> HIDE DEF m
  <2>3. CASE IdleUpdate(p, m)
    <3>1. \/ gui'[p] = [fsm |-> "GAME_OVER", board |-> m.cache.board, moves |-> g.moves,
                     selected |-> g.selected, myColor |-> m.myColor, currTeam |-> m.cache.currentTeam]
          \/ gui'[p] = [fsm |-> "IDLE", board |-> m.cache.board, moves |-> g.moves,
                     selected |-> g.selected, myColor |-> m.myColor, currTeam |-> m.cache.currentTeam]
      BY <1>1, <2>3 DEF IdleUpdate, Gui
    <3>2. gui'[p] \in Gui
      BY <1>2, <2>2, <3>1 DEF Gui, FsmState
    <3> QED
      BY <1>1, <2>3, <3>2 DEF IdleUpdate
  <2>4. CASE CommitUpdate(p, m)
    <3>1. gui'[p] = [fsm |-> AfterCommit(m.cache.flag), board |-> m.cache.board, moves |-> {},
                     selected |-> g.selected, myColor |-> g.myColor, currTeam |-> m.cache.currentTeam]
      BY <1>1, <2>4 DEF CommitUpdate, Gui
    <3>2. AfterCommit(m.cache.flag) \in FsmState
      BY <2>2 DEF AfterCommit, Flag, FsmState
    <3>3. gui'[p] \in Gui
      BY <1>2, <2>2, <3>1, <3>2 DEF Gui
    <3>4. menus' \in [Color -> Nat]
      BY <1>1, <2>4 DEF CommitUpdate
    <3> QED
      BY <1>1, <2>4, <3>3, <3>4 DEF CommitUpdate
  <2>5. CASE PromotionUpdate(p, m)
    <3>1. gui'[p] = [fsm |-> "IDLE", board |-> m.cache.board, moves |-> g.moves,
                     selected |-> g.selected, myColor |-> g.myColor, currTeam |-> g.currTeam]
      BY <1>1, <2>5 DEF PromotionUpdate, Gui
    <3>2. gui'[p] \in Gui
      BY <1>2, <2>2, <3>1 DEF Gui, FsmState
    <3> QED
      BY <1>1, <2>5, <3>2 DEF PromotionUpdate
  <2>6. CASE IgnoredUpdate(p)
    BY <1>1, <2>6 DEF IgnoredUpdate
  <2> QED
    BY <2>1, <2>3, <2>4, <2>5, <2>6
<1> QED
  BY <1>6, <1>7, <1>8 DEF UpdateStep, Update

-----------------------------------------------------------------------------
(* A sender with a request that needs a square remembers one. *)
LEMMA SelectionInitialized ==
  ASSUME IInv, NEW p \in Color, gui2net[p] # <<>>,
         Head(gui2net[p]).req \in {"MoveCommitReq", "PromotionReq"}
  PROVE  selectedPiece[p] \in Square
<1> DEFINE q == gui2net[p]
<1>1. q \in Seq(GuiMessage)
  BY DEF IInv, TypeOK, GuiTypeOK
<1>2. 1 \in 1 .. Len(q) /\ q[1] = Head(q) /\ Head(q) \in GuiMessage
  BY <1>1, EmptySeq, HeadTailProperties
<1>3. \E s \in Square : Remembered(q, selectedPiece[p], 1, s)
  <2>1. CASE q[1].req = "MoveCommitReq"
    <3>1. q[1].picked \in Square
      BY <1>2, <2>1 DEF GuiMessage
    <3> QED
      BY <1>2, <2>1, <3>1 DEF IInv, SelectionKnown
  <2>2. CASE q[1].req = "PromotionReq"
    BY <1>2, <2>2 DEF IInv, SelectionKnown
  <2> QED
    BY <1>2, <2>1, <2>2
<1> QED
  BY <1>3 DEF Remembered

LEMMA SendType ==
  ASSUME IInv, NEW p \in Color, SendStep(p)
  PROVE  TypeOK'
<1> DEFINE m == Head(gui2net[p])
<1>1. /\ gui2net \in [Color -> Seq(GuiMessage)]
      /\ toServer \in [Color -> Seq(Request)]
      /\ selectedPiece \in [Color -> Square \cup {Uninitialized}]
  BY DEF IInv, TypeOK, GuiTypeOK, WireTypeOK, ClientTypeOK
<1>2. gui2net[p] # <<>> /\ gui2net' = [gui2net EXCEPT ![p] = Tail(@)]
  BY DEF SendStep, SendRequest
<1>3. m \in GuiMessage /\ gui2net' \in [Color -> Seq(GuiMessage)]
  BY <1>1, <1>2, HeadTailProperties
<1>4. m.req \in {"MoveCommitReq", "PromotionReq"} => selectedPiece[p] \in Square
  BY <1>2, SelectionInitialized
<1>5. \E r \in Request : toServer' = [toServer EXCEPT ![p] = Append(@, r)]
  <2>1. CASE m.req = "AvailableMovesReq"
    <3>1. [type |-> "CALCULATE_MOVES", pos |-> m.from] \in Request
      BY <1>3, <2>1 DEF GuiMessage, Request
    <3> QED
      BY <2>1, <3>1 DEF SendStep, SendRequest
  <2>2. CASE m.req = "MoveCommitReq"
    <3>1. [type |-> "COMMIT_MOVE", from |-> selectedPiece[p], to |-> m.to] \in Request
      BY <1>3, <1>4, <2>2 DEF GuiMessage, Request
    <3> QED
      BY <2>2, <3>1 DEF SendStep, SendRequest
  <2>3. CASE m.req = "RestartReq"
    <3>1. [type |-> "RESTART"] \in Request
      BY DEF Request
    <3> QED
      BY <2>3, <3>1 DEF SendStep, SendRequest
  <2>4. CASE m.req = "PromotionReq"
    <3>1. [type |-> "PROMOTE", piece |-> m.type, pos |-> selectedPiece[p]] \in Request
      BY <1>3, <1>4, <2>4 DEF GuiMessage, Request
    <3> QED
      BY <2>4, <3>1 DEF SendStep, SendRequest
  <2> QED
    BY <1>3, <2>1, <2>2, <2>3, <2>4 DEF GuiMessage
<1>6. toServer' \in [Color -> Seq(Request)]
  BY <1>1, <1>5
<1>7. selectedPiece' \in [Color -> Square \cup {Uninitialized}]
  <2>1. m.req = "AvailableMovesReq" => m.from \in Square
    BY <1>3 DEF GuiMessage
  <2>2. m.req = "MoveCommitReq" => m.to \in Square
    BY <1>3 DEF GuiMessage
  <2> QED
    BY <1>1, <2>1, <2>2 DEF SendStep, SendRequest
<1> QED
  BY <1>3, <1>6, <1>7 DEF IInv, TypeOK, GuiTypeOK, WireTypeOK, ClientTypeOK, SessionTypeOK,
     SendStep, SendRequest

(* What a receiver makes of its copy of the game is a game again, and a    *)
(* snapshot makes one of anything.                                         *)
LEMMA AppliedType ==
  ASSUME NEW r \in Response, NEW c,
         c \in GameStateCache \/ r.type \in {"COMMIT_MOVE", "RESTART"}
  PROVE  Applied(c, r) \in GameStateCache
<1>1. CASE r.type \in {"COMMIT_MOVE", "RESTART"}
  BY <1>1 DEF Applied, Response
<1>2. CASE r.type = "PROMOTE"
  <2> DEFINE b == SetType(c.board, r.pos, r.piece)
  <2>1. r.pos \in Square /\ r.piece \in PieceType /\ c \in GameStateCache
    BY <1>2, RulesAssumption DEF Response
  <2>2. c.board \in [Square -> Piece]
    BY <2>1 DEF GameStateCache, BoardType
  <2>3. b \in BoardType
    BY <2>1, <2>2 DEF SetType, BoardType, Piece
  <2> HIDE DEF b
  <2>4. [c EXCEPT !.board = b] \in GameStateCache
    BY <2>1, <2>3 DEF GameStateCache
  <2> QED
    BY <1>2, <2>4 DEF Applied, b
<1>3. CASE r.type \in {"CALCULATE_MOVES", "ASSIGN_COLOR"}
  BY <1>3 DEF Applied
<1> QED
  BY <1>1, <1>2, <1>3 DEF Response

(* A receiver holds a copy of the game when a promotion arrives, and its   *)
(* colour when any update does.                                            *)
LEMMA ReceiveType ==
  ASSUME IInv, NEW p \in Color, ReceiveStep(p)
  PROVE  TypeOK'
<1> DEFINE r     == Head(toClient[p])
           state == Applied(cache[p], r)
<1>1. /\ net2gui \in [Color -> Seq(NetworkMessage)]
      /\ toClient \in [Color -> Seq(Response)]
      /\ cache \in [Color -> GameStateCache \cup {Uninitialized}]
      /\ teamColor \in [Color -> Color \cup {Uninitialized}]
  BY DEF IInv, TypeOK, GuiTypeOK, WireTypeOK, ClientTypeOK
<1>2. toClient[p] # <<>> /\ toClient' = [toClient EXCEPT ![p] = Tail(@)]
  BY DEF ReceiveStep, ReceiveResponse
<1>3. r \in Response /\ r = toClient[p][1] /\ toClient' \in [Color -> Seq(Response)]
  BY <1>1, <1>2, HeadTailProperties
<1>4. /\ r.type # "ASSIGN_COLOR" => teamColor[p] \in Color
      /\ r.type \notin {"ASSIGN_COLOR", "RESTART"} => cache[p] \in GameStateCache
  BY <1>3 DEF IInv, StartupOrder
<1>5. r.type # "ASSIGN_COLOR" => state \in GameStateCache
  BY <1>3, <1>4, AppliedType
<1>6. cache' \in [Color -> GameStateCache \cup {Uninitialized}]
  <2>1. state \in GameStateCache \cup {Uninitialized}
    BY <1>1, <1>5 DEF Applied
  <2> QED
    BY <1>1, <2>1 DEF ReceiveStep, ReceiveResponse
<1>7. teamColor' \in [Color -> Color \cup {Uninitialized}]
  <2>1. r.type = "ASSIGN_COLOR" => r.color \in Color
    BY <1>3 DEF Response
  <2> QED
    BY <1>1, <2>1 DEF ReceiveStep, ReceiveResponse
<1>8. net2gui' \in [Color -> Seq(NetworkMessage)]
  <2> HIDE DEF state
  <2>1. CASE r.type = "CALCULATE_MOVES"
    <3>1. [msg |-> "Moves", moves |-> r.moves] \in NetworkMessage
      BY <1>3, <2>1 DEF Response, NetworkMessage
    <3>2. net2gui' = [net2gui EXCEPT ![p] = Append(@, [msg |-> "Moves", moves |-> r.moves])]
      BY <2>1 DEF ReceiveStep, ReceiveResponse
    <3> QED
      BY <1>1, <3>1, <3>2
  <2>2. CASE r.type \in {"COMMIT_MOVE", "PROMOTE"}
    <3>1. [msg |-> "StateUpdateMsg", cache |-> state, myColor |-> teamColor[p]] \in NetworkMessage
      BY <1>4, <1>5, <2>2 DEF NetworkMessage
    <3>2. net2gui' = [net2gui EXCEPT ![p] = Append(@,
                        [msg |-> "StateUpdateMsg", cache |-> state, myColor |-> teamColor[p]])]
      BY <2>2 DEF ReceiveStep, ReceiveResponse, state
    <3> QED
      BY <1>1, <3>1, <3>2
  <2>3. CASE r.type = "RESTART"
    <3>1. [msg |-> "RestartMsg", cache |-> state, myColor |-> teamColor[p]] \in NetworkMessage
      BY <1>4, <1>5, <2>3 DEF NetworkMessage
    <3>2. net2gui' = [net2gui EXCEPT ![p] = Append(@,
                        [msg |-> "RestartMsg", cache |-> state, myColor |-> teamColor[p]])]
      BY <2>3 DEF ReceiveStep, ReceiveResponse, state
    <3> QED
      BY <1>1, <3>1, <3>2
  <2>4. CASE r.type = "ASSIGN_COLOR"
    BY <1>1, <2>4 DEF ReceiveStep, ReceiveResponse
  <2> QED
    BY <1>3, <2>1, <2>2, <2>3, <2>4 DEF Response
<1> QED
  BY <1>3, <1>6, <1>7, <1>8 DEF IInv, TypeOK, GuiTypeOK, WireTypeOK, ClientTypeOK, SessionTypeOK,
     ReceiveStep, ReceiveResponse

(* A snapshot of a session can be sent. *)
LEMMA SnapshotType ==
  ASSUME NEW s \in [board : Board, score : Score, currentTeam : Color], NEW f \in Flag
  PROVE  Snapshot(s, f) \in GameStateCache
BY RulesAssumption DEF Snapshot, GameStateCache

LEMMA NewSessionType == NewSession \in [board : Board, score : Score, currentTeam : Color]
BY RulesAssumption DEF NewSession, Score, UInt8, Color

LEMMA ServerType ==
  ASSUME TypeOK, NEW p \in Color, ServerStep(p)
  PROVE  TypeOK'
<1> DEFINE r == Head(toServer[p])
           States == [board : Board, score : Score, currentTeam : Color]
<1>1. /\ toServer \in [Color -> Seq(Request)]
      /\ toClient \in [Color -> Seq(Response)]
      /\ session \in States
  BY DEF TypeOK, WireTypeOK, SessionTypeOK
<1>2. toServer[p] # <<>> /\ toServer' = [toServer EXCEPT ![p] = Tail(@)]
  BY DEF ServerStep, OnPacket, PerformAvailableMoves, PerformCommitMove, PerformPromotion,
     PerformRestart, Requested
<1>3. r \in Request /\ toServer' \in [Color -> Seq(Request)]
  BY <1>1, <1>2, HeadTailProperties
<1>4. session.board \in Board /\ session.score \in Score /\ session.currentTeam \in Color
  BY <1>1
<1>5. SUFFICES toClient' \in [Color -> Seq(Response)] /\ session' \in States
  BY <1>3 DEF TypeOK, GuiTypeOK, WireTypeOK, ClientTypeOK, SessionTypeOK, ServerStep,
     guiVars, clientVars
<1>6. ASSUME NEW x \in Response, SendBoth(x) PROVE toClient' \in [Color -> Seq(Response)]
  BY <1>1, <1>6 DEF SendBoth
<1>7. CASE PerformAvailableMoves(p)
  <2>1. r.pos \in Square
    BY <1>3, <1>7 DEF PerformAvailableMoves, Requested, Request
  <2>2. [type |-> "CALCULATE_MOVES",
         moves |-> LegalMoves(session.board, r.pos, session.currentTeam)] \in Response
    BY <1>4, <2>1, RulesAssumption DEF Response
  <2> QED
    BY <1>1, <1>7, <2>2 DEF PerformAvailableMoves
<1>8. CASE PerformCommitMove(p)
  <2> DEFINE team == session.currentTeam
             res  == CommitMove(session.board, r.from, r.to, team)
             next == [board |-> res.board, score |-> Credited(session.score, team, res.score),
                      currentTeam |-> Opposite(team)]
  <2>1. r.from \in Square /\ r.to \in Square
    BY <1>3, <1>8 DEF PerformCommitMove, Requested, Request
  <2>2. res \in MoveResult
    BY <1>4, <2>1, RulesAssumption
  <2>3. res.board \in Board /\ res.score \in 0 .. 15 /\ res.flag \in Flag
    BY <2>2 DEF MoveResult
  <2>4. Credited(session.score, team, res.score) \in Score
    <3> HIDE DEF res
    <3>1. session.score.white \in 0 .. 255 /\ session.score.black \in 0 .. 255
      BY <1>4 DEF Score, UInt8
    <3> DEFINE w == (session.score.white + res.score) % 256
               b == (session.score.black + res.score) % 256
    <3>2. \A x \in 0 .. 255, y \in 0 .. 15 : (x + y) % 256 \in 0 .. 255
      OBVIOUS
    <3>3. w \in 0 .. 255 /\ b \in 0 .. 255
      BY <2>3, <3>1, <3>2
    <3>4. \/ Credited(session.score, team, res.score) = [session.score EXCEPT !.white = w]
          \/ Credited(session.score, team, res.score) = [session.score EXCEPT !.black = b]
      BY DEF Credited
    <3> HIDE DEF w, b
    <3> QED
      BY <1>4, <3>3, <3>4 DEF Score, UInt8
  <2>5. Opposite(team) \in Color
    BY DEF Opposite, Color
  <2> HIDE DEF res
  <2>6. next \in States
    BY <2>3, <2>4, <2>5
  <2>7. Snapshot(next, res.flag) \in GameStateCache
    BY <2>3, <2>6, SnapshotType
  <2> HIDE DEF next
  <2>8. [type |-> "COMMIT_MOVE", cache |-> Snapshot(next, res.flag)] \in Response
    BY <2>7 DEF Response
  <2>9. session' = next /\ SendBoth([type |-> "COMMIT_MOVE", cache |-> Snapshot(next, res.flag)])
    BY <1>8 DEF PerformCommitMove, next, res
  <2> QED
    BY <1>6, <2>6, <2>8, <2>9
<1>9. CASE PerformPromotion(p)
  <2>1. r.pos \in Square /\ r.piece \in PromotionChoice
    BY <1>3, <1>9 DEF PerformPromotion, Requested, Request
  <2>2. [type |-> "PROMOTE", piece |-> r.piece, pos |-> r.pos] \in Response
    BY <2>1 DEF Response
  <2> DEFINE b == Promote(session.board, r.pos, r.piece)
  <2>3. b \in Board
    BY <1>4, <2>1, RulesAssumption
  <2> HIDE DEF b
  <2>4. [session EXCEPT !.board = b] \in States
    BY <1>1, <2>3
  <2> QED
    BY <1>6, <1>9, <2>2, <2>4 DEF PerformPromotion, b
<1>10. CASE PerformRestart(p)
  <2>1. Snapshot(NewSession, "NONE") \in GameStateCache
    BY NewSessionType, SnapshotType DEF Flag
  <2>2. [type |-> "RESTART", cache |-> Snapshot(NewSession, "NONE")] \in Response
    BY <2>1 DEF Response
  <2> QED
    BY <1>6, <1>10, <2>2, NewSessionType DEF PerformRestart
<1> QED
  BY <1>7, <1>8, <1>9, <1>10 DEF ServerStep, OnPacket

-----------------------------------------------------------------------------
LEMMA StartupKept ==
  ASSUME IInv, NEW p \in Color, Next, TypeOK'
  PROVE  StartupOrder(p)'
<1>1. /\ toClient \in [Color -> Seq(Response)] /\ toClient' \in [Color -> Seq(Response)]
      /\ cache \in [Color -> GameStateCache \cup {Uninitialized}]
      /\ teamColor \in [Color -> Color \cup {Uninitialized}]
      /\ Len(toClient[p]) \in Nat
  BY LenProperties DEF IInv, TypeOK, WireTypeOK, ClientTypeOK
<1>2. StartupOrder(p)
  BY DEF IInv
<1>3. CASE UNCHANGED <<toClient[p], cache[p], teamColor[p]>>
  BY <1>2, <1>3 DEF StartupOrder
<1>4. ASSUME NEW x \in Response, UNCHANGED <<cache[p], teamColor[p]>>,
             toClient'[p] = Append(toClient[p], x)
      PROVE  StartupOrder(p)'
  <2>1. /\ Len(toClient'[p]) = Len(toClient[p]) + 1
        /\ \A i \in 1 .. Len(toClient[p]) : toClient'[p][i] = toClient[p][i]
    BY <1>1, <1>4, AppendProperties
  <2>2. toClient[p] # <<>> => toClient'[p] # <<>> /\ 1 \in 1 .. Len(toClient[p])
    BY <1>1, <1>4, EmptySeq, AppendProperties
  <2> QED
    BY <1>1, <1>2, <1>4, <2>1, <2>2 DEF StartupOrder
<1>5. CASE ReceiveStep(p)
  <2> DEFINE q == toClient[p]
  <2>1. q # <<>> /\ toClient'[p] = Tail(q)
    BY <1>1, <1>5 DEF ReceiveStep, ReceiveResponse
  <2>2. /\ Head(q) = q[1] /\ Head(q) \in Response
        /\ Len(Tail(q)) = Len(q) - 1
        /\ \A i \in 1 .. Len(q) - 1 : Tail(q)[i] = q[i + 1]
    BY <1>1, <2>1, HeadTailProperties
  <2>3. cache'[p] = Applied(cache[p], q[1])
    BY <1>1, <1>5, <2>2 DEF ReceiveStep, ReceiveResponse
  <2>4. q[1].type # "ASSIGN_COLOR" => teamColor'[p] = teamColor[p]
    BY <1>1, <1>5, <2>2 DEF ReceiveStep, ReceiveResponse
  <2>5. q[1].type = "ASSIGN_COLOR" => teamColor'[p] = q[1].color /\ q[1].color \in Color
    BY <1>1, <1>5, <2>2 DEF ReceiveStep, ReceiveResponse, Response
  <2>6. cache[p] \in GameStateCache => cache'[p] \in GameStateCache
    BY <2>2, <2>3, AppliedType
  <2>7. CASE teamColor[p] \in Color /\ cache[p] \in GameStateCache
    BY <2>4, <2>5, <2>6, <2>7 DEF StartupOrder
  <2>8. CASE teamColor[p] \in Color /\ q[1].type = "RESTART"
    <3>1. cache'[p] \in GameStateCache
      BY <2>2, <2>3, <2>8 DEF Applied, Response
    <3> QED
      BY <2>4, <2>8, <3>1 DEF StartupOrder
  <2>9. CASE Len(q) >= 2 /\ q[1].type = "ASSIGN_COLOR" /\ q[2].type = "RESTART"
    <3>1. toClient'[p] # <<>> /\ toClient'[p][1] = q[2]
      <4>1. Tail(q)[1] = q[2] /\ Len(Tail(q)) # 0
        BY <1>1, <2>2, <2>9
      <4> QED
        BY <2>1, <4>1, EmptySeq
    <3> QED
      BY <2>5, <2>9, <3>1 DEF StartupOrder
  <2> QED
    BY <1>2, <2>7, <2>8, <2>9 DEF StartupOrder
<1>6. ASSUME NEW c \in Color, PlayerStep(c) \/ UpdateStep(c) \/ SendStep(c)
      PROVE  StartupOrder(p)'
  BY <1>3, <1>6 DEF PlayerStep, UpdateStep, SendStep, SendRequest, clientVars, wireVars
<1>7. ASSUME NEW c \in Color, ReceiveStep(c) PROVE StartupOrder(p)'
  <2>1. CASE c # p
    BY <1>1, <1>3, <1>7, <2>1 DEF ReceiveStep, ReceiveResponse
  <2> QED
    BY <1>5, <1>7, <2>1
<1>8. ASSUME NEW c \in Color, ServerStep(c) PROVE StartupOrder(p)'
  <2>1. UNCHANGED <<cache, teamColor>>
    BY <1>8 DEF ServerStep, clientVars
  <2>2. \/ toClient'[p] = toClient[p]
        \/ \E x : toClient'[p] = Append(toClient[p], x)
    BY <1>1, <1>8 DEF ServerStep, OnPacket, PerformAvailableMoves, PerformCommitMove,
       PerformPromotion, PerformRestart, SendBoth
  <2>3. ASSUME NEW x, toClient'[p] = Append(toClient[p], x) PROVE x \in Response
    <3>1. toClient'[p] \in Seq(Response) /\ toClient[p] \in Seq(Response)
      BY <1>1
    <3>2. /\ Len(toClient'[p]) = Len(toClient[p]) + 1
          /\ toClient'[p][Len(toClient[p]) + 1] = x
      BY <2>3, <3>1
    <3> QED
      BY <1>1, <3>1, <3>2, ElementOfSeq
  <2> QED
    BY <1>3, <1>4, <2>1, <2>2, <2>3
<1> QED
  BY <1>6, <1>7, <1>8 DEF Next

-----------------------------------------------------------------------------
LEMMA SelectionFrame ==
  ASSUME NEW p \in Color, SelectionKnown(p),
         UNCHANGED <<gui[p], menus[p], gui2net[p], selectedPiece[p]>>
  PROVE  SelectionKnown(p)'
BY DEF SelectionKnown, WillRemember

(* A request that selects nothing, and needs no square the sender will not *)
(* have, may be queued.                                                    *)
LEMMA SelectionAppend ==
  ASSUME IInv, NEW p \in Color, NEW m \in GuiMessage,
         gui2net'[p] = Append(gui2net[p], m), selectedPiece'[p] = selectedPiece[p],
         m.req = "MoveCommitReq" => WillRemember(p, m.picked),
         m.req = "PromotionReq" => \E s \in Square : WillRemember(p, s)
  PROVE  /\ \A s : WillRemember(p, s) /\ ~Selects(m) => WillRemember(p, s)'
         /\ Selects(m) => WillRemember(p, SelectedBy(m))'
         /\ \A i \in 1 .. Len(gui2net'[p]) :
              LET n == gui2net'[p][i] IN
              /\ n.req = "MoveCommitReq" => Remembered(gui2net'[p], selectedPiece'[p], i, n.picked)
              /\ n.req = "PromotionReq" =>
                   \E s \in Square : Remembered(gui2net'[p], selectedPiece'[p], i, s)
<1> DEFINE q   == gui2net[p]
           r   == Append(q, m)
           mem == selectedPiece[p]
<1>1. /\ q \in Seq(GuiMessage) /\ Len(q) \in Nat /\ Len(r) = Len(q) + 1
      /\ \A i \in 1 .. Len(q) : r[i] = q[i]
      /\ r[Len(q) + 1] = m
  BY LenProperties, AppendProperties DEF IInv, TypeOK, GuiTypeOK
<1>2. \A i \in 1 .. Len(q) :
        /\ q[i].req = "MoveCommitReq" => Remembered(q, mem, i, q[i].picked)
        /\ q[i].req = "PromotionReq" => \E s \in Square : Remembered(q, mem, i, s)
  BY DEF IInv, SelectionKnown
<1> HIDE DEF q, r, mem
<1>3. ASSUME NEW s, Remembered(q, mem, Len(q) + 1, s), ~Selects(m)
      PROVE  Remembered(r, mem, Len(r) + 1, s)
  BY <1>1, <1>3, RememberedSkip DEF r
<1>4. Selects(m) => Remembered(r, mem, Len(r) + 1, SelectedBy(m))
  BY <1>1, RememberedSelect DEF r
<1>5. ASSUME NEW i \in 1 .. Len(q) + 1, NEW s, Remembered(q, mem, i, s)
      PROVE  Remembered(r, mem, i, s)
  BY <1>1, <1>5, RememberedAppend DEF r
<1>6. ASSUME NEW i \in 1 .. Len(r)
      PROVE  /\ r[i].req = "MoveCommitReq" => Remembered(r, mem, i, r[i].picked)
             /\ r[i].req = "PromotionReq" => \E s \in Square : Remembered(r, mem, i, s)
  <2>1. CASE i \in 1 .. Len(q)
    BY <1>1, <1>2, <1>5, <2>1
  <2>2. CASE i = Len(q) + 1
    BY <1>1, <1>5, <2>2 DEF WillRemember, q, mem
  <2> QED
    BY <1>1, <1>6, <2>1, <2>2
<1> QED
  BY <1>3, <1>4, <1>6 DEF WillRemember, q, r, mem

LEMMA SelectionPlayer ==
  ASSUME IInv, NEW p \in Color, PlayerStep(p), TypeOK'
  PROVE  SelectionKnown(p)'
<1>1. /\ gui \in [Color -> Gui] /\ menus \in [Color -> Nat]
      /\ gui2net \in [Color -> Seq(GuiMessage)]
      /\ gui[p].selected \in Square
      /\ selectedPiece' = selectedPiece
  BY DEF IInv, TypeOK, GuiTypeOK, Gui, PlayerStep, clientVars
<1>2. SelectionKnown(p)
  BY DEF IInv
<1>3. ASSUME NEW pos \in Square, ClickPiece(p, pos) PROVE SelectionKnown(p)'
  <2> DEFINE m == [req |-> "AvailableMovesReq", from |-> pos]
  <2>1. /\ m \in GuiMessage /\ Selects(m) /\ SelectedBy(m) = pos
        /\ gui2net'[p] = Append(gui2net[p], m)
    BY <1>1, <1>3 DEF ClickPiece, Push, GuiMessage, Selects, SelectedBy
  <2>2. gui'[p].selected = pos
    BY <1>1, <1>3 DEF ClickPiece, Gui
  <2>3. WillRemember(p, pos)'
    BY <1>1, <2>1, SelectionAppend
  <2> QED
    BY <1>1, <2>1, <2>2, <2>3, SelectionAppend DEF SelectionKnown
<1>4. ASSUME NEW pos \in Square, ClickMove(p, pos) PROVE SelectionKnown(p)'
  <2> DEFINE m == [req |-> "MoveCommitReq", to |-> pos, picked |-> gui[p].selected]
  <2>1. /\ m \in GuiMessage /\ Selects(m) /\ SelectedBy(m) = pos
        /\ gui2net'[p] = Append(gui2net[p], m)
    BY <1>1, <1>4 DEF ClickMove, Push, GuiMessage, Selects, SelectedBy
  <2>2. WillRemember(p, m.picked)
    BY <1>2, <1>4 DEF SelectionKnown, ClickMove
  <2>3. gui'[p].fsm = "MOVE_COMMIT_WAITING"
    BY <1>1, <1>4 DEF ClickMove, Gui
  <2>4. WillRemember(p, pos)'
    BY <1>1, <2>1, <2>2, SelectionAppend
  <2> QED
    BY <1>1, <2>1, <2>2, <2>3, <2>4, SelectionAppend DEF SelectionKnown
<1>5. ASSUME ClickSelected(p) PROVE SelectionKnown(p)'
  <2>1. gui'[p].fsm = "IDLE"
    BY <1>1, <1>5 DEF ClickSelected, Gui
  <2> QED
    BY <1>1, <1>2, <1>5, <2>1 DEF ClickSelected, SelectionKnown, WillRemember
<1>6. ASSUME PressR(p) PROVE SelectionKnown(p)'
  <2> DEFINE m == [req |-> "RestartReq"]
  <2>1. /\ m \in GuiMessage /\ ~Selects(m)
        /\ gui2net'[p] = Append(gui2net[p], m) /\ gui' = gui /\ menus' = menus
    BY <1>1, <1>6 DEF PressR, Push, GuiMessage, Selects
  <2>2. \A s : WillRemember(p, s) => WillRemember(p, s)'
    BY <1>1, <2>1, SelectionAppend
  <2> QED
    BY <1>1, <1>2, <2>1, <2>2, SelectionAppend DEF SelectionKnown
<1>7. ASSUME NEW type \in PromotionChoice, ChoosePromotion(p, type) PROVE SelectionKnown(p)'
  <2> DEFINE m == [req |-> "PromotionReq", type |-> type]
  <2>1. /\ m \in GuiMessage /\ ~Selects(m)
        /\ gui2net'[p] = Append(gui2net[p], m) /\ gui' = gui
    BY <1>1, <1>7 DEF ChoosePromotion, Push, GuiMessage, Selects
  <2>2. menus[p] > 0
    BY <1>7 DEF ChoosePromotion
  <2>3. \E s \in Square : WillRemember(p, s)
    BY <1>2, <2>2 DEF SelectionKnown
  <2>4. \A s : WillRemember(p, s) => WillRemember(p, s)'
    BY <1>1, <2>1, <2>3, SelectionAppend
  <2> QED
    BY <1>1, <1>2, <2>1, <2>3, <2>4, SelectionAppend DEF SelectionKnown
<1> QED
  BY <1>3, <1>4, <1>5, <1>6, <1>7 DEF PlayerStep, Player

LEMMA SelectionUpdate ==
  ASSUME IInv, NEW p \in Color, UpdateStep(p)
  PROVE  SelectionKnown(p)'
<1>1. /\ gui \in [Color -> Gui] /\ menus \in [Color -> Nat]
      /\ selectedPiece' = selectedPiece /\ gui2net' = gui2net
  BY DEF IInv, TypeOK, GuiTypeOK, UpdateStep, clientVars, Update, OnRestart, OnMoves, OnStateUpdate
<1>2. SelectionKnown(p)
  BY DEF IInv
<1>3. \A s : WillRemember(p, s)' <=> WillRemember(p, s)
  BY <1>1 DEF WillRemember
<1>4. SUFFICES
        /\ gui'[p].fsm \in {"MOVE_WAITING", "MOVE_SELECTION"} =>
             /\ gui[p].fsm \in {"MOVE_WAITING", "MOVE_SELECTION"}
             /\ gui'[p].selected = gui[p].selected
        /\ gui'[p].fsm \in {"MOVE_COMMIT_WAITING", "PROMOTION_COMMIT_WAITING"} \/ menus'[p] > 0 =>
             gui[p].fsm \in {"MOVE_COMMIT_WAITING", "PROMOTION_COMMIT_WAITING"} \/ menus[p] > 0
  BY <1>1, <1>2, <1>3 DEF SelectionKnown
<1>5. CASE OnRestart(p)
  BY <1>1, <1>5 DEF OnRestart, Gui
<1>6. CASE OnMoves(p)
  BY <1>1, <1>6 DEF OnMoves, Gui
<1>7. CASE OnStateUpdate(p)
  <2> DEFINE m == Head(net2gui[p])
  <2>1. IdleUpdate(p, m) \/ CommitUpdate(p, m) \/ PromotionUpdate(p, m) \/ IgnoredUpdate(p)
    BY <1>7 DEF OnStateUpdate
  <2> HIDE DEF m
  <2>2. CASE IdleUpdate(p, m)
    BY <1>1, <2>2 DEF IdleUpdate, Gui
  <2>3. CASE CommitUpdate(p, m)
    BY <1>1, <2>3 DEF CommitUpdate, AfterCommit, Gui
  <2>4. CASE PromotionUpdate(p, m)
    BY <1>1, <2>4 DEF PromotionUpdate, Gui
  <2>5. CASE IgnoredUpdate(p)
    BY <2>5 DEF IgnoredUpdate
  <2> QED
    BY <2>1, <2>2, <2>3, <2>4, <2>5
<1> QED
  BY <1>5, <1>6, <1>7 DEF UpdateStep, Update

LEMMA SelectionSend ==
  ASSUME IInv, NEW p \in Color, SendStep(p)
  PROVE  SelectionKnown(p)'
<1> DEFINE q   == gui2net[p]
           m   == Head(q)
           mem == selectedPiece[p]
           new == IF Selects(m) THEN SelectedBy(m) ELSE mem
<1>1. /\ gui' = gui /\ menus' = menus
      /\ gui2net \in [Color -> Seq(GuiMessage)]
      /\ selectedPiece \in [Color -> Square \cup {Uninitialized}]
  BY DEF IInv, TypeOK, GuiTypeOK, ClientTypeOK, SendStep, SendRequest
<1>2. q # <<>> /\ gui2net'[p] = Tail(q)
  BY <1>1 DEF SendStep, SendRequest
<1>3. /\ m \in GuiMessage /\ Len(q) \in Nat \ {0} /\ Len(Tail(q)) = Len(q) - 1
      /\ \A i \in 1 .. Len(q) - 1 : Tail(q)[i] = q[i + 1]
  BY <1>1, <1>2, EmptySeq, HeadTailProperties
<1>4. selectedPiece'[p] = new
  BY <1>1 DEF SendStep, SendRequest, Selects, SelectedBy
<1>5. SelectionKnown(p)
  BY DEF IInv
<1>6. ASSUME NEW i \in 2 .. Len(q) + 1, NEW s, Remembered(q, mem, i, s)
      PROVE  Remembered(Tail(q), new, i - 1, s)
  BY <1>1, <1>2, <1>6, RememberedTail
<1> HIDE DEF new
<1>7. ASSUME NEW s, WillRemember(p, s) PROVE WillRemember(p, s)'
  <2>1. Remembered(q, mem, Len(q) + 1, s)
    BY <1>7 DEF WillRemember
  <2>2. Remembered(Tail(q), new, Len(q), s)
    BY <1>3, <1>6, <2>1
  <2> QED
    BY <1>2, <1>3, <1>4, <2>2 DEF WillRemember
<1>8. ASSUME NEW i \in 1 .. Len(Tail(q))
      PROVE  LET n == Tail(q)[i] IN
             /\ n.req = "MoveCommitReq" => Remembered(Tail(q), new, i, n.picked)
             /\ n.req = "PromotionReq" => \E s \in Square : Remembered(Tail(q), new, i, s)
  <2>1. i + 1 \in 1 .. Len(q) /\ i + 1 \in 2 .. Len(q) + 1 /\ Tail(q)[i] = q[i + 1]
    BY <1>3
  <2>2. /\ q[i + 1].req = "MoveCommitReq" => Remembered(q, mem, i + 1, q[i + 1].picked)
        /\ q[i + 1].req = "PromotionReq" => \E s \in Square : Remembered(q, mem, i + 1, s)
    BY <1>5, <2>1 DEF SelectionKnown
  <2>3. \A s : Remembered(q, mem, i + 1, s) => Remembered(Tail(q), new, i, s)
    BY <1>6, <2>1
  <2> QED
    BY <2>1, <2>2, <2>3
<1> QED
  BY <1>1, <1>2, <1>4, <1>5, <1>7, <1>8 DEF SelectionKnown

LEMMA SelectionKept ==
  ASSUME IInv, NEW p \in Color, Next, TypeOK'
  PROVE  SelectionKnown(p)'
<1>1. /\ gui \in [Color -> Gui] /\ menus \in [Color -> Nat]
      /\ gui2net \in [Color -> Seq(GuiMessage)]
      /\ selectedPiece \in [Color -> Square \cup {Uninitialized}]
      /\ SelectionKnown(p)
  BY DEF IInv, TypeOK, GuiTypeOK, ClientTypeOK
<1>2. PICK c \in Color :
        PlayerStep(c) \/ UpdateStep(c) \/ SendStep(c) \/ ReceiveStep(c) \/ ServerStep(c)
  BY DEF Next
<1>3. CASE PlayerStep(c)
  <2>1. CASE c # p
    <3>1. UNCHANGED <<gui[p], menus[p], gui2net[p], selectedPiece[p]>>
      BY <1>1, <1>3, <2>1 DEF PlayerStep, Player, ClickPiece, ClickMove, ClickSelected, PressR,
         ChoosePromotion, Push, clientVars
    <3> QED
      BY <1>1, <3>1, SelectionFrame
  <2> QED
    BY <1>3, <2>1, SelectionPlayer
<1>4. CASE UpdateStep(c)
  <2>1. CASE c # p
    <3>1. UNCHANGED <<gui[p], menus[p], gui2net[p], selectedPiece[p]>>
      BY <1>1, <1>4, <2>1 DEF UpdateStep, Update, OnRestart, OnMoves, OnStateUpdate, IdleUpdate,
         CommitUpdate, PromotionUpdate, IgnoredUpdate, clientVars
    <3> QED
      BY <1>1, <3>1, SelectionFrame
  <2> QED
    BY <1>4, <2>1, SelectionUpdate
<1>5. CASE SendStep(c)
  <2>1. CASE c # p
    <3>1. UNCHANGED <<gui[p], menus[p], gui2net[p], selectedPiece[p]>>
      BY <1>1, <1>5, <2>1 DEF SendStep, SendRequest
    <3> QED
      BY <1>1, <3>1, SelectionFrame
  <2> QED
    BY <1>5, <2>1, SelectionSend
<1>6. CASE ReceiveStep(c) \/ ServerStep(c)
  <2>1. UNCHANGED <<gui[p], menus[p], gui2net[p], selectedPiece[p]>>
    BY <1>6 DEF ReceiveStep, ReceiveResponse, ServerStep, guiVars, clientVars
  <2> QED
    BY <1>1, <2>1, SelectionFrame
<1> QED
  BY <1>2, <1>3, <1>4, <1>5, <1>6

-----------------------------------------------------------------------------
LEMMA InitIInv == Init => IInv
<1> SUFFICES ASSUME Init PROVE IInv
  OBVIOUS
<1> DEFINE restart == [type |-> "RESTART", cache |-> Snapshot(NewSession, "NONE")]
           first(p) == [type |-> "ASSIGN_COLOR", color |-> p]
<1>1. PICK clicked \in Square \cup {Uninitialized} :
        /\ gui = [p \in Color |->
                    IF p = "WHITE" /\ clicked # Uninitialized
                    THEN ClickedGui(clicked)
                    ELSE NewGui]
        /\ selectedPiece = [p \in Color |-> IF p = "WHITE" THEN clicked ELSE Uninitialized]
  BY DEF Init
<1>2. NoTiles \in BoardType
  BY DEF NoTiles, NoPiece, BoardType, Piece, PieceType, Color
<1>3. NewGui \in Gui
  BY <1>2, RulesAssumption DEF NewGui, Gui, FsmState, Color
<1>4. clicked # Uninitialized => ClickedGui(clicked) \in Gui
  BY <1>1, <1>2 DEF ClickedGui, Gui, FsmState, Color
<1>5. \A p \in Color :
        /\ gui[p] \in Gui
        /\ gui[p].fsm = "IDLE" \/ /\ gui[p].fsm = "MOVE_WAITING"
                                  /\ gui[p].selected = selectedPiece[p]
  <2>1. CASE clicked # Uninitialized
    BY <1>1, <1>3, <1>4, <2>1 DEF NewGui, ClickedGui
  <2>2. CASE clicked = Uninitialized
    BY <1>1, <1>3, <2>2 DEF NewGui
  <2> QED
    BY <2>1, <2>2
<1>6. gui \in [Color -> Gui]
  BY <1>1, <1>5
<1>7. selectedPiece \in [Color -> Square \cup {Uninitialized}]
  BY <1>1
<1>8. restart \in Response /\ \A p \in Color : first(p) \in Response
  BY NewSessionType, SnapshotType DEF Response, Flag
<1> HIDE DEF restart
<1>9. \A p \in Color : <<first(p), restart>> \in Seq(Response)
  <2> SUFFICES ASSUME NEW p \in Color PROVE <<first(p), restart>> \in Seq(Response)
    OBVIOUS
  <2> DEFINE x == first(p)
  <2>1. x \in Response
    BY <1>8
  <2> HIDE DEF x
  <2> QED
    BY <1>8, <2>1
<1>10. toClient = [p \in Color |-> <<first(p), restart>>]
  BY DEF Init, restart
<1>11. toClient \in [Color -> Seq(Response)]
  BY <1>9, <1>10
<1>12. TypeOK
  <2>1. GuiTypeOK
    BY <1>6, BoundsAssumption DEF Init, GuiTypeOK
  <2>2. WireTypeOK
    BY <1>11 DEF Init, WireTypeOK
  <2>3. ClientTypeOK /\ SessionTypeOK
    BY <1>7, NewSessionType DEF Init, ClientTypeOK, SessionTypeOK
  <2> QED
    BY <2>1, <2>2, <2>3 DEF TypeOK
<1>13. ASSUME NEW p \in Color PROVE StartupOrder(p) /\ SelectionKnown(p)
  <2>1. /\ Len(toClient[p]) >= 2
        /\ toClient[p][1].type = "ASSIGN_COLOR" /\ toClient[p][2].type = "RESTART"
    BY <1>10 DEF restart
  <2>2. gui2net[p] = <<>> /\ menus[p] = 0
    BY DEF Init
  <2>3. Remembered(<<>>, selectedPiece[p], 1, selectedPiece[p])
    BY DEF Remembered
  <2>4. SelectionKnown(p)
    BY <1>5, <2>2, <2>3 DEF SelectionKnown, WillRemember
  <2> QED
    BY <2>1, <2>4 DEF StartupOrder
<1> QED
  BY <1>12, <1>13 DEF IInv

LEMMA NextIInv == IInv /\ [Next]_vars => IInv'
<1> SUFFICES ASSUME IInv, [Next]_vars PROVE IInv'
  OBVIOUS
<1>1. CASE UNCHANGED vars
  BY <1>1 DEF vars, IInv, TypeOK, GuiTypeOK, WireTypeOK, ClientTypeOK, SessionTypeOK,
     StartupOrder, SelectionKnown, WillRemember
<1>2. CASE Next
  <2>1. TypeOK'
    <3>1. PICK p \in Color :
            PlayerStep(p) \/ UpdateStep(p) \/ SendStep(p) \/ ReceiveStep(p) \/ ServerStep(p)
      BY <1>2 DEF Next
    <3> QED
      BY <3>1, PlayerType, UpdateType, SendType, ReceiveType, ServerType DEF IInv
  <2> QED
    BY <1>2, <2>1, StartupKept, SelectionKept DEF IInv
<1> QED
  BY <1>1, <1>2

(* In every reachable state every variable has its type: no thread of a    *)
(* client ever uses the square, the colour or the copy of the game that    *)
(* the constructor of ChessClient leaves uninitialised.                    *)
THEOREM TypeCorrect == Spec => []TypeOK
<1>1. IInv => TypeOK
  BY DEF IInv
<1> QED
  BY InitIInv, NextIInv, <1>1, PTL DEF Spec

(* The square a MoveCommitReq is sent with is the one its player had       *)
(* selected, for every board, every number of requests and every           *)
(* interleaving of the GUI with the sender.                                *)
THEOREM CommitsNameSelections == Spec => []CommitNamesSelection
<1>1. IInv => CommitNamesSelection
  <2> SUFFICES ASSUME IInv, NEW p \in Color, gui2net[p] # <<>>,
                      Head(gui2net[p]).req = "MoveCommitReq"
               PROVE  selectedPiece[p] = Head(gui2net[p]).picked
    BY DEF CommitNamesSelection
  <2>1. 1 \in 1 .. Len(gui2net[p]) /\ Head(gui2net[p]) = gui2net[p][1]
    BY EmptySeq DEF IInv, TypeOK, GuiTypeOK
  <2>2. Remembered(gui2net[p], selectedPiece[p], 1, Head(gui2net[p]).picked)
    BY <2>1 DEF IInv, SelectionKnown
  <2> QED
    BY <2>2 DEF Remembered
<1> QED
  BY InitIInv, NextIInv, <1>1, PTL DEF Spec

-----------------------------------------------------------------------------
(* Convergence of the copies.  copies[i] is what the receiver of p will    *)
(* hold after the first i packets on their way.  It agrees with the        *)
(* session unless an update is still among the packets after them.         *)
IsUpdate(packet) == packet.type \in {"COMMIT_MOVE", "RESTART", "PROMOTE"}

Agrees(c, s) == c \in GameStateCache /\ c = Snapshot(s, c.flag)

Replays(p, copies) ==
  /\ copies[0] = cache[p]
  /\ \A i \in 1 .. Len(toClient[p]) : copies[i] = Applied(copies[i - 1], toClient[p][i])
  /\ \A i \in 0 .. Len(toClient[p]) :
       (\A j \in i + 1 .. Len(toClient[p]) : ~IsUpdate(toClient[p][j])) => Agrees(copies[i], session)

Converging == \A p \in Color : \E copies : Replays(p, copies)

(* A packet that is no update changes no copy. *)
LEMMA NoUpdateNoChange ==
  ASSUME NEW packet \in Response, NEW c, ~IsUpdate(packet)
  PROVE  Applied(c, packet) = c
BY DEF IsUpdate, Applied, Response

LEMMA InitConverging == Init => Converging
<1> SUFFICES ASSUME Init, NEW p \in Color PROVE \E copies : Replays(p, copies)
  BY DEF Converging
<1> DEFINE game   == Snapshot(NewSession, "NONE")
           copies == [i \in 0 .. 2 |-> IF i = 2 THEN game ELSE Uninitialized]
<1>1. /\ Len(toClient[p]) = 2
      /\ toClient[p][1].type = "ASSIGN_COLOR"
      /\ toClient[p][2].type = "RESTART" /\ toClient[p][2].cache = game
      /\ cache[p] = Uninitialized /\ session = NewSession
  BY DEF Init
<1>2. game \in GameStateCache /\ game.flag = "NONE"
  BY NewSessionType, SnapshotType DEF Flag, Snapshot
<1>3. Agrees(game, session)
  BY <1>1, <1>2 DEF Agrees
<1>4. Applied(Uninitialized, toClient[p][1]) = Uninitialized
      /\ Applied(Uninitialized, toClient[p][2]) = game
  BY <1>1 DEF Applied
<1> HIDE DEF game
<1>5. copies[0] = Uninitialized /\ copies[1] = Uninitialized /\ copies[2] = game
  OBVIOUS
<1>6. IsUpdate(toClient[p][2])
  BY <1>1 DEF IsUpdate
<1> HIDE DEF copies
<1>7. \A i \in 1 .. 2 : copies[i] = Applied(copies[i - 1], toClient[p][i])
  <2> SUFFICES ASSUME NEW i \in 1 .. 2 PROVE copies[i] = Applied(copies[i - 1], toClient[p][i])
    OBVIOUS
  <2>1. i = 1 \/ i = 2
    OBVIOUS
  <2> QED
    BY <1>4, <1>5, <2>1
<1>8. \A i \in 0 .. 2 : (\A j \in i + 1 .. 2 : ~IsUpdate(toClient[p][j])) => Agrees(copies[i], session)
  <2> SUFFICES ASSUME NEW i \in 0 .. 2, \A j \in i + 1 .. 2 : ~IsUpdate(toClient[p][j])
               PROVE  Agrees(copies[i], session)
    OBVIOUS
  <2>1. i = 2
    BY <1>6
  <2> QED
    BY <1>3, <1>5, <2>1
<1>9. Replays(p, copies)
  BY <1>1, <1>5, <1>7, <1>8 DEF Replays
<1> QED
  BY <1>9

(* Nothing moved: the same copies will do. *)
LEMMA ReplaysFrame ==
  ASSUME NEW p \in Color, NEW copies, Replays(p, copies),
         UNCHANGED <<cache[p], toClient[p], session>>
  PROVE  Replays(p, copies)'
BY DEF Replays

(* The receiver applies a packet: one copy less. *)
LEMMA ReplaysReceive ==
  ASSUME TypeOK, NEW p \in Color, NEW copies, Replays(p, copies), ReceiveStep(p)
  PROVE  \E shorter : Replays(p, shorter)'
<1> DEFINE q == toClient[p]
           n == Len(q)
<1>1. /\ toClient \in [Color -> Seq(Response)]
      /\ cache \in [Color -> GameStateCache \cup {Uninitialized}]
  BY DEF TypeOK, WireTypeOK, ClientTypeOK
<1>2. /\ q # <<>> /\ toClient'[p] = Tail(q)
      /\ cache'[p] = Applied(cache[p], Head(q))
      /\ session' = session
  BY <1>1 DEF ReceiveStep, ReceiveResponse
<1>3. /\ n \in Nat \ {0} /\ Len(Tail(q)) = n - 1 /\ Head(q) = q[1]
      /\ \A i \in 1 .. n - 1 : Tail(q)[i] = q[i + 1]
  BY <1>1, <1>2, EmptySeq, HeadTailProperties
<1>4. /\ copies[0] = cache[p]
      /\ \A i \in 1 .. n : copies[i] = Applied(copies[i - 1], q[i])
      /\ \A i \in 0 .. n : (\A j \in i + 1 .. n : ~IsUpdate(q[j])) => Agrees(copies[i], session)
  BY DEF Replays
<1>5. PICK shorter : \A i \in 0 .. n - 1 : shorter[i] = copies[i + 1]
  <2> WITNESS [i \in 0 .. n - 1 |-> copies[i + 1]]
  <2> QED
    OBVIOUS
<1> HIDE DEF n
<1>6. shorter[0] = cache'[p]
  <2>1. 0 \in 0 .. n - 1 /\ 1 \in 1 .. n
    BY <1>3
  <2>2. shorter[0] = copies[1] /\ copies[1] = Applied(copies[0], q[1])
    BY <1>4, <1>5, <2>1
  <2> QED
    BY <1>2, <1>3, <1>4, <2>2
<1>7. \A i \in 1 .. n - 1 : shorter[i] = Applied(shorter[i - 1], Tail(q)[i])
  <2> SUFFICES ASSUME NEW i \in 1 .. n - 1
               PROVE  shorter[i] = Applied(shorter[i - 1], Tail(q)[i])
    OBVIOUS
  <2>1. i + 1 \in 1 .. n /\ i \in 0 .. n - 1 /\ i - 1 \in 0 .. n - 1 /\ (i + 1) - 1 = i
        /\ (i - 1) + 1 = i
    BY <1>3
  <2>2. copies[i + 1] = Applied(copies[i], q[i + 1])
    BY <1>4, <2>1
  <2>3. shorter[i] = copies[i + 1] /\ shorter[i - 1] = copies[i]
    BY <1>5, <2>1
  <2> QED
    BY <1>3, <2>2, <2>3
<1>8. \A i \in 0 .. n - 1 :
        (\A j \in i + 1 .. n - 1 : ~IsUpdate(Tail(q)[j])) => Agrees(shorter[i], session)
  <2> SUFFICES ASSUME NEW i \in 0 .. n - 1, \A j \in i + 1 .. n - 1 : ~IsUpdate(Tail(q)[j])
               PROVE  Agrees(shorter[i], session)
    OBVIOUS
  <2>1. i + 1 \in 0 .. n
    BY <1>3
  <2>2. ASSUME NEW j \in (i + 1) + 1 .. n PROVE ~IsUpdate(q[j])
    <3>1. j - 1 \in i + 1 .. n - 1 /\ j - 1 \in 1 .. n - 1 /\ (j - 1) + 1 = j
      BY <1>3, <2>2
    <3>2. Tail(q)[j - 1] = q[j] /\ ~IsUpdate(Tail(q)[j - 1])
      BY <1>3, <3>1
    <3> QED
      BY <3>2
  <2>3. Agrees(copies[i + 1], session)
    BY <1>4, <2>1, <2>2
  <2> QED
    BY <1>5, <2>3
<1>9. Replays(p, shorter)'
  BY <1>2, <1>3, <1>6, <1>7, <1>8 DEF Replays
<1> QED
  BY <1>9

(* A packet is sent: one copy more.  If it is an update, what it makes of  *)
(* a copy that agrees with the session must agree with the new session.    *)
LEMMA ReplaysSend ==
  ASSUME TypeOK, NEW p \in Color, NEW copies, Replays(p, copies),
         NEW x \in Response, toClient'[p] = Append(toClient[p], x), cache'[p] = cache[p],
         ~IsUpdate(x) => session' = session,
         \A c : IsUpdate(x) /\ Agrees(c, session) => Agrees(Applied(c, x), session')
  PROVE  \E longer : Replays(p, longer)'
<1> DEFINE q == toClient[p]
           n == Len(q)
           r == toClient'[p]
<1>1. toClient \in [Color -> Seq(Response)]
  BY DEF TypeOK, WireTypeOK
<1>2. /\ n \in Nat /\ Len(r) = n + 1
      /\ \A i \in 1 .. n : r[i] = q[i]
      /\ r[n + 1] = x
  BY <1>1, LenProperties, AppendProperties
<1>3. /\ copies[0] = cache[p]
      /\ \A i \in 1 .. n : copies[i] = Applied(copies[i - 1], q[i])
      /\ \A i \in 0 .. n : (\A j \in i + 1 .. n : ~IsUpdate(q[j])) => Agrees(copies[i], session)
  BY DEF Replays
<1>4. PICK longer : /\ longer[n + 1] = Applied(copies[n], x)
                    /\ \A i \in 0 .. n : longer[i] = copies[i]
  <2> WITNESS [i \in 0 .. n + 1 |-> IF i = n + 1 THEN Applied(copies[n], x) ELSE copies[i]]
  <2> QED
    BY <1>2
<1>5. Agrees(copies[n], session)
  <2>1. n \in 0 .. n /\ \A j \in n + 1 .. n : FALSE
    BY <1>2
  <2> QED
    BY <1>3, <2>1
<1> HIDE DEF n, r
<1>6. longer[0] = cache'[p]
  BY <1>2, <1>3, <1>4
<1>7. \A i \in 1 .. n + 1 : longer[i] = Applied(longer[i - 1], r[i])
  <2> SUFFICES ASSUME NEW i \in 1 .. n + 1 PROVE longer[i] = Applied(longer[i - 1], r[i])
    OBVIOUS
  <2>1. CASE i \in 1 .. n
    <3>1. i \in 0 .. n /\ i - 1 \in 0 .. n
      BY <1>2, <2>1
    <3> QED
      BY <1>2, <1>3, <1>4, <2>1, <3>1
  <2>2. CASE i = n + 1
    <3>1. i - 1 = n /\ n \in 0 .. n
      BY <1>2, <2>2
    <3> QED
      BY <1>2, <1>4, <2>2, <3>1
  <2> QED
    BY <1>2, <2>1, <2>2
<1>8. ASSUME NEW i \in 0 .. n + 1, \A j \in i + 1 .. n + 1 : ~IsUpdate(r[j])
      PROVE  Agrees(longer[i], session')
  <2>1. CASE IsUpdate(x)
    <3>1. i = n + 1
      BY <1>2, <1>8, <2>1
    <3>2. Agrees(Applied(copies[n], x), session')
      BY <1>5, <2>1
    <3>3. longer[i] = Applied(copies[n], x)
      BY <1>4, <3>1
    <3> QED
      BY <3>2, <3>3
  <2>2. CASE ~IsUpdate(x)
    <3>1. session' = session
      BY <2>2
    <3>2. CASE i \in 0 .. n
      <4>1. \A j \in i + 1 .. n : ~IsUpdate(q[j])
        BY <1>2, <1>8
      <4>2. Agrees(copies[i], session)
        BY <1>3, <3>2, <4>1
      <4> QED
        BY <1>4, <3>1, <3>2, <4>2
    <3>3. CASE i = n + 1
      <4>1. longer[i] = copies[n]
        BY <1>4, <2>2, <3>3, NoUpdateNoChange
      <4> QED
        BY <1>5, <3>1, <4>1
    <3> QED
      BY <1>2, <3>2, <3>3
  <2> QED
    BY <2>1, <2>2
<1>9. Replays(p, longer)'
  BY <1>2, <1>6, <1>7, <1>8 DEF Replays, r
<1> QED
  BY <1>9

(* A snapshot of the session makes any copy agree with it. *)
LEMMA SnapshotAgrees ==
  ASSUME NEW s \in [board : Board, score : Score, currentTeam : Color], NEW f \in Flag, NEW c,
         NEW packet, packet.type \in {"COMMIT_MOVE", "RESTART"}, packet.cache = Snapshot(s, f)
  PROVE  Agrees(Applied(c, packet), s)
BY SnapshotType DEF Applied, Agrees, Snapshot

(* The server promotes on its board what each client promotes on its copy. *)
LEMMA PromotionAgrees ==
  ASSUME NEW s \in [board : Board, score : Score, currentTeam : Color],
         NEW pos \in Square, NEW type \in PromotionChoice, NEW c, Agrees(c, s),
         NEW packet, packet.type = "PROMOTE", packet.pos = pos, packet.piece = type,
         packet \in Response
  PROVE  Agrees(Applied(c, packet), [s EXCEPT !.board = Promote(@, pos, type)])
<1> DEFINE b    == Promote(s.board, pos, type)
           next == [s EXCEPT !.board = b]
           new  == Applied(c, packet)
<1>1. s.board \in Board /\ Get(b) = SetType(Get(s.board), pos, type)
  BY RulesAssumption
<1>2. c \in GameStateCache /\ c = Snapshot(s, c.flag)
  BY DEF Agrees
<1>3. new \in GameStateCache
  BY <1>2, AppliedType
<1>4. new = [c EXCEPT !.board = Get(b)]
  BY <1>1, <1>2 DEF Applied, Snapshot
<1>5. /\ new.board = Get(b) /\ new.score = c.score
      /\ new.flag = c.flag /\ new.currentTeam = c.currentTeam
  BY <1>2, <1>4 DEF GameStateCache
<1>6. c.score = s.score /\ c.currentTeam = s.currentTeam
  BY <1>2 DEF Snapshot
<1>7. next.board = b /\ next.score = s.score /\ next.currentTeam = s.currentTeam
  OBVIOUS
<1> HIDE DEF new, next
<1>8. new = [board |-> new.board, score |-> new.score, flag |-> new.flag,
             currentTeam |-> new.currentTeam]
  BY <1>3 DEF GameStateCache
<1>9. new = Snapshot(next, new.flag)
  BY <1>5, <1>6, <1>7, <1>8 DEF Snapshot
<1> QED
  BY <1>3, <1>9 DEF Agrees, new, next

LEMMA NextConverging == IInv /\ IInv' /\ Converging /\ [Next]_vars => Converging'
<1> SUFFICES ASSUME IInv, IInv', Converging, [Next]_vars, NEW p \in Color
             PROVE  \E copies : Replays(p, copies)'
  BY DEF Converging
<1> DEFINE States == [board : Board, score : Score, currentTeam : Color]
<1>1. /\ TypeOK
      /\ toServer \in [Color -> Seq(Request)]
      /\ toClient \in [Color -> Seq(Response)]
      /\ cache \in [Color -> GameStateCache \cup {Uninitialized}]
      /\ session \in States /\ session' \in States
  BY DEF IInv, TypeOK, WireTypeOK, ClientTypeOK, SessionTypeOK
<1>2. PICK copies : Replays(p, copies)
  BY DEF Converging
<1>3. CASE UNCHANGED <<cache[p], toClient[p], session>>
  BY <1>2, <1>3, ReplaysFrame
<1>4. ASSUME NEW c \in Color, ServerStep(c) PROVE \E longer : Replays(p, longer)'
  <2> DEFINE r == Head(toServer[c])
  <2>1. cache' = cache
    BY <1>4 DEF ServerStep, clientVars
  <2>2. toServer[c] # <<>> /\ r \in Request
    <3>1. toServer[c] # <<>>
      BY <1>4 DEF ServerStep, OnPacket, PerformAvailableMoves, PerformCommitMove,
         PerformPromotion, PerformRestart, Requested
    <3> QED
      BY <1>1, <3>1, HeadTailProperties
  <2>3. CASE PerformAvailableMoves(c)
    <3> DEFINE x == [type |-> "CALCULATE_MOVES",
                     moves |-> LegalMoves(session.board, r.pos, session.currentTeam)]
    <3>1. x \in Response
      <4>1. r.pos \in Square
        BY <2>2, <2>3 DEF PerformAvailableMoves, Requested, Request
      <4> QED
        BY <1>1, <4>1, RulesAssumption DEF Response
    <3>2. ~IsUpdate(x) /\ session' = session
      BY <2>3 DEF PerformAvailableMoves, IsUpdate
    <3>3. \/ toClient'[p] = toClient[p]
          \/ toClient'[p] = Append(toClient[p], x)
      BY <1>1, <2>3 DEF PerformAvailableMoves
    <3> HIDE DEF x
    <3> QED
      BY <1>1, <1>2, <1>3, <2>1, <3>1, <3>2, <3>3, ReplaysSend
  <2>4. ASSUME NEW x \in Response, SendBoth(x), IsUpdate(x),
               \A d : Agrees(d, session) => Agrees(Applied(d, x), session')
        PROVE  \E longer : Replays(p, longer)'
    <3>1. toClient'[p] = Append(toClient[p], x)
      BY <1>1, <2>4 DEF SendBoth
    <3> QED
      BY <1>1, <1>2, <2>1, <2>4, <3>1, ReplaysSend
  <2>5. CASE PerformCommitMove(c)
    <3>1. PICK res : /\ res = CommitMove(session.board, r.from, r.to, session.currentTeam)
                     /\ SendBoth([type |-> "COMMIT_MOVE", cache |-> Snapshot(session', res.flag)])
      BY <2>5 DEF PerformCommitMove
    <3>2. res.flag \in Flag
      <4>1. r.from \in Square /\ r.to \in Square
        BY <2>2, <2>5 DEF PerformCommitMove, Requested, Request
      <4> QED
        BY <1>1, <3>1, <4>1, RulesAssumption DEF MoveResult
    <3> DEFINE x == [type |-> "COMMIT_MOVE", cache |-> Snapshot(session', res.flag)]
    <3>3. x \in Response
      BY <1>1, <3>2, SnapshotType DEF Response
    <3>4. x.type = "COMMIT_MOVE" /\ x.cache = Snapshot(session', res.flag) /\ IsUpdate(x)
      BY DEF IsUpdate
    <3> HIDE DEF x
    <3>5. \A d : Agrees(Applied(d, x), session')
      BY <1>1, <3>2, <3>4, SnapshotAgrees
    <3> QED
      BY <2>4, <3>1, <3>3, <3>4, <3>5 DEF x
  <2>6. CASE PerformPromotion(c)
    <3> DEFINE x == [type |-> "PROMOTE", piece |-> r.piece, pos |-> r.pos]
    <3>1. r.pos \in Square /\ r.piece \in PromotionChoice
      BY <2>2, <2>6 DEF PerformPromotion, Requested, Request
    <3>2. x \in Response /\ IsUpdate(x)
      BY <3>1 DEF Response, IsUpdate
    <3>3. x.type = "PROMOTE" /\ x.pos = r.pos /\ x.piece = r.piece
      OBVIOUS
    <3>4. session' = [session EXCEPT !.board = Promote(@, r.pos, r.piece)] /\ SendBoth(x)
      BY <2>6 DEF PerformPromotion
    <3> HIDE DEF x
    <3>5. \A d : Agrees(d, session) => Agrees(Applied(d, x), session')
      BY <1>1, <3>1, <3>2, <3>3, <3>4, PromotionAgrees
    <3> QED
      BY <2>4, <3>2, <3>4, <3>5
  <2>7. CASE PerformRestart(c)
    <3> DEFINE x == [type |-> "RESTART", cache |-> Snapshot(NewSession, "NONE")]
    <3>1. x \in Response /\ IsUpdate(x)
      BY NewSessionType, SnapshotType DEF Response, IsUpdate, Flag
    <3>2. x.type = "RESTART" /\ x.cache = Snapshot(NewSession, "NONE") /\ "NONE" \in Flag
      BY DEF Flag
    <3>3. session' = NewSession /\ SendBoth(x)
      BY <2>7 DEF PerformRestart
    <3> HIDE DEF x
    <3>4. \A d : Agrees(Applied(d, x), session')
      BY <3>2, <3>3, NewSessionType, SnapshotAgrees
    <3> QED
      BY <2>4, <3>1, <3>3, <3>4
  <2> QED
    BY <1>4, <2>3, <2>5, <2>6, <2>7 DEF ServerStep, OnPacket
<1>5. ASSUME NEW c \in Color, ReceiveStep(c) PROVE \E shorter : Replays(p, shorter)'
  <2>1. CASE c = p
    BY <1>1, <1>2, <1>5, <2>1, ReplaysReceive
  <2>2. CASE c # p
    BY <1>1, <1>3, <1>5, <2>2 DEF ReceiveStep, ReceiveResponse
  <2> QED
    BY <2>1, <2>2
<1>6. ASSUME NEW c \in Color, PlayerStep(c) \/ UpdateStep(c) \/ SendStep(c)
      PROVE  \E same : Replays(p, same)'
  BY <1>3, <1>6 DEF PlayerStep, UpdateStep, SendStep, SendRequest, clientVars, wireVars
<1>7. CASE UNCHANGED vars
  BY <1>3, <1>7 DEF vars
<1> QED
  BY <1>4, <1>5, <1>6, <1>7 DEF Next

(* A client that has received every update sent to it holds the board, the *)
(* score and the turn of the session, for every board and whatever the     *)
(* players do: replaying PROMOTE on a copy and receiving a snapshot come   *)
(* to the same.                                                            *)
THEOREM CopiesConverge == Spec => []CachesConverge
<1>1. Converging => CachesConverge
  <2> SUFFICES ASSUME Converging, NEW p \in Color, ~PacketPending(p)
               PROVE  Agrees(cache[p], session)
    BY DEF CachesConverge, Agrees
  <2>1. PICK copies : Replays(p, copies)
    BY DEF Converging
  <2>2. \A j \in 1 .. Len(toClient[p]) : ~IsUpdate(toClient[p][j])
    BY DEF PacketPending, IsUpdate
  <2> QED
    BY <2>1, <2>2 DEF Replays
<1>2. Init => IInv /\ Converging
  BY InitIInv, InitConverging
<1>3. IInv /\ Converging /\ [Next]_vars => IInv' /\ Converging'
  BY NextIInv, NextConverging
<1> QED
  BY <1>1, <1>2, <1>3, PTL DEF Spec
=============================================================================
