--------------------------- MODULE BoardInteractor ---------------------------
(***************************************************************************)
(* The GUI thread of a client: class BoardInteractor, the states of        *)
(* BoardStateMachine and the promotion menu.  It talks to the network      *)
(* threads of the same client through the two queues of MessageQueues.h.   *)
(***************************************************************************)
EXTENDS ChessRules, Sequences

CONSTANTS
  MenuIsModal, \* does an open menu keep clicks and keys from the board?
  MaxCommits,  \* bound: moves the two players may choose in a behaviour
  MaxRestarts  \* bound: times the two players may press R in a behaviour

ASSUME BoundsAssumption ==
  MenuIsModal \in BOOLEAN /\ MaxCommits \in Nat /\ MaxRestarts \in Nat

VARIABLES
  gui,     \* gui[p]: m_gameCache and the state of m_fsm
  menus,   \* menus[p]: promotion menus on the screen of p
  gui2net, \* gui2net[p]: g_MQ.gui2net, requests of the GUI
  net2gui, \* net2gui[p]: g_MQ.net2gui, messages of the network
  issued   \* moves chosen and restarts pressed so far; only bounds the model

guiVars == <<gui, menus, gui2net, net2gui, issued>>

FsmState == {"IDLE", "MOVE_WAITING", "MOVE_SELECTION", "MOVE_COMMIT_WAITING",
             "PROMOTION_COMMIT_WAITING", "GAME_OVER"}

(* BoardInteractor::GameCache.  m_moveTiles always shows the squares of    *)
(* moves, so it needs no component of its own.                             *)
Gui == [fsm : FsmState, board : BoardType, moves : SUBSET Position,
        selected : Square, myColor : Color, currTeam : Color]

(* GuiMessage.  "picked" is not in the code: it records the square that    *)
(* was selected when the move was chosen, and only properties read it.     *)
GuiMessage ==
       [req : {"AvailableMovesReq"}, from : Square]
  \cup [req : {"MoveCommitReq"}, to : Square, picked : Square]
  \cup [req : {"RestartReq"}]
  \cup [req : {"PromotionReq"}, type : PromotionChoice]

(* NetworkMessage. *)
NetworkMessage ==
       [msg : {"Moves"}, moves : SUBSET Position]
  \cup [msg : {"StateUpdateMsg", "RestartMsg"}, cache : GameStateCache, myColor : Color]

(* The constructor: m_gameCache{} is value-initialised, so both colours    *)
(* are BLACK until the first RestartMsg arrives.  ClickedGui has been      *)
(* clicked on pos since.                                                   *)
NewGui == [fsm |-> "IDLE", board |-> NoTiles, moves |-> {},
           selected |-> Origin, myColor |-> "BLACK", currTeam |-> "BLACK"]

ClickedGui(pos) == [fsm |-> "MOVE_WAITING", board |-> NoTiles, moves |-> {},
                    selected |-> pos, myColor |-> "BLACK", currTeam |-> "BLACK"]

-----------------------------------------------------------------------------
(* What the player does. *)

BoardHasInput(p) == MenuIsModal => menus[p] = 0

Push(p, m) == gui2net' = [gui2net EXCEPT ![p] = Append(@, m)]

(* Mutant: the selected square is not remembered. *)
MutantForgetsSelection(p, pos) ==
  /\ BoardHasInput(p)
  /\ gui[p].fsm = "IDLE"
  /\ gui[p].myColor = gui[p].currTeam
  /\ gui[p].board[pos].col = gui[p].myColor
  /\ Push(p, [req |-> "AvailableMovesReq", from |-> pos])
  /\ gui' = [gui EXCEPT ![p].fsm = "MOVE_WAITING"]
  /\ UNCHANGED <<menus, net2gui, issued>>

(* Mutant: nobody asks whose turn it is. *)
MutantClicksOutOfTurn(p, pos) ==
  /\ BoardHasInput(p)
  /\ gui[p].fsm = "IDLE"
  /\ gui[p].board[pos].col = gui[p].myColor
  /\ Push(p, [req |-> "AvailableMovesReq", from |-> pos])
  /\ gui' = [gui EXCEPT ![p].selected = pos, ![p].fsm = "MOVE_WAITING"]
  /\ UNCHANGED <<menus, net2gui, issued>>

(* IdleBoardState::process(MouseLeftDownEvent).  An empty square has the   *)
(* colour BLACK and passes the test on Black's turn.                       *)
ClickPiece(p, pos) ==
  /\ BoardHasInput(p)
  /\ gui[p].fsm = "IDLE"
  /\ gui[p].myColor = gui[p].currTeam
  /\ gui[p].board[pos].col = gui[p].myColor
  /\ Push(p, [req |-> "AvailableMovesReq", from |-> pos])
  /\ gui' = [gui EXCEPT ![p].selected = pos, ![p].fsm = "MOVE_WAITING"]
  /\ UNCHANGED <<menus, net2gui, issued>>

(* MoveSelectionBoardState::process on a click on the selected piece. *)
ClickSelected(p) ==
  /\ BoardHasInput(p)
  /\ gui[p].fsm = "MOVE_SELECTION"
  /\ gui' = [gui EXCEPT ![p].moves = {}, ![p].fsm = "IDLE"]
  /\ UNCHANGED <<menus, gui2net, net2gui, issued>>

(* MoveSelectionBoardState::process on a click on a suggested tile. *)
ClickMove(p, pos) ==
  /\ BoardHasInput(p)
  /\ gui[p].fsm = "MOVE_SELECTION"
  /\ pos # gui[p].selected
  /\ pos \in gui[p].moves
  /\ issued.commits < MaxCommits
  /\ issued' = [issued EXCEPT !.commits = @ + 1]
  /\ Push(p, [req |-> "MoveCommitReq", to |-> pos, picked |-> gui[p].selected])
  /\ gui' = [gui EXCEPT ![p].fsm = "MOVE_COMMIT_WAITING"]
  /\ UNCHANGED <<menus, net2gui>>

(* process(KeyUpEvent) on R, in every state. *)
PressR(p) ==
  /\ BoardHasInput(p)
  /\ issued.restarts < MaxRestarts
  /\ issued' = [issued EXCEPT !.restarts = @ + 1]
  /\ Push(p, [req |-> "RestartReq"])
  /\ UNCHANGED <<gui, menus, net2gui>>

(* Mutant: a choice is taken without an open menu. *)
MutantChoosesWithoutMenu(p, type) ==
  /\ menus' = [menus EXCEPT ![p] = @ - 1]
  /\ Push(p, [req |-> "PromotionReq", type |-> type])
  /\ UNCHANGED <<gui, net2gui, issued>>

(* BoardPromotionHandler::dispatch and then BoardInteractor::perform: the  *)
(* choice made in a menu becomes a request, whatever m_fsm has become.     *)
ChoosePromotion(p, type) ==
  /\ menus[p] > 0
  /\ menus' = [menus EXCEPT ![p] = @ - 1]
  /\ Push(p, [req |-> "PromotionReq", type |-> type])
  /\ UNCHANGED <<gui, net2gui, issued>>

-----------------------------------------------------------------------------
(* BoardInteractor::update: one message popped and processed. *)

Arrives(p, kind) ==
  /\ net2gui[p] # <<>>
  /\ Head(net2gui[p]).msg = kind
  /\ net2gui' = [net2gui EXCEPT ![p] = Tail(@)]

(* onNetworkMessage(RestartMsg): the whole cache and the state are new.    *)
(* The layer of an open menu is left as it is.                             *)
OnRestart(p) ==
  /\ Arrives(p, "RestartMsg")
  /\ LET m == Head(net2gui[p]) IN
     gui' = [gui EXCEPT ![p] = [fsm |-> "IDLE", board |-> m.cache.board, moves |-> {},
                                selected |-> Origin, myColor |-> m.myColor,
                                currTeam |-> m.cache.currentTeam]]
  /\ UNCHANGED <<menus, gui2net, issued>>

(* Mutant: the list is taken by the state that it should lead to. *)
MutantMissesMoves(p) ==
  /\ Arrives(p, "Moves")
  /\ LET moves == Head(net2gui[p]).moves IN
     gui' = [gui EXCEPT ![p] =
       IF @.fsm = "MOVE_SELECTION" THEN [@ EXCEPT !.moves = moves] ELSE @]
  /\ UNCHANGED <<menus, gui2net, issued>>

(* MoveWaitingState::process(Moves); every other state ignores the list. *)
OnMoves(p) ==
  /\ Arrives(p, "Moves")
  /\ LET moves == Head(net2gui[p]).moves IN
     \/ /\ gui[p].fsm = "MOVE_WAITING" /\ moves = {}
        /\ gui' = [gui EXCEPT ![p].moves = {}, ![p].fsm = "IDLE"]
     \/ /\ gui[p].fsm = "MOVE_WAITING" /\ moves # {}
        /\ gui' = [gui EXCEPT ![p].moves = moves, ![p].fsm = "MOVE_SELECTION"]
     \/ /\ gui[p].fsm # "MOVE_WAITING"
        /\ UNCHANGED gui
  /\ UNCHANGED <<menus, gui2net, issued>>

(* Mutant: the turn is not taken over. *)
MutantKeepsTurn(p, m) ==
  /\ gui[p].fsm = "IDLE"
  /\ gui' = [gui EXCEPT ![p].board = m.cache.board,
                        ![p].myColor = m.myColor,
                        ![p].fsm = IF m.cache.flag \in GameOverFlag THEN "GAME_OVER" ELSE "IDLE"]
  /\ UNCHANGED menus

(* Mutant: the end of the game is noticed by the player who moved only. *)
MutantMissesTheEnd(p, m) ==
  /\ gui[p].fsm = "IDLE"
  /\ gui' = [gui EXCEPT ![p].board = m.cache.board,
                        ![p].currTeam = m.cache.currentTeam,
                        ![p].myColor = m.myColor]
  /\ UNCHANGED menus

(* IdleBoardState::process(StateUpdateMsg). *)
IdleUpdate(p, m) ==
  /\ gui[p].fsm = "IDLE"
  /\ gui' = [gui EXCEPT ![p].board = m.cache.board,
                        ![p].currTeam = m.cache.currentTeam,
                        ![p].myColor = m.myColor,
                        ![p].fsm = IF m.cache.flag \in GameOverFlag THEN "GAME_OVER" ELSE "IDLE"]
  /\ UNCHANGED menus

(* The state MoveCommitWaitingState goes to on a flag. *)
AfterCommit(flag) ==
  CASE flag = "NONE"      -> "IDLE"
    [] flag = "PROMOTION" -> "PROMOTION_COMMIT_WAITING"
    [] OTHER              -> "GAME_OVER"

(* Mutant: the menu is not opened. *)
MutantOpensNoMenu(p, m) ==
  /\ gui[p].fsm = "MOVE_COMMIT_WAITING"
  /\ gui' = [gui EXCEPT ![p].board = m.cache.board,
                        ![p].currTeam = m.cache.currentTeam,
                        ![p].moves = {},
                        ![p].fsm = AfterCommit(m.cache.flag)]
  /\ UNCHANGED menus

(* MoveCommitWaitingState::process(StateUpdateMsg): a promotion flag opens *)
(* the menu.                                                               *)
CommitUpdate(p, m) ==
  /\ gui[p].fsm = "MOVE_COMMIT_WAITING"
  /\ gui' = [gui EXCEPT ![p].board = m.cache.board,
                        ![p].currTeam = m.cache.currentTeam,
                        ![p].moves = {},
                        ![p].fsm = AfterCommit(m.cache.flag)]
  /\ menus' = IF m.cache.flag = "PROMOTION" THEN [menus EXCEPT ![p] = @ + 1] ELSE menus

(* PromotionCommitWaitingState::process(StateUpdateMsg): only the board is *)
(* taken over.                                                             *)
PromotionUpdate(p, m) ==
  /\ gui[p].fsm = "PROMOTION_COMMIT_WAITING"
  /\ gui' = [gui EXCEPT ![p].board = m.cache.board, ![p].fsm = "IDLE"]
  /\ UNCHANGED menus

(* BaseBoardState::process: the other states drop the update. *)
IgnoredUpdate(p) ==
  /\ gui[p].fsm \in {"MOVE_WAITING", "MOVE_SELECTION", "GAME_OVER"}
  /\ UNCHANGED <<gui, menus>>

OnStateUpdate(p) ==
  /\ Arrives(p, "StateUpdateMsg")
  /\ LET m == Head(net2gui[p]) IN
     \/ IdleUpdate(p, m)
     \/ CommitUpdate(p, m)
     \/ PromotionUpdate(p, m)
     \/ IgnoredUpdate(p)
  /\ UNCHANGED <<gui2net, issued>>

-----------------------------------------------------------------------------
Player(p) ==
  \/ \E pos \in Square : ClickPiece(p, pos) \/ ClickMove(p, pos)
  \/ ClickSelected(p)
  \/ PressR(p)
  \/ \E type \in PromotionChoice : ChoosePromotion(p, type)

Update(p) == OnRestart(p) \/ OnMoves(p) \/ OnStateUpdate(p)

GuiTypeOK ==
  /\ gui \in [Color -> Gui]
  /\ menus \in [Color -> Nat]
  /\ gui2net \in [Color -> Seq(GuiMessage)]
  /\ net2gui \in [Color -> Seq(NetworkMessage)]
  /\ issued \in [commits : 0 .. MaxCommits, restarts : 0 .. MaxRestarts]
=============================================================================
