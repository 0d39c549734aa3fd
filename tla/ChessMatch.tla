----------------------------- MODULE ChessMatch -----------------------------
(***************************************************************************)
(* One session of the server with the clients of its two players: two GUI  *)
(* threads, two senders, two receivers and the server thread, joined by    *)
(* the queues of the clients and the two connections.                      *)
(***************************************************************************)
EXTENDS ChessClient, GameSession

vars == <<gui, menus, gui2net, net2gui, issued, selectedPiece, cache, teamColor,
          toServer, toClient, session>>

(* The session has just been created: ASSIGN_COLOR and RESTART are on      *)
(* their way.  The player who waited for an opponent may have clicked      *)
(* before, and the server has dropped the request.                         *)
Init ==
  /\ \E clicked \in Square \cup {Uninitialized} :
       /\ gui = [p \in Color |->
                   IF p = "WHITE" /\ clicked # Uninitialized
                   THEN ClickedGui(clicked)
                   ELSE NewGui]
       /\ selectedPiece = [p \in Color |-> IF p = "WHITE" THEN clicked ELSE Uninitialized]
  /\ menus = [p \in Color |-> 0]
  /\ gui2net = [p \in Color |-> <<>>]
  /\ net2gui = [p \in Color |-> <<>>]
  /\ issued = [commits |-> 0, restarts |-> 0]
  /\ cache = [p \in Color |-> Uninitialized]
  /\ teamColor = [p \in Color |-> Uninitialized]
  /\ toServer = [p \in Color |-> <<>>]
  /\ toClient = [p \in Color |-> <<[type |-> "ASSIGN_COLOR", color |-> p],
                                   [type |-> "RESTART", cache |-> Snapshot(NewSession, "NONE")]>>]
  /\ session = NewSession

PlayerStep(p)  == Player(p) /\ UNCHANGED <<clientVars, wireVars, session>>
UpdateStep(p)  == Update(p) /\ UNCHANGED <<clientVars, wireVars, session>>
SendStep(p)    == SendRequest(p) /\ UNCHANGED session
ReceiveStep(p) == ReceiveResponse(p) /\ UNCHANGED session
ServerStep(p)  == OnPacket(p) /\ UNCHANGED <<guiVars, clientVars>>

Next == \E p \in Color :
  PlayerStep(p) \/ UpdateStep(p) \/ SendStep(p) \/ ReceiveStep(p) \/ ServerStep(p)

Spec == Init /\ [][Next]_vars

(* The GUI polls its queue in every frame, the other threads block until   *)
(* there is something to do; a player is free to do nothing.               *)
Fairness == \A p \in Color :
  /\ WF_vars(UpdateStep(p))
  /\ WF_vars(SendStep(p))
  /\ WF_vars(ReceiveStep(p))
  /\ WF_vars(ServerStep(p))

FairSpec == Spec /\ Fairness

-----------------------------------------------------------------------------
(* Races.  Nothing in a request says which state of the game it was made   *)
(* for.  A player is engaged while something of theirs still refers to the *)
(* board they see: a selection, a request on its way, an open menu.  A     *)
(* race is an update of the session on its way to an engaged player.       *)

PacketPending(p) ==
  \E i \in DOMAIN toClient[p] : toClient[p][i].type \in {"COMMIT_MOVE", "RESTART", "PROMOTE"}

MessagePending(p) ==
  \E i \in DOMAIN net2gui[p] : net2gui[p][i].msg \in {"StateUpdateMsg", "RestartMsg"}

Engaged(p) ==
  \/ gui[p].fsm \in {"MOVE_WAITING", "MOVE_SELECTION"}
  \/ gui2net[p] # <<>>
  \/ toServer[p] # <<>>
  \/ menus[p] > 0

Race == \E p \in Color : Engaged(p) /\ (PacketPending(p) \/ MessagePending(p))

(* The behaviours in which no race happens: either player waits until both *)
(* clients have taken over what the other one did.                         *)
PatientSpec == (Init /\ ~Race) /\ [][Next /\ ~Race']_vars

-----------------------------------------------------------------------------
(* Every variable has its type. *)
TypeOK == GuiTypeOK /\ WireTypeOK /\ ClientTypeOK /\ SessionTypeOK

(* A client that has received all that was sent to it holds the board, the *)
(* score and the turn of the session, although a PROMOTE response carries  *)
(* no snapshot and each client replays it on its own copy                  *)
(* (ChessClient::onPacket, ChessServer::performPromotion).                 *)
CachesConverge == \A p \in Color :
  ~PacketPending(p) =>
    /\ cache[p] \in GameStateCache
    /\ cache[p] = Snapshot(session, cache[p].flag)

(* The square a move starts from is not part of MoveCommitReq: the sender  *)
(* adds the one it remembers.  It is the one the player had selected when  *)
(* they chose the move, however many requests and restarts are in between  *)
(* (ChessClient::send, MoveSelectionBoardState::process).                  *)
CommitNamesSelection == \A p \in Color :
  gui2net[p] # <<>> /\ Head(gui2net[p]).req = "MoveCommitReq"
    => selectedPiece[p] = Head(gui2net[p]).picked

(* A client left alone in the promotion state can leave it: the menu is    *)
(* still open, or the choice is on its way to the server, or an update is  *)
(* on its way back (PromotionCommitWaitingState, BoardPromotionHandler).   *)
PromotionNotLost == \A p \in Color :
  gui[p].fsm = "PROMOTION_COMMIT_WAITING" =>
    \/ menus[p] > 0
    \/ \E i \in DOMAIN gui2net[p] : gui2net[p][i].req = "PromotionReq"
    \/ \E i \in DOMAIN toServer[p] : toServer[p][i].type = "PROMOTE"
    \/ PacketPending(p)
    \/ MessagePending(p)

-----------------------------------------------------------------------------
(* What holds as long as nothing races (PatientSpec). *)

Quiet == \A p \in Color :
  toServer[p] = <<>> /\ toClient[p] = <<>> /\ gui2net[p] = <<>> /\ net2gui[p] = <<>>

(* When nothing is on its way both players see the board of the session,   *)
(* agree with it on whose turn it is, and know their colours               *)
(* (BoardInteractor::onNetworkMessage and the states of the machine, each  *)
(* of which copies other parts of an update, or none).                     *)
ViewsAgree ==
  Quiet => \A p \in Color :
    /\ gui[p].board = Get(session.board)
    /\ gui[p].currTeam = session.currentTeam
    /\ gui[p].myColor = p

(* The moves offered to a player are those of the piece they have selected *)
(* in the present position, and it is their piece and their turn           *)
(* (MoveWaitingState::process(Moves), performAvailableMoves).              *)
OfferedMovesAreLegal == \A p \in Color :
  gui[p].fsm = "MOVE_SELECTION" =>
    /\ session.currentTeam = p
    /\ Get(session.board)[gui[p].selected].col = p
    /\ gui[p].moves = LegalMoves(session.board, gui[p].selected, p)

Choosing(p) ==
  \/ gui[p].fsm \in {"MOVE_WAITING", "MOVE_SELECTION"}
  \/ \E i \in DOMAIN gui2net[p] : gui2net[p][i].req = "MoveCommitReq"
  \/ \E i \in DOMAIN toServer[p] : toServer[p][i].type = "COMMIT_MOVE"

(* Never are both players choosing a move.  No lock enforces it: each      *)
(* client goes by its own copy of the turn (IdleBoardState::process).      *)
OneMover == \A p, q \in Color : Choosing(p) /\ Choosing(q) => p = q

(* A game is over for both players or for neither: they read the flag in   *)
(* different states of their machines, and one of them may press R.        *)
GameOverForBoth ==
  Quiet => (gui["WHITE"].fsm = "GAME_OVER" <=> gui["BLACK"].fsm = "GAME_OVER")

(* The session plays a game of chess: every COMMIT_MOVE the server carries *)
(* out, unchecked, is a legal move of the team to move, and every PROMOTE  *)
(* turns a pawn of the team that has just moved                            *)
(* (ChessServer::performCommitMove, performPromotion).                     *)
Game == INSTANCE ChessGame WITH game <- session
PlaysChess == Game!GameSpec

-----------------------------------------------------------------------------
(* What the source says of the program, and races make false. *)

(* "request a move commit, if the move is legal"                           *)
(* (MoveSelectionBoardState::process): a COMMIT_MOVE the server carries    *)
(* out is a legal move of the team to move.                                *)
CommitsAreLegal == \A p \in Color :
  toServer[p] # <<>> /\ Head(toServer[p]).type = "COMMIT_MOVE" =>
    Game!IsLegal(session, Head(toServer[p]).from, Head(toServer[p]).to)

(* "when the state is updated after the promotion is committed"            *)
(* (PromotionCommitWaitingState::process): the update that ends the        *)
(* promotion state comes after the choice.                                 *)
PromotionWaitsForChoice == \A p \in Color :
  gui[p].fsm = "PROMOTION_COMMIT_WAITING" /\ net2gui[p] # <<>>
    /\ Head(net2gui[p]).msg = "StateUpdateMsg" => menus[p] = 0

-----------------------------------------------------------------------------
(* Liveness (FairSpec). *)

(* The machine waits for the server: for moves, for the result of a move,  *)
(* or for the promotion whose menu is gone.                                *)
Waiting(p) ==
  \/ gui[p].fsm \in {"MOVE_WAITING", "MOVE_COMMIT_WAITING"}
  \/ gui[p].fsm = "PROMOTION_COMMIT_WAITING" /\ menus[p] = 0

(* Waiting comes to an end, whatever the other player does and whichever   *)
(* updates the machine drops on the way (the six states of                 *)
(* BoardStateMachine).                                                     *)
WaitingEnds == \A p \in Color : Waiting(p) ~> ~Waiting(p)
=============================================================================
