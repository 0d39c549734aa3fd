# Chess-Refined in TLA+

Chess-Refined is a chess server and its graphical clients (C++, boost::asio and
the GUI library RTWgui). This directory holds TLA+ models of the program, TLC
configurations that check them on small instances, and proofs that TLAPS checks
for every value of the constants. Paths below are relative to the repository.

## 1. The system

```
 GUI thread               sender thread            server thread
 BoardInteractor  gui2net ChessClient::send   TCP  ChessServer::onPacket
 BoardStateMachine -----> m_mainThread      -----> GameSession, Board
        ^         net2gui receiver thread     TCP       |
        +---------------- ChessClient::onPacket <-------+
```

| Component | State | Operations | Interacts by |
|---|---|---|---|
| `Board` (Server/src/Board.cpp) | tiles, position of each king, four castling rights, en passant square | `calculatePieceMoves`, `commitMove`, `promote`, `get` | called by the session |
| session (`ChessServer::GameSession`) | board, score, team to move | `performAvailableMoves`, `performCommitMove`, `performPromotion`, `performRestart` | packets of two clients, all on one thread |
| lobby (`ChessServer`) | connections, sessions, waiting player | `onConnect`, `onDisconnect`, `removeSession`, `createSession`, `performShutdown` | callbacks of `Connection` |
| `Connection` (both sides) | socket, send queue, read buffers | `start`, `send`, `readHeader`, `readPayload`, `write`, `close` | TCP; handlers posted to `io_context` |
| `ChessClient` | cached game, remembered square, colour; two threads | `send` (four requests), `onPacket`, `connect`, destructor | both queues, the connection |
| `ThreadSafeMQ` | queue, stop flag | `push`, `waitPop`, `tryPop`, `stop` | shared memory under a mutex |
| `BoardInteractor`, `BoardStateMachine` | cached game, selection, state of the machine, open menus | clicks, keys, menu choices, `update` | both queues |
| `Serializer` | none | packets to bytes and back | called by client and server |

What is hard here is not any single handler. Seven threads and connections
carry one game; each keeps its own copy of it (session, two receiver caches, two
GUI caches, two remembered squares), nothing in a packet says which state of the
game it belongs to, the server checks nothing it is asked to do, and half of the
machine's states drop updates. What has to hold:

* **session**: the moves carried out form a game of chess;
* **client**: copies converge, a request names what its player meant, every wait ends;
* **board**: offered moves, flags and scores are those of chess, although legality
  rests on data kept beside the tiles;
* **lobby**: every player is paired or waiting, and nobody is forgotten;
* **connection, queues, shutdown**: packets arrive once and in order, and closing ends.

`PROJECT.json` lists the hazards line by line with the properties aimed at them.

## 2. Modules

| Module | Models | Role |
|---|---|---|
| `ChessTypes` | Piece.h, GameState.h | enumerations |
| `ChessRules` | what a session needs from `Board` | constant operators with two assumptions, so that everything above it holds for every board |
| `Wire` | `Serializer`, `Connection` | a FIFO of typed packets per direction and player |
| `BoardInteractor` | GUI thread of a client | one action per event, one disjunct per state for messages |
| `ChessClient` | sender and receiver thread | one action per request sent and per packet received |
| `GameSession` | the request handlers of `ChessServer` | one action per handler |
| `ChessMatch` | the composition: one session and two clients | `Init`, `Next`, three specifications, the properties |
| `ChessGame` | none: the promise of a session | abstract specification |
| `MiniChess` | none: a `Board` for exhaustive search | a line of `N` squares with a pawn and a queen, with captures, promotion, checkmate and stalemate |
| `MCChessMatch` | | instance of `ChessMatch` with `MiniChess` |
| `Board` | class `Board` | pure operators on a record of its members |
| `ChessLaws` | none: the laws of chess | reference definitions: attacks by geometry, rights by history |
| `BoardGame`, `MCBoardGame` | a session on one `Board` | plays offered moves and promotions, compares with `ChessLaws`; the openings |
| `Lobby` | `ChessServer` above its sessions, with as much of each client as reacts to it | one action per handler, and per thing a client does |
| `MCLobby` | | clients numbered in the order in which they connect |
| `MessageQueue` | `ThreadSafeMQ` with a thread in `waitPop` | one action per critical section and per notification |
| `Connection` | both classes `Connection`, asio and TCP below them | one action per handler, and per thing the system does |
| `ClientProcess` | `main`, `ChessClient::connect` and its destructor; three threads of a client and the server's | the composition of `MessageQueue` and `Connection`; `Init`, `Next`, fairness, properties |
| `Channel` | none: the promise of a connection | abstract specification |
| `MCClientProcess` | | the packets of the instance |
| `SelectionProofs`, `ChessMatchProofs` | | proofs about `ChessMatch` with every race |
| `WaitingProofs` | | promotions are not lost; the states that wait |
| `PatienceProofs` | | `ChessMatch` without races, and that it implements `ChessGame` |
| `BoardProofs` | | `Board` satisfies the assumptions of `ChessRules` |
| `BoardGameProofs` | | `BoardGame` against `ChessLaws`, for every opening |
| `LobbyProofs`, `ClientProcessProofs` | | proofs about `Lobby` and `ClientProcess` |

The models are layers. `ChessMatch` is one session while both connections are up:
its queues of typed packets are what `ClientProcess` shows a connection to be
(`Channel`, in both directions) while nothing is lost. `Lobby` is what happens
around sessions, with the games left out; `ClientProcess` what happens below
them, with the meaning of packets left out.

Correspondence, `ChessMatch`. `gui[p]` is `BoardInteractor::GameCache` with the state of
`m_fsm`; `menus[p]` counts promotion menus on the screen; `gui2net[p]` and
`net2gui[p]` are the two queues of `g_MQ`; `selectedPiece[p]`, `cache[p]` and
`teamColor[p]` are `ChessClient::m_cache`, the first owned by the sender and the
others by the receiver; `session` is `GameSession::State`. A step of `Player` is
an event in the GUI, of `Update` one message of `BoardInteractor::update`, of
`SendRequest` one turn of the loop of `m_mainThread`, of `ReceiveResponse` one
`onPacket` of the client, of `OnPacket` one `onPacket` of the server. These are
the atomic steps of the program: the queues are locked for a push or a pop only,
and no two threads share anything else. `update` empties its queue in one frame;
a click between two of its messages is a click in the frame between them, which
happens when the second message comes later.

Three variables are not in the code, and only properties and bounds read them:
`issued`, the field `picked` of a `MoveCommitReq`, and `history` of `BoardGame`.
Definitions named `Mutant...` are deliberately wrong versions of the definition
below them. No specification uses them: putting one in place of the right
definition breaks the property it is listed with in `PROJECT.json`.

`ChessMatch` starts when the session has been created: `ASSIGN_COLOR` and
`RESTART` are on their way to both clients. The first client may have clicked
while it was alone. Both colours in its cache are BLACK by value-initialisation,
so the click is accepted, the sender remembers the square, and the server drops
the request because the connection has no session; this is why White may start
in `MOVE_WAITING`.

`Lobby`. `connections`, `waitingPlayer` and `sessions` are the members of
`ChessServer`; the server runs its handlers on one thread, so each is a step:
`OnConnect` (with `doAccept`, `createSession` and `performRestart`), `Closes`
(`Connection::close` with `onDisconnect` and `removeSession`) and `OnPacket`.
`inbox` and `requests` are the packets on their way. `client` holds the colour a
client knows, whether it has pieces, and its life: playing, told to quit (by CTRL+Q
or `PLAYER_DISCONNECT`, which the client turns into a `ShutdownMsg`), gone. A
connection is `CutOff` when its client has gone, or when it was reset while the
client runs (`Breaks`, which puts the client into `broken`): the client receives
what has come as far as its socket and nothing more, and goes on running, since
errors only stop its reader and its writer. The server learns of either some time
after it has happened, because a read or a write fails: `Closes` is enabled for
every connection that is cut off. Packets not yet read are then lost, except one
whose read has completed and which is handled although its connection is closed:
`Closes` keeps none or one.

`ClientProcess`. In `MessageQueue` a step is what is done while the mutex is held;
`push` and `stop` notify after that, so the GUI stands in `NOTIFY_ONE` or
`NOTIFY_ALL` in between. In `Connection` an operation of asio is started by a
handler (`PENDING`), carried out by the system, byte by byte for a write, and is
then `OK` or `FAILED` until its handler runs; `posted` are handlers that `send`
has posted. The handlers of a side run one at a time on its io thread. What
differs between the classes is kept: the size of the buffer, that the server
refuses an empty packet, that errors close the server's connection but only
silence the client's. `gui` goes through the destructor of `ChessClient` one
statement at a time, each of which may meet any handler of the io thread, which
still runs.

## 3. Runs

All runs set `CHECK_DEADLOCK FALSE`: a match stops when the bounds are used up
or nobody wants to move, a game on a board when it is over, a lobby when the
clients of the instance have come, a client process when it has ended.

| Run | Checks | Instance |
|---|---|---|
| `match` | `TypeOK`, `CachesConverge`, `CommitNamesSelection`, `PromotionNotLost` under `Spec` | `N = 3`, two moves chosen, one restart, menu not modal |
| `patient` | `ViewsAgree`, `OfferedMovesAreLegal`, `OneMover`, `GameOverForBoth`, `PlaysChess` under `PatientSpec` | `N = 4`, six moves, two restarts |
| `answers` | `WaitingEnds` under `FairSpec` | `N = 3`, one move, one restart |
| `board` | seven properties of `BoardGame` against `ChessLaws` | eight openings, one to three moves deep |
| `lobby` | `TypeOK`, `OnePlace`, `PlacesAreOpen`, `ClientsKnowTheirSeats`, `NobodyIsLeftBehind`, `ServerForgets` | three clients with a restart and two resets, or four clients with a restart or a reset |
| `process` | `TypeOK`, `NoLostWakeUp`, `SilentOnlyIfLost`, `PopsWhatItWrote`, `LengthsAreLengths`, `RequestsInOrder`, `ResponsesInOrder`, `RequestsArrive`, `DestructorNeverHangs`, `ServerNotices` | two packets, in either direction |
| `forgotten` | expected violation of `Lobby` | three clients, no reset |
| `graceful` | expected violation of `ClientProcess` | two packets, in either direction |
| `stale_commit`, `early_reply` | expected violations under `Spec` | `N = 3`, two moves, no restart |
| `exposed_king`, `rookless_castling` | expected violations of `BoardGame` | one opening each |

*What `match` shows.* Every interleaving of both players, four client threads and
the server. However much races, the clients' copies converge to the session,
though a promotion is sent as a change and not as a state; a move starts on the
square its player had selected, though the sender learns of selections later than
the GUI; a client in the promotion state can always leave it.

*What `patient` shows.* The server checks nothing, so it plays chess only because
of its clients. `PatientSpec` leaves out the races: an update of the session that
is on its way to a player who has something going on (a selection, a request, an
open menu). Without races the session implements `ChessGame`. The refinement
mapping is the identity on board, score and team: `COMMIT_MOVE` maps to a legal
move of the team to move, `PROMOTE` to the promotion of a pawn by the team that
has just moved, `RESTART` to a new game, and everything else stutters. Both
players see the same game, its end included. With races it fails, and the two
violation runs show how.

*What `answers` shows.* Fairness is weak fairness of `Update`, `SendRequest`,
`ReceiveResponse` and `OnPacket` for each player: the GUI polls its queue in
every frame, the other three threads wait for work in a loop. Players are not
assumed to do anything, in particular not to choose from an open menu.

*What `board` shows.* Apart from castling and en passant, the offered moves are
exactly the lawful ones; no lawful castling is withheld, and an unlawful one is
offered only towards a corner in which an unmoved rook was captured
(`history.taken`; a rook that has moved away takes its right along); captures en
passant come in time, and are withheld only when the passed pawn gives check. The
score tells the captures; what a capture en passant scores is left open, since the
code and its comments differ (section 4). `FlagTellsTheEnd` holds the flag against
the laws when no capture en passant is at hand: for an ordinary move exactly; for
a move to the last row it judges the board on which the pawn has been promoted, to
each piece that may be chosen, and says that a game which ends there leaves the
other team no move, and that a checkmate is one. It does not say that a stalemate
is one, which is false (section 4). A game is followed until a king
stands in check of the team that is to move, or a promotion turns something else
than its pawn: from there on neither the laws nor `kingPos` have a meaning. Of the
eight openings one, `Late`, has a promotion chosen after the opponent has moved.

*What `lobby` shows.* Sessions are found by search and nothing in the code keeps a
connection from having two, or a session and the waiting place; no order of
connecting, quitting, resets and noticing brings that about, and a closed connection
keeps neither. A player who is connected and has received everything knows their
colour, though a player left alone keeps a colour from the session before and may
be seated by it. In the end no running client has a game whose other player is
gone, and the server has let go of everything of those who are cut off. Both
promises are to players who are connected: a running client whose connection was
reset keeps its pieces and hears nothing (section 6). Fairness: the server handles
what arrives (`Closes`, `OnPacket`), a client receives and, once told to quit, quits. Nobody
has to connect, play or leave. `NobodyIsLeftBehind` and `ServerForgets` are of the
form `<>[]`, because clients come finitely often. Four clients give two sessions
at once, two newcomers for one opponent left alone, and a waiting player who is
overwritten. A reset takes the place of a departure that the client does not know
of, so two resets and a restart are enough to meet both players of a session, the
waiting player and an opponent just left alone. Behaviours in which all four clients
come have one restart or one reset. Numbering clients in order of arrival loses
nothing, as they differ in name only; `SYMMETRY` could not be used with liveness.

*What `process` shows.* From `push` in the GUI to `onPacket` of the server, and
from `send` of the server to `onPacket` of the client, the program implements
`Channel`: packets arrive once and in order, whatever is reset, refused or closed
in between. Nobody sleeps on work, a Connection that has fallen silent has lost
its peer, and two writes are never under way on one socket. Unless the player
quits or the connection is lost, requests arrive; the destructor, which joins two
threads in an order of its own, never hangs, so that it returns unless the program
ends in undefined behaviour before that, which `graceful` shows it can; the server
notices that a client has gone. `LengthsAreLengths` says of a byte read as a length
that it is the length of the next packet, on both sides. Fairness is weak fairness of each thread that can go on, and of the system:
an operation that can complete does. It is stated thread by thread, since the
operating system schedules threads. The player need neither ask for anything nor
quit, and the connection need not break. *Bounds*: two requests, two responses or
one of each, one packet of two bytes, one holding a byte that would pass for a
length. Two packets in one direction reach a packet posted while another is half
written, and two in the queue; packets have no effect on each other besides.

*Bounds of the others.* `MaxCommits` and `MaxRestarts` bound what players choose to do;
everything that follows from it is explored to its end, so queues are as long as
they get. Two moves and a restart reach an opponent's move during a promotion, an
open menu left behind by a restart, and replies overtaken by restarts. Six moves
under `PatientSpec` reach both endings and a game after the end. A click on a
selected piece, which requests nothing new, is not bounded. In `MiniChess` three
squares give pawn, queen, capture, promotion and a stuck team; four give longer
games. `MenuIsModal` says whether an open menu keeps clicks from the board, which
the GUI library decides and this repository does not show; `match` and `patient`
take the weaker assumption. The openings of `board` hold few pieces, so that each
special rule is one or two moves away and still every reply is explored; the
first is the start of a game.

## 4. Findings

1. *Stale lists of moves* (`stale_commit`). The server may carry out a move that
   is not legal: BoardStateMachine.cpp:127 relies on a list that may answer
   another request.
2. *Promotion left early* (`early_reply`). The opponent may move while the menu
   is open. That update ends the promotion state, without the turn it carries.
3. *En passant and pins* (`exposed_king`). A capture may expose the own king.
4. *Castling without a rook* (`rookless_castling`).
5. *No graceful shutdown* (`graceful`). ChessClient.cpp:7 announces a graceful
   shutdown. The destructor calls `Connection::close` on the thread of the GUI,
   which clears `m_sendQueue` (Client/src/Connection.cpp:51) while the io thread
   runs. The handler of a write that has completed then calls `pop_front` on an
   empty queue (line 94), which is undefined: `IoPopsEmptyQueue` lets the program
   crash, or go on with a write of nothing. `PopsWhatItWrote` says that this is the
   only way to get there.
6. *A waiting player is forgotten* (`forgotten`). When a player leaves a session
   while a third one waits, `removeSession` (ChessServer.cpp:136) puts the
   opponent in the waiting place without looking whether it is taken.

Seen while modelling, without a run of their own:

* The root of finding 3 also makes *false checkmates*: `isKingEndangered` keeps the
  pawn captured en passant on the board (Board.cpp:340-344), so a capture that takes
  the pawn giving check is filtered out, and `hasAnyMoves` misses it. In the opening
  `Cornered` a double step is declared checkmate though the capture is lawful. This
  is why `FlagTellsTheEnd` asks that no such capture is at hand, and
  `EnPassantOnTime` excepts a passed pawn that gives check.
* A capture en passant scores 0: Board.cpp:93 looks at the square moved to, which is
  empty. Board.h:19 and Board.cpp:85 say that `commitMove` returns the score of the
  captured piece. `CapturesAreScored` takes neither side.
* A player whose opponent has left becomes the waiting player, is told to quit and
  does. A newcomer who comes before the server notices is seated with them, and
  told to quit in turn. `NobodyIsLeftBehind` holds because of it.
* A client that cannot connect or loses its connection tells neither its GUI nor
  its sender; the server sets no keep-alive.
* Checkmate and stalemate take the place of a promotion (opening `LastPawn`: a
  pawn that would mate as a rook or a queen ends the game as stalemate) and are not
  looked for after `promote` (Board.cpp:145-150, 167). The popup announces a
  winner after a stalemate (BoardHandlers.h:113).
* A promotion that is chosen after the opponent has moved may give check to that
  opponent when it is not their turn (opening `Late`). The next move may then
  capture a king, and `kingPos` names a square where none stands. The proof that
  kings stand where they are kept needed this to be told from a game of chess;
  `history.astray` does.
* A stale commit (finding 1) that lifts the king of the other team leaves the
  castling rights of that team. `calculatePieceMoves` may then list positions off
  the board, which is why lists of moves range over `Pos` and not over squares,
  and why `BoardIsTyped` asks for no more.

## 5. Proofs

| Module | Theorem | States |
|---|---|---|
| `ChessMatchProofs` | `TypeCorrect`, `CommitsNameSelections`, `CopiesConverge` | `TypeOK`, `CommitNamesSelection`, `CachesConverge` under `Spec` |
| `WaitingProofs` | `PromotionsAreNotLost` | `PromotionNotLost` under `Spec` |
| `PatienceProofs` | `OnlyOneMoves`, `OffersAreLegal`, `ViewsEndUpEqual`, `GamesEndForBoth`, `SessionPlaysChess` | `OneMover`, `OfferedMovesAreLegal`, `ViewsAgree`, `GameOverForBoth`, `PlaysChess` under `PatientSpec` |
| `BoardProofs` | `BoardIsTyped`, `PawnsArrive` | the assumptions of `ChessRules`, for `Board` |
| `BoardGameProofs` | `AttacksAreLawful` | `IsKingAttacked` against `ChessLaws`, on every board |
| | `GameIsTyped`, `KingsAreKept`, `PlainMovesAreTheLaws`, `CastlingIsFaithful`, `EnPassantIsTimely`, `TheEndIsRight`, `CapturesAreCounted` | `TypeOK`, `KingsWhereKept`, `PlainMovesAreLawful`, `CastlingFollowsTheKing`, `EnPassantOnTime`, `FlagTellsTheEnd`, `CapturesAreScored` of `BoardGame` |
| `LobbyProofs` | `TypeCorrect`, `PlacesAreUnique`, `PlacesStayOpen`, `SeatsAreKnown` | `TypeOK`, `OnePlace`, `PlacesAreOpen`, `ClientsKnowTheirSeats` |
| `ClientProcessProofs` | `TypeCorrect`, `NoWakeUpIsLost`, `SilenceMeansLoss`, `PopsTheFront`, `LengthsAreRead` | `TypeOK`, `NoLostWakeUp`, `SilentOnlyIfLost`, `PopsWhatItWrote`, `LengthsAreLengths` |
| | `RequestsArriveInOrder`, `ResponsesArriveInOrder` | `RequestsInOrder`, `ResponsesInOrder`: a connection implements `Channel` |

### A session and its clients

What is proved of `ChessMatch` holds for every set of rules that satisfies
`RulesAssumption` (a `Board` is typed, and `promote` changes one type) and, for
`PatienceProofs`, `PromotionAssumption` (a move with the flag `PROMOTION` leaves a
pawn of its team on the last square), and for every bound. TLC evaluates these and
`BoundsAssumption` and `UninitializedAssumption` for `MiniChess`. `BoardIsTyped`
and `PawnsArrive` prove the first two of the real `Board`: what TLC checks on a
line of three squares is proved of the game on sixty-four.

*Types.* `TypeOK` is not inductive. `Applied` replays a promotion on a cache that
is uninitialised until the first RESTART is received, and a message carries
`teamColor`, which is uninitialised until ASSIGN_COLOR is. `StartupOrder` adds
that as long as either is uninitialised, the packet that sets it is still ahead
of everything that needs it. A message also carries the sender's remembered
square, which is uninitialised until the first selection: that every request that
needs it has one ahead of it is part of `SelectionKnown`, below.

*Selections.* `CommitNamesSelection` speaks of the request at the head of the
queue. `SelectionKnown` says it of every position: walking through the queue from
what the sender remembers, each `MoveCommitReq` meets the square that was
selected when it was pushed, and a player who is selecting now ends up with the
square selected now. `SelectionProofs` holds the lemmas on walking through a
queue that grows at one end and shrinks at the other.

*Convergence.* `CachesConverge` speaks of a client with nothing on its way. The
invariant says it of every client: replaying what is on its way on what it holds
gives the session. A packet received moves a replay step from the queue to the
cache, and a handler of the server appends the step it takes itself; the
assumption `Get(Promote(b, pos, t)) = SetType(Get(b), pos, t)` makes them agree.

*Waiting.* The promotion state is entered from the commit state by an update
whose flag is `PROMOTION`, so a menu is opened at once; what could lose it is the
way there. `WaitingInv` says of a client that waits for a commit, too, that a
request, a packet or a message is on its way.

*Without races.* `PatientInv` says of each client where its machine may be, given
what is on its way (`Local`). Every request in a queue was made for the board of
the session and belongs to the state its machine is in, and so does every answer
(`Fits`); a list of moves that is waited for is asked for or on its way once, in
one of four queues (`OneAnswer`); the last message of a queue is the copy the
receiver holds, and that copy with what is on its way is the session
(`MessagesInOrder`, `Converging`); and the next update finds the machine in a
state that takes over what it needs of it (`NextFits`). The last one is what lets
states drop and half copy updates. `ChoosersMove` follows: who chooses a move has
nothing on the way, so that the turn they see is the session's. The refinement is
then a case for each handler of the server: `COMMIT_MOVE` finds the list of moves
it was chosen from still valid, and `PROMOTE` the pawn still there.

### The board

From `OpeningsAssumption`, which says of a position that games start from what
holds of a new game (the team that has just moved is not in check, one king per
team where the Board keeps it, at most 16 pieces each, rights for a king and rook at
home, no double step just made), for every set of openings with games of any length:

*Attacks.* The code looks along eight rays from the king; `ChessLaws` asks whether
a piece stands on a line or diagonal with nothing between. `AttacksAreLawful`
proves that the two are one, on every board: the squares between two on a line
are the steps of a ray before the last (`BetweenSteps`), and a ray reaches a square
exactly if these are empty. Moves are found the same way, so `SlidingReach` gives
the moves of a piece from it.

*Kings and moves.* `GameInv` is the invariant. `KingsWhereKept` alone is not
inductive: a move could capture a king. `SoundBoard` adds that the team that has
just moved is not in check, so no move offered takes a king; that a castling right
implies a king at home, so castling moves the king and rook it means; and that the
data for a capture en passant tell of a double step that was just made. With it
`isKingEndangered` tests what the laws ask for, except for the pawn taken en
passant, and `PlainMovesAreTheLaws` and `EnPassantIsTimely` follow.

*Castling.* `CastlingInv` adds that the rights follow the history: a right means
a king that has not moved, and a rook that has not moved unless it was captured
where it stood; a right that is gone means that the king or the rook has moved or
been captured. The middle part is inductive because a rook that leaves its corner
is missing there when its own team, which has just moved it, looks; only the other
team can take it while nobody looks. A promotion touches only squares that moves have touched.
`CastlingIsSafe` shows that castling which the code allows is never refused by
its legality test afterwards: the rook comes to stand beside the king, and leaving
home opens nothing but the row, whose squares were probed.

*The end.* `FlagInv` ties the flag to what the Board finds on the board the move
led to. `TheEndIsRight` compares that with the laws: whoever may castle may move
the king one step, and a capture en passant is not at hand, so that a team has a
move offered exactly if it has a lawful one. For a move to the last row the Board
judges the board with the pawn, the laws the one with what it becomes. A pawn on its
last row attacks nothing (`PromotedAttack`), so the promotion only adds attacks, and
takes moves away from the other team (`PromotionFreesNobody`): who has no move before
has none after, and who is in check stays in check.

*Captures.* `Material` counts each piece as often as it is worth, so that it is one
cardinality and changing a square changes it by what stood there
(`PointsOfTwoSquares`). `TotalAfterMove` follows a move through `TilesAfter` for any
price list of the pieces: it takes what stood on the square moved to, or the pawn
passed, and castling takes nothing. Two price lists are used: the worths of the
score, and one that counts every piece as a queen, which a promotion cannot raise.
With the second, `ScoreInv` bounds a score by 144 less what the other team has left,
so the `% 256` of the `uint8_t` is never felt, and `CapturesAreCounted` follows. For a
capture en passant it says that one pawn goes, and nothing of the score.

### The lobby and the process

`LobbyProofs` proves, for every set of clients and every bound, from
`LobbyAssumption`: `TypeCorrect`, `PlacesAreUnique` (`OnePlace`), `PlacesStayOpen`
(`PlacesAreOpen`) and `SeatsAreKnown` (`ClientsKnowTheirSeats`).

*Lobby.* The first three need one another: a newcomer has no seat because seats
are held by connections only, and the opponent of a leaving player may take the
waiting place because they had one seat. The client of `Unborn` has never been
heard of, so that connecting gives it its first place. `ClientsKnowTheirSeats`
speaks of an empty inbox. `Knows` says it with anything in the inbox, of players
who are not on their way out: the colour of their seat is known or on its way, no
other colour is on its way (`Told`), the waiting player is told WHITE, and without
a seat there is no RESTART. It says nothing of a client that is `broken`, of which
packets may be lost; that one's reset leaves what the others know as it is. The
waiting player of a dissolved session may know
BLACK, but a PLAYER_DISCONNECT is on its way to them.

`ClientProcessProofs` proves every safety property of the run `process`, and both
refinements, for every script of packets that fit into the buffers
(`ScriptAssumption`): any number of packets, of any bytes.

*Process.* What a handler finds in `m_sendQueue` depends on a write started two
handlers ago. `WriteInv` ties the two together on each side: a write under way is
one of the front of the queue and has not reached its end, a completed one has,
a queue without a write means a lost connection, and a write without a queue means
that the destructor has cleared it. `ReadInv` says that a completed read has
filled its buffer, so that a length is there to be looked at. The invariant falls
into a part about the connection and one about the threads, with a lemma for each
handler, each thing the system does and each statement of the destructor.

*Bytes.* Whether a byte is read as what it was written as depends on every byte
before it: a reader that is off by one stays off, and calls a payload a length.
`IsOffsets` gives each packet its place among all bytes that are ever sent in a
direction, and `ByteOf` says which byte is at a place. `Flow` says of a reader that
has not given up that it has taken the bytes up to `ReadUpTo`, a place that follows
from what it waits for and how many packets it has passed on, and that every byte
in the stream is the one of its place after that; while the connection is up, the
stream ends where the writer is. `Pipe` says the same of whole packets ahead of
the writer: `m_sendQueue`, then `posted`, hold the packets that follow, and
`Upstream` says it of the packet the sender holds and of `g_MQ.gui2net`. When the
connection is lost, a queue cleared or the writer stopped, `Pipe` is given up and
nothing more enters the stream, but what is in it still has its place; that the
destructor clears the queue only when the socket is closed (`ClosedBeforeCleared`)
is needed here. From `FlowInv`, which is all of this in both directions, a length is
the length of the next packet (`NextLength`) and fits the buffer (`LengthsFit`), a
payload is the next packet
(`PayloadsArrive`), and each step is one of `Channel` or a stutter (`ChannelStep`).

Only model-checked: all liveness (`WaitingEnds`, `NobodyIsLeftBehind`,
`ServerForgets`, `RequestsArrive`, `DestructorNeverHangs`, `ServerNotices`),
which is out of the prover's reach.

## 6. Not modelled

* `performShutdown`: `SHUT_DOWN` is sent by no client, so nothing reaches it.
* A connection that is cut and reports nothing: the code neither asks for a
  keep-alive nor sets a timer, so whatever waits for it waits for good.
* What a running client does after its connection was reset. It keeps its game for
  good: a failed read stops its reader (Client/src/Connection.cpp:61, 76), nobody
  tells the GUI, and the server has removed its session. `Lobby` keeps such clients
  in `broken`, lets the server close their connections and lets them quit; the
  promises to players except them.
* What the system still transmits of a write of the client whose queue has been
  cleared: the socket is closed by then.
* Other uses of `m_sendQueue` as undefined behaviour than `IoPopsEmptyQueue`: the
  deque itself is not synchronised between close and a handler that runs at the
  same moment; each is one step here.
* Drawing, layout, the GUI library and text, except what its menus do to the game.
* `main` of the server, which starts the loop and nothing else.

## 7. Plan

Done: a session with its clients, `Board`, the lobby, the queues, the connections
and the end of a client, with a theorem for every safety property of these. What
is left: `ChessMatch` with the real `Board` from a late
opening, for TLC; the theorems hold of it already.
