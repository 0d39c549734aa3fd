---------------------------- MODULE WaitingProofs ----------------------------
(***************************************************************************)
(* A client that waits for the session to change has something on its way  *)
(* that will end the wait.  A request passes from the queue of the GUI to  *)
(* the connection, becomes an update of the session there, and comes back  *)
(* as a packet and as a message: OnItsWay says that it is in one of these  *)
(* four places, and no step loses it.                                      *)
(***************************************************************************)
EXTENDS ChessMatchProofs

(* What follows a choice of the player, and the requests it becomes. *)
OnItsWay(p, req, type) ==
  \/ \E i \in DOMAIN gui2net[p] : gui2net[p][i].req = req
  \/ \E i \in DOMAIN toServer[p] : toServer[p][i].type = type
  \/ PacketPending(p)
  \/ MessagePending(p)

CommitNotLost == \A p \in Color :
  gui[p].fsm = "MOVE_COMMIT_WAITING" => OnItsWay(p, "MoveCommitReq", "COMMIT_MOVE")

WaitingInv == CommitNotLost /\ PromotionNotLost

-----------------------------------------------------------------------------
(* What an element of a queue becomes when the queue grows or shrinks. *)
LEMMA AppendElement ==
  ASSUME NEW S, NEW q \in Seq(S), NEW x \in S
  PROVE  /\ Len(q) \in Nat /\ Len(Append(q, x)) = Len(q) + 1
         /\ Append(q, x) \in Seq(S) /\ Append(q, x) # <<>>
         /\ DOMAIN q = 1 .. Len(q) /\ DOMAIN Append(q, x) = 1 .. Len(q) + 1
         /\ \A i \in 1 .. Len(q) : Append(q, x)[i] = q[i]
         /\ Append(q, x)[Len(q) + 1] = x
BY LenProperties, AppendProperties

LEMMA TailElement ==
  ASSUME NEW S, NEW q \in Seq(S), q # <<>>
  PROVE  /\ Len(q) \in Nat \ {0} /\ Len(Tail(q)) = Len(q) - 1
         /\ Head(q) \in S /\ Head(q) = q[1] /\ Tail(q) \in Seq(S)
         /\ DOMAIN q = 1 .. Len(q) /\ DOMAIN Tail(q) = 1 .. Len(q) - 1
         /\ \A i \in 1 .. Len(q) - 1 : Tail(q)[i] = q[i + 1]
BY EmptySeq, HeadTailProperties, LenProperties

(* An element other than the head is still there when the head is gone. *)
LEMMA TailKeeps ==
  ASSUME NEW S, NEW q \in Seq(S), q # <<>>, NEW i \in DOMAIN q, i # 1
  PROVE  i - 1 \in DOMAIN Tail(q) /\ Tail(q)[i - 1] = q[i]
<1> DEFINE t == Tail(q)
<1>1. /\ Len(q) \in Nat \ {0} /\ DOMAIN q = 1 .. Len(q) /\ DOMAIN t = 1 .. Len(q) - 1
      /\ \A j \in 1 .. Len(q) - 1 : t[j] = q[j + 1]
  BY TailElement
<1> HIDE DEF t
<1>2. i - 1 \in 1 .. Len(q) - 1 /\ (i - 1) + 1 = i
  BY <1>1
<1> QED
  BY <1>1, <1>2 DEF t

(* The same for all the elements of a queue. *)
LEMMA AppendAll ==
  ASSUME NEW S, NEW q \in Seq(S), NEW x \in S, NEW i \in DOMAIN q
  PROVE  i \in DOMAIN Append(q, x) /\ Append(q, x)[i] = q[i]
BY AppendElement

-----------------------------------------------------------------------------
LEMMA QueueTypes ==
  ASSUME TypeOK
  PROVE  /\ gui \in [Color -> Gui] /\ menus \in [Color -> Nat]
         /\ gui2net \in [Color -> Seq(GuiMessage)]
         /\ net2gui \in [Color -> Seq(NetworkMessage)]
         /\ toServer \in [Color -> Seq(Request)]
         /\ toClient \in [Color -> Seq(Response)]
         /\ selectedPiece \in [Color -> Square \cup {Uninitialized}]
         /\ cache \in [Color -> GameStateCache \cup {Uninitialized}]
         /\ teamColor \in [Color -> Color \cup {Uninitialized}]
         /\ session \in [board : Board, score : Score, currentTeam : Color]
BY DEF TypeOK, GuiTypeOK, WireTypeOK, ClientTypeOK, SessionTypeOK

(* What one step of a sender does, by the request it takes. *)
LEMMA SendShape ==
  ASSUME IInv, NEW p \in Color, SendStep(p)
  PROVE  LET m == Head(gui2net[p]) IN
         /\ gui2net[p] # <<>> /\ gui2net'[p] = Tail(gui2net[p])
         /\ m \in GuiMessage /\ m = gui2net[p][1]
         /\ UNCHANGED <<gui, menus, net2gui, toClient, cache, teamColor, session>>
         /\ \/ /\ m.req = "AvailableMovesReq"
               /\ toServer'[p] = Append(toServer[p], [type |-> "CALCULATE_MOVES", pos |-> m.from])
               /\ selectedPiece'[p] = m.from
            \/ /\ m.req = "MoveCommitReq"
               /\ toServer'[p] = Append(toServer[p],
                    [type |-> "COMMIT_MOVE", from |-> selectedPiece[p], to |-> m.to])
               /\ selectedPiece'[p] = m.to
            \/ /\ m.req = "RestartReq"
               /\ toServer'[p] = Append(toServer[p], [type |-> "RESTART"])
               /\ selectedPiece'[p] = selectedPiece[p]
            \/ /\ m.req = "PromotionReq"
               /\ toServer'[p] = Append(toServer[p],
                    [type |-> "PROMOTE", piece |-> m.type, pos |-> selectedPiece[p]])
               /\ selectedPiece'[p] = selectedPiece[p]
<1> DEFINE m == Head(gui2net[p])
<1>1. /\ gui2net \in [Color -> Seq(GuiMessage)] /\ toServer \in [Color -> Seq(Request)]
      /\ selectedPiece \in [Color -> Square \cup {Uninitialized}]
  BY QueueTypes DEF IInv
<1>2. /\ gui2net[p] # <<>> /\ gui2net'[p] = Tail(gui2net[p])
      /\ UNCHANGED <<gui, menus, net2gui, toClient, cache, teamColor, session>>
  BY <1>1 DEF SendStep, SendRequest
<1>3. m \in GuiMessage /\ m = gui2net[p][1]
  BY <1>1, <1>2, TailElement
<1>4. CASE m.req = "AvailableMovesReq"
  BY <1>1, <1>2, <1>3, <1>4 DEF SendStep, SendRequest
<1>5. CASE m.req = "MoveCommitReq"
  BY <1>1, <1>2, <1>3, <1>5 DEF SendStep, SendRequest
<1>6. CASE m.req = "RestartReq"
  BY <1>1, <1>2, <1>3, <1>6 DEF SendStep, SendRequest
<1>7. CASE m.req = "PromotionReq"
  BY <1>1, <1>2, <1>3, <1>7 DEF SendStep, SendRequest
<1> QED
  BY <1>3, <1>4, <1>5, <1>6, <1>7 DEF GuiMessage

(* What one step of a receiver does, by the packet it takes. *)
LEMMA ReceiveShape ==
  ASSUME IInv, NEW p \in Color, ReceiveStep(p)
  PROVE  LET x     == Head(toClient[p])
             state == Applied(cache[p], x)
         IN
         /\ toClient[p] # <<>> /\ toClient'[p] = Tail(toClient[p])
         /\ x \in Response /\ x = toClient[p][1]
         /\ UNCHANGED <<gui, menus, gui2net, toServer, selectedPiece, session>>
         /\ cache'[p] = state
         /\ \/ /\ x.type = "CALCULATE_MOVES"
               /\ net2gui'[p] = Append(net2gui[p], [msg |-> "Moves", moves |-> x.moves])
               /\ teamColor' = teamColor
            \/ /\ x.type \in {"COMMIT_MOVE", "PROMOTE"}
               /\ net2gui'[p] = Append(net2gui[p],
                    [msg |-> "StateUpdateMsg", cache |-> state, myColor |-> teamColor[p]])
               /\ teamColor' = teamColor
            \/ /\ x.type = "RESTART"
               /\ net2gui'[p] = Append(net2gui[p],
                    [msg |-> "RestartMsg", cache |-> state, myColor |-> teamColor[p]])
               /\ teamColor' = teamColor
            \/ /\ x.type = "ASSIGN_COLOR"
               /\ net2gui'[p] = net2gui[p]
               /\ teamColor'[p] = x.color
<1> DEFINE x     == Head(toClient[p])
           state == Applied(cache[p], x)
<1>1. /\ net2gui \in [Color -> Seq(NetworkMessage)] /\ toClient \in [Color -> Seq(Response)]
      /\ cache \in [Color -> GameStateCache \cup {Uninitialized}]
      /\ teamColor \in [Color -> Color \cup {Uninitialized}]
  BY QueueTypes DEF IInv
<1>2. /\ toClient[p] # <<>> /\ toClient'[p] = Tail(toClient[p])
      /\ UNCHANGED <<gui, menus, gui2net, toServer, selectedPiece, session>>
      /\ cache'[p] = state
  BY <1>1 DEF ReceiveStep, ReceiveResponse
<1>3. x \in Response /\ x = toClient[p][1]
  BY <1>1, <1>2, TailElement
<1> HIDE DEF state
<1>4. CASE x.type = "CALCULATE_MOVES"
  BY <1>1, <1>2, <1>3, <1>4 DEF ReceiveStep, ReceiveResponse
<1>5. CASE x.type \in {"COMMIT_MOVE", "PROMOTE"}
  BY <1>1, <1>2, <1>3, <1>5 DEF ReceiveStep, ReceiveResponse, state
<1>6. CASE x.type = "RESTART"
  BY <1>1, <1>2, <1>3, <1>6 DEF ReceiveStep, ReceiveResponse, state
<1>7. CASE x.type = "ASSIGN_COLOR"
  BY <1>1, <1>2, <1>3, <1>7 DEF ReceiveStep, ReceiveResponse
<1> QED
  BY <1>2, <1>3, <1>4, <1>5, <1>6, <1>7 DEF Response, state

(* The choices whose way is followed. *)
Ways == {<<"MoveCommitReq", "COMMIT_MOVE">>, <<"PromotionReq", "PROMOTE">>}

LEMMA PlayerKeepsWay ==
  ASSUME IInv, NEW p \in Color, NEW way \in Ways, OnItsWay(p, way[1], way[2]), PlayerStep(p)
  PROVE  OnItsWay(p, way[1], way[2])'
<1>1. /\ gui2net \in [Color -> Seq(GuiMessage)]
      /\ UNCHANGED <<toServer, toClient, net2gui>>
  BY QueueTypes DEF IInv, PlayerStep, Player, ClickPiece, ClickMove, ClickSelected, PressR,
     ChoosePromotion, wireVars
<1>2. \/ gui2net'[p] = gui2net[p]
      \/ \E m \in GuiMessage : gui2net'[p] = Append(gui2net[p], m)
  <2>1. gui[p] \in Gui /\ gui[p].selected \in Square
    BY QueueTypes DEF IInv, Gui
  <2> QED
    BY <1>1, <2>1 DEF PlayerStep, Player, ClickPiece, ClickMove, ClickSelected, PressR,
       ChoosePromotion, Push, GuiMessage
<1>3. ASSUME NEW i \in DOMAIN gui2net[p]
      PROVE  i \in DOMAIN gui2net'[p] /\ gui2net'[p][i] = gui2net[p][i]
  <2>1. CASE gui2net'[p] = gui2net[p]
    BY <2>1
  <2>2. ASSUME NEW m \in GuiMessage, gui2net'[p] = Append(gui2net[p], m)
        PROVE  i \in DOMAIN gui2net'[p] /\ gui2net'[p][i] = gui2net[p][i]
    BY <1>1, <2>2, AppendAll
  <2> QED
    BY <1>2, <2>1, <2>2
<1> QED
  BY <1>1, <1>3 DEF OnItsWay, PacketPending, MessagePending

LEMMA SendKeepsWay ==
  ASSUME IInv, IInv', NEW p \in Color, NEW way \in Ways, OnItsWay(p, way[1], way[2]), SendStep(p)
  PROVE  OnItsWay(p, way[1], way[2])'
<1> DEFINE q == gui2net[p]
           m == Head(q)
<1>1. /\ q \in Seq(GuiMessage) /\ q # <<>> /\ gui2net'[p] = Tail(q)
      /\ UNCHANGED <<toClient, net2gui>>
  BY QueueTypes DEF IInv, SendStep, SendRequest
<1>2. PICK r : /\ toServer'[p] = Append(toServer[p], r)
               /\ m.req = "MoveCommitReq" => r.type = "COMMIT_MOVE"
               /\ m.req = "PromotionReq" => r.type = "PROMOTE"
  <2>1. CASE m.req = "AvailableMovesReq"
    BY <2>1, SendShape
  <2>2. CASE m.req = "MoveCommitReq"
    <3>1. [type |-> "COMMIT_MOVE", from |-> selectedPiece[p], to |-> m.to].type = "COMMIT_MOVE"
      OBVIOUS
    <3> QED
      BY <2>2, <3>1, SendShape
  <2>3. CASE m.req = "RestartReq"
    BY <2>3, SendShape
  <2>4. CASE m.req = "PromotionReq"
    <3>1. [type |-> "PROMOTE", piece |-> m.type, pos |-> selectedPiece[p]].type = "PROMOTE"
      OBVIOUS
    <3> QED
      BY <2>4, <3>1, SendShape
  <2> QED
    BY <2>1, <2>2, <2>3, <2>4, SendShape
<1>3. toServer[p] \in Seq(Request) /\ toServer'[p] \in Seq(Request)
  BY QueueTypes DEF IInv, TypeOK, WireTypeOK
<1>4. /\ DOMAIN toServer[p] = 1 .. Len(toServer[p]) /\ Len(toServer[p]) \in Nat
      /\ DOMAIN toServer'[p] = 1 .. Len(toServer[p]) + 1
      /\ \A i \in DOMAIN toServer[p] : toServer'[p][i] = toServer[p][i]
      /\ toServer'[p][Len(toServer[p]) + 1] = r
  BY <1>2, <1>3
<1>5. ASSUME NEW i \in DOMAIN q, q[i].req = way[1] PROVE OnItsWay(p, way[1], way[2])'
  <2>1. CASE i = 1
    <3>1. m.req = way[1]
      BY <1>1, <1>5, <2>1, TailElement
    <3>2. r.type = way[2]
      BY <1>2, <3>1 DEF Ways
    <3>3. Len(toServer[p]) + 1 \in DOMAIN toServer'[p]
      BY <1>4
    <3> DEFINE n == Len(toServer[p]) + 1
    <3>4. n \in DOMAIN toServer'[p] /\ toServer'[p][n].type = way[2]
      BY <1>4, <3>2, <3>3
    <3> HIDE DEF n
    <3> QED
      BY <3>4 DEF OnItsWay
  <2>2. CASE i # 1
    <3>1. i - 1 \in DOMAIN gui2net'[p] /\ gui2net'[p][i - 1] = q[i]
      BY <1>1, <2>2, TailKeeps
    <3> QED
      BY <1>5, <3>1 DEF OnItsWay
  <2> QED
    BY <2>1, <2>2
<1>6. ASSUME NEW i \in DOMAIN toServer[p], toServer[p][i].type = way[2]
      PROVE  OnItsWay(p, way[1], way[2])'
  <2>1. i \in DOMAIN toServer'[p] /\ toServer'[p][i] = toServer[p][i]
    BY <1>4
  <2> QED
    BY <1>6, <2>1 DEF OnItsWay
<1>7. CASE PacketPending(p) \/ MessagePending(p)
  BY <1>1, <1>7 DEF OnItsWay, PacketPending, MessagePending
<1> QED
  BY <1>5, <1>6, <1>7 DEF OnItsWay

(* The receiver turns an update into a message: nothing is lost on the way *)
(* from the connection to the GUI.                                         *)
LEMMA ReceiveKeepsPending ==
  ASSUME IInv, IInv', NEW p \in Color, PacketPending(p) \/ MessagePending(p), ReceiveStep(p)
  PROVE  PacketPending(p)' \/ MessagePending(p)'
<1> DEFINE q == toClient[p]
           x == Head(q)
           s == net2gui[p]
<1>1. /\ q \in Seq(Response) /\ q # <<>> /\ toClient'[p] = Tail(q)
      /\ s \in Seq(NetworkMessage) /\ net2gui'[p] \in Seq(NetworkMessage)
  BY QueueTypes DEF IInv, TypeOK, GuiTypeOK, ReceiveStep, ReceiveResponse
<1>2. \/ net2gui'[p] = s /\ ~IsUpdate(x)
      \/ \E m : /\ net2gui'[p] = Append(s, m)
                /\ IsUpdate(x) => m.msg \in {"StateUpdateMsg", "RestartMsg"}
  <2>1. CASE x.type = "ASSIGN_COLOR"
    BY <2>1, ReceiveShape DEF IsUpdate
  <2>2. CASE x.type = "CALCULATE_MOVES"
    BY <2>2, ReceiveShape DEF IsUpdate
  <2>3. CASE IsUpdate(x)
    <3> DEFINE new(msg) == [msg |-> msg, cache |-> Applied(cache[p], x), myColor |-> teamColor[p]]
    <3>1. \E msg \in {"StateUpdateMsg", "RestartMsg"} : net2gui'[p] = Append(s, new(msg))
      BY <2>3, ReceiveShape DEF IsUpdate
    <3>2. \A msg : new(msg).msg = msg
      OBVIOUS
    <3> HIDE DEF new
    <3> QED
      BY <3>1, <3>2
  <2> QED
    BY <2>1, <2>2, <2>3, ReceiveShape DEF IsUpdate
<1>3. CASE MessagePending(p)
  <2>1. PICK i \in DOMAIN s : s[i].msg \in {"StateUpdateMsg", "RestartMsg"}
    BY <1>3 DEF MessagePending
  <2>2. i \in DOMAIN net2gui'[p] /\ net2gui'[p][i] = s[i]
    BY <1>1, <1>2
  <2> QED
    BY <2>1, <2>2 DEF MessagePending
<1>4. CASE PacketPending(p)
  <2>1. PICK i \in DOMAIN q : IsUpdate(q[i])
    BY <1>4 DEF PacketPending, IsUpdate
  <2>2. CASE i = 1
    <3>1. IsUpdate(x)
      BY <1>1, <2>1, <2>2, TailElement
    <3>2. PICK m : net2gui'[p] = Append(s, m) /\ m.msg \in {"StateUpdateMsg", "RestartMsg"}
      BY <1>2, <3>1
    <3>3. Len(s) + 1 \in DOMAIN net2gui'[p] /\ net2gui'[p][Len(s) + 1] = m
      BY <1>1, <3>2
    <3> QED
      BY <3>2, <3>3 DEF MessagePending
  <2>3. CASE i # 1
    <3>1. i - 1 \in DOMAIN toClient'[p] /\ toClient'[p][i - 1] = q[i]
      BY <1>1, <2>3, TailKeeps
    <3> QED
      BY <2>1, <3>1 DEF PacketPending, IsUpdate
  <2> QED
    BY <2>2, <2>3
<1> QED
  BY <1>3, <1>4

LEMMA ReceiveKeepsWay ==
  ASSUME IInv, IInv', NEW p \in Color, NEW way \in Ways, OnItsWay(p, way[1], way[2]),
         ReceiveStep(p)
  PROVE  OnItsWay(p, way[1], way[2])'
<1>1. UNCHANGED <<gui2net, toServer>>
  BY DEF ReceiveStep, ReceiveResponse
<1> QED
  BY <1>1, ReceiveKeepsPending DEF OnItsWay

(* The server answers both clients when it carries out a move, a promotion *)
(* or a restart.                                                           *)
LEMMA SendBothIsPending ==
  ASSUME IInv, IInv', NEW p \in Color, NEW x, SendBoth(x), IsUpdate(x)
  PROVE  PacketPending(p)'
<1>1. /\ toClient[p] \in Seq(Response) /\ toClient'[p] \in Seq(Response)
      /\ toClient'[p] = Append(toClient[p], x)
  BY QueueTypes DEF IInv, TypeOK, WireTypeOK, SendBoth
<1>2. Len(toClient[p]) + 1 \in DOMAIN toClient'[p] /\ toClient'[p][Len(toClient[p]) + 1] = x
  BY <1>1
<1> QED
  BY <1>2 DEF PacketPending, IsUpdate

LEMMA ServerUpdates ==
  ASSUME IInv, IInv', NEW c \in Color, ServerStep(c),
         Head(toServer[c]).type # "CALCULATE_MOVES", NEW p \in Color
  PROVE  PacketPending(p)'
<1>1. \E x : SendBoth(x) /\ IsUpdate(x)
  BY DEF ServerStep, OnPacket, PerformAvailableMoves, PerformCommitMove, PerformPromotion,
     PerformRestart, Requested, IsUpdate
<1> QED
  BY <1>1, SendBothIsPending

LEMMA ServerKeepsWay ==
  ASSUME IInv, IInv', NEW p \in Color, NEW way \in Ways, OnItsWay(p, way[1], way[2]),
         NEW c \in Color, ServerStep(c)
  PROVE  OnItsWay(p, way[1], way[2])'
<1>1. UNCHANGED <<gui2net, net2gui>>
  BY DEF ServerStep, guiVars
<1>2. CASE Head(toServer[c]).type # "CALCULATE_MOVES"
  BY <1>2, ServerUpdates DEF OnItsWay
<1>3. CASE Head(toServer[c]).type = "CALCULATE_MOVES"
  <2> DEFINE q == toServer[c]
  <2>1. PerformAvailableMoves(c)
    BY <1>3 DEF ServerStep, OnPacket, PerformCommitMove, PerformPromotion, PerformRestart, Requested
  <2>2. /\ toServer' = [toServer EXCEPT ![c] = Tail(@)] /\ q # <<>>
        /\ q \in Seq(Request) /\ toServer \in [Color -> Seq(Request)]
    BY <2>1, QueueTypes DEF IInv, PerformAvailableMoves, Requested
  <2>3. ASSUME NEW i \in DOMAIN toServer[p], toServer[p][i].type = way[2]
        PROVE  OnItsWay(p, way[1], way[2])'
    <3>1. CASE c # p
      BY <2>2, <2>3, <3>1 DEF OnItsWay
    <3>2. CASE c = p
      <4>1. q[1].type # way[2]
        BY <1>3, <2>2, TailElement DEF Ways
      <4>2. i - 1 \in DOMAIN Tail(q) /\ Tail(q)[i - 1] = q[i]
        BY <2>2, <2>3, <3>2, <4>1, TailKeeps
      <4> QED
        BY <2>2, <2>3, <3>2, <4>2 DEF OnItsWay
    <3> QED
      BY <3>1, <3>2
  <2>4. CASE PacketPending(p)
    <3>1. PICK i \in DOMAIN toClient[p] : IsUpdate(toClient[p][i])
      BY <2>4 DEF PacketPending, IsUpdate
    <3>2. toClient[p] \in Seq(Response) /\ toClient'[p] \in Seq(Response)
          /\ (toClient'[p] = toClient[p] \/ \E x : toClient'[p] = Append(toClient[p], x))
      BY <2>1, QueueTypes DEF IInv, TypeOK, WireTypeOK, PerformAvailableMoves
    <3>3. i \in DOMAIN toClient'[p] /\ toClient'[p][i] = toClient[p][i]
      BY <3>2
    <3> QED
      BY <3>1, <3>3 DEF OnItsWay, PacketPending, IsUpdate
  <2> QED
    BY <1>1, <2>3, <2>4 DEF OnItsWay, MessagePending
<1> QED
  BY <1>2, <1>3

(* Every step but an update of the GUI of p itself keeps what is on its    *)
(* way to p.                                                               *)
LEMMA OtherKeepsWay ==
  ASSUME IInv, NEW p \in Color, NEW way \in Ways, OnItsWay(p, way[1], way[2]),
         NEW c \in Color, c # p,
         PlayerStep(c) \/ UpdateStep(c) \/ SendStep(c) \/ ReceiveStep(c)
  PROVE  OnItsWay(p, way[1], way[2])'
<1>1. UNCHANGED <<gui2net[p], net2gui[p], toServer[p], toClient[p]>>
  <2> USE QueueTypes DEF IInv
  <2>1. CASE PlayerStep(c)
    BY <2>1 DEF PlayerStep, Player, ClickPiece, ClickMove, ClickSelected, PressR,
       ChoosePromotion, Push, wireVars
  <2>2. CASE UpdateStep(c)
    BY <2>2 DEF UpdateStep, Update, OnRestart, OnMoves, OnStateUpdate, Arrives, wireVars
  <2>3. CASE SendStep(c)
    BY <2>3 DEF SendStep, SendRequest
  <2>4. CASE ReceiveStep(c)
    BY <2>4 DEF ReceiveStep, ReceiveResponse
  <2> QED
    BY <2>1, <2>2, <2>3, <2>4
<1> QED
  BY <1>1 DEF OnItsWay, PacketPending, MessagePending

LEMMA NextKeepsWay ==
  ASSUME IInv, IInv', NEW p \in Color, NEW way \in Ways, OnItsWay(p, way[1], way[2]),
         Next, ~UpdateStep(p)
  PROVE  OnItsWay(p, way[1], way[2])'
<1>1. PICK c \in Color :
        PlayerStep(c) \/ UpdateStep(c) \/ SendStep(c) \/ ReceiveStep(c) \/ ServerStep(c)
  BY DEF Next
<1>2. CASE c # p /\ ~ServerStep(c)
  BY <1>1, <1>2, OtherKeepsWay
<1>3. CASE ServerStep(c)
  BY <1>3, ServerKeepsWay
<1>4. CASE c = p
  BY <1>1, <1>4, PlayerKeepsWay, SendKeepsWay, ReceiveKeepsWay, ServerKeepsWay
<1> QED
  BY <1>2, <1>3, <1>4

(* A list of moves is no update: what is on its way stays on its way.      *)
LEMMA MovesKeepWay ==
  ASSUME IInv, NEW p \in Color, NEW way \in Ways, OnItsWay(p, way[1], way[2]),
         UpdateStep(p), Head(net2gui[p]).msg = "Moves"
  PROVE  OnItsWay(p, way[1], way[2])'
<1> DEFINE s == net2gui[p]
<1>1. /\ s \in Seq(NetworkMessage) /\ s # <<>> /\ net2gui'[p] = Tail(s)
      /\ UNCHANGED <<gui2net, toServer, toClient>>
  BY QueueTypes DEF IInv, UpdateStep, Update, OnRestart, OnMoves, OnStateUpdate, Arrives, wireVars
<1>2. CASE MessagePending(p)
  <2>1. PICK i \in DOMAIN s : s[i].msg \in {"StateUpdateMsg", "RestartMsg"}
    BY <1>2 DEF MessagePending
  <2>2. i # 1
    BY <1>1, <2>1, TailElement
  <2>3. i - 1 \in DOMAIN net2gui'[p] /\ net2gui'[p][i - 1] = s[i]
    BY <1>1, <2>2, TailKeeps
  <2> QED
    BY <2>1, <2>3 DEF OnItsWay, MessagePending
<1> QED
  BY <1>1, <1>2 DEF OnItsWay, PacketPending

-----------------------------------------------------------------------------
LEMMA InitWaiting == Init => WaitingInv
<1> SUFFICES ASSUME Init, NEW p \in Color
             PROVE  gui[p].fsm \notin {"MOVE_COMMIT_WAITING", "PROMOTION_COMMIT_WAITING"}
  BY DEF WaitingInv, CommitNotLost, PromotionNotLost
<1>1. \E clicked \in Square \cup {Uninitialized} :
        gui = [c \in Color |-> IF c = "WHITE" /\ clicked # Uninitialized
                              THEN ClickedGui(clicked) ELSE NewGui]
  BY DEF Init
<1>2. NewGui.fsm = "IDLE" /\ \A clicked : ClickedGui(clicked).fsm = "MOVE_WAITING"
  BY DEF NewGui, ClickedGui
<1> QED
  BY <1>1, <1>2

(* The player's own steps: a move that is chosen, and a choice in a menu,  *)
(* are queued in the step that leaves nothing else to wait for.            *)
LEMMA PlayerWaiting ==
  ASSUME IInv, IInv', WaitingInv, NEW p \in Color, PlayerStep(p)
  PROVE  /\ gui'[p].fsm = "MOVE_COMMIT_WAITING" => OnItsWay(p, "MoveCommitReq", "COMMIT_MOVE")'
         /\ gui'[p].fsm = "PROMOTION_COMMIT_WAITING" =>
              menus'[p] > 0 \/ OnItsWay(p, "PromotionReq", "PROMOTE")'
<1>1. /\ gui \in [Color -> Gui] /\ menus \in [Color -> Nat]
      /\ gui2net[p] \in Seq(GuiMessage) /\ gui2net \in [Color -> Seq(GuiMessage)]
  BY QueueTypes DEF IInv
<1>2. /\ gui[p].fsm = "MOVE_COMMIT_WAITING" => OnItsWay(p, "MoveCommitReq", "COMMIT_MOVE")
      /\ gui[p].fsm = "PROMOTION_COMMIT_WAITING" =>
           menus[p] > 0 \/ OnItsWay(p, "PromotionReq", "PROMOTE")
  BY DEF WaitingInv, CommitNotLost, PromotionNotLost, OnItsWay
<1>3. ASSUME NEW way \in Ways, OnItsWay(p, way[1], way[2]) PROVE OnItsWay(p, way[1], way[2])'
  BY <1>3, PlayerKeepsWay
<1>4. /\ OnItsWay(p, "MoveCommitReq", "COMMIT_MOVE") => OnItsWay(p, "MoveCommitReq", "COMMIT_MOVE")'
      /\ OnItsWay(p, "PromotionReq", "PROMOTE") => OnItsWay(p, "PromotionReq", "PROMOTE")'
  <2> DEFINE commit == <<"MoveCommitReq", "COMMIT_MOVE">>
             promotion == <<"PromotionReq", "PROMOTE">>
  <2>1. commit \in Ways /\ promotion \in Ways
    BY DEF Ways
  <2>2. /\ commit[1] = "MoveCommitReq" /\ commit[2] = "COMMIT_MOVE"
        /\ promotion[1] = "PromotionReq" /\ promotion[2] = "PROMOTE"
    OBVIOUS
  <2> HIDE DEF commit, promotion
  <2> QED
    BY <1>3, <2>1, <2>2
<1>5. ASSUME NEW m \in GuiMessage, gui2net'[p] = Append(gui2net[p], m)
      PROVE  \E i \in DOMAIN gui2net'[p] : gui2net'[p][i].req = m.req
  <2>1. Len(gui2net[p]) + 1 \in DOMAIN gui2net'[p] /\ gui2net'[p][Len(gui2net[p]) + 1] = m
    BY <1>1, <1>5, AppendElement
  <2> QED
    BY <2>1
<1>6. ASSUME NEW pos \in Square, ClickMove(p, pos)
      PROVE  /\ gui'[p].fsm = "MOVE_COMMIT_WAITING"
             /\ OnItsWay(p, "MoveCommitReq", "COMMIT_MOVE")'
  <2> DEFINE m == [req |-> "MoveCommitReq", to |-> pos, picked |-> gui[p].selected]
  <2>1. m \in GuiMessage /\ m.req = "MoveCommitReq"
    BY <1>1 DEF GuiMessage, Gui
  <2>2. gui'[p].fsm = "MOVE_COMMIT_WAITING" /\ gui2net'[p] = Append(gui2net[p], m)
    BY <1>1, <1>6 DEF ClickMove, Push, Gui
  <2> HIDE DEF m
  <2> QED
    BY <1>5, <2>1, <2>2 DEF OnItsWay
<1>7. ASSUME NEW type \in PromotionChoice, ChoosePromotion(p, type)
      PROVE  gui'[p] = gui[p] /\ OnItsWay(p, "PromotionReq", "PROMOTE")'
  <2> DEFINE m == [req |-> "PromotionReq", type |-> type]
  <2>1. m \in GuiMessage /\ m.req = "PromotionReq"
    BY DEF GuiMessage
  <2>2. gui' = gui /\ gui2net'[p] = Append(gui2net[p], m)
    BY <1>1, <1>7 DEF ChoosePromotion, Push
  <2> HIDE DEF m
  <2> QED
    BY <1>5, <2>1, <2>2 DEF OnItsWay
<1>8. CASE (\E pos \in Square : ClickPiece(p, pos)) \/ ClickSelected(p) \/ PressR(p)
  <2>1. menus' = menus /\ (gui'[p].fsm = gui[p].fsm \/ gui'[p].fsm \in {"IDLE", "MOVE_WAITING"})
    <3>1. ASSUME NEW pos \in Square, ClickPiece(p, pos)
          PROVE  menus' = menus /\ gui'[p].fsm = "MOVE_WAITING"
      BY <1>1, <3>1 DEF ClickPiece, Gui
    <3>2. CASE ClickSelected(p)
      BY <1>1, <3>2 DEF ClickSelected, Gui
    <3>3. CASE PressR(p)
      BY <3>3 DEF PressR
    <3> QED
      BY <1>8, <3>1, <3>2, <3>3
  <2> QED
    BY <1>2, <1>4, <2>1
<1> QED
  BY <1>2, <1>4, <1>6, <1>7, <1>8 DEF PlayerStep, Player

(* An update ends the wait, and when it starts another one it opens the    *)
(* menu in the same step.                                                  *)
LEMMA UpdateWaiting ==
  ASSUME IInv, IInv', WaitingInv, NEW p \in Color, UpdateStep(p)
  PROVE  /\ gui'[p].fsm = "MOVE_COMMIT_WAITING" => OnItsWay(p, "MoveCommitReq", "COMMIT_MOVE")'
         /\ gui'[p].fsm = "PROMOTION_COMMIT_WAITING" =>
              menus'[p] > 0 \/ OnItsWay(p, "PromotionReq", "PROMOTE")'
<1>1. gui \in [Color -> Gui] /\ menus \in [Color -> Nat] /\ net2gui[p] \in Seq(NetworkMessage)
  BY QueueTypes DEF IInv
<1>2. /\ gui[p].fsm = "MOVE_COMMIT_WAITING" => OnItsWay(p, "MoveCommitReq", "COMMIT_MOVE")
      /\ gui[p].fsm = "PROMOTION_COMMIT_WAITING" =>
           menus[p] > 0 \/ OnItsWay(p, "PromotionReq", "PROMOTE")
  BY DEF WaitingInv, CommitNotLost, PromotionNotLost, OnItsWay
<1>3. CASE OnRestart(p)
  <2>1. gui'[p].fsm = "IDLE"
    BY <1>1, <1>3 DEF OnRestart
  <2> QED
    BY <2>1
<1>4. CASE OnMoves(p)
  <2>1. /\ menus' = menus /\ Head(net2gui[p]).msg = "Moves"
        /\ gui'[p].fsm = gui[p].fsm \/ gui'[p].fsm \in {"IDLE", "MOVE_SELECTION"}
    BY <1>1, <1>4 DEF OnMoves, Arrives, Gui
  <2> DEFINE commit == <<"MoveCommitReq", "COMMIT_MOVE">>
             promotion == <<"PromotionReq", "PROMOTE">>
  <2>2. commit \in Ways /\ promotion \in Ways
    BY DEF Ways
  <2>3. /\ commit[1] = "MoveCommitReq" /\ commit[2] = "COMMIT_MOVE"
        /\ promotion[1] = "PromotionReq" /\ promotion[2] = "PROMOTE"
    OBVIOUS
  <2> HIDE DEF commit, promotion
  <2>4. /\ OnItsWay(p, "MoveCommitReq", "COMMIT_MOVE") => OnItsWay(p, "MoveCommitReq", "COMMIT_MOVE")'
        /\ OnItsWay(p, "PromotionReq", "PROMOTE") => OnItsWay(p, "PromotionReq", "PROMOTE")'
    BY <2>1, <2>2, <2>3, MovesKeepWay
  <2> QED
    BY <1>2, <2>1, <2>4
<1>5. CASE OnStateUpdate(p)
  <2> DEFINE m == Head(net2gui[p])
  <2>1. IdleUpdate(p, m) \/ CommitUpdate(p, m) \/ PromotionUpdate(p, m) \/ IgnoredUpdate(p)
    BY <1>5 DEF OnStateUpdate
  <2> HIDE DEF m
  <2>2. CASE IdleUpdate(p, m)
    BY <1>1, <2>2 DEF IdleUpdate, Gui
  <2>3. CASE CommitUpdate(p, m)
    <3>1. gui'[p].fsm = AfterCommit(m.cache.flag)
      BY <1>1, <2>3 DEF CommitUpdate, Gui
    <3>2. m.cache.flag = "PROMOTION" => menus'[p] > 0
      BY <1>1, <2>3 DEF CommitUpdate
    <3> QED
      BY <3>1, <3>2 DEF AfterCommit
  <2>4. CASE PromotionUpdate(p, m)
    BY <1>1, <2>4 DEF PromotionUpdate, Gui
  <2>5. CASE IgnoredUpdate(p)
    BY <2>5 DEF IgnoredUpdate
  <2> QED
    BY <2>1, <2>2, <2>3, <2>4, <2>5
<1> QED
  BY <1>3, <1>4, <1>5 DEF UpdateStep, Update

LEMMA NextWaiting == IInv /\ IInv' /\ WaitingInv /\ [Next]_vars => WaitingInv'
<1> SUFFICES ASSUME IInv, IInv', WaitingInv, [Next]_vars, NEW p \in Color
             PROVE  /\ gui'[p].fsm = "MOVE_COMMIT_WAITING" =>
                         OnItsWay(p, "MoveCommitReq", "COMMIT_MOVE")'
                    /\ gui'[p].fsm = "PROMOTION_COMMIT_WAITING" =>
                         menus'[p] > 0 \/ OnItsWay(p, "PromotionReq", "PROMOTE")'
  BY DEF WaitingInv, CommitNotLost, PromotionNotLost, OnItsWay
<1>1. /\ gui[p].fsm = "MOVE_COMMIT_WAITING" => OnItsWay(p, "MoveCommitReq", "COMMIT_MOVE")
      /\ gui[p].fsm = "PROMOTION_COMMIT_WAITING" =>
           menus[p] > 0 \/ OnItsWay(p, "PromotionReq", "PROMOTE")
  BY DEF WaitingInv, CommitNotLost, PromotionNotLost, OnItsWay
<1>2. CASE UNCHANGED vars
  BY <1>1, <1>2 DEF vars, OnItsWay, PacketPending, MessagePending
<1>3. CASE PlayerStep(p)
  BY <1>3, PlayerWaiting
<1>4. CASE UpdateStep(p)
  BY <1>4, UpdateWaiting
<1>5. CASE Next /\ ~PlayerStep(p) /\ ~UpdateStep(p)
  <2>1. gui'[p] = gui[p] /\ menus'[p] = menus[p]
    <3>1. PICK c \in Color : \/ c # p /\ (PlayerStep(c) \/ UpdateStep(c))
                            \/ SendStep(c) \/ ReceiveStep(c) \/ ServerStep(c)
      BY <1>5 DEF Next
    <3>2. gui \in [Color -> Gui] /\ menus \in [Color -> Nat]
      BY QueueTypes DEF IInv
    <3>3. CASE SendStep(c) \/ ReceiveStep(c) \/ ServerStep(c)
      BY <3>3 DEF SendStep, SendRequest, ReceiveStep, ReceiveResponse, ServerStep, guiVars
    <3>4. CASE c # p /\ PlayerStep(c)
      BY <3>2, <3>4 DEF PlayerStep, Player, ClickPiece, ClickMove, ClickSelected, PressR,
         ChoosePromotion
    <3>5. CASE c # p /\ UpdateStep(c)
      BY <3>2, <3>5 DEF UpdateStep, Update, OnRestart, OnMoves, OnStateUpdate, IdleUpdate,
         CommitUpdate, PromotionUpdate, IgnoredUpdate
    <3> QED
      BY <3>1, <3>3, <3>4, <3>5
  <2> DEFINE commit == <<"MoveCommitReq", "COMMIT_MOVE">>
             promotion == <<"PromotionReq", "PROMOTE">>
  <2>2. commit \in Ways /\ promotion \in Ways
    BY DEF Ways
  <2>3. /\ commit[1] = "MoveCommitReq" /\ commit[2] = "COMMIT_MOVE"
        /\ promotion[1] = "PromotionReq" /\ promotion[2] = "PROMOTE"
    OBVIOUS
  <2> HIDE DEF commit, promotion
  <2>4. /\ OnItsWay(p, "MoveCommitReq", "COMMIT_MOVE") => OnItsWay(p, "MoveCommitReq", "COMMIT_MOVE")'
        /\ OnItsWay(p, "PromotionReq", "PROMOTE") => OnItsWay(p, "PromotionReq", "PROMOTE")'
    BY <1>5, <2>2, <2>3, NextKeepsWay
  <2> QED
    BY <1>1, <2>1, <2>4
<1> QED
  BY <1>2, <1>3, <1>4, <1>5

(* A player whose pawn is to be promoted is never left without a menu, a   *)
(* choice on its way to the server and an update on its way back, for      *)
(* every board and every interleaving of the five threads.                 *)
THEOREM PromotionsAreNotLost == Spec => []PromotionNotLost
<1>1. Init => IInv /\ WaitingInv
  BY InitIInv, InitWaiting
<1>2. IInv /\ WaitingInv /\ [Next]_vars => IInv' /\ WaitingInv'
  BY NextIInv, NextWaiting
<1>3. WaitingInv => PromotionNotLost
  BY DEF WaitingInv
<1> QED
  BY <1>1, <1>2, <1>3, PTL DEF Spec
=============================================================================
