----------------------------- MODULE LobbyProofs -----------------------------
(***************************************************************************)
(* Theorems about Lobby, for every set of clients.  That players know      *)
(* their seats depends on what is still on its way to them: IInv states it *)
(* of every player, with anything in their inbox.                          *)
(***************************************************************************)
EXTENDS Lobby, SequenceTheorems, TLAPS

In(x, q) == \E i \in 1 .. Len(q) : q[i] = x

(* Client c plays the colour k or will be told so, and of no other one. *)
Told(c, k) ==
  /\ client[c].teamColor = k \/ In(k, inbox[c])
  /\ client[c].teamColor \in {k, "UNKNOWN"}
  /\ \A l \in Color : In(l, inbox[c]) => l = k

SeatColor(s, c) == IF s.white = c THEN "WHITE" ELSE "BLACK"

Listens(c) ==
  client[c].life = "PLAYING" /\ c \notin broken /\ ~In("PLAYER_DISCONNECT", inbox[c])

(* What a player knows or will know who is neither thrown out nor cut off. *)
Knows(c) == Listens(c) =>
  /\ \A s \in sessions : c \in Players(s) =>
       /\ client[c].started \/ In("RESTART", inbox[c])
       /\ Told(c, SeatColor(s, c))
  /\ ~Seated(c) => ~client[c].started /\ ~In("RESTART", inbox[c])
  /\ waitingPlayer = c => Told(c, "WHITE")

(* A client that has not been started is known to nobody. *)
Unborn(c) == client[c].life = "OFF" =>
  /\ c \notin connections /\ c \notin broken
  /\ inbox[c] = <<>>
  /\ client[c].teamColor = "UNKNOWN" /\ ~client[c].started

IInv ==
  /\ TypeOK /\ OnePlace /\ PlacesAreOpen
  /\ \A c \in Client : Unborn(c) /\ Knows(c)

-----------------------------------------------------------------------------
(* Facts about queues of packets. *)
LEMMA InAppend ==
  ASSUME NEW S, NEW q \in Seq(S), NEW x \in S, NEW y
  PROVE  /\ Append(q, x) \in Seq(S)
         /\ In(y, Append(q, x)) <=> In(y, q) \/ y = x
<1>1. /\ Len(q) \in Nat /\ Len(Append(q, x)) = Len(q) + 1
      /\ \A i \in 1 .. Len(q) : Append(q, x)[i] = q[i]
      /\ Append(q, x)[Len(q) + 1] = x
      /\ Append(q, x) \in Seq(S)
  BY LenProperties, AppendProperties
<1> QED
  BY <1>1 DEF In

LEMMA InTail ==
  ASSUME NEW S, NEW q \in Seq(S), q # <<>>, NEW y
  PROVE  /\ Tail(q) \in Seq(S) /\ Head(q) \in S
         /\ In(Head(q), q)
         /\ In(y, Tail(q)) => In(y, q)
         /\ In(y, q) => y = Head(q) \/ In(y, Tail(q))
<1>1. /\ Len(q) \in Nat /\ Len(q) >= 1 /\ Len(Tail(q)) = Len(q) - 1
      /\ Head(q) = q[1] /\ Head(q) \in S /\ Tail(q) \in Seq(S)
      /\ \A i \in 1 .. Len(Tail(q)) : Tail(q)[i] = q[i + 1]
  BY LenProperties, HeadTailProperties, EmptySeq
<1>2. ASSUME In(y, q), y # Head(q) PROVE In(y, Tail(q))
  <2>1. PICK i \in 1 .. Len(q) : q[i] = y
    BY <1>2 DEF In
  <2>2. i - 1 \in 1 .. Len(Tail(q)) /\ Tail(q)[i - 1] = y
    BY <1>1, <1>2, <2>1
  <2> QED
    BY <2>2 DEF In
<1>3. ASSUME In(y, Tail(q)) PROVE In(y, q)
  <2>1. PICK i \in 1 .. Len(Tail(q)) : Tail(q)[i] = y
    BY <1>3 DEF In
  <2>2. i + 1 \in 1 .. Len(q) /\ q[i + 1] = y
    BY <1>1, <2>1
  <2> QED
    BY <2>2 DEF In
<1> QED
  BY <1>1, <1>2, <1>3 DEF In

LEMMA InEmpty == \A y : ~In(y, <<>>)
BY EmptySeq DEF In

(* after is before with the packet p for the clients in to that listen. *)
Delivered(before, after, to, p) ==
  /\ after \in [Client -> Seq(Packet)]
  /\ \A c \in Client : \A y :
       In(y, after[c]) <=>
         In(y, before[c]) \/ (c \in to /\ y = p /\ ~CutOff(c))
  /\ \A c \in Client \ to : after[c] = before[c]

(* What is sent arrives in one inbox, unless its client is cut off. *)
LEMMA SentProperties ==
  ASSUME NEW box \in [Client -> Seq(Packet)], NEW to \in Client, NEW p \in Packet
  PROVE  Delivered(box, Sent(box, to, p), {to}, p)
<1>1. /\ Append(box[to], p) \in Seq(Packet)
      /\ \A y : In(y, Append(box[to], p)) <=> In(y, box[to]) \/ y = p
  BY InAppend
<1>2. CASE CutOff(to)
  BY <1>2 DEF Sent, Delivered
<1>3. CASE ~CutOff(to)
  BY <1>1, <1>3 DEF Sent, Delivered
<1> QED
  BY <1>2, <1>3

(* A restart reaches both players of a session and nobody else. *)
LEMMA RestartedProperties ==
  ASSUME NEW box \in [Client -> Seq(Packet)], NEW s \in Session
  PROVE  Delivered(box, Restarted(box, s), Players(s), "RESTART")
<1>1. s.white \in Client /\ s.black \in Client /\ "RESTART" \in Packet
  BY DEF Session, Packet
<1> DEFINE b == Sent(box, s.black, "RESTART")
           d == Sent(b, s.white, "RESTART")
<1>2. Delivered(box, b, {s.black}, "RESTART")
  BY <1>1, SentProperties
<1>3. b \in [Client -> Seq(Packet)]
  BY <1>2 DEF Delivered
<1>4. Delivered(b, d, {s.white}, "RESTART")
  <2> HIDE DEF b
  <2> QED
    BY <1>1, <1>3, SentProperties
<1>5. Restarted(box, s) = d
  BY DEF Restarted
<1> HIDE DEF b, d
<1> QED
  BY <1>2, <1>4, <1>5 DEF Players, Delivered

LEMMA SessionOfSeated ==
  ASSUME NEW c, Seated(c)
  PROVE  SessionOf(c) \in sessions /\ c \in Players(SessionOf(c))
BY DEF Seated, SessionOf

-----------------------------------------------------------------------------
(* What a step has to show about each client. *)
LEMMA TypeFacts ==
  ASSUME TypeOK
  PROVE  /\ connections \subseteq Client /\ waitingPlayer \in Client \cup {Nobody}
         /\ sessions \subseteq Session
         /\ inbox \in [Client -> Seq(Packet)]
         /\ requests \in [Client -> Seq({"RESTART"})]
         /\ client \in [Client -> ClientState] /\ broken \subseteq Client
         /\ restarts \in Nat
         /\ Nobody \notin Client
BY LobbyAssumption DEF TypeOK

LEMMA InitIInv == Init => IInv
<1> SUFFICES ASSUME Init PROVE IInv
  OBVIOUS
<1>1. /\ connections = {} /\ sessions = {} /\ waitingPlayer = Nobody
      /\ broken = {} /\ restarts = 0 /\ Nobody \notin Client /\ MaxRestarts \in Nat
  BY LobbyAssumption DEF Init
<1>2. /\ inbox \in [Client -> Seq(Packet)] /\ requests \in [Client -> Seq({"RESTART"})]
      /\ client \in [Client -> ClientState]
      /\ \A c \in Client : /\ inbox[c] = <<>> /\ client[c].life = "OFF"
                          /\ client[c].teamColor = "UNKNOWN" /\ ~client[c].started
  <2>1. [life |-> "OFF", teamColor |-> "UNKNOWN", started |-> FALSE] \in ClientState
    BY DEF ClientState
  <2> QED
    BY <2>1, EmptySeq DEF Init, NotRunning
<1>3. TypeOK
  BY <1>1, <1>2 DEF TypeOK
<1>4. OnePlace /\ PlacesAreOpen
  BY <1>1 DEF OnePlace, PlacesAreOpen
<1>5. \A c \in Client : Unborn(c) /\ Knows(c)
  BY <1>1, <1>2 DEF Unborn, Knows, Listens
<1> QED
  BY <1>3, <1>4, <1>5 DEF IInv

(* A client that connects. *)
LEMMA JoinsProperties ==
  ASSUME IInv, NEW c \in Client, Joins(c)
  PROVE  /\ client' \in [Client -> ClientState]
         /\ client'[c].life = "PLAYING" /\ client'[c].teamColor = "UNKNOWN"
         /\ ~client'[c].started
         /\ \A d \in Client \ {c} : client'[d] = client[d]
         /\ ~CutOff(c) /\ ~CutOff(c)'
         /\ connections' = connections \cup {c}
         /\ inbox[c] = <<>> /\ c \notin connections
         /\ waitingPlayer # c /\ \A s \in sessions : c \notin Players(s)
         /\ UNCHANGED <<requests, broken, restarts>>
<1>1. client \in [Client -> ClientState] /\ client[c] \in ClientState
  BY TypeFacts DEF IInv
<1>2. /\ client[c].life = "OFF" /\ Unborn(c)
      /\ client' = [client EXCEPT ![c].life = "PLAYING"]
  BY DEF Joins, IInv
<1>3. [client[c] EXCEPT !.life = "PLAYING"] \in ClientState
  BY <1>1 DEF ClientState
<1>4. /\ client'[c] = [client[c] EXCEPT !.life = "PLAYING"]
      /\ client' \in [Client -> ClientState]
      /\ \A d \in Client \ {c} : client'[d] = client[d]
  BY <1>1, <1>2, <1>3
<1>5. /\ client'[c].life = "PLAYING" /\ client'[c].teamColor = "UNKNOWN"
      /\ ~client'[c].started
  BY <1>1, <1>2, <1>4 DEF ClientState, Unborn
<1>6. inbox[c] = <<>> /\ c \notin connections /\ c \notin broken
  BY <1>2 DEF Unborn
<1>7. waitingPlayer # c /\ \A s \in sessions : c \notin Players(s)
  BY <1>6, TypeFacts DEF IInv, PlacesAreOpen
<1>8. broken' = broken /\ ~CutOff(c) /\ ~CutOff(c)'
  BY <1>2, <1>5, <1>6 DEF Joins, CutOff
<1> QED
  BY <1>2, <1>4, <1>5, <1>6, <1>7, <1>8 DEF Joins

LEMMA StartsWaitingPreserves ==
  ASSUME IInv, NEW c \in Client, StartsWaiting(c)
  PROVE  IInv'
<1>1. Joins(c) /\ waitingPlayer = Nobody /\ waitingPlayer' = c /\ sessions' = sessions
  BY DEF StartsWaiting
<1>2. /\ client' \in [Client -> ClientState]
      /\ client'[c].life = "PLAYING" /\ client'[c].teamColor = "UNKNOWN" /\ ~client'[c].started
      /\ \A d \in Client \ {c} : client'[d] = client[d]
      /\ connections' = connections \cup {c} /\ inbox[c] = <<>> /\ ~CutOff(c) /\ c \notin broken
      /\ \A s \in sessions : c \notin Players(s)
      /\ UNCHANGED <<requests, broken, restarts>>
  BY <1>1, JoinsProperties DEF CutOff
<1>3. Delivered(inbox, inbox', {c}, "WHITE")
  BY TypeFacts, SentProperties DEF StartsWaiting, IInv, Packet
<1>4. TypeOK'
  BY <1>1, <1>2, <1>3 DEF TypeOK, IInv, Delivered
<1>5. OnePlace' /\ PlacesAreOpen'
  BY <1>1, <1>2 DEF OnePlace, PlacesAreOpen, IInv, Players
<1>6. Unborn(c)' /\ Knows(c)'
  <2>1. \A y : In(y, inbox'[c]) <=> y = "WHITE"
    BY <1>2, <1>3, InEmpty DEF Delivered
  <2>2. Told(c, "WHITE")' /\ ~Seated(c)'
    BY <1>1, <1>2, <2>1 DEF Told, Seated, Color
  <2> QED
    BY <1>1, <1>2, <2>1, <2>2 DEF Knows, Unborn, Seated
<1>7. ASSUME NEW d \in Client \ {c} PROVE Unborn(d)' /\ Knows(d)'
  <2>1. client'[d] = client[d] /\ inbox'[d] = inbox[d] /\ d # waitingPlayer'
    BY <1>1, <1>2, <1>3, <1>7 DEF Delivered
  <2> QED
    BY <1>1, <1>2, <2>1 DEF IInv, Unborn, Knows, Told, Listens, Seated
<1> QED
  BY <1>4, <1>5, <1>6, <1>7 DEF IInv

LEMMA IsPairedPreserves ==
  ASSUME IInv, NEW c \in Client, IsPaired(c)
  PROVE  IInv'
<1>0. PICK w \in Client : w = waitingPlayer
  BY TypeFacts DEF IInv, IsPaired
<1> DEFINE s == [white |-> w, black |-> c]
           box == Sent(inbox, c, "BLACK")
<1>1. /\ Joins(c) /\ waitingPlayer' = Nobody /\ w # Nobody
      /\ sessions' = sessions \cup {s} /\ inbox' = Restarted(box, s)
  BY <1>0, LobbyAssumption DEF IsPaired
<1>2. /\ client' \in [Client -> ClientState]
      /\ client'[c].life = "PLAYING" /\ client'[c].teamColor = "UNKNOWN" /\ ~client'[c].started
      /\ \A d \in Client \ {c} : client'[d] = client[d]
      /\ connections' = connections \cup {c} /\ inbox[c] = <<>> /\ ~CutOff(c) /\ c \notin broken
      /\ c # w /\ \A t \in sessions : c \notin Players(t)
      /\ UNCHANGED <<requests, broken, restarts>>
  BY <1>0, <1>1, JoinsProperties DEF CutOff
<1>3. /\ w \in Client /\ w \in connections /\ s \in Session /\ Players(s) = {w, c}
      /\ \A t \in sessions : w \notin Players(t)
  BY <1>0, <1>1, TypeFacts DEF IInv, PlacesAreOpen, OnePlace, Session, Players
<1>4. Delivered(inbox, box, {c}, "BLACK")
  BY TypeFacts, SentProperties DEF IInv, Packet
<1>5. Delivered(box, inbox', {w, c}, "RESTART")
  <2>1. box \in [Client -> Seq(Packet)]
    BY <1>4 DEF Delivered
  <2> HIDE DEF box, s
  <2> QED
    BY <1>1, <1>3, <2>1, RestartedProperties
<1>6. TypeOK'
  BY <1>1, <1>2, <1>3, <1>5 DEF TypeOK, IInv, Delivered
<1>7. OnePlace' /\ PlacesAreOpen'
  <2>1. s.white = w /\ s.black = c
    OBVIOUS
  <2>2. Nobody \notin Players(s) /\ \A t \in sessions : Nobody \notin Players(t)
    BY <1>2, <1>3, TypeFacts DEF IInv, Players, Session
  <2> QED
    <3> HIDE DEF s
    <3>1. OnePlace'
      BY <1>1, <1>2, <1>3, <2>1, <2>2 DEF OnePlace, IInv
    <3>2. PlacesAreOpen'
      BY <1>1, <1>2, <1>3 DEF PlacesAreOpen, IInv
    <3> QED
      BY <3>1, <3>2
<1>8. SeatColor(s, w) = "WHITE" /\ SeatColor(s, c) = "BLACK"
  BY <1>2 DEF SeatColor
<1> HIDE DEF s, box
<1>9. Unborn(c)' /\ Knows(c)'
  <2>1. \A y : In(y, inbox'[c]) <=> y \in {"BLACK", "RESTART"}
    BY <1>2, <1>4, <1>5, InEmpty DEF Delivered
  <2>2. Told(c, "BLACK")'
    BY <1>2, <2>1 DEF Told, Color
  <2>3. \A t \in sessions' : c \in Players(t) => t = s
    BY <1>1, <1>2
  <2>4. Seated(c)'
    BY <1>1, <1>3 DEF Seated
  <2>5. waitingPlayer' # c
    BY <1>1, LobbyAssumption
  <2> QED
    BY <1>2, <1>8, <2>1, <2>2, <2>3, <2>4, <2>5 DEF Knows, Unborn
<1>10. Unborn(w)' /\ Knows(w)'
  <2>1. /\ client'[w] = client[w]
        /\ \A y : In(y, inbox'[w]) <=>
             In(y, inbox[w]) \/ (y = "RESTART" /\ ~CutOff(w))
    BY <1>2, <1>3, <1>4, <1>5 DEF Delivered
  <2>2. \A t \in sessions' : w \in Players(t) => t = s
    BY <1>1, <1>3
  <2>3. Seated(w)' /\ waitingPlayer' # w
    BY <1>1, <1>3 DEF Seated
  <2>4. Unborn(w)'
    BY <1>3, <2>1 DEF Unborn, IInv
  <2>5. ASSUME Listens(w)' PROVE In("RESTART", inbox'[w]) /\ Told(w, "WHITE")'
    <3>1. Listens(w)
      BY <1>2, <2>1, <2>5 DEF Listens
    <3>2. Told(w, "WHITE")
      BY <1>0, <3>1 DEF IInv, Knows
    <3> QED
      BY <1>2, <2>1, <2>5, <3>2 DEF Told, Listens, Color, CutOff
  <2> QED
    BY <1>8, <2>2, <2>3, <2>4, <2>5 DEF Knows
<1>11. ASSUME NEW d \in Client \ {c, w} PROVE Unborn(d)' /\ Knows(d)'
  <2>1. client'[d] = client[d] /\ inbox'[d] = inbox[d] /\ d # waitingPlayer'
    BY <1>1, <1>2, <1>4, <1>5, LobbyAssumption DEF Delivered
  <2>2. d \notin Players(s)
    BY <1>3
  <2>3. Seated(d)' <=> Seated(d)
    BY <1>1, <2>2 DEF Seated
  <2> QED
    BY <1>1, <1>2, <2>1, <2>2, <2>3 DEF IInv, Unborn, Knows, Told, Listens
<1> QED
  BY <1>6, <1>7, <1>9, <1>10, <1>11 DEF IInv

(* A connection that is closed: with a seat, and without. *)
LEMMA SeatedDisconnectPreserves ==
  ASSUME IInv, NEW c \in Client, Seated(c), Closes(c)
  PROVE  IInv'
<1>0. PICK s \in sessions : s = SessionOf(c) /\ c \in Players(s)
  BY SessionOfSeated
<1> DEFINE o == IF s.white = c THEN s.black ELSE s.white
<1>1. /\ s \in Session /\ o \in Client /\ Players(s) = {c, o} /\ c # o
      /\ c \in connections /\ o \in connections /\ waitingPlayer \notin Players(s)
      /\ \A t \in sessions : t # s => Players(t) \cap Players(s) = {}
  BY <1>0, TypeFacts DEF IInv, OnePlace, PlacesAreOpen, Session, Players
<1>2. /\ connections' = connections \ {c} /\ CutOff(c)
      /\ waitingPlayer' = o /\ sessions' = sessions \ {s}
      /\ inbox' = Sent(inbox, o, "PLAYER_DISCONNECT")
      /\ UNCHANGED <<client, broken, restarts>>
  BY <1>0, <1>1 DEF Closes, OnDisconnect, RemoveSession
<1> HIDE DEF o
<1>3. requests' \in [Client -> Seq({"RESTART"})]
  <2>1. PICK n \in {0, 1} : /\ n <= Len(requests[c])
                            /\ requests' = [requests EXCEPT ![c] = SubSeq(@, 1, n)]
    BY DEF Closes
  <2>2. requests[c] \in Seq({"RESTART"})
    BY TypeFacts DEF IInv
  <2>3. SubSeq(requests[c], 1, n) \in Seq({"RESTART"})
    BY <2>1, <2>2
  <2> QED
    BY <2>1, <2>3, TypeFacts DEF IInv
<1>4. Delivered(inbox, inbox', {o}, "PLAYER_DISCONNECT")
  BY <1>1, <1>2, TypeFacts, SentProperties DEF IInv, Packet
<1>5. TypeOK'
  BY <1>1, <1>2, <1>3, <1>4 DEF TypeOK, IInv, Delivered
<1>6. OnePlace' /\ PlacesAreOpen'
  BY <1>1, <1>2, TypeFacts DEF OnePlace, PlacesAreOpen, IInv
<1>7. Unborn(o)' /\ Knows(o)'
  BY <1>1, <1>2, <1>4 DEF Unborn, Knows, Listens, Delivered, IInv, CutOff
<1>8. ASSUME NEW d \in Client \ {o} PROVE Unborn(d)' /\ Knows(d)'
  <2>1. client'[d] = client[d] /\ inbox'[d] = inbox[d] /\ waitingPlayer' # d
    BY <1>2, <1>4 DEF Delivered
  <2>2. CASE d = c
    BY <1>2, <2>1, <2>2 DEF Unborn, Knows, Listens, CutOff, IInv
  <2>3. CASE d # c
    <3>1. Seated(d)' <=> Seated(d)
      BY <1>1, <1>2, <2>3 DEF Seated
    <3> QED
      BY <1>2, <2>1, <3>1 DEF IInv, Unborn, Knows, Told, Listens
  <2> QED
    BY <2>2, <2>3
<1> QED
  BY <1>5, <1>6, <1>7, <1>8 DEF IInv

LEMMA UnseatedDisconnectPreserves ==
  ASSUME IInv, NEW c \in Client, ~Seated(c), Closes(c)
  PROVE  IInv'
<1>1. /\ connections' = connections \ {c} /\ CutOff(c)
      /\ waitingPlayer' = IF waitingPlayer = c THEN Nobody ELSE waitingPlayer
      /\ UNCHANGED <<inbox, sessions, client, broken, restarts>>
  BY DEF Closes, OnDisconnect, RemoveSession
<1>2. requests' \in [Client -> Seq({"RESTART"})]
  <2>1. PICK n \in {0, 1} : /\ n <= Len(requests[c])
                            /\ requests' = [requests EXCEPT ![c] = SubSeq(@, 1, n)]
    BY DEF Closes
  <2>2. requests[c] \in Seq({"RESTART"})
    BY TypeFacts DEF IInv
  <2>3. SubSeq(requests[c], 1, n) \in Seq({"RESTART"})
    BY <2>1, <2>2
  <2> QED
    BY <2>1, <2>3, TypeFacts DEF IInv
<1>3. TypeOK'
  BY <1>1, <1>2 DEF TypeOK, IInv
<1>4. \A s \in sessions : Nobody \notin Players(s) /\ c \notin Players(s)
  BY TypeFacts DEF IInv, Players, Session, Seated
<1>5. OnePlace' /\ PlacesAreOpen'
  BY <1>1, <1>4 DEF OnePlace, PlacesAreOpen, IInv
<1>6. ASSUME NEW d \in Client PROVE Unborn(d)' /\ Knows(d)'
  BY <1>1, LobbyAssumption DEF IInv, Unborn, Knows, Told, Listens, Seated, CutOff
<1> QED
  BY <1>3, <1>5, <1>6 DEF IInv

LEMMA OnPacketPreserves ==
  ASSUME IInv, NEW c \in Client, OnPacket(c)
  PROVE  IInv'
<1>1. UNCHANGED <<connections, waitingPlayer, sessions, client, broken, restarts>>
  BY DEF OnPacket
<1>2. requests' \in [Client -> Seq({"RESTART"})]
  <2>1. requests[c] \in Seq({"RESTART"}) /\ requests[c] # <<>>
    BY TypeFacts DEF IInv, OnPacket
  <2>2. Tail(requests[c]) \in Seq({"RESTART"})
    BY <2>1, InTail
  <2> QED
    BY <2>2, TypeFacts DEF IInv, OnPacket
<1>3. PICK to \in SUBSET Client : /\ Delivered(inbox, inbox', to, "RESTART")
                                  /\ \A d \in to : Seated(d)
  <2>1. CASE Seated(c)
    <3>1. /\ SessionOf(c) \in sessions /\ SessionOf(c) \in Session
          /\ Players(SessionOf(c)) \in SUBSET Client
      BY <2>1, SessionOfSeated, TypeFacts DEF IInv, Players, Session
    <3>2. inbox' = Restarted(inbox, SessionOf(c))
      BY <2>1 DEF OnPacket
    <3>3. Delivered(inbox, inbox', Players(SessionOf(c)), "RESTART")
      BY <3>1, <3>2, TypeFacts, RestartedProperties DEF IInv
    <3> QED
      BY <3>1, <3>3 DEF Seated
  <2>2. CASE ~Seated(c)
    <3>1. Delivered(inbox, inbox', {}, "RESTART")
      BY <2>2, TypeFacts DEF OnPacket, IInv, Delivered
    <3> QED
      BY <3>1
  <2> QED
    BY <2>1, <2>2
<1>4. TypeOK' /\ OnePlace' /\ PlacesAreOpen'
  BY <1>1, <1>2, <1>3 DEF TypeOK, OnePlace, PlacesAreOpen, IInv, Delivered
<1>5. ASSUME NEW d \in Client PROVE Unborn(d)' /\ Knows(d)'
  <2>1. CASE d \notin to
    BY <1>1, <1>3, <2>1 DEF IInv, Unborn, Knows, Told, Listens, Seated, Delivered
  <2>2. CASE d \in to
    <3>1. client'[d] = client[d] /\ Seated(d) /\ Seated(d)'
      BY <1>1, <1>3, <2>2 DEF Seated
    <3>2. d \in connections
      BY <3>1 DEF IInv, PlacesAreOpen, Seated
    <3>3. \A y : y # "RESTART" => (In(y, inbox'[d]) <=> In(y, inbox[d]))
      BY <1>3 DEF Delivered
    <3>4. In("RESTART", inbox[d]) => In("RESTART", inbox'[d])
      BY <1>3 DEF Delivered
    <3>5. \A k \in Color : Told(d, k) => Told(d, k)'
      BY <3>1, <3>3 DEF Told, Color
    <3>6. Listens(d)' => Listens(d)
      BY <1>1, <3>1, <3>3 DEF Listens
    <3>7. \A s : SeatColor(s, d) \in Color
      BY DEF SeatColor, Color
    <3>8. Unborn(d)'
      BY <1>1, <3>2 DEF Unborn, IInv
    <3> QED
      BY <1>1, <3>1, <3>4, <3>5, <3>6, <3>7, <3>8 DEF Knows, IInv, Color
  <2> QED
    BY <2>1, <2>2
<1> QED
  BY <1>4, <1>5 DEF IInv

-----------------------------------------------------------------------------
(* The client's side. *)
LEMMA ReceivesPreserves ==
  ASSUME IInv, NEW c \in Client, Receives(c)
  PROVE  IInv'
<1> DEFINE m == Head(inbox[c])
<1>1. /\ inbox \in [Client -> Seq(Packet)] /\ client \in [Client -> ClientState]
      /\ inbox[c] \in Seq(Packet) /\ inbox[c] # <<>> /\ client[c] \in ClientState
      /\ client[c].life \in {"PLAYING", "QUITTING"}
      /\ UNCHANGED <<connections, waitingPlayer, sessions, requests, broken, restarts>>
  BY TypeFacts DEF IInv, Receives
<1>2. /\ inbox' = [inbox EXCEPT ![c] = Tail(@)]
      /\ client' = [client EXCEPT ![c] =
           CASE m \in Color -> [@ EXCEPT !.teamColor = m]
             [] m = "RESTART" -> [@ EXCEPT !.started = TRUE]
             [] OTHER -> [@ EXCEPT !.life = "QUITTING"]]
  BY DEF Receives
<1>3. /\ Tail(inbox[c]) \in Seq(Packet) /\ m \in Packet /\ In(m, inbox[c])
      /\ \A y : In(y, Tail(inbox[c])) => In(y, inbox[c])
      /\ \A y : In(y, inbox[c]) => y = m \/ In(y, Tail(inbox[c]))
  BY <1>1, InTail
<1>4. inbox' \in [Client -> Seq(Packet)] /\ inbox'[c] = Tail(inbox[c])
  BY <1>1, <1>2, <1>3
<1>5. CASE m \in Color
  <2>1. client' = [client EXCEPT ![c] = [client[c] EXCEPT !.teamColor = m]]
    BY <1>2, <1>5 DEF Color
  <2>2. client' = [client EXCEPT ![c].teamColor = m]
    BY <2>1
  <2>3. /\ client'[c].life = client[c].life /\ client'[c].started = client[c].started
        /\ client'[c].teamColor = m /\ client' \in [Client -> ClientState]
    <3> HIDE DEF m
    <3> QED
      BY <1>1, <1>5, <2>2 DEF ClientState
  <2>4. Listens(c)' => Listens(c)
    BY <1>1, <1>3, <1>4, <1>5, <2>3 DEF Listens, Color
  <2>5. \A k \in Color : Told(c, k) => Told(c, k)'
    BY <1>3, <1>4, <1>5, <2>3 DEF Told
  <2>6. In("RESTART", inbox'[c]) <=> In("RESTART", inbox[c])
    BY <1>3, <1>4, <1>5 DEF Color
  <2>7. Unborn(c)' /\ Knows(c)'
    <3>1. \A s : SeatColor(s, c) \in Color
      BY DEF SeatColor, Color
    <3> QED
      BY <1>1, <2>3, <2>4, <2>5, <2>6, <3>1 DEF IInv, Unborn, Knows, Seated, Color
  <2>8. ASSUME NEW d \in Client \ {c} PROVE Unborn(d)' /\ Knows(d)'
    BY <1>1, <1>2, <2>2 DEF IInv, Unborn, Knows, Told, Listens, Seated
  <2> QED
    BY <1>1, <1>4, <2>3, <2>7, <2>8 DEF IInv, TypeOK, OnePlace, PlacesAreOpen
<1>6. CASE m = "RESTART"
  <2>1. client' = [client EXCEPT ![c] = [client[c] EXCEPT !.started = TRUE]]
    BY <1>2, <1>6 DEF Color
  <2>2. client' = [client EXCEPT ![c].started = TRUE]
    BY <2>1
  <2>3. /\ client'[c].life = client[c].life /\ client'[c].started
        /\ client'[c].teamColor = client[c].teamColor /\ client' \in [Client -> ClientState]
    BY <1>1, <2>2 DEF ClientState
  <2>4. Listens(c)' => Listens(c)
    BY <1>1, <1>3, <1>4, <1>6, <2>3 DEF Listens
  <2>5. \A k \in Color : Told(c, k) => Told(c, k)'
    BY <1>3, <1>4, <1>6, <2>3 DEF Told, Color
  <2>6. Listens(c) => Seated(c)
    BY <1>3, <1>6 DEF IInv, Knows
  <2>7. Unborn(c)' /\ Knows(c)'
    <3>1. \A s : SeatColor(s, c) \in Color
      BY DEF SeatColor, Color
    <3> QED
      BY <1>1, <2>3, <2>4, <2>5, <2>6, <3>1 DEF IInv, Unborn, Knows, Seated, Color
  <2>8. ASSUME NEW d \in Client \ {c} PROVE Unborn(d)' /\ Knows(d)'
    BY <1>1, <1>2, <2>2 DEF IInv, Unborn, Knows, Told, Listens, Seated
  <2> QED
    BY <1>1, <1>4, <2>3, <2>7, <2>8 DEF IInv, TypeOK, OnePlace, PlacesAreOpen
<1>7. CASE m \notin Color /\ m # "RESTART"
  <2>1. client' = [client EXCEPT ![c] = [client[c] EXCEPT !.life = "QUITTING"]]
    BY <1>2, <1>7
  <2>2. client' = [client EXCEPT ![c].life = "QUITTING"]
    BY <2>1
  <2>3. client'[c].life = "QUITTING" /\ client' \in [Client -> ClientState]
    BY <1>1, <2>2 DEF ClientState
  <2>7. Unborn(c)' /\ Knows(c)'
    BY <2>3 DEF Unborn, Knows, Listens
  <2>8. ASSUME NEW d \in Client \ {c} PROVE Unborn(d)' /\ Knows(d)'
    BY <1>1, <1>2, <2>2 DEF IInv, Unborn, Knows, Told, Listens, Seated
  <2> QED
    BY <1>1, <1>4, <2>3, <2>7, <2>8 DEF IInv, TypeOK, OnePlace, PlacesAreOpen
<1> QED
  BY <1>5, <1>6, <1>7

LEMMA PressesRPreserves ==
  ASSUME IInv, NEW c \in Client, PressesR(c)
  PROVE  IInv'
<1>1. /\ UNCHANGED <<connections, waitingPlayer, sessions, inbox, client, broken>>
      /\ restarts' \in 0 .. MaxRestarts
  BY LobbyAssumption DEF PressesR, IInv, TypeOK
<1>2. requests' \in [Client -> Seq({"RESTART"})]
  BY TypeFacts DEF PressesR, IInv
<1> QED
  BY <1>1, <1>2 DEF IInv, TypeOK, OnePlace, PlacesAreOpen, Unborn, Knows, Told, Listens, Seated

(* A connection that is reset: its player may have lost a packet and is   *)
(* not spoken of any more.                                                 *)
LEMMA BreaksPreserves ==
  ASSUME IInv, NEW c \in Client, Breaks(c)
  PROVE  IInv'
<1>1. /\ broken' = broken \cup {c} /\ client[c].life # "OFF"
      /\ UNCHANGED <<connections, waitingPlayer, sessions, requests, client, restarts>>
  BY DEF Breaks
<1>2. PICK n \in 0 .. Len(inbox[c]) : inbox' = [inbox EXCEPT ![c] = SubSeq(@, 1, n)]
  BY DEF Breaks
<1>3. SubSeq(inbox[c], 1, n) \in Seq(Packet)
  <2>1. inbox[c] \in Seq(Packet)
    BY TypeFacts DEF IInv
  <2> QED
    BY <1>2, <2>1
<1>4. /\ inbox' \in [Client -> Seq(Packet)]
      /\ \A d \in Client \ {c} : inbox'[d] = inbox[d]
  BY <1>2, <1>3, TypeFacts DEF IInv
<1>5. TypeOK' /\ OnePlace' /\ PlacesAreOpen'
  BY <1>1, <1>4 DEF IInv, TypeOK, OnePlace, PlacesAreOpen
<1>6. Unborn(c)' /\ Knows(c)'
  BY <1>1 DEF Unborn, Knows, Listens
<1>7. ASSUME NEW d \in Client \ {c} PROVE Unborn(d)' /\ Knows(d)'
  BY <1>1, <1>4 DEF IInv, Unborn, Knows, Told, Listens, Seated
<1> QED
  BY <1>5, <1>6, <1>7 DEF IInv

(* A client that quits or leaves knows nothing any more. *)
LEMMA DepartsPreserves ==
  ASSUME IInv, NEW c \in Client, Quits(c) \/ Leaves(c)
  PROVE  IInv'
<1>1. PICK l \in {"QUITTING", "GONE"}, x \in ClientState :
        x.life = l /\ client' = [client EXCEPT ![c] = x]
  <2>1. client[c] \in ClientState
    BY TypeFacts DEF IInv
  <2>2. CASE Quits(c)
    <3>1. [client[c] EXCEPT !.life = "QUITTING"] \in ClientState
      BY <2>1 DEF ClientState
    <3>2. [client[c] EXCEPT !.life = "QUITTING"].life = "QUITTING"
      BY <2>1 DEF ClientState
    <3>3. client' = [client EXCEPT ![c] = [client[c] EXCEPT !.life = "QUITTING"]]
      BY <2>2 DEF Quits
    <3> QED
      BY <3>1, <3>2, <3>3
  <2>3. CASE Leaves(c)
    <3>1. NotRunning("GONE") \in ClientState /\ NotRunning("GONE").life = "GONE"
      BY DEF NotRunning, ClientState
    <3> QED
      BY <2>3, <3>1 DEF Leaves
  <2> QED
    BY <2>2, <2>3
<1>2. /\ client' \in [Client -> ClientState] /\ client'[c].life = l
      /\ \A d \in Client \ {c} : client'[d] = client[d]
  BY <1>1, TypeFacts DEF IInv
<1>3. /\ inbox' \in [Client -> Seq(Packet)] /\ \A d \in Client \ {c} : inbox'[d] = inbox[d]
      /\ UNCHANGED <<connections, waitingPlayer, sessions, requests, broken, restarts>>
  <2>1. inbox \in [Client -> Seq(Packet)]
    BY TypeFacts DEF IInv
  <2>2. CASE Quits(c)
    BY <2>1, <2>2 DEF Quits
  <2>3. CASE Leaves(c)
    <3>1. <<>> \in Seq(Packet)
      BY EmptySeq
    <3> QED
      BY <2>1, <2>3, <3>1 DEF Leaves
  <2> QED
    BY <2>2, <2>3
<1>4. Unborn(c)' /\ Knows(c)'
  BY <1>2 DEF Unborn, Knows, Listens
<1>5. ASSUME NEW d \in Client \ {c} PROVE Unborn(d)' /\ Knows(d)'
  BY <1>2, <1>3 DEF IInv, Unborn, Knows, Told, Listens, Seated
<1> QED
  BY <1>2, <1>3, <1>4, <1>5 DEF IInv, TypeOK, OnePlace, PlacesAreOpen

-----------------------------------------------------------------------------
LEMMA Inductive == IInv /\ [Next]_vars => IInv'
<1> SUFFICES ASSUME IInv, [Next]_vars PROVE IInv'
  OBVIOUS
<1>1. ASSUME NEW c \in Client, OnConnect(c) PROVE IInv'
  BY <1>1, StartsWaitingPreserves, IsPairedPreserves DEF OnConnect
<1>2. ASSUME NEW c \in Client, Closes(c) PROVE IInv'
  BY <1>2, SeatedDisconnectPreserves, UnseatedDisconnectPreserves
<1>3. ASSUME NEW c \in Client, OnPacket(c) PROVE IInv'
  BY <1>3, OnPacketPreserves
<1>4. ASSUME NEW c \in Client, Receives(c) PROVE IInv'
  BY <1>4, ReceivesPreserves
<1>5. ASSUME NEW c \in Client, PressesR(c) PROVE IInv'
  BY <1>5, PressesRPreserves
<1>6. ASSUME NEW c \in Client, Quits(c) \/ Leaves(c) PROVE IInv'
  BY <1>6, DepartsPreserves
<1>8. ASSUME NEW c \in Client, Breaks(c) PROVE IInv'
  BY <1>8, BreaksPreserves
<1>7. CASE UNCHANGED vars
  BY <1>7 DEF vars, IInv, TypeOK, OnePlace, PlacesAreOpen, Unborn, Knows, Told, Listens, Seated
<1> QED
  BY <1>1, <1>2, <1>3, <1>4, <1>5, <1>6, <1>7, <1>8 DEF Next

LEMMA Invariance == Spec => []IInv
BY InitIInv, Inductive, PTL DEF Spec

(* Every variable of the lobby has its type, whoever comes and goes. *)
THEOREM TypeCorrect == Spec => []TypeOK
<1>1. IInv => TypeOK
  BY DEF IInv
<1> QED
  BY <1>1, Invariance, PTL

(* A connection has one seat or the waiting place, never two: the searches *)
(* of ChessServer::onPacket and removeSession can only find one session.   *)
THEOREM PlacesAreUnique == Spec => []OnePlace
<1>1. IInv => OnePlace
  BY DEF IInv
<1> QED
  BY <1>1, Invariance, PTL

(* Whoever has a seat or waits is connected (ChessServer::onDisconnect).   *)
THEOREM PlacesStayOpen == Spec => []PlacesAreOpen
<1>1. IInv => PlacesAreOpen
  BY DEF IInv
<1> QED
  BY <1>1, Invariance, PTL

(* A player who is connected and has received everything plays the colour  *)
(* of their seat or has no pieces and no seat (ChessServer::onConnect, createSession and    *)
(* removeSession, ChessClient::onPacket).                                  *)
THEOREM SeatsAreKnown == Spec => []ClientsKnowTheirSeats
<1>1. IInv => ClientsKnowTheirSeats
  <2> SUFFICES ASSUME IInv, NEW c \in Client \ broken,
                      client[c].life = "PLAYING", inbox[c] = <<>>
               PROVE  /\ client[c].started <=> Seated(c)
                      /\ Seated(c) => client[c].teamColor =
                           IF SessionOf(c).white = c THEN "WHITE" ELSE "BLACK"
    BY DEF ClientsKnowTheirSeats
  <2>1. \A y : ~In(y, inbox[c])
    BY InEmpty
  <2>2. Knows(c) /\ Listens(c)
    BY <2>1 DEF IInv, Listens
  <2>3. client[c].started <=> Seated(c)
    <3>1. client[c].started \in BOOLEAN
      BY TypeFacts DEF IInv, ClientState
    <3> QED
      BY <2>1, <2>2, <3>1 DEF Knows, Seated
  <2>4. Seated(c) => Told(c, SeatColor(SessionOf(c), c))
    BY <2>2, SessionOfSeated DEF Knows
  <2> QED
    BY <2>1, <2>3, <2>4 DEF Told, SeatColor
<1> QED
  BY <1>1, Invariance, PTL
=============================================================================
