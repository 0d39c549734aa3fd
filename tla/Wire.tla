-------------------------------- MODULE Wire --------------------------------
(***************************************************************************)
(* The packets between the server and the two clients of a session, in the *)
(* order they were sent: the send queue of a Connection, the TCP stream    *)
(* and the reader at the other end deliver every packet once and in order. *)
(***************************************************************************)
EXTENDS ChessRules, Sequences

VARIABLES
  toServer, \* toServer[p]: requests of player p on their way to the server
  toClient  \* toClient[p]: responses on their way to player p

wireVars == <<toServer, toClient>>

(* ReqType with the payload each request carries. *)
Request ==
       [type : {"CALCULATE_MOVES"}, pos : Square]
  \cup [type : {"COMMIT_MOVE"}, from : Square, to : Square]
  \cup [type : {"RESTART"}]
  \cup [type : {"PROMOTE"}, piece : PromotionChoice, pos : Square]

Response ==
       [type : {"CALCULATE_MOVES"}, moves : SUBSET Position]
  \cup [type : {"COMMIT_MOVE", "RESTART"}, cache : GameStateCache]
  \cup [type : {"PROMOTE"}, piece : PromotionChoice, pos : Square]
  \cup [type : {"ASSIGN_COLOR"}, color : Color]

WireTypeOK ==
  /\ toServer \in [Color -> Seq(Request)]
  /\ toClient \in [Color -> Seq(Response)]
=============================================================================
