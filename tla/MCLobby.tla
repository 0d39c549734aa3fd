------------------------------ MODULE MCLobby ------------------------------
(* Lobby with clients that are numbered in the order in which they connect. *)
EXTENDS Lobby, FiniteSets

CONSTANT MaxBroken \* bound: connections that are reset

(* Clients differ in nothing but their names, so an order of arrival is no *)
(* loss.  Unlike a SYMMETRY set it can be used with liveness.              *)
InOrder == \A c, d \in Client : c < d /\ client[c].life = "OFF" => client[d].life = "OFF"

(* When all clients have come, a restart or a reset is left out. *)
Bounded ==
  /\ Cardinality(broken) <= MaxBroken
  /\ (\A c \in Client : client[c].life # "OFF") => restarts + Cardinality(broken) <= 1

MCSpec == Init /\ [][Next /\ InOrder' /\ Bounded']_vars /\ Fairness
=============================================================================
