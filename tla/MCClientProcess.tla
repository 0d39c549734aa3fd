-------------------------- MODULE MCClientProcess --------------------------
(* Packets of different lengths, one of them with a byte that would be a   *)
(* length too.                                                             *)
EXTENDS ClientProcess

MCRequests == << <<0, 1>>, <<3>> >>
MCResponses == << <<5>>, <<2>> >>
=============================================================================
