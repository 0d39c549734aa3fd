------------------------------- MODULE Channel -------------------------------
(***************************************************************************)
(* What a connection promises to those who use it: every packet that       *)
(* arrives was sent, and packets arrive once and in the order in which     *)
(* they were sent.  Packets may stay away for good, but none may be missed *)
(* out.                                                                    *)
(***************************************************************************)
EXTENDS Naturals, Sequences

CONSTANT Packet

VARIABLES sent, received

ChannelInit == sent = <<>> /\ received = <<>>

Send == \E p \in Packet : sent' = Append(sent, p) /\ UNCHANGED received

Receive ==
  /\ Len(received) < Len(sent)
  /\ received' = Append(received, sent[Len(received) + 1])
  /\ UNCHANGED sent

ChannelSpec == ChannelInit /\ [][Send \/ Receive]_<<sent, received>>
=============================================================================
