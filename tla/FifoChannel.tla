----------------------------- MODULE FifoChannel -----------------------------
(***************************************************************************)
(* What NetworkStream promises to the sessions at its two ends: messages   *)
(* arrive whole, once and in the order they were sent; if the connection   *)
(* ends, the last ones may be missing.                                     *)
(***************************************************************************)
EXTENDS Integers, Sequences

CONSTANT Messages

VARIABLES
  sent,      \* messages given to sendMessage
  received   \* messages emitted by newNetMessage

channelVars == <<sent, received>>

ChannelInit == sent = <<>> /\ received = <<>>

Send == \E m \in Messages : sent' = Append(sent, m) /\ UNCHANGED received

Receive ==
  /\ Len(received) < Len(sent)
  /\ received' = Append(received, sent[Len(received) + 1])
  /\ UNCHANGED sent

ChannelSpec == ChannelInit /\ [][Send \/ Receive]_channelVars
=============================================================================
