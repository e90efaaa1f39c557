---------------------------- MODULE Transmission ----------------------------
(***************************************************************************)
(* What one direction of an RCF connection promises to its two ends:       *)
(* Client::write / Server::write take whole transmissions and              *)
(* Server::read / Client::read return them, unchanged, once each and in    *)
(* order.  Framing implements it with fixed-size blocks and a separator.   *)
(***************************************************************************)
EXTENDS Naturals, Sequences

CONSTANTS Transmissions,    \* the texts given to write
          MaxSent           \* bound: how many of them are written

VARIABLES sent,             \* texts given to write, in order
          received          \* texts returned by read, in order

vars == <<sent, received>>

Init == sent = <<>> /\ received = <<>>

Send(t) ==
  /\ Len(sent) < MaxSent
  /\ sent' = Append(sent, t)
  /\ UNCHANGED received

Deliver ==
  /\ Len(received) < Len(sent)
  /\ received' = Append(received, sent[Len(received) + 1])
  /\ UNCHANGED sent

Next == (\E t \in Transmissions : Send(t)) \/ Deliver

Spec == Init /\ [][Next]_vars /\ WF_vars(Deliver)
=============================================================================
