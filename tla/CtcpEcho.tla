------------------------------ MODULE CtcpEcho ------------------------------
(***************************************************************************)
(* CTCP talking to the echo receiver of copa_recv.cc: each datagram comes  *)
(* back with its header unchanged but for the receiver's timestamps, which *)
(* the sender does not look at.  The receiver keeps no state and both      *)
(* directions may lose, delay and duplicate, so what may arrive at the     *)
(* sender is the echo of anything it has sent.                             *)
(***************************************************************************)
EXTENDS Ctcp

DummySeq == -1111

(* echo_packets of copa_recv.cc: all but the dummies are sent back. *)
Echoes == {m \in sent : m.seq # DummySeq}

Next == CtcpNext(Echoes)

Spec == CtcpInit /\ [][Next]_ctcpVars

(* The sender's thread runs and time passes; nothing is assumed of the     *)
(* network or the receiver.                                                *)
SenderSteps == EndFlow \/ SendPackets \/ PollTimeout

FairSpec == Spec /\ WF_ctcpVars(SenderSteps) /\ WF_ctcpVars(Tick)
-----------------------------------------------------------------------------
(* Sequence numbers and clocks restart with each flow, and acknowledgements*)
(* of the last flow are still in the network: whatever passes ctcp.hh's    *)
(* filter is the echo of a packet this flow has sent, stamped before now,  *)
(* as assert(cur_time > sent_time) in MarkovianCC::onACK needs, and        *)
(* _largest_ack never passes seq_num.                                      *)
AcceptedAcksAreCurrent == CurrentAcks(Echoes)

=============================================================================
