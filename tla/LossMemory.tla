----------------------------- MODULE LossMemory -----------------------------
(***************************************************************************)
(* The signal the build with memory-with-loss-signal.cc adds to those of   *)
(* RemyCC: the share of packets lost in about the last RTT, from two queues*)
(* of packets received, those that showed a loss and all.                  *)
(*                                                                         *)
(* A packet is what is read of it: when it was received and, as a history, *)
(* whether it showed a loss.  The RTT estimate is any integer between its  *)
(* old value and the sample.  The averages and the RTT ratio are left out: *)
(* they are those of RemyCC, except that every packet gives a sample, as in*)
(* its mutant AnyGivesSample.  As there no time is 0.                      *)
(***************************************************************************)
EXTENDS RemyCC, SequencesExt

CONSTANTS
  LossScale,  \* a tenth of the range: the signal if every packet showed a loss
  NumPackets, \* bound: packets sent
  MaxTick     \* bound: the time

ASSUME LossMemoryAssumption ==
  /\ LossScale \in Nat \ {0} /\ NumPackets \in Nat /\ MaxTick \in Nat

VARIABLES
  clock,
  next_packet,  \* CTCP's seq_num
  sent_at,      \* RemyCC's map of the times packets were sent
  loss_memory

lossVars == <<clock, next_packet, sent_at, loss_memory>>

EmptyLossMemory ==
  [last_tick_received |-> 0, rtt_estimate |-> 0, largest_ack |-> 0, loss_rate |-> 0,
   lost_packets |-> <<>>, all_packets |-> <<>>]

LossInit ==
  /\ clock = 1
  /\ next_packet = 0
  /\ sent_at = <<>>
  /\ loss_memory = EmptyLossMemory
-----------------------------------------------------------------------------
ShowsLoss(mem, seq) == mem.largest_ack + 1 < seq

(* Mutant: if instead of while. *)
RecentButOne(q, since) == IF q # <<>> /\ q[1].tick_received < since THEN Tail(q) ELSE q

(* What a queue is when those of before since were popped from its front. *)
Recent(q, since) ==
  LET stay == {i \in DOMAIN q : q[i].tick_received >= since}
  IN  IF stay = {} THEN <<>> ELSE SubSeq(q, Min(stay), Len(q))

LossRate(lost, all) == IF all = <<>> THEN 0 ELSE (LossScale * Len(lost)) \div Len(all)

(* Memory::packets_received for one packet and a new estimate of the RTT. *)
WithPacket(mem, seq, estimate) ==
  LET p     == [tick_received |-> clock, shows_loss |-> ShowsLoss(mem, seq)]
      since == clock - estimate
      lost  == Recent(IF p.shows_loss THEN Append(mem.lost_packets, p)
                                      ELSE mem.lost_packets, since)
      all   == Recent(Append(mem.all_packets, p), since)
  IN  [last_tick_received |-> clock,
       rtt_estimate       |-> estimate,
       largest_ack        |-> Max({mem.largest_ack, seq}),
       loss_rate          |-> LossRate(lost, all),
       lost_packets       |-> lost,
       all_packets        |-> all]

Estimates(mem, rtt) ==
  IF mem.last_tick_received = 0 THEN {rtt} ELSE EwmaAfter(mem.rtt_estimate, rtt)
-----------------------------------------------------------------------------
LossSent ==
  /\ next_packet < NumPackets
  /\ sent_at' = [s \in DOMAIN sent_at \cup {next_packet} |->
                  IF s = next_packet THEN clock ELSE sent_at[s]]
  /\ next_packet' = next_packet + 1
  /\ UNCHANGED <<clock, loss_memory>>

(* The network loses and reorders: any packet may be acknowledged next. *)
LossACK ==
  \E s \in DOMAIN sent_at :
    LET rtt == clock - sent_at[s]
    IN  /\ rtt > 0
        /\ \E estimate \in Estimates(loss_memory, rtt) :
             loss_memory' = WithPacket(loss_memory, s, estimate)
        /\ sent_at' = [t \in DOMAIN sent_at \ {s} |-> sent_at[t]]
        /\ UNCHANGED <<clock, next_packet>>

(* RemyCC::init after an idle timeout: the sequence numbers go on. *)
LossReset ==
  /\ loss_memory # EmptyLossMemory
  /\ loss_memory' = EmptyLossMemory
  /\ UNCHANGED <<clock, next_packet, sent_at>>

LossTick ==
  /\ clock < MaxTick
  /\ clock' = clock + 1
  /\ UNCHANGED <<next_packet, sent_at, loss_memory>>

LossNext == LossSent \/ LossACK \/ LossReset \/ LossTick

LossSpec == LossInit /\ [][LossNext]_lossVars
-----------------------------------------------------------------------------
(* The two queues are trimmed on their own, by a horizon that moves back   *)
(* when the estimate grows faster than time goes: still the packets that   *)
(* showed a loss are just those of all that did, and so never more, which  *)
(* is what an assertion in packets_received said before it was commented   *)
(* out (memory-with-loss-signal.cc).                                       *)
LossesAmongReceived ==
  loss_memory.lost_packets = SelectSeq(loss_memory.all_packets, LAMBDA p : p.shows_loss)

=============================================================================
