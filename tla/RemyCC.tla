------------------------------- MODULE RemyCC -------------------------------
(***************************************************************************)
(* RemyCC, its Rat and its Memory (remycc.cc, rat.cc, memory-default.cc):  *)
(* the congestion signals of a sender and the window its rules make of     *)
(* them.  An object is a record, a callback an operator.                   *)
(*                                                                         *)
(* Times are in ticks, and no time is 0: 0 is the code's sign that nothing *)
(* has been received.  A moving average is some integer between its old    *)
(* value and the sample; the fast and the slow one of the receiver's times *)
(* take the same samples and are one field.  rtt_ratio is rounded down.    *)
(* Trains are of one packet: then CTCP never reports a link rate, and the  *)
(* signals are not scaled.                                                 *)
(***************************************************************************)
EXTENDS Integers

CONSTANT SignalLimit  \* 163840, the end of the range of a signal

(* Memory(), and Memory::reset but for the receiver's time, which is       *)
(* overwritten before it is read.                                          *)
EmptyMemory ==
  [rec_send_ewma |-> 0, rec_rec_ewma |-> 0, rtt_ratio |-> 0, last_tick_sent |-> 0,
   last_receiver_timestamp |-> 0, min_rtt |-> 0, largest_ack |-> 0]

Memory ==
  [rec_send_ewma : Int, rec_rec_ewma : Int, rtt_ratio : Int, last_tick_sent : Int,
   last_receiver_timestamp : Int, min_rtt : Int, largest_ack : Int]

(* What an average can become. *)
EwmaAfter(old, sample) == IF old <= sample THEN old .. sample ELSE sample .. old

(* Mutant: any packet gives a sample. *)
AnyGivesSample(mem, p) == TRUE

(* Only the packet after the largest one received gives a sample. *)
GivesSample(mem, p) == p.seq_num - 1 = mem.largest_ack

(* A memory whose reference is the packet p. *)
Referring(mem, p) == [mem EXCEPT !.last_tick_sent          = p.tick_sent,
                                 !.last_receiver_timestamp = p.receiver_timestamp]

Averaging(mem, s, r) == [mem EXCEPT !.rec_send_ewma = s, !.rec_rec_ewma = r]

(* The samples taken, before the RTT is looked at. *)
Sampled(mem, p) ==
  {Averaging(Referring(mem, p), s, r) :
     s \in EwmaAfter(mem.rec_send_ewma, p.tick_sent - mem.last_tick_sent),
     r \in EwmaAfter(mem.rec_rec_ewma, p.receiver_timestamp - mem.last_receiver_timestamp)}

(* The first packet received, or the first after a reset. *)
First(mem, p, rtt) ==
  [Referring(mem, p) EXCEPT !.min_rtt = rtt,
                            !.largest_ack = IF p.seq_num > @ THEN p.seq_num ELSE @]

(* _min_rtt, _rtt_ratio and _largest_ack. *)
WithRtt(mem, p, rtt) ==
  LET least == IF rtt < mem.min_rtt THEN rtt ELSE mem.min_rtt
  IN  [mem EXCEPT !.min_rtt     = least,
                  !.rtt_ratio   = IF least > 0 THEN rtt \div least ELSE 0,
                  !.largest_ack = IF p.seq_num > @ THEN p.seq_num ELSE @]

(* Memory::packets_received for one packet: what the memory may become.    *)
(* RTTs are positive; if one were not the ratio is 0, against the code's   *)
(* assertion.                                                              *)
MemoriesAfter(mem, p) ==
  LET rtt == p.tick_received - p.tick_sent
  IN  IF mem.last_tick_sent = 0
        THEN {First(mem, p, rtt)}
        ELSE {WithRtt(m, p, rtt) : m \in IF GivesSample(mem, p) THEN Sampled(mem, p)
                                                                  ELSE {mem}}

(* assert(_rtt_ratio >= 1.0), which is not reached by the first packet. *)
AssertionHolds(before, after) == before.last_tick_sent # 0 => after.rtt_ratio >= 1

(* The ranges of the tree's root. *)
InLimits(mem) ==
  /\ mem.rec_send_ewma \in 0 .. SignalLimit - 1
  /\ mem.rec_rec_ewma  \in 0 .. SignalLimit - 1
  /\ mem.rtt_ratio     \in 0 .. SignalLimit - 1

(* Mutant: the window is not limited. *)
windowUnlimited(rule, previous, largest) ==
  LET w == previous * rule[32] + rule[31]
  IN  IF w < 0 THEN 0 ELSE w

(* Whisker::window; fields 31 and 32 of a rule are the increment and the   *)
(* multiple.  The largest window is 1000000.                               *)
window(rule, previous, largest) ==
  LET w == previous * rule[32] + rule[31]
  IN  IF w < 0 THEN 0 ELSE IF w > largest THEN largest ELSE w
-----------------------------------------------------------------------------
(* unacknowledged maps the packets sent to their times. *)

NewRemy == [the_window |-> 2, rat_window |-> 0, unacknowledged |-> <<>>, memory |-> EmptyMemory]

(* Mutant: Rat is not reset. *)
RemyInitKeepsMemory(cc) == [cc EXCEPT !.the_window = 2, !.rat_window = 0]

(* RemyCC::init and Rat::reset: the map stays. *)
RemyInit(cc) == [cc EXCEPT !.the_window = 2, !.rat_window = 0, !.memory = EmptyMemory]

RemyOnPktSent(cc, seq, time) ==
  [cc EXCEPT !.unacknowledged =
     [s \in DOMAIN @ \cup {seq} |-> IF s = seq THEN time ELSE @[s]]]

(* RemyCC::onACK of a packet in the map, when its memory becomes mem and   *)
(* the tree answers rule; other acknowledgements change nothing.  Both     *)
(* windows are the rule's.                                                 *)
RemyOnACK(cc, seq, mem, rule, largest) ==
  LET w == window(rule, cc.rat_window, largest)
  IN  [the_window     |-> w,
       rat_window     |-> w,
       unacknowledged |-> [s \in DOMAIN cc.unacknowledged \ {seq} |-> cc.unacknowledged[s]],
       memory         |-> mem]

PacketOf(cc, seq, now, receiver_timestamp) ==
  [seq_num |-> seq, tick_sent |-> cc.unacknowledged[seq], tick_received |-> now,
   receiver_timestamp |-> receiver_timestamp]

=============================================================================
