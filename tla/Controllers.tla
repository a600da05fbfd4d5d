---------------------------- MODULE Controllers ----------------------------
(***************************************************************************)
(* CTCP<RemyCC> or CTCP<DefaultCC>, as sender.cc chooses, seen from the    *)
(* controller: the calls send_data makes to it (ctcp.hh), over a network   *)
(* that loses data, and loses, delays, reorders and duplicates             *)
(* acknowledgements.  Data is not reordered: the receiver's times grow     *)
(* with the sequence numbers.                                              *)
(*                                                                         *)
(* The loop around the calls is the module Ctcp.  Here pacing, the idle    *)
(* timeout and the end of a flow may come at any moment, and trains are of *)
(* one packet, the default.                                                *)
(***************************************************************************)
EXTENDS RemyCC, DefaultCC

CONSTANTS
  CCTypes,       \* the controllers of sender.cc's cctype, among "remy" and "tcp"
  TreeRules,     \* the rules of the tree
  LargestWindow, \* 1000000, the limit of Whisker::window
  WindowFactor,  \* how many windows the send loop fills: 5 in the code
  MaxFlows,      \* bound: flows of the traffic generator
  MaxSeq,        \* bound: packets of a flow
  MaxTime,       \* bound: of the sender's clock in a flow
  MaxGap,        \* bound: between the receipts of two packets
  MaxWindow,     \* bound: of DefaultCC's window
  MaxDups        \* bound: of DefaultCC's count of duplicates

ASSUME ControllersAssumption ==
  /\ CCTypes \subseteq {"remy", "tcp"}
  /\ \A rule \in TreeRules : rule[31] \in Int /\ rule[32] \in Int
  /\ {SignalLimit, LargestWindow, WindowFactor, MaxFlows, MaxSeq, MaxTime, MaxGap, MaxWindow, MaxDups}
       \subseteq Nat

VARIABLES
  cctype,
  outcome,        \* "running"; "exited" or "aborted" when the program stopped
  flow_id,        \* of the flow in progress; 0 before the first
  now,            \* cur_time of the flow
  seq_num,
  largest_ack,    \* CTCP's, -1 at the start
  cc,             \* congctrl
  receiver_clock, \* when the receiver got the last packet
  echoes          \* acknowledgements in the network

ccVars == <<cctype, outcome, flow_id, now, seq_num, largest_ack, cc, receiver_clock, echoes>>

Echo == [flow : Nat, seq : Nat, sent : Nat, received : Nat]

InitOf(c) == IF cctype = "remy" THEN RemyInit(c) ELSE TcpInit(c)

(* sender.cc makes the controller; RemyCC only with a tree of rules. *)
CCStart ==
  /\ cctype \in CCTypes
  /\ outcome = "running"
  /\ flow_id = 0 /\ now = 1 /\ seq_num = 0 /\ largest_ack = -1
  /\ cc = IF cctype = "remy" THEN NewRemy ELSE NewTcp
  /\ receiver_clock = 1
  /\ echoes = {}

(* send_data begins: numbers and clock restart. *)
StartFlow ==
  /\ outcome = "running" /\ flow_id < MaxFlows
  /\ flow_id' = flow_id + 1
  /\ now' = 1 /\ seq_num' = 0 /\ largest_ack' = -1
  /\ cc' = InitOf(cc)
  /\ UNCHANGED <<cctype, outcome, receiver_clock, echoes>>

(* DefaultCC does not look at the receiver's times. *)
Gaps == IF cctype = "remy" THEN 0 .. MaxGap ELSE {0}

(* A packet is sent.  It is lost, or the receiver gets and echoes it. *)
SendPacket ==
  /\ outcome = "running" /\ flow_id > 0 /\ seq_num < MaxSeq
  /\ seq_num < largest_ack + 1 + WindowFactor * cc.the_window
  /\ seq_num' = seq_num + 1
  /\ cc' = IF cctype = "remy" THEN RemyOnPktSent(cc, seq_num, now) ELSE cc
  /\ \/ UNCHANGED <<receiver_clock, echoes>>
     \/ \E gap \in Gaps :
          /\ receiver_clock' = receiver_clock + gap
          /\ echoes' = echoes \cup
               {[flow |-> flow_id, seq |-> seq_num, sent |-> now, received |-> receiver_clock + gap]}
  /\ UNCHANGED <<cctype, outcome, flow_id, now, largest_ack>>

(* 2000 ms without an acknowledgement. *)
IdleTimeout ==
  /\ outcome = "running" /\ flow_id > 0
  /\ largest_ack' = seq_num - 1
  /\ cc' = InitOf(cc)
  /\ UNCHANGED <<cctype, outcome, flow_id, now, seq_num, receiver_clock, echoes>>

(* poll returned 0 after a timeout; RemyCC::onTimeout only prints. *)
PollTimeout ==
  /\ outcome = "running" /\ flow_id > 0 /\ cctype = "tcp"
  /\ cc' = TcpOnTimeout(cc)
  /\ UNCHANGED <<cctype, outcome, flow_id, now, seq_num, largest_ack, receiver_clock, echoes>>

(* Mutant: acknowledgements of any flow pass. *)
AcceptedAnyFlow(e) == e \in echoes

(* ctcp.hh's filter. *)
Accepted(e) == e.flow = flow_id

(* An acknowledgement takes some time. *)
Arriving == {e \in echoes : e.flow = flow_id => e.sent < now}

(* onACK of RemyCC for a packet in its map, when the memory becomes mem    *)
(* and the tree has one of rules for it; without one the program exits.    *)
RemyReceives(e, mem, rules) ==
  /\ mem \in MemoriesAfter(cc.memory, PacketOf(cc, e.seq, now, e.received))
  /\ IF AssertionHolds(cc.memory, mem) /\ rules # {}
       THEN /\ \E rule \in rules : cc' = RemyOnACK(cc, e.seq, mem, rule, LargestWindow)
            /\ UNCHANGED outcome
       ELSE /\ outcome' = IF AssertionHolds(cc.memory, mem) THEN "exited" ELSE "aborted"
            /\ cc' = [cc EXCEPT !.memory = mem]

TcpReceives(e) ==
  /\ cc' \in TcpOnACK(cc, e.seq + 1)
  /\ cc'.the_window <= MaxWindow /\ cc'.dup_count <= MaxDups
  /\ UNCHANGED outcome

(* An acknowledgement that passes the filter; rules is what the tree has   *)
(* for the memory mem.                                                     *)
RecvAck(e, mem, rules) ==
  /\ outcome = "running" /\ Accepted(e)
  /\ largest_ack' = IF e.seq + 1 > largest_ack THEN e.seq + 1 ELSE largest_ack
  /\ IF cctype = "tcp" THEN TcpReceives(e)
     ELSE IF e.seq \in DOMAIN cc.unacknowledged THEN RemyReceives(e, mem, rules)
     ELSE UNCHANGED <<cc, outcome>>
  /\ UNCHANGED <<cctype, flow_id, now, seq_num, receiver_clock, echoes>>

(* The memories the acknowledgement e may lead to. *)
Memories(e) ==
  IF cctype = "remy" /\ e.seq \in DOMAIN cc.unacknowledged
    THEN MemoriesAfter(cc.memory, PacketOf(cc, e.seq, now, e.received))
    ELSE {EmptyMemory}

Tick ==
  /\ outcome = "running" /\ flow_id > 0 /\ now < MaxTime
  /\ now' = now + 1
  /\ UNCHANGED <<cctype, outcome, flow_id, seq_num, largest_ack, cc, receiver_clock, echoes>>

CCCalls == StartFlow \/ SendPacket \/ IdleTimeout \/ PollTimeout \/ Tick

(* A tree has one of its rules for every memory within its limits. *)
RulesFor(mem) == IF InLimits(mem) THEN TreeRules ELSE {}

CCNext ==
  \/ CCCalls
  \/ \E e \in Arriving : \E mem \in Memories(e) : RecvAck(e, mem, RulesFor(mem))

CCSpec == CCStart /\ [][CCNext]_ccVars
-----------------------------------------------------------------------------
Tcp == [the_window : Nat, ssthresh : Nat, slow_start : BOOLEAN, dup_count : Nat, last_ack : Nat]

(* The sender's variables have the types of their declarations. *)
CCTypeOK ==
  /\ cctype \in CCTypes
  /\ outcome \in {"running", "exited", "aborted"}
  /\ flow_id \in Nat /\ now \in Nat /\ seq_num \in Nat
  /\ largest_ack \in Int
  /\ receiver_clock \in Nat
  /\ echoes \subseteq Echo
  /\ cctype = "remy" => /\ DOMAIN cc = {"the_window", "rat_window", "unacknowledged", "memory"}
                        /\ cc.the_window \in 0 .. LargestWindow \cup {2}
                        /\ cc.rat_window \in 0 .. LargestWindow
                        /\ DOMAIN cc.unacknowledged \subseteq Nat
                        /\ \A s \in DOMAIN cc.unacknowledged : cc.unacknowledged[s] \in Nat
                        /\ cc.memory \in Memory
  /\ cctype = "tcp"  => cc \in Tcp

(* RemyCC keeps its own sending times, in a map that neither a new flow    *)
(* nor an idle timeout clears: whatever is acknowledged, its time is the   *)
(* one in the packet's header, of this flow's clock.                       *)
SentTimesAgree ==
  cctype = "remy" =>
    \A e \in echoes : Accepted(e) /\ e.seq \in DOMAIN cc.unacknowledged =>
      cc.unacknowledged[e.seq] = e.sent

(* However acknowledgements are lost, reordered and duplicated, and flows  *)
(* started and timed out: no moving average gets negative, for which no    *)
(* tree has a rule (use_whisker would end the program), and the assertion  *)
(* on the RTT ratio holds.                                                 *)
SignalsNotNegative ==
  cctype = "remy" =>
    /\ outcome # "aborted"
    /\ cc.memory.rec_send_ewma >= 0
    /\ cc.memory.rec_rec_ewma >= 0

(* A sender with rules for every memory within the limits goes on: no      *)
(* lookup ends it (exit(1) in use_whisker), whatever the network does to   *)
(* the acknowledgements its memory is made from.                           *)
SenderGoesOn == outcome # "exited"

(* DefaultCC's window is never less than it starts with, although the      *)
(* threshold it falls back to after duplicates can be 1, and the count of  *)
(* the duplicates outlives the flow.                                       *)
TcpWindowFloor == cctype = "tcp" => cc.the_window >= 2

=============================================================================
