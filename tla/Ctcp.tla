-------------------------------- MODULE Ctcp --------------------------------
(***************************************************************************)
(* CTCP<MarkovianCC>::send_data (ctcp.hh), run for one flow after another  *)
(* by TrafficGenerator::send_data, over a network that may lose, reorder,  *)
(* delay and duplicate datagrams.                                          *)
(*                                                                         *)
(* The network is the set of headers sent so far: any of them may be       *)
(* delivered now, later, twice or never.  Time is what the                 *)
(* loop compares it with: the age of the last valid acknowledgement and,   *)
(* for a time-switched flow, the time since its start, in ticks.  Pacing   *)
(* (_last_send_time and the intersend time) may hold back any group of     *)
(* packets.  The handshake is the module Handshake; here a flow starts     *)
(* with it completed.                                                      *)
(***************************************************************************)
EXTENDS MarkovianCC

CONSTANTS
  NumCycles,     \* bound: flows the traffic generator runs (num_cycles)
  FlowSize,      \* ticks (time-switched) or packets (byte-switched)
  SwitchTypes,   \* values of byte_switched: is the flow's size in packets?
  TrainLength,   \* packets per group, command line option train_length
  WindowFactor,  \* how many windows the send loop fills: 5 in the code
  IdleTimeout,   \* the 2000 ms without an acknowledgement, in ticks
  SlowLoop,      \* may the loop body take a millisecond or more?
  MaxSeq         \* bound: sequence numbers per flow

ASSUME CtcpAssumption ==
  /\ NumCycles \in Nat
  /\ FlowSize \in Nat
  /\ SwitchTypes \subseteq BOOLEAN
  /\ TrainLength \in Nat \ {0}
  /\ WindowFactor \in Nat \ {0}
  /\ IdleTimeout \in Nat
  /\ SlowLoop \in BOOLEAN
  /\ MaxSeq \in Nat

VARIABLES
  byte_switched, \* of the flow in progress
  pc,            \* "off" between flows; "top", "poll" or "block" in the loop
  flow_id,
  seq_num,
  largest_ack,
  idle,          \* cur_time - last_ack_time, saturated above IdleTimeout
  elapsed,       \* cur_time of a time-switched flow, saturated at FlowSize
  transmitted,   \* num_packets_transmitted of a byte-switched flow
  cc,            \* congctrl
  sent,          \* headers the sender has put on the wire
  arrived,       \* history: packets whose acknowledgement came since cc's init
  credited       \* history: groups taken off the map as acknowledged

ctcpVars == <<byte_switched, pc, flow_id, seq_num, largest_ack, idle, elapsed,
              transmitted, cc, sent, arrived, credited>>

(* src_id is 1 for this sender, -1 in a handshake header.  The timestamp   *)
(* of a header that is dropped on return is left out.                      *)
Header == [seq : Int, flow : Int, src : {-1, 1}, ts : Nat]

HandshakeHeader == [seq |-> -1, flow |-> -1, src |-> -1, ts |-> 0]
KeepaliveHeader == [seq |-> -1, flow |-> -1, src |-> 1, ts |-> 0]
DataHeader(s)   == [seq |-> s, flow |-> flow_id, src |-> 1, ts |-> elapsed]

Max2(a, b) == IF a >= b THEN a ELSE b
Saturate(n, cap) == IF n < cap THEN n ELSE cap

CtcpInit ==
  /\ byte_switched = FALSE
  /\ pc = "off"
  /\ flow_id = 0
  /\ seq_num = 0
  /\ largest_ack = -1
  /\ idle = 0
  /\ elapsed = 0
  /\ transmitted = 0
  /\ cc = init
  /\ sent = {}
  /\ arrived = {}
  /\ credited = {}

(* Mutant: the flow's end is tested as if it were byte-switched. *)
FlowOverByBytes == transmitted >= FlowSize

(* The loop condition of send_data, negated. *)
FlowOver == IF byte_switched THEN transmitted >= FlowSize ELSE elapsed >= FlowSize

(* The prologue of send_data: the flow's own counters, the handshake, the  *)
(* controller's init.                                                      *)
StartFlow ==
  /\ pc = "off" /\ flow_id < NumCycles
  /\ byte_switched' \in SwitchTypes
  /\ pc' = "top"
  /\ seq_num' = 0
  /\ largest_ack' = -1
  /\ idle' = 0
  /\ elapsed' = 0
  /\ transmitted' = 0
  /\ cc' = init
  /\ sent' = sent \cup {HandshakeHeader}
  /\ arrived' = {} /\ credited' = {}
  /\ UNCHANGED flow_id

(* The epilogue, and the traffic generator's step to the next flow. *)
EndFlow ==
  /\ pc = "top" /\ FlowOver
  /\ pc' = "off"
  /\ flow_id' = flow_id + 1
  /\ UNCHANGED <<byte_switched, seq_num, largest_ack, idle, elapsed, transmitted,
                 cc, sent, arrived, credited>>

(* Where the send loop can stop, given the largest acknowledgement and the *)
(* window: at a group boundary, each group having started inside           *)
(* WindowFactor windows.                                                   *)
SendTargets(la, w) ==
  {s \in seq_num .. MaxSeq :
     /\ s % TrainLength = 0
     /\ s = seq_num \/ s - TrainLength < la + 1 + WindowFactor * w}

(* One pass of the loop down to the poll: the idle timeout, the packets    *)
(* the window and pacing allow, the keepalive, the poll's timeout.         *)
SendPackets ==
  /\ pc = "top" /\ ~FlowOver
  /\ LET timedOut == idle > IdleTimeout
         la  == IF timedOut THEN seq_num - 1 ELSE largest_ack
         cc0 == IF timedOut THEN init ELSE cc
     IN  \E s \in SendTargets(la, cc0.the_window), keepalive \in BOOLEAN :
           /\ s >= la + cc0.the_window => keepalive
           /\ largest_ack' = la
           /\ idle' = IF timedOut THEN 0 ELSE idle
           /\ cc' = onPktsSent(cc0, {g \in 0 .. MaxSeq :
                                       g * TrainLength \in seq_num .. s - 1})
           /\ seq_num' = s
           /\ sent' = sent \cup {DataHeader(q) : q \in seq_num .. s - 1}
                           \cup (IF keepalive THEN {KeepaliveHeader} ELSE {})
           /\ arrived' = IF timedOut THEN {} ELSE arrived
           /\ credited' = IF timedOut THEN {} ELSE credited
  /\ pc' \in {"poll"} \cup (IF SlowLoop THEN {"block"} ELSE {})
  /\ UNCHANGED <<byte_switched, flow_id, elapsed, transmitted>>

(* poll returned 0: MarkovianCC::onTimeout does nothing. *)
PollTimeout ==
  /\ pc = "poll"
  /\ pc' = "top"
  /\ UNCHANGED <<byte_switched, flow_id, seq_num, largest_ack, idle, elapsed,
                 transmitted, cc, sent, arrived, credited>>

(* Mutant: acknowledgements of any flow pass. *)
AcceptedAnyFlow(m) == m.src = 1

(* The filter on src_id and flow_id. *)
Accepted(m) == m.src = 1 /\ m.flow = flow_id

(* Mutant: last_ack_time is set before the filter. *)
IdleResetByAny(m) == 0

(* last_ack_time is set only after the filter. *)
IdleAfter(m) == IF Accepted(m) THEN 0 ELSE idle

(* The acknowledgement number handed to onACK: the sequence number, which  *)
(* the sender increments itself, over the train length.                    *)
AckIndex(s) == (s + 1) \div TrainLength

(* Mutant: acknowledgements are counted, as if each was a new one. *)
LargestAckCounts(s) == largest_ack + 1

(* _largest_ack after the acknowledgement of packet s. *)
LargestAck(s) == Max2(largest_ack, s + 1)

(* buf holds the header m when the receive returns.  One of another flow,  *)
(* a keepalive's or a handshake's echo is dropped before it can touch any  *)
(* state.                                                                  *)
RecvAck(m) ==
  /\ pc \in {"poll", "block"}
  /\ pc' = "top"
  /\ idle' = IdleAfter(m)
  /\ IF Accepted(m)
       THEN LET ack   == AckIndex(m.seq)
                first == m.seq % TrainLength = 0
            IN  /\ transmitted' =
                     IF byte_switched THEN Saturate(transmitted + 1, FlowSize) ELSE 0
                /\ largest_ack' = LargestAck(m.seq)
                /\ arrived' = arrived \cup {m.seq}
                /\ IF first
                     THEN /\ \E w \in WindowsAfter(cc, ack) : cc' = onACK(cc, ack, w)
                          /\ credited' = credited \cup
                               ({ack - 1} \cap cc.unacknowledged_packets)
                     ELSE UNCHANGED <<cc, credited>>
       ELSE UNCHANGED <<transmitted, largest_ack, cc, arrived, credited>>
  /\ UNCHANGED <<byte_switched, flow_id, seq_num, elapsed, sent>>

(* The receive failed.  receivedata returns -1 with what buf held before,  *)
(* the header last sent or received, or with what is waiting.              *)
InBuffer(arriving) == sent \cup arriving

(* send_data tells only 0, the timeout, from a datagram: it takes what is  *)
(* in buf for one that arrived.                                            *)
RecvError(arriving) == \E m \in InBuffer(arriving) : RecvAck(m)

(* Time passes. *)
Tick ==
  /\ pc # "off"
  /\ idle' = Saturate(idle + 1, IdleTimeout + 1)
  /\ elapsed' = IF byte_switched THEN 0 ELSE Saturate(elapsed + 1, FlowSize)
  /\ <<idle', elapsed'>> # <<idle, elapsed>>
  /\ UNCHANGED <<byte_switched, pc, flow_id, seq_num, largest_ack, transmitted,
                 cc, sent, arrived, credited>>

(* The sender's steps, when the headers of the set arriving may arrive. *)
CtcpNext(arriving) ==
  \/ StartFlow
  \/ EndFlow
  \/ SendPackets
  \/ PollTimeout
  \/ \E m \in arriving : RecvAck(m)
  \/ RecvError(arriving)
  \/ Tick
-----------------------------------------------------------------------------
(* The sender's variables have the types of their C++ declarations.        *)
TypeOK ==
  /\ byte_switched \in BOOLEAN
  /\ pc \in {"off", "top", "poll", "block"}
  /\ flow_id \in 0 .. NumCycles
  /\ seq_num \in 0 .. MaxSeq
  /\ largest_ack \in Int
  /\ idle \in 0 .. IdleTimeout + 1
  /\ elapsed \in 0 .. FlowSize
  /\ transmitted \in 0 .. FlowSize
  /\ cc \in CC
  /\ sent \subseteq Header
  /\ arrived \subseteq Nat
  /\ credited \subseteq Nat

(* When the headers of arriving may arrive, every one that passes the      *)
(* filter is the echo of a packet of this flow; see AcceptedAcksAreCurrent.*)
CurrentAcks(arriving) ==
  pc # "off" =>
    /\ largest_ack <= seq_num
    /\ \A m \in arriving : Accepted(m) => m.seq \in 0 .. seq_num - 1 /\ m.ts <= elapsed

(* The loss statistics add up: through losses, reordering, duplicates and  *)
(* idle timeouts, every group sent since init is still unacknowledged, was *)
(* taken off as acknowledged, or was counted as lost, exactly once.        *)
LossAccounting ==
  /\ cc.num_pkts_sent = Cardinality(cc.unacknowledged_packets)
                          + Cardinality(credited) + cc.num_pkts_lost
  /\ credited \cap cc.unacknowledged_packets = {}

(* ccc.hh tells the controllers that onACK and onPktSent see each group as *)
(* one packet: a group leaves the map of unacknowledged packets as         *)
(* acknowledged only after its own acknowledgement arrived.                *)
CreditedHaveArrived == \A g \in credited : g * TrainLength \in arrived

(* The groups sent since init: seq_num is at a group's start between steps.*)
SinceInit ==
  LET next == seq_num \div TrainLength
  IN  next - cc.num_pkts_sent .. next - 1

(* An acknowledgement onACK was told of is of a later group than g, or, in *)
(* trains of one packet, of g itself.                                      *)
Overtaken(g) ==
  \E a \in arrived :
    /\ a % TrainLength = 0
    /\ a > g * TrainLength \/ (TrainLength = 1 /\ a = g)

(* Which groups are unacknowledged depends only on which acknowledgements  *)
(* came since init, in whatever order and however often, and not on those  *)
(* of before an idle timeout: a single packet stays on the map until an    *)
(* acknowledgement of it or a later one, and a longer train, which onACK   *)
(* is told of as if it were the one before, until one of a later train.    *)
HeldUntilOvertaken ==
  cc.unacknowledged_packets = {g \in SinceInit : ~Overtaken(g)}

(* However acknowledgements are lost, reordered and repeated, and across   *)
(* idle timeouts, which give up what was outstanding, no more packets sent *)
(* since are beyond all that were acknowledged than WindowFactor of the    *)
(* largest windows and a group, the excess the send loop warns of.         *)
OutstandingBounded ==
  LET beyond == {q \in seq_num - TrainLength * cc.num_pkts_sent .. seq_num - 1 :
                   \A a \in arrived : a < q}
  IN  \E w \in WindowSizes \cup {NumProbe} :
        Cardinality(beyond) <= WindowFactor * w + TrainLength

(* A time-switched flow lasts flow_size milliseconds, however many         *)
(* datagrams the network loses: send_data returns.                         *)
FlowEnds == (pc # "off" /\ ~byte_switched) ~> pc = "off"

(* The send window is full. *)
Stalled == pc # "off" /\ seq_num >= largest_ack + 1 + WindowFactor * cc.the_window

(* A window filled by packets or acknowledgements that were all lost is    *)
(* reopened by the idle timeout, although keepalive echoes keep arriving.  *)
StallRecovers ==
  \A s \in 0 .. MaxSeq - TrainLength :
    (Stalled /\ seq_num = s) ~> (~Stalled \/ seq_num # s)

=============================================================================
