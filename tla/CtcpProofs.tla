----------------------------- MODULE CtcpProofs -----------------------------
(***************************************************************************)
(* Proofs about the sender CTCP and the echo receiver, for any number of   *)
(* flows, any flow size, train length, window sizes and timeouts, and a    *)
(* network that loses, delays, reorders and duplicates.                    *)
(*                                                                         *)
(* The argument (IInv): a header of this program on the wire names a flow  *)
(* that has begun, and one that names the flow in progress a sequence      *)
(* number below seq_num and a time not after now; between flows, nothing   *)
(* on the wire names the flow to come.  The groups on the map of           *)
(* unacknowledged packets, and those taken off it as acknowledged, all     *)
(* began below seq_num, so a group that is sent is new to both.            *)
(*                                                                         *)
(* On top of it, GroupInv and AheadInv count in groups of TrainLength      *)
(* packets: the map is a function of which acknowledgements came since     *)
(* init, and _largest_ack is one past the last of them, or where init left *)
(* it, and no further from seq_num than the send loop ever goes.           *)
(***************************************************************************)
EXTENDS CtcpEcho, FiniteSetTheorems, TLAPS

(* A header this program's filter on src_id lets through is a keepalive's, *)
(* or carries a sequence number of a flow that has begun.                  *)
OwnHeader(m) == \/ m.flow = -1
                \/ m.flow \in 0 .. flow_id /\ m.seq \in Nat

(* A header of the flow numbered flow_id: that flow is in progress, has    *)
(* sent the packet, and sent it before now.                                *)
CurrentHeader(m) == pc # "off" /\ m.seq \in 0 .. seq_num - 1 /\ m.ts <= elapsed

SentKnown ==
  \A m \in sent : m.src = 1 =>
    /\ OwnHeader(m)
    /\ m.flow = flow_id => CurrentHeader(m)

(* The groups outstanding and the groups credited are finitely many and    *)
(* began below the next sequence number.                                   *)
GroupsSent ==
  /\ IsFiniteSet(cc.unacknowledged_packets)
  /\ IsFiniteSet(credited)
  /\ \A g \in cc.unacknowledged_packets \cup credited : g * TrainLength < seq_num

(* The flow's counters fit its kind and its number its bound. *)
FlowSane ==
  /\ pc # "off" => flow_id < NumCycles
  /\ byte_switched => elapsed = 0
  /\ largest_ack <= seq_num

IInv == TypeOK /\ SentKnown /\ GroupsSent /\ FlowSane /\ LossAccounting
-----------------------------------------------------------------------------
(* Lemmas about the controller's operators.                                *)

(* The number of a packet's group is a natural. *)
LEMMA GroupNumber ==
  ASSUME NEW s \in Nat, NEW n \in Nat \ {0}
  PROVE  s \div n \in Nat
<1>1. s \div n \in Int
  OBVIOUS
<1>2. s \div n >= 0
  OBVIOUS
<1> QED BY <1>1, <1>2

(* init gives a controller with nothing outstanding. *)
LEMMA InitCC == /\ init \in CC
                /\ init.unacknowledged_packets = {}
                /\ init.num_pkts_sent = 0 /\ init.num_pkts_lost = 0
  BY CCAssumption DEF init, CC

(* Two disjoint finite sets together have the sum of their sizes. *)
LEMMA CardinalityDisjoint ==
  ASSUME NEW S, NEW T, IsFiniteSet(S), IsFiniteSet(T), S \cap T = {}
  PROVE  /\ IsFiniteSet(S \cup T)
         /\ Cardinality(S \cup T) = Cardinality(S) + Cardinality(T)
<1>1. Cardinality(S) \in Nat /\ Cardinality(T) \in Nat
  BY FS_CardinalityType
<1> QED BY <1>1, FS_Union, FS_EmptySet

(* The fields of a controller. *)
LEMMA CCFields ==
  ASSUME NEW c \in CC
  PROVE  /\ c.the_window \in WindowSizes \cup {NumProbe}
         /\ c.unacknowledged_packets \in SUBSET Nat
         /\ c.num_pkts_acked \in 0 .. AckCap
         /\ c.num_pkts_lost \in Nat
         /\ c.num_pkts_sent \in Nat
  BY DEF CC

(* onPktSent for packets that are not on the map yet: the map grows by     *)
(* them and the counter of packets sent by their number.                   *)
LEMMA OnPktsSent ==
  ASSUME NEW c \in CC, IsFiniteSet(c.unacknowledged_packets),
         NEW seqs \in SUBSET Nat, IsFiniteSet(seqs),
         seqs \cap c.unacknowledged_packets = {}
  PROVE  LET d == onPktsSent(c, seqs)
         IN  /\ d \in CC
             /\ d.the_window = c.the_window
             /\ d.unacknowledged_packets = c.unacknowledged_packets \cup seqs
             /\ IsFiniteSet(d.unacknowledged_packets)
             /\ d.num_pkts_lost = c.num_pkts_lost
             /\ d.num_pkts_sent = c.num_pkts_sent + Cardinality(seqs)
             /\ d.num_pkts_sent - Cardinality(d.unacknowledged_packets)
                  = c.num_pkts_sent - Cardinality(c.unacknowledged_packets)
<1> DEFINE U == c.unacknowledged_packets
           d == onPktsSent(c, seqs)
<1>1. Cardinality(seqs) \in Nat /\ Cardinality(U) \in Nat
  BY FS_CardinalityType
<1>2. IsFiniteSet(U \cup seqs) /\ Cardinality(U \cup seqs) = Cardinality(U) + Cardinality(seqs)
  BY CardinalityDisjoint
<1>3. d \in CC
  <2>1. U \cup seqs \in SUBSET Nat
    BY CCFields
  <2>2. c.num_pkts_sent \in Nat
    BY CCFields
  <2>3. c.num_pkts_sent + Cardinality(seqs) \in Nat
    BY <1>1, <2>2
  <2> QED BY <2>1, <2>3, CCFields DEF onPktsSent, CC
<1>4. /\ d.the_window = c.the_window
      /\ d.unacknowledged_packets = U \cup seqs
      /\ d.num_pkts_lost = c.num_pkts_lost
      /\ d.num_pkts_sent = c.num_pkts_sent + Cardinality(seqs)
      /\ c.num_pkts_sent \in Nat
  BY CCFields DEF onPktsSent, CC
<1> QED BY <1>1, <1>2, <1>3, <1>4

(* onACK of a packet on the map: it and the older ones leave the map, the  *)
(* older ones are counted as lost.                                         *)
LEMMA OnACK ==
  ASSUME NEW c \in CC, IsFiniteSet(c.unacknowledged_packets),
         NEW ack \in Int, NEW w \in WindowSizes \cup {NumProbe}
  PROVE  LET d   == onACK(c, ack, w)
             own == {ack - 1} \cap c.unacknowledged_packets
         IN  /\ d \in CC
             /\ d.unacknowledged_packets
                  = c.unacknowledged_packets \ Removed(c, ack - 1)
             /\ d.unacknowledged_packets \subseteq c.unacknowledged_packets
             /\ own \cap d.unacknowledged_packets = {}
             /\ IsFiniteSet(own) /\ Cardinality(own) \in Nat
             /\ d.num_pkts_sent = c.num_pkts_sent
             /\ Cardinality(d.unacknowledged_packets) + Cardinality(own) + d.num_pkts_lost
                  = Cardinality(c.unacknowledged_packets) + c.num_pkts_lost
<1> DEFINE U    == c.unacknowledged_packets
           d    == onACK(c, ack, w)
           own  == {ack - 1} \cap U
           R    == Removed(c, ack - 1)
           late == R \ {ack - 1}
<1>1. R \in SUBSET U /\ own \in SUBSET R /\ late = R \ own /\ own \cap late = {}
  BY DEF Removed
<1>2. IsFiniteSet(R) /\ IsFiniteSet(own) /\ IsFiniteSet(late) /\ IsFiniteSet(U \ R)
  BY <1>1, FS_Subset
<1>3. /\ Cardinality(R) \in Nat /\ Cardinality(own) \in Nat /\ Cardinality(late) \in Nat
      /\ Cardinality(U \ R) \in Nat /\ Cardinality(U) \in Nat
  BY <1>2, FS_CardinalityType
<1>4. Cardinality(U) = Cardinality(U \ R) + Cardinality(R)
  <2>1. U = (U \ R) \cup R /\ (U \ R) \cap R = {}
    BY <1>1
  <2> QED BY <1>2, <2>1, CardinalityDisjoint
<1>5. Cardinality(R) = Cardinality(own) + Cardinality(late)
  <2>1. R = own \cup late
    BY <1>1
  <2> QED BY <1>1, <1>2, <2>1, CardinalityDisjoint
<1>6. /\ d.the_window = w
      /\ d.unacknowledged_packets = U \ R
      /\ d.num_pkts_lost = c.num_pkts_lost + Cardinality(late)
      /\ d.num_pkts_sent = c.num_pkts_sent
      /\ d.num_pkts_acked = IF c.num_pkts_acked < AckCap THEN c.num_pkts_acked + 1
                                                         ELSE c.num_pkts_acked
      /\ c.num_pkts_lost \in Nat
  BY DEF onACK, CC
<1>7. d \in CC
  <2>1. U \ R \in SUBSET Nat /\ c.num_pkts_lost + Cardinality(late) \in Nat
    BY <1>3, CCFields
  <2>2. (IF c.num_pkts_acked < AckCap THEN c.num_pkts_acked + 1 ELSE c.num_pkts_acked)
          \in 0 .. AckCap
    BY CCAssumption, CCFields
  <2> QED BY <2>1, <2>2, CCFields DEF onACK, CC
<1> QED BY <1>1, <1>2, <1>3, <1>4, <1>5, <1>6, <1>7

(* The windows an acknowledgement can lead to are of the right kind. *)
LEMMA WindowsAfterType ==
  ASSUME NEW c \in CC, NEW ack \in Int, NEW w \in WindowsAfter(c, ack)
  PROVE  w \in WindowSizes \cup {NumProbe}
  BY DEF WindowsAfter, NextWindow, CC
-----------------------------------------------------------------------------
(* The invariant, action by action.                                        *)

LEMMA InitIInv == CtcpInit => IInv
<1> SUFFICES ASSUME CtcpInit PROVE IInv
  OBVIOUS
<1>1. TypeOK
  <2>1. /\ flow_id \in 0 .. NumCycles /\ seq_num \in 0 .. MaxSeq
        /\ idle \in 0 .. IdleTimeout + 1
        /\ elapsed \in 0 .. FlowSize /\ transmitted \in 0 .. FlowSize
    BY CtcpAssumption DEF CtcpInit
  <2>2. cc \in CC /\ sent \subseteq Header /\ arrived \subseteq Nat /\ credited \subseteq Nat
    BY InitCC DEF CtcpInit
  <2>3. byte_switched \in BOOLEAN /\ pc = "off"
    BY DEF CtcpInit
  <2>4. largest_ack \in Int
    BY DEF CtcpInit
  <2> QED BY <2>1, <2>2, <2>3, <2>4 DEF TypeOK
<1>2. SentKnown /\ FlowSane
  BY DEF CtcpInit, SentKnown, FlowSane
<1>3. GroupsSent /\ LossAccounting
  BY InitCC, FS_EmptySet DEF CtcpInit, GroupsSent, LossAccounting
<1> QED BY <1>1, <1>2, <1>3 DEF IInv

(* A new flow: nothing on the wire has its number. *)
LEMMA StartFlowIInv ==
  ASSUME IInv, StartFlow
  PROVE  IInv'
<1>1. TypeOK'
  <2>1. HandshakeHeader \in Header
    BY DEF HandshakeHeader, Header
  <2> QED BY <2>1, InitCC, CtcpAssumption DEF IInv, TypeOK, StartFlow
<1>2. SentKnown'
  <2> SUFFICES ASSUME NEW m \in sent', m.src = 1
               PROVE  OwnHeader(m)' /\ (m.flow = flow_id' => CurrentHeader(m)')
    BY DEF SentKnown
  <2>1. m \in sent
    BY DEF StartFlow, HandshakeHeader
  <2>2. OwnHeader(m) /\ m.flow # flow_id
    BY <2>1 DEF IInv, SentKnown, CurrentHeader, StartFlow
  <2> QED BY <2>2 DEF StartFlow, OwnHeader
<1>3. FlowSane'
  BY DEF IInv, TypeOK, FlowSane, StartFlow
<1>4. GroupsSent' /\ LossAccounting'
  BY InitCC, FS_EmptySet DEF StartFlow, GroupsSent, LossAccounting
<1> QED BY <1>1, <1>2, <1>3, <1>4 DEF IInv

(* The end of a flow: the next one's number is above all on the wire. *)
LEMMA EndFlowIInv ==
  ASSUME IInv, EndFlow
  PROVE  IInv'
<1>1. TypeOK'
  BY CtcpAssumption DEF IInv, TypeOK, FlowSane, EndFlow
<1>2. SentKnown'
  BY CtcpAssumption DEF IInv, TypeOK, SentKnown, OwnHeader, EndFlow
<1>3. FlowSane' /\ GroupsSent' /\ LossAccounting'
  BY DEF IInv, FlowSane, GroupsSent, LossAccounting, EndFlow
<1> QED BY <1>1, <1>2, <1>3 DEF IInv

(* What a pass of the send loop starts from, with or without the timeout.  *)
TimedOut == idle > IdleTimeout
AckBefore == IF TimedOut THEN seq_num - 1 ELSE largest_ack
CCBefore == IF TimedOut THEN init ELSE cc
CreditedBefore == IF TimedOut THEN {} ELSE credited

(* The groups a pass of the send loop that stops at s has sent. *)
GroupsUpTo(s) == {g \in 0 .. MaxSeq : g * TrainLength \in seq_num .. s - 1}

LEMMA SendBefore ==
  ASSUME IInv
  PROVE  /\ AckBefore \in Int /\ AckBefore <= seq_num
         /\ CCBefore \in CC
         /\ IsFiniteSet(CCBefore.unacknowledged_packets)
         /\ IsFiniteSet(CreditedBefore) /\ CreditedBefore \subseteq Nat
         /\ \A g \in CCBefore.unacknowledged_packets \cup CreditedBefore :
              g * TrainLength < seq_num
         /\ CCBefore.num_pkts_sent = Cardinality(CCBefore.unacknowledged_packets)
              + Cardinality(CreditedBefore) + CCBefore.num_pkts_lost
         /\ CreditedBefore \cap CCBefore.unacknowledged_packets = {}
<1>1. CASE TimedOut
  <2>1. AckBefore = seq_num - 1 /\ CCBefore = init /\ CreditedBefore = {}
    BY <1>1 DEF AckBefore, CCBefore, CreditedBefore
  <2>2. IsFiniteSet({}) /\ Cardinality({}) = 0
    BY FS_EmptySet
  <2>3. seq_num \in Nat
    BY DEF IInv, TypeOK
  <2> QED BY <2>1, <2>2, <2>3, InitCC
<1>2. CASE ~TimedOut
  BY <1>2 DEF IInv, TypeOK, FlowSane, GroupsSent, LossAccounting, AckBefore, CCBefore,
              CreditedBefore
<1> QED BY <1>1, <1>2

LEMMA SendPacketsIInv ==
  ASSUME IInv, SendPackets
  PROVE  IInv'
<1>1. PICK s \in SendTargets(AckBefore, CCBefore.the_window), keepalive \in BOOLEAN :
        /\ largest_ack' = AckBefore
        /\ idle' = IF TimedOut THEN 0 ELSE idle
        /\ cc' = onPktsSent(CCBefore, GroupsUpTo(s))
        /\ seq_num' = s
        /\ sent' = sent \cup {DataHeader(q) : q \in seq_num .. s - 1}
                        \cup (IF keepalive THEN {KeepaliveHeader} ELSE {})
        /\ arrived' = IF TimedOut THEN {} ELSE arrived
        /\ credited' = CreditedBefore
  BY DEF SendPackets, TimedOut, AckBefore, CCBefore, CreditedBefore, GroupsUpTo
<1>2. /\ pc # "off" /\ pc' \in {"poll", "block"}
      /\ UNCHANGED <<byte_switched, flow_id, elapsed, transmitted>>
  BY DEF SendPackets
<1>3. seq_num \in Nat /\ s \in seq_num .. MaxSeq /\ s \in Nat
  BY <1>1 DEF SendTargets, IInv, TypeOK
<1> DEFINE G == GroupsUpTo(s)
           U == CCBefore.unacknowledged_packets
<1>4. /\ G \in SUBSET Nat /\ IsFiniteSet(G)
      /\ \A g \in G : g * TrainLength \in seq_num .. s - 1
  <2>1. G \in SUBSET (0 .. MaxSeq)
    BY DEF GroupsUpTo
  <2>2. IsFiniteSet(0 .. MaxSeq)
    BY CtcpAssumption, FS_Interval
  <2>3. IsFiniteSet(G)
    BY <2>1, <2>2, FS_Subset
  <2>4. G \in SUBSET Nat
    BY <2>1
  <2> QED BY <2>3, <2>4 DEF GroupsUpTo
<1>5. \A g \in G : g \notin U \cup CreditedBefore
  BY <1>3, <1>4, SendBefore
<1>6. /\ cc' \in CC
      /\ cc'.unacknowledged_packets = U \cup G
      /\ IsFiniteSet(U \cup G)
      /\ cc'.num_pkts_lost = CCBefore.num_pkts_lost
      /\ cc'.num_pkts_sent - Cardinality(U \cup G)
           = CCBefore.num_pkts_sent - Cardinality(U)
  <2>1. G \cap U = {}
    BY <1>5
  <2> QED BY <1>1, <1>4, <2>1, SendBefore, OnPktsSent
<1>7. TypeOK'
  <2>1. \A q \in seq_num .. s - 1 : DataHeader(q) \in Header
    BY <1>3, CtcpAssumption DEF IInv, TypeOK, DataHeader, Header
  <2>2. KeepaliveHeader \in Header
    BY DEF KeepaliveHeader, Header
  <2>3. sent' \subseteq Header
    BY <1>1, <2>1, <2>2 DEF IInv, TypeOK
  <2>4. arrived' \subseteq Nat /\ credited' \subseteq Nat
    BY <1>1, SendBefore DEF IInv, TypeOK
  <2>5. idle' \in 0 .. IdleTimeout + 1 /\ largest_ack' \in Int
    BY <1>1, SendBefore, CtcpAssumption DEF IInv, TypeOK
  <2>6. seq_num' \in 0 .. MaxSeq
    BY <1>1, <1>3, CtcpAssumption
  <2> QED BY <1>2, <1>6, <2>3, <2>4, <2>5, <2>6 DEF IInv, TypeOK
<1>8. SentKnown'
  <2> SUFFICES ASSUME NEW m \in sent', m.src = 1
               PROVE  OwnHeader(m)' /\ (m.flow = flow_id' => CurrentHeader(m)')
    BY DEF SentKnown
  <2>1. CASE m \in sent
    <3>1. OwnHeader(m) /\ (m.flow = flow_id => CurrentHeader(m))
      BY <2>1 DEF IInv, SentKnown
    <3> QED BY <1>1, <1>2, <1>3, <3>1 DEF OwnHeader, CurrentHeader
  <2>2. CASE \E q \in seq_num .. s - 1 : m = DataHeader(q)
    <3>1. PICK q \in seq_num .. s - 1 : m = DataHeader(q)
      BY <2>2
    <3>2. m.seq = q /\ m.flow = flow_id /\ m.ts = elapsed
      BY <3>1 DEF DataHeader
    <3> QED BY <1>1, <1>2, <1>3, <3>2, CtcpAssumption
            DEF OwnHeader, CurrentHeader, IInv, TypeOK
  <2>3. CASE m = KeepaliveHeader
    BY <1>2, <2>3, CtcpAssumption DEF KeepaliveHeader, OwnHeader, IInv, TypeOK
  <2> QED BY <1>1, <2>1, <2>2, <2>3
<1>9. GroupsSent'
  <2>1. \A g \in U \cup CreditedBefore : g * TrainLength < seq_num'
    <3> SUFFICES ASSUME NEW g \in U \cup CreditedBefore PROVE g * TrainLength < s
      BY <1>1
    <3>1. g \in Nat /\ g * TrainLength \in Nat
      BY SendBefore, CCFields, CtcpAssumption
    <3>2. g * TrainLength < seq_num
      BY SendBefore
    <3> QED BY <1>3, <3>1, <3>2
  <2>2. \A g \in G : g * TrainLength < seq_num'
    BY <1>1, <1>3, <1>4
  <2> QED BY <1>1, <1>6, <2>1, <2>2, SendBefore DEF GroupsSent
<1>10. LossAccounting'
  <2>1. /\ Cardinality(U \cup G) \in Nat /\ Cardinality(U) \in Nat
        /\ Cardinality(CreditedBefore) \in Nat
    BY <1>6, SendBefore, FS_CardinalityType
  <2>2. CCBefore.num_pkts_sent \in Nat /\ CCBefore.num_pkts_lost \in Nat
    BY SendBefore, CCFields
  <2>3. cc'.num_pkts_sent \in Nat
    BY <1>6 DEF CC
  <2>4. cc'.num_pkts_sent = Cardinality(U \cup G) + Cardinality(CreditedBefore)
                              + cc'.num_pkts_lost
    <3>1. CCBefore.num_pkts_sent = Cardinality(U) + Cardinality(CreditedBefore)
                                     + CCBefore.num_pkts_lost
      BY SendBefore
    <3> HIDE DEF U, G
    <3> QED BY <1>6, <2>1, <2>2, <2>3, <3>1
  <2>5. CreditedBefore \cap (U \cup G) = {}
    BY <1>5, SendBefore
  <2> QED BY <1>1, <1>6, <2>4, <2>5 DEF LossAccounting
<1>11. FlowSane'
  BY <1>1, <1>2, <1>3, SendBefore DEF IInv, TypeOK, FlowSane
<1> QED BY <1>7, <1>8, <1>9, <1>10, <1>11 DEF IInv

LEMMA PollTimeoutIInv ==
  ASSUME IInv, PollTimeout
  PROVE  IInv'
<1>1. TypeOK'
  BY DEF IInv, TypeOK, PollTimeout
<1>2. SentKnown'
  BY DEF IInv, SentKnown, OwnHeader, CurrentHeader, PollTimeout
<1>3. GroupsSent' /\ FlowSane' /\ LossAccounting'
  BY DEF IInv, GroupsSent, FlowSane, LossAccounting, PollTimeout
<1> QED BY <1>1, <1>2, <1>3 DEF IInv

(* What the filter accepts is a packet of this flow, sent before now. *)
LEMMA AcceptedIsCurrent ==
  ASSUME IInv, NEW m \in sent, Accepted(m)
  PROVE  /\ pc # "off" /\ m.seq \in Nat
         /\ m.seq \in 0 .. seq_num - 1 /\ m.ts <= elapsed
<1>1. m \in sent /\ m.src = 1 /\ m.flow = flow_id
  BY DEF Accepted
<1>2. CurrentHeader(m)
  BY <1>1 DEF IInv, SentKnown
<1> QED BY <1>2 DEF CurrentHeader

(* An acknowledgement, whichever and however late it is, or a header that  *)
(* a failed receive left in the buffer.                                    *)
LEMMA RecvAckIInv ==
  ASSUME IInv, NEW m \in sent, RecvAck(m)
  PROVE  IInv'
<1>1. /\ pc # "off" /\ pc' = "top"
      /\ UNCHANGED <<byte_switched, flow_id, seq_num, elapsed, sent>>
  BY DEF RecvAck
<1>2. SentKnown'
  <2>1. \A n : /\ OwnHeader(n) => OwnHeader(n)'
               /\ CurrentHeader(n) => CurrentHeader(n)'
    BY <1>1 DEF OwnHeader, CurrentHeader
  <2> QED BY <1>1, <2>1 DEF IInv, SentKnown
<1>3. /\ idle' \in 0 .. IdleTimeout + 1
      /\ byte_switched' \in BOOLEAN /\ flow_id' \in 0 .. NumCycles
      /\ seq_num' \in 0 .. MaxSeq /\ elapsed' \in 0 .. FlowSize /\ sent' \subseteq Header
  BY <1>1, CtcpAssumption DEF RecvAck, IdleAfter, IInv, TypeOK
<1>4. CASE ~Accepted(m)
  <2>1. UNCHANGED <<transmitted, largest_ack, cc, arrived, credited>>
    BY <1>4 DEF RecvAck
  <2>2. TypeOK'
    BY <1>1, <1>3, <2>1 DEF IInv, TypeOK
  <2>3. GroupsSent' /\ FlowSane' /\ LossAccounting'
    BY <1>1, <2>1 DEF IInv, GroupsSent, FlowSane, LossAccounting
  <2> QED BY <1>2, <2>2, <2>3 DEF IInv
<1>5. CASE Accepted(m)
  <2>1. m.seq \in Nat /\ m.seq < seq_num /\ seq_num \in Nat
    BY <1>5, AcceptedIsCurrent DEF IInv, TypeOK
  <2> DEFINE ack == AckIndex(m.seq)
             own == {ack - 1} \cap cc.unacknowledged_packets
  <2>2. ack \in Nat
    BY <2>1, GroupNumber, CtcpAssumption DEF AckIndex
  <2>3. /\ transmitted' = IF byte_switched THEN Saturate(transmitted + 1, FlowSize) ELSE 0
        /\ largest_ack' = Max2(largest_ack, m.seq + 1)
        /\ arrived' = arrived \cup {m.seq}
    BY <1>5 DEF RecvAck, LargestAck
  <2>4. transmitted' \in 0 .. FlowSize
    BY <2>3, CtcpAssumption DEF Saturate, IInv, TypeOK
  <2>5. largest_ack' \in Int /\ largest_ack' <= seq_num'
    BY <1>1, <2>1, <2>3 DEF Max2, IInv, TypeOK, FlowSane
  <2>6. FlowSane' /\ arrived' \subseteq Nat
    BY <1>1, <2>1, <2>3, <2>5 DEF IInv, TypeOK, FlowSane
  <2>7. CASE m.seq % TrainLength # 0
    <3>1. UNCHANGED <<cc, credited>>
      BY <1>5, <2>7 DEF RecvAck
    <3>2. TypeOK'
      BY <1>1, <1>3, <2>4, <2>5, <2>6, <3>1 DEF IInv, TypeOK
    <3>3. GroupsSent' /\ LossAccounting'
      BY <1>1, <3>1 DEF IInv, GroupsSent, LossAccounting
    <3> QED BY <1>2, <2>6, <3>2, <3>3 DEF IInv
  <2>8. CASE m.seq % TrainLength = 0
    <3>1. PICK w \in WindowsAfter(cc, ack) : cc' = onACK(cc, ack, w)
      BY <1>5, <2>8 DEF RecvAck
    <3>2. credited' = credited \cup own
      BY <1>5, <2>8 DEF RecvAck
    <3>3. cc \in CC /\ IsFiniteSet(cc.unacknowledged_packets) /\ IsFiniteSet(credited)
      BY DEF IInv, TypeOK, GroupsSent
    <3>4. /\ cc' \in CC
          /\ cc'.unacknowledged_packets \subseteq cc.unacknowledged_packets
          /\ own \cap cc'.unacknowledged_packets = {}
          /\ IsFiniteSet(own) /\ Cardinality(own) \in Nat
          /\ cc'.num_pkts_sent = cc.num_pkts_sent
          /\ Cardinality(cc'.unacknowledged_packets) + Cardinality(own) + cc'.num_pkts_lost
               = Cardinality(cc.unacknowledged_packets) + cc.num_pkts_lost
      <4>1. w \in WindowSizes \cup {NumProbe}
        BY <2>2, <3>3, WindowsAfterType
      <4>2. ack \in Int
        BY <2>2
      <4> HIDE DEF ack
      <4> QED BY <3>1, <3>3, <4>1, <4>2, OnACK
    <3>5. own \subseteq cc.unacknowledged_packets /\ own \subseteq Nat
      BY <3>3, CCFields
    <3>6. TypeOK'
      <4>1. credited' \subseteq Nat
        BY <3>2, <3>5 DEF IInv, TypeOK
      <4> QED BY <1>1, <1>3, <2>4, <2>5, <2>6, <3>4, <4>1 DEF IInv, TypeOK
    <3>7. GroupsSent'
      <4>1. IsFiniteSet(cc'.unacknowledged_packets) /\ IsFiniteSet(credited')
        BY <3>2, <3>3, <3>4, FS_Subset, FS_Union
      <4>2. \A g \in cc'.unacknowledged_packets \cup credited' :
              g \in cc.unacknowledged_packets \cup credited
        BY <3>2, <3>4, <3>5
      <4> QED BY <1>1, <4>1, <4>2 DEF IInv, GroupsSent
    <3>8. LossAccounting'
      <4>1. own \cap credited = {}
        BY <3>5 DEF IInv, LossAccounting
      <4>2. Cardinality(credited') = Cardinality(credited) + Cardinality(own)
        BY <3>2, <3>3, <3>4, <4>1, CardinalityDisjoint
      <4>3. /\ Cardinality(cc.unacknowledged_packets) \in Nat /\ Cardinality(credited) \in Nat
            /\ Cardinality(cc'.unacknowledged_packets) \in Nat
            /\ cc.num_pkts_lost \in Nat /\ cc'.num_pkts_lost \in Nat
        <5>1. IsFiniteSet(cc'.unacknowledged_packets)
          BY <3>3, <3>4, FS_Subset
        <5> QED BY <3>3, <3>4, <5>1, CCFields, FS_CardinalityType
      <4>4. cc.num_pkts_sent = Cardinality(cc.unacknowledged_packets)
                                 + Cardinality(credited) + cc.num_pkts_lost
        BY DEF IInv, LossAccounting
      <4>5. cc'.num_pkts_sent = Cardinality(cc'.unacknowledged_packets)
                                  + Cardinality(credited') + cc'.num_pkts_lost
        <5> HIDE DEF own
        <5> QED BY <3>4, <4>2, <4>3, <4>4
      <4>6. credited' \cap cc'.unacknowledged_packets = {}
        BY <3>2, <3>4 DEF IInv, LossAccounting
      <4> QED BY <4>5, <4>6 DEF LossAccounting
    <3> QED BY <1>2, <2>6, <3>6, <3>7, <3>8 DEF IInv
  <2> QED BY <2>7, <2>8
<1> QED BY <1>4, <1>5

LEMMA TickIInv ==
  ASSUME IInv, Tick
  PROVE  IInv'
<1>1. UNCHANGED <<byte_switched, pc, flow_id, seq_num, largest_ack, transmitted, cc, sent,
                  arrived, credited>>
  BY DEF Tick
<1>2. /\ idle' \in 0 .. IdleTimeout + 1
      /\ elapsed' \in 0 .. FlowSize /\ elapsed <= elapsed'
      /\ byte_switched => elapsed' = 0
  BY CtcpAssumption DEF Tick, Saturate, IInv, TypeOK, FlowSane
<1>3. TypeOK'
  BY <1>1, <1>2 DEF IInv, TypeOK
<1>4. SentKnown'
  <2> SUFFICES ASSUME NEW m \in sent, m.src = 1
               PROVE  OwnHeader(m)' /\ (m.flow = flow_id => CurrentHeader(m)')
    BY <1>1 DEF SentKnown
  <2>1. OwnHeader(m) /\ (m.flow = flow_id => CurrentHeader(m))
    BY DEF IInv, SentKnown
  <2>2. m.ts \in Nat /\ elapsed \in Nat
    BY DEF IInv, TypeOK, Header
  <2> QED BY <1>1, <1>2, <2>1, <2>2 DEF OwnHeader, CurrentHeader
<1>5. GroupsSent' /\ FlowSane' /\ LossAccounting'
  BY <1>1, <1>2 DEF IInv, GroupsSent, FlowSane, LossAccounting
<1> QED BY <1>3, <1>4, <1>5 DEF IInv

(* What may arrive, and what a failed receive can leave in the buffer, was *)
(* sent.                                                                   *)
LEMMA EchoesSent == /\ Echoes \subseteq sent
                    /\ RecvError(Echoes) => \E m \in sent : RecvAck(m)
  BY DEF Echoes, RecvError, InBuffer

LEMMA NextIInv == IInv /\ [Next]_ctcpVars => IInv'
<1> SUFFICES ASSUME IInv, [Next]_ctcpVars PROVE IInv'
  OBVIOUS
<1>1. CASE StartFlow
  BY <1>1, StartFlowIInv
<1>2. CASE EndFlow
  BY <1>2, EndFlowIInv
<1>3. CASE SendPackets
  BY <1>3, SendPacketsIInv
<1>4. CASE PollTimeout
  BY <1>4, PollTimeoutIInv
<1>5. CASE (\E m \in Echoes : RecvAck(m)) \/ RecvError(Echoes)
  BY <1>5, RecvAckIInv, EchoesSent
<1>6. CASE Tick
  BY <1>6, TickIInv
<1>7. CASE UNCHANGED ctcpVars
  BY <1>7 DEF IInv, TypeOK, SentKnown, OwnHeader, CurrentHeader, GroupsSent, FlowSane,
              LossAccounting, ctcpVars
<1> QED BY <1>1, <1>2, <1>3, <1>4, <1>5, <1>6, <1>7 DEF Next, CtcpNext

LEMMA InductiveInvariant == Spec => []IInv
<1>1. CtcpInit => IInv
  BY InitIInv
<1>2. IInv /\ [Next]_ctcpVars => IInv'
  BY NextIInv
<1> QED BY <1>1, <1>2, PTL DEF Spec
-----------------------------------------------------------------------------
(* The theorems.                                                           *)

(* The sender's variables keep the types of their declarations in ctcp.hh  *)
(* and markoviancc.hh: no counter goes below zero.                         *)
THEOREM CtcpTypesHold == Spec => []TypeOK
<1>1. IInv => TypeOK
  BY DEF IInv
<1> QED BY <1>1, InductiveInvariant, PTL

(* Whatever passes the filter on src_id and flow_id of ctcp.hh is the echo *)
(* of a packet of the flow in progress, sent before now, although sequence *)
(* numbers and clocks start again with every flow, and _largest_ack never  *)
(* passes seq_num.                                                         *)
THEOREM AcceptedAcksAreCurrentAlways == Spec => []AcceptedAcksAreCurrent
<1>1. IInv => AcceptedAcksAreCurrent
  <2> SUFFICES ASSUME IInv PROVE CurrentAcks(Echoes)
    BY DEF AcceptedAcksAreCurrent
  <2>1. largest_ack <= seq_num
    BY DEF IInv, FlowSane
  <2>2. \A m \in Echoes : Accepted(m) => m.seq \in 0 .. seq_num - 1 /\ m.ts <= elapsed
    BY AcceptedIsCurrent, EchoesSent
  <2> QED BY <2>1, <2>2 DEF CurrentAcks
<1> QED BY <1>1, InductiveInvariant, PTL

(* Every group that onPktSent counted is still on the map, was credited or *)
(* was counted as lost by onACK, exactly once, for trains of any length.   *)
THEOREM LossesAddUp == Spec => []LossAccounting
<1>1. IInv => LossAccounting
  BY DEF IInv
<1> QED BY <1>1, InductiveInvariant, PTL
-----------------------------------------------------------------------------
(* Which groups are on the map of unacknowledged packets, and how far the  *)
(* sender is ahead of the acknowledgements.  GroupInv counts in groups: k  *)
(* have been sent in this flow, the last num_pkts_sent of them since init, *)
(* and of these the map holds the ones not overtaken.  AheadInv: what      *)
(* _largest_ack is, and how far seq_num can be from it.                    *)

GroupInv ==
  \E k \in Nat :
    /\ seq_num = k * TrainLength
    /\ cc.num_pkts_sent <= k
    /\ \A a \in arrived : a < seq_num
    /\ cc.unacknowledged_packets = {g \in k - cc.num_pkts_sent .. k - 1 : ~Overtaken(g)}

AheadInv ==
  /\ \/ largest_ack = seq_num - TrainLength * cc.num_pkts_sent - 1
     \/ \E a \in arrived : largest_ack = a + 1
  /\ \E w \in WindowSizes \cup {NumProbe} :
       seq_num - largest_ack <= WindowFactor * w + TrainLength

(* Groups begin in the order of their numbers. *)
LEMMA GroupOrder ==
  ASSUME NEW a \in Int, NEW b \in Int, NEW n \in Nat \ {0}
  PROVE  a * n < b * n <=> a < b
<1>1. ASSUME NEW x \in Int, NEW y \in Int, x < y PROVE x * n < y * n
  <2>1. y - x \in Nat \ {0}
    BY <1>1
  <2>2. (y - x) * n >= 1
    BY <2>1
  <2>3. y * n = x * n + (y - x) * n
    OBVIOUS
  <2>4. x * n \in Int /\ y * n \in Int /\ (y - x) * n \in Int
    OBVIOUS
  <2> QED BY <2>2, <2>3, <2>4
<1>2. a * n \in Int /\ b * n \in Int
  OBVIOUS
<1>3. CASE a < b
  BY <1>1, <1>3
<1>4. CASE a = b
  BY <1>2, <1>4
<1>5. CASE b < a
  <2>1. b * n < a * n
    BY <1>1, <1>5
  <2> QED BY <1>2, <1>5, <2>1
<1> QED BY <1>3, <1>4, <1>5

(* A packet that begins a group has the group's number times the length.   *)
LEMMA GroupStart ==
  ASSUME NEW s \in Nat, NEW n \in Nat \ {0}, s % n = 0
  PROVE  s = (s \div n) * n
  OBVIOUS

(* The number of the group at whose beginning the sender is.               *)
LEMMA GroupAt ==
  ASSUME NEW k \in Nat, NEW n \in Nat \ {0}
  PROVE  (k * n) \div n = k
  OBVIOUS

(* In the terms of the sequence numbers: a group is overtaken by the first *)
(* packet of a later one, or, one packet to a group, by its own.           *)
OvertakenBy(g, n) == n > g \/ (TrainLength = 1 /\ n = g)

LEMMA OvertakenGroups ==
  ASSUME arrived \subseteq Nat, CtcpAssumption, NEW g \in Int
  PROVE  Overtaken(g) <=> \E n \in Nat : n * TrainLength \in arrived /\ OvertakenBy(g, n)
<1>1. ASSUME Overtaken(g)
      PROVE  \E n \in Nat : n * TrainLength \in arrived /\ OvertakenBy(g, n)
  <2>1. PICK a \in arrived :
          /\ a % TrainLength = 0
          /\ a > g * TrainLength \/ (TrainLength = 1 /\ a = g)
    BY <1>1 DEF Overtaken
  <2> DEFINE n == a \div TrainLength
  <2>2. n \in Nat /\ a = n * TrainLength
    BY <2>1, GroupNumber, GroupStart, CtcpAssumption
  <2> HIDE DEF n
  <2>3. OvertakenBy(g, n)
    <3>1. CASE a > g * TrainLength
      <4>1. g * TrainLength < n * TrainLength
        BY <2>2, <3>1, CtcpAssumption
      <4> QED BY <2>2, <4>1, GroupOrder, CtcpAssumption DEF OvertakenBy
    <3>2. CASE TrainLength = 1 /\ a = g
      BY <2>2, <3>2 DEF OvertakenBy
    <3> QED BY <2>1, <3>1, <3>2
  <2> QED BY <2>1, <2>2, <2>3
<1>2. ASSUME NEW n \in Nat, n * TrainLength \in arrived, OvertakenBy(g, n)
      PROVE  Overtaken(g)
  <2>1. (n * TrainLength) % TrainLength = 0
    BY CtcpAssumption
  <2>2. n * TrainLength > g * TrainLength \/ (TrainLength = 1 /\ n * TrainLength = g)
    <3>1. CASE n > g
      <4>1. g * TrainLength < n * TrainLength
        BY <3>1, GroupOrder, CtcpAssumption
      <4> QED BY <4>1, CtcpAssumption
    <3>2. CASE TrainLength = 1 /\ n = g
      BY <3>2
    <3> QED BY <1>2, <3>1, <3>2 DEF OvertakenBy
  <2> QED BY <1>2, <2>1, <2>2 DEF Overtaken
<1> QED BY <1>1, <1>2

(* The group onACK is told of, for the first packet of group n: itself in  *)
(* trains of one packet, and the one before in longer trains.              *)
LEMMA GroupTold ==
  ASSUME CtcpAssumption, NEW n \in Nat, NEW g \in Int
  PROVE  /\ AckIndex(n * TrainLength) - 1 \in Int
         /\ AckIndex(n * TrainLength) - 1 <= n
         /\ OvertakenBy(g, n) <=> g <= AckIndex(n * TrainLength) - 1
<1>1. CASE TrainLength = 1
  <2>1. AckIndex(n * TrainLength) = n + 1
    BY <1>1 DEF AckIndex
  <2> QED BY <1>1, <2>1 DEF OvertakenBy
<1>2. CASE TrainLength # 1
  <2>1. TrainLength \in Nat \ {0, 1}
    BY <1>2, CtcpAssumption
  <2>2. (n * TrainLength + 1) \div TrainLength = n
    BY <2>1
  <2> QED BY <1>2, <2>2 DEF AckIndex, OvertakenBy
<1> QED BY <1>1, <1>2

LEMMA InitGroups == CtcpInit => GroupInv /\ AheadInv
<1> SUFFICES ASSUME CtcpInit PROVE GroupInv /\ AheadInv
  OBVIOUS
<1>1. /\ seq_num = 0 /\ largest_ack = -1 /\ arrived = {} /\ cc = init
      /\ cc.unacknowledged_packets = {} /\ cc.num_pkts_sent = 0
  BY InitCC DEF CtcpInit
<1>2. GroupInv
  BY <1>1, CtcpAssumption DEF GroupInv
<1>3. AheadInv
  BY <1>1, CtcpAssumption, CCAssumption DEF AheadInv
<1> QED BY <1>2, <1>3

(* A step that leaves all this alone but the ticks. *)
LEMMA IdleGroups ==
  ASSUME GroupInv, AheadInv, UNCHANGED <<seq_num, largest_ack, cc, arrived>>
  PROVE  GroupInv' /\ AheadInv'
BY DEF GroupInv, AheadInv, Overtaken

LEMMA StartFlowGroups ==
  ASSUME StartFlow
  PROVE  GroupInv' /\ AheadInv'
<1>1. /\ seq_num' = 0 /\ largest_ack' = -1 /\ arrived' = {}
      /\ cc'.unacknowledged_packets = {} /\ cc'.num_pkts_sent = 0
  BY InitCC DEF StartFlow
<1>2. GroupInv'
  BY <1>1, CtcpAssumption DEF GroupInv
<1>3. AheadInv'
  BY <1>1, CtcpAssumption, CCAssumption DEF AheadInv
<1> QED BY <1>2, <1>3

(* A pass of the send loop: the groups it sends are not overtaken yet.     *)
LEMMA SendPacketsGroups ==
  ASSUME IInv, GroupInv, AheadInv, SendPackets
  PROVE  GroupInv' /\ AheadInv'
<1> DEFINE arrivedBefore == IF TimedOut THEN {} ELSE arrived
<1>1. PICK s \in SendTargets(AckBefore, CCBefore.the_window) :
        /\ largest_ack' = AckBefore
        /\ cc' = onPktsSent(CCBefore, GroupsUpTo(s))
        /\ seq_num' = s
        /\ arrived' = arrivedBefore
  BY DEF SendPackets, TimedOut, AckBefore, CCBefore, GroupsUpTo
<1>2. PICK k \in Nat :
        /\ seq_num = k * TrainLength
        /\ cc.num_pkts_sent <= k
        /\ \A a \in arrived : a < seq_num
        /\ cc.unacknowledged_packets = {g \in k - cc.num_pkts_sent .. k - 1 : ~Overtaken(g)}
  BY DEF GroupInv
<1>3. /\ seq_num \in Nat /\ s \in Nat /\ s >= seq_num /\ s <= MaxSeq /\ s % TrainLength = 0
      /\ s = seq_num \/ s - TrainLength < AckBefore + 1 + WindowFactor * CCBefore.the_window
  BY <1>1 DEF SendTargets, IInv, TypeOK
<1> DEFINE j == s \div TrainLength
<1>4. j \in Nat /\ s = j * TrainLength
  BY <1>3, GroupNumber, GroupStart, CtcpAssumption
<1> HIDE DEF j
<1>5. k <= j
  <2>1. ~(j * TrainLength < k * TrainLength)
    BY <1>2, <1>3, <1>4
  <2> QED BY <1>4, <2>1, GroupOrder, CtcpAssumption
<1>6. GroupsUpTo(s) = k .. j - 1
  <2>1. ASSUME NEW g \in Int
        PROVE  g \in GroupsUpTo(s) <=> g \in k .. j - 1
    <3>1. k * TrainLength <= g * TrainLength <=> k <= g
      <4>1. g * TrainLength < k * TrainLength <=> g < k
        BY GroupOrder, CtcpAssumption
      <4>2. g * TrainLength \in Int /\ k * TrainLength \in Int
        BY CtcpAssumption
      <4> QED BY <4>1, <4>2
    <3>2. g * TrainLength < j * TrainLength <=> g < j
      BY <1>4, GroupOrder, CtcpAssumption
    <3>3. g \in Nat => g <= g * TrainLength
      BY CtcpAssumption
    <3>4. g \in GroupsUpTo(s) <=> /\ g \in 0 .. MaxSeq
                                  /\ g * TrainLength \in seq_num .. s - 1
      BY DEF GroupsUpTo
    <3>5. g * TrainLength \in Int
      BY CtcpAssumption
    <3> DEFINE gt == g * TrainLength
    <3>6. g \in GroupsUpTo(s) <=> g \in 0 .. MaxSeq /\ seq_num <= gt /\ gt < s
      BY <1>3, <3>4, <3>5
    <3>7. seq_num <= gt /\ gt < s <=> k <= g /\ g < j
      BY <1>2, <1>4, <3>1, <3>2
    <3> HIDE DEF gt
    <3>8. g < j => g < s
      <4>1. j <= j * TrainLength
        BY <1>4, CtcpAssumption
      <4> QED BY <1>3, <1>4, <4>1
    <3> QED BY <1>3, <1>4, <3>6, <3>7, <3>8, CtcpAssumption
  <2>2. GroupsUpTo(s) \subseteq Int /\ k .. j - 1 \subseteq Int
    BY DEF GroupsUpTo
  <2> QED BY <2>1, <2>2
<1>7. IsFiniteSet(k .. j - 1) /\ Cardinality(k .. j - 1) = j - k
  BY <1>4, <1>5, FS_Interval
<1>8. /\ CCBefore.num_pkts_sent \in Nat /\ CCBefore.num_pkts_sent <= k
      /\ arrivedBefore \subseteq Nat /\ \A a \in arrivedBefore : a < seq_num
      /\ CCBefore.unacknowledged_packets
           = {g \in k - CCBefore.num_pkts_sent .. k - 1 :
                ~(\E a \in arrivedBefore :
                    /\ a % TrainLength = 0
                    /\ a > g * TrainLength \/ (TrainLength = 1 /\ a = g))}
  <2>1. CASE TimedOut
    BY <1>2, <2>1, InitCC DEF CCBefore
  <2>2. CASE ~TimedOut
    BY <1>2, <2>2, CCFields DEF CCBefore, IInv, TypeOK, Overtaken
  <2> QED BY <2>1, <2>2
<1>9. /\ cc'.the_window = CCBefore.the_window
      /\ cc'.unacknowledged_packets = CCBefore.unacknowledged_packets \cup (k .. j - 1)
      /\ cc'.num_pkts_sent = CCBefore.num_pkts_sent + (j - k)
  <2>1. (k .. j - 1) \cap CCBefore.unacknowledged_packets = {}
    BY <1>8
  <2>2. (k .. j - 1) \in SUBSET Nat
    OBVIOUS
  <2>3. CCBefore \in CC /\ IsFiniteSet(CCBefore.unacknowledged_packets)
    BY SendBefore
  <2>4. cc' = onPktsSent(CCBefore, k .. j - 1)
    BY <1>1, <1>6
  <2>5. /\ cc'.the_window = CCBefore.the_window
        /\ cc'.unacknowledged_packets = CCBefore.unacknowledged_packets \cup (k .. j - 1)
        /\ cc'.num_pkts_sent = CCBefore.num_pkts_sent + Cardinality(k .. j - 1)
    BY <1>7, <2>1, <2>2, <2>3, <2>4, OnPktsSent
  <2> QED BY <1>7, <2>5
<1>10. GroupInv'
  <2>1. cc'.num_pkts_sent <= j /\ \A a \in arrived' : a < seq_num'
    BY <1>1, <1>3, <1>4, <1>5, <1>8, <1>9
  <2>2. \A g \in k .. j - 1 : ~Overtaken(g)'
    <3> SUFFICES ASSUME NEW g \in k .. j - 1, NEW a \in arrivedBefore,
                        a > g * TrainLength \/ (TrainLength = 1 /\ a = g)
                 PROVE  FALSE
      BY <1>1 DEF Overtaken
    <3>1. a \in Nat /\ a < k * TrainLength
      BY <1>2, <1>8
    <3>2. ~(g * TrainLength < k * TrainLength)
      BY GroupOrder, CtcpAssumption
    <3>3. g * TrainLength \in Int /\ k * TrainLength \in Int
      BY CtcpAssumption
    <3> QED BY <3>1, <3>2, <3>3
  <2>3. j - cc'.num_pkts_sent = k - CCBefore.num_pkts_sent
    BY <1>4, <1>8, <1>9
  <2>4. cc'.unacknowledged_packets
          = {g \in k - CCBefore.num_pkts_sent .. j - 1 : ~Overtaken(g)'}
    <3>1. CCBefore.unacknowledged_packets
            = {g \in k - CCBefore.num_pkts_sent .. k - 1 : ~Overtaken(g)'}
      BY <1>1, <1>8 DEF Overtaken
    <3>2. k - CCBefore.num_pkts_sent .. j - 1
            = (k - CCBefore.num_pkts_sent .. k - 1) \cup (k .. j - 1)
      BY <1>4, <1>5, <1>8
    <3> QED BY <1>9, <2>2, <3>1, <3>2
  <2>5. cc'.unacknowledged_packets
          = {g \in j - cc'.num_pkts_sent .. j - 1 : ~Overtaken(g)'}
    BY <2>3, <2>4
  <2> QED BY <1>1, <1>4, <2>1, <2>5 DEF GroupInv
<1>11. AheadInv'
  <2>1. \/ largest_ack' = seq_num' - TrainLength * cc'.num_pkts_sent - 1
        \/ \E a \in arrived' : largest_ack' = a + 1
    <3>1. TrainLength * cc'.num_pkts_sent
            = TrainLength * CCBefore.num_pkts_sent + s - seq_num
      BY <1>2, <1>4, <1>8, <1>9, CtcpAssumption
    <3>2. TrainLength * CCBefore.num_pkts_sent \in Int
      BY <1>8, CtcpAssumption
    <3>3. \/ AckBefore = seq_num - TrainLength * CCBefore.num_pkts_sent - 1
          \/ \E a \in arrivedBefore : AckBefore = a + 1
      <4>1. CASE TimedOut
        BY <1>3, <4>1, InitCC, CtcpAssumption DEF AckBefore, CCBefore
      <4>2. CASE ~TimedOut
        BY <4>2 DEF AckBefore, CCBefore, AheadInv
      <4> QED BY <4>1, <4>2
    <3> HIDE DEF arrivedBefore
    <3> QED BY <1>1, <1>3, <3>1, <3>2, <3>3
  <2>2. \E w \in WindowSizes \cup {NumProbe} :
          seq_num' - largest_ack' <= WindowFactor * w + TrainLength
    <3>1. AckBefore \in Int /\ CCBefore.the_window \in WindowSizes \cup {NumProbe}
      BY SendBefore, CCFields
    <3>2. \A w \in WindowSizes \cup {NumProbe} : WindowFactor * w \in Nat
      BY CCAssumption, CtcpAssumption
    <3>3. CASE s # seq_num
      BY <1>1, <1>3, <3>1, <3>2, <3>3, CtcpAssumption
    <3>4. CASE s = seq_num /\ ~TimedOut
      BY <1>1, <3>4 DEF AckBefore, AheadInv
    <3>5. CASE s = seq_num /\ TimedOut
      <4>1. seq_num' - largest_ack' = 1
        BY <1>1, <1>3, <3>5 DEF AckBefore
      <4> QED BY <3>1, <3>2, <4>1, CtcpAssumption
    <3> QED BY <3>3, <3>4, <3>5
  <2> QED BY <2>1, <2>2 DEF AheadInv
<1> QED BY <1>10, <1>11

(* An acknowledgement: what it overtakes is what onACK takes off the map.  *)
LEMMA RecvAckGroups ==
  ASSUME IInv, GroupInv, AheadInv, NEW m \in sent, RecvAck(m)
  PROVE  GroupInv' /\ AheadInv'
<1>1. seq_num' = seq_num
  BY DEF RecvAck
<1>2. CASE ~Accepted(m)
  BY <1>1, <1>2, IdleGroups DEF RecvAck
<1>3. CASE Accepted(m)
  <2>1. m.seq \in Nat /\ m.seq < seq_num /\ seq_num \in Nat /\ arrived \subseteq Nat
    BY <1>3, AcceptedIsCurrent DEF IInv, TypeOK
  <2>2. /\ largest_ack' = Max2(largest_ack, m.seq + 1)
        /\ arrived' = arrived \cup {m.seq}
    BY <1>3 DEF RecvAck, LargestAck
  <2>3. PICK k \in Nat :
          /\ seq_num = k * TrainLength
          /\ cc.num_pkts_sent <= k
          /\ \A a \in arrived : a < seq_num
          /\ cc.unacknowledged_packets = {g \in k - cc.num_pkts_sent .. k - 1 : ~Overtaken(g)}
    BY DEF GroupInv
  <2>4. /\ cc'.num_pkts_sent = cc.num_pkts_sent /\ cc.num_pkts_sent \in Nat
        /\ cc'.unacknowledged_packets
             = {g \in k - cc.num_pkts_sent .. k - 1 : ~Overtaken(g)'}
    <3>1. CASE m.seq % TrainLength # 0
      <4>1. cc' = cc
        BY <1>3, <3>1 DEF RecvAck
      <4>2. \A g : Overtaken(g)' <=> Overtaken(g)
        BY <2>2, <3>1 DEF Overtaken
      <4> QED BY <2>3, <4>1, <4>2, CCFields DEF IInv, TypeOK
    <3>2. CASE m.seq % TrainLength = 0
      <4> DEFINE n == m.seq \div TrainLength
                 U == cc.unacknowledged_packets
      <4>1. n \in Nat /\ m.seq = n * TrainLength
        BY <2>1, <3>2, GroupNumber, GroupStart, CtcpAssumption
      <4> HIDE DEF n
      <4> DEFINE q == AckIndex(n * TrainLength) - 1
      <4>2. /\ q \in Int /\ q <= n
            /\ \A g \in Int : OvertakenBy(g, n) <=> g <= q
        BY <4>1, GroupTold, CtcpAssumption
      <4>3. n < k
        <5>1. n * TrainLength < k * TrainLength
          BY <2>1, <2>3, <4>1
        <5> QED BY <4>1, <5>1, GroupOrder, CtcpAssumption
      <4>4. \A g \in Int : Overtaken(g)' <=> Overtaken(g) \/ g <= q
        <5> SUFFICES ASSUME NEW g \in Int
                     PROVE  Overtaken(g)' <=> Overtaken(g) \/ g <= q
          OBVIOUS
        <5>1. Overtaken(g)' <=> \/ Overtaken(g)
                                \/ m.seq > g * TrainLength \/ (TrainLength = 1 /\ m.seq = g)
          BY <2>2, <3>2 DEF Overtaken
        <5>2. (m.seq > g * TrainLength \/ (TrainLength = 1 /\ m.seq = g))
                <=> OvertakenBy(g, n)
          <6>1. g * TrainLength < n * TrainLength <=> g < n
            BY <4>1, GroupOrder, CtcpAssumption
          <6>2. TrainLength = 1 => m.seq = n
            BY <4>1
          <6>3. g * TrainLength \in Int
            BY CtcpAssumption
          <6> QED BY <2>1, <4>1, <6>1, <6>2, <6>3 DEF OvertakenBy
        <5> QED BY <4>2, <5>1, <5>2
      <4>5. PICK w \in WindowSizes \cup {NumProbe} : cc' = onACK(cc, q + 1, w)
        <5>1. PICK w \in WindowsAfter(cc, AckIndex(m.seq)) :
                cc' = onACK(cc, AckIndex(m.seq), w)
          BY <1>3, <3>2 DEF RecvAck
        <5>2. AckIndex(m.seq) = q + 1 /\ AckIndex(m.seq) \in Int
          <6>1. AckIndex(m.seq) \in Int
            BY <2>1, CtcpAssumption DEF AckIndex
          <6> QED BY <4>1, <6>1
        <5>3. w \in WindowSizes \cup {NumProbe}
          BY <5>1, <5>2, WindowsAfterType DEF IInv, TypeOK
        <5> QED BY <5>1, <5>2, <5>3
      <4> HIDE DEF q
      <4>6. /\ cc'.unacknowledged_packets = U \ Removed(cc, q)
            /\ cc'.num_pkts_sent = cc.num_pkts_sent
        <5>1. q + 1 \in Int /\ (q + 1) - 1 = q
          BY <4>2
        <5>2. cc \in CC /\ IsFiniteSet(cc.unacknowledged_packets)
          BY DEF IInv, TypeOK, GroupsSent
        <5>3. /\ cc'.unacknowledged_packets = U \ Removed(cc, (q + 1) - 1)
              /\ cc'.num_pkts_sent = cc.num_pkts_sent
          BY <4>5, <5>1, <5>2, OnACK
        <5> QED BY <5>1, <5>3
      <4>7. cc.num_pkts_sent \in Nat
        BY CCFields DEF IInv, TypeOK
      <4>8. \A g \in U : g \in Removed(cc, q) <=> g <= q
        <5>1. CASE q \in U
          BY <5>1 DEF Removed
        <5>2. CASE q \notin U
          <6> SUFFICES ASSUME NEW g \in U, g <= q
                       PROVE  FALSE
            BY <5>2 DEF Removed
          <6>1. g \in k - cc.num_pkts_sent .. k - 1 /\ ~Overtaken(g)
            BY <2>3
          <6>2. Overtaken(q)
            <7>1. k - cc.num_pkts_sent \in Int /\ k - 1 \in Int
              BY <2>3, <4>7
            <7>2. q <= k - 1 /\ k - cc.num_pkts_sent <= q
              BY <4>1, <4>2, <4>3, <5>2, <6>1, <7>1
            <7>3. q \in k - cc.num_pkts_sent .. k - 1
              BY <4>2, <7>1, <7>2
            <7> QED BY <2>3, <5>2, <7>3
          <6>3. PICK b \in Nat : b * TrainLength \in arrived /\ OvertakenBy(q, b)
            BY <2>1, <4>2, <6>2, OvertakenGroups, CtcpAssumption
          <6>4. OvertakenBy(g, b)
            BY <4>2, <6>1, <6>3 DEF OvertakenBy
          <6> QED BY <2>1, <6>1, <6>3, <6>4, OvertakenGroups, CtcpAssumption
        <5> QED BY <5>1, <5>2
      <4> QED BY <2>3, <4>4, <4>6, <4>7, <4>8
    <3> QED BY <3>1, <3>2
  <2>5. GroupInv'
    BY <1>1, <2>1, <2>2, <2>3, <2>4 DEF GroupInv
  <2>6. AheadInv'
    <3>1. largest_ack \in Int /\ largest_ack <= largest_ack' /\ largest_ack' \in Int
      BY <2>1, <2>2 DEF Max2, IInv, TypeOK
    <3>2. PICK w \in WindowSizes \cup {NumProbe} :
            seq_num - largest_ack <= WindowFactor * w + TrainLength
      BY DEF AheadInv
    <3>3. WindowFactor * w + TrainLength \in Nat
      BY CCAssumption, CtcpAssumption
    <3>4. seq_num' - largest_ack' <= WindowFactor * w + TrainLength
      BY <1>1, <2>1, <3>1, <3>2, <3>3
    <3>5. \/ largest_ack' = seq_num' - TrainLength * cc'.num_pkts_sent - 1
          \/ \E a \in arrived' : largest_ack' = a + 1
      BY <1>1, <2>2, <2>4 DEF Max2, AheadInv
    <3> QED BY <3>4, <3>5 DEF AheadInv
  <2> QED BY <2>5, <2>6
<1> QED BY <1>2, <1>3

LEMMA NextGroups == IInv /\ GroupInv /\ AheadInv /\ [Next]_ctcpVars => GroupInv' /\ AheadInv'
<1> SUFFICES ASSUME IInv, GroupInv, AheadInv, [Next]_ctcpVars
             PROVE  GroupInv' /\ AheadInv'
  OBVIOUS
<1>1. CASE StartFlow
  BY <1>1, StartFlowGroups
<1>2. CASE EndFlow \/ PollTimeout \/ Tick \/ UNCHANGED ctcpVars
  BY <1>2, IdleGroups DEF EndFlow, PollTimeout, Tick, ctcpVars
<1>3. CASE SendPackets
  BY <1>3, SendPacketsGroups
<1>4. CASE (\E m \in Echoes : RecvAck(m)) \/ RecvError(Echoes)
  BY <1>4, RecvAckGroups, EchoesSent
<1> QED BY <1>1, <1>2, <1>3, <1>4 DEF Next, CtcpNext

LEMMA GroupInvariant == Spec => [](IInv /\ GroupInv /\ AheadInv)
<1>1. CtcpInit => GroupInv /\ AheadInv
  BY InitGroups
<1>2. IInv /\ GroupInv /\ AheadInv /\ [Next]_ctcpVars => GroupInv' /\ AheadInv'
  BY NextGroups
<1> QED BY <1>1, <1>2, InductiveInvariant, PTL DEF Spec

(* For trains of any length, and whatever comes back in whatever order, a  *)
(* group of packets is on MarkovianCC's map exactly if it was sent since   *)
(* init and no acknowledgement onACK was told of since has overtaken it.   *)
THEOREM HeldUntilOvertakenAlways == Spec => []HeldUntilOvertaken
<1>1. GroupInv => HeldUntilOvertaken
  <2> SUFFICES ASSUME GroupInv PROVE HeldUntilOvertaken
    OBVIOUS
  <2>1. PICK k \in Nat :
          /\ seq_num = k * TrainLength
          /\ cc.unacknowledged_packets = {g \in k - cc.num_pkts_sent .. k - 1 : ~Overtaken(g)}
    BY DEF GroupInv
  <2>2. seq_num \div TrainLength = k
    BY <2>1, GroupAt, CtcpAssumption
  <2> QED BY <2>1, <2>2 DEF HeldUntilOvertaken, SinceInit
<1> QED BY <1>1, GroupInvariant, PTL

(* Across late, repeated and lost acknowledgements and idle timeouts, the  *)
(* packets sent since init and beyond every acknowledgement that came are  *)
(* at most WindowFactor of the largest windows and a group.                *)
THEOREM OutstandingBoundedAlways == Spec => []OutstandingBounded
<1>1. IInv /\ AheadInv => OutstandingBounded
  <2> SUFFICES ASSUME IInv, AheadInv PROVE OutstandingBounded
    OBVIOUS
  <2> DEFINE start  == seq_num - TrainLength * cc.num_pkts_sent
             beyond == {q \in start .. seq_num - 1 : \A a \in arrived : a < q}
  <2>1. /\ seq_num \in Int /\ largest_ack \in Int /\ largest_ack <= seq_num
        /\ start \in Int /\ arrived \subseteq Nat
    BY CCFields, CtcpAssumption DEF IInv, TypeOK, FlowSane
  <2>2. PICK w \in WindowSizes \cup {NumProbe} :
          seq_num - largest_ack <= WindowFactor * w + TrainLength
    BY DEF AheadInv
  <2>3. beyond \subseteq largest_ack .. seq_num - 1
    <3>1. CASE largest_ack = start - 1
      <4>1. \A q \in beyond : q \in Int /\ q >= start /\ q <= seq_num - 1
        BY <2>1
      <4> HIDE DEF beyond, start
      <4> QED BY <2>1, <3>1, <4>1
    <3>2. CASE \E a \in arrived : largest_ack = a + 1
      <4>1. \A q \in beyond : q \in Int /\ q <= seq_num - 1 /\ \A a \in arrived : a < q
        BY <2>1
      <4> HIDE DEF beyond, start
      <4> QED BY <2>1, <3>2, <4>1
    <3> QED BY <3>1, <3>2 DEF AheadInv
  <2>4. /\ IsFiniteSet(largest_ack .. seq_num - 1)
        /\ Cardinality(largest_ack .. seq_num - 1) = seq_num - largest_ack
    <3>1. CASE largest_ack = seq_num
      <4>1. largest_ack .. seq_num - 1 = {}
        BY <2>1, <3>1
      <4> QED BY <2>1, <3>1, <4>1, FS_EmptySet
    <3>2. CASE largest_ack # seq_num
      BY <2>1, <3>2, FS_Interval
    <3> QED BY <3>1, <3>2
  <2> HIDE DEF beyond
  <2>5. Cardinality(beyond) <= seq_num - largest_ack
    BY <2>3, <2>4, FS_Subset
  <2>6. Cardinality(beyond) \in Nat
    BY <2>3, <2>4, FS_Subset, FS_CardinalityType
  <2>7. WindowFactor * w + TrainLength \in Nat
    BY CCAssumption, CtcpAssumption
  <2>8. Cardinality(beyond) <= WindowFactor * w + TrainLength
    BY <2>1, <2>2, <2>5, <2>6, <2>7
  <2> QED BY <2>8 DEF OutstandingBounded, beyond
<1> QED BY <1>1, GroupInvariant, PTL
=============================================================================
