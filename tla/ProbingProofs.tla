--------------------------- MODULE ProbingProofs ---------------------------
(***************************************************************************)
(* Proofs about the two programs that measure by echoes: the handshake of  *)
(* ctcp.hh and prober.cc.                                                  *)
(*                                                                         *)
(* Handshake.  Until the first handshake is made the network holds no      *)
(* header before the first send, and while the header was sent once, none  *)
(* that is older than last_send says (FirstInv).                           *)
(*                                                                         *)
(* Prober.  An echo that has come is not on its way any more, and a group  *)
(* has no echo before the first that makes it the current one.  The echoes *)
(* of the current group are either exactly the packets counted, in order   *)
(* (InOrder), or one of them was passed over and cannot come again, so     *)
(* that the group is never completed (Spoiled).                            *)
(***************************************************************************)
EXTENDS Probing, SequenceTheorems, TLAPS

(* The steps of the two programs, without the fairness, which no safety    *)
(* property needs.                                                         *)
ProbingSafety == ProbingInit /\ [][ProbingNext]_probingVars

LEMMA SpecSafety == ProbingSpec => ProbingSafety
  BY PTL DEF ProbingSpec, ProbingSafety
-----------------------------------------------------------------------------
(* The handshake.                                                          *)

LEMMA AgeCapType == AgeCap \in Nat /\ Resend \in 0 .. AgeCap /\ MinRTT \in 0 .. AgeCap
  BY HandshakeAssumption DEF AgeCap

(* Growing older keeps ages in range and in order. *)
LEMMA OlderProp ==
  ASSUME NEW a \in 0 .. AgeCap, NEW b \in 0 .. AgeCap
  PROVE  /\ Older(a) \in 0 .. AgeCap
         /\ a <= b => Older(a) <= Older(b)
  BY AgeCapType DEF Older

(* made counts no more handshakes than there are. *)
MadeBelow == pc # "flow" => made < NumFlows

LEMMA HandshakeTypeInit == Init => TypeOK /\ MadeBelow
<1> SUFFICES ASSUME Init PROVE TypeOK /\ MadeBelow
  OBVIOUS
<1>1. {last_send, waited, external_min_rtt} \subseteq 0 .. AgeCap
  BY AgeCapType DEF Init
<1>2. made \in 0 .. NumFlows /\ lost \in 0 .. MaxLost /\ net \subseteq 0 .. AgeCap
  BY HandshakeAssumption DEF Init
<1>3. {remote_known, first, multi_send, own_buf, failed} \subseteq BOOLEAN
  BY HandshakeAssumption DEF Init
<1>4. pc = "flow"
  BY DEF Init
<1> QED BY <1>1, <1>2, <1>3, <1>4 DEF TypeOK, MadeBelow

(* What Establish leaves. *)
LEMMA EstablishProp ==
  ASSUME TypeOK, MadeBelow, pc = "wait", Establish
  PROVE  /\ pc' = "flow" /\ made' = made + 1 /\ made' \in 0 .. NumFlows
         /\ external_min_rtt' \in {external_min_rtt, last_send}
         /\ external_min_rtt' \in 0 .. AgeCap
         /\ multi_send => external_min_rtt' = external_min_rtt
<1>1. pc' = "flow" /\ made' = made + 1
  BY DEF Establish
<1>2. made' \in 0 .. NumFlows
  BY <1>1, HandshakeAssumption DEF TypeOK, MadeBelow
<1>3. /\ external_min_rtt' \in {external_min_rtt, last_send}
      /\ multi_send => external_min_rtt' = external_min_rtt
  BY DEF Establish, set_min_rtt
<1>4. external_min_rtt' \in 0 .. AgeCap
  BY <1>3 DEF TypeOK
<1> QED BY <1>1, <1>2, <1>3, <1>4

LEMMA HandshakeTypeStep ==
  ASSUME TypeOK, MadeBelow, [Next]_vars
  PROVE  TypeOK' /\ MadeBelow'
<1>1. CASE Begin
  <2>1. {last_send', waited', external_min_rtt'} \subseteq 0 .. AgeCap
    BY <1>1, AgeCapType DEF Begin, TypeOK
  <2>2. {remote_known', first', multi_send', own_buf', failed'} \subseteq BOOLEAN
    BY <1>1 DEF Begin, TypeOK
  <2>3. pc' \in {"flow", "punch", "top", "wait"}
    BY <1>1 DEF Begin
  <2> QED BY <1>1, <2>1, <2>2, <2>3 DEF Begin, TypeOK, MadeBelow
<1>2. CASE Punched
  BY <1>2 DEF Punched, TypeOK, MadeBelow
<1>3. CASE Send
  <2>1. {last_send', waited', external_min_rtt'} \subseteq 0 .. AgeCap
    BY <1>3, AgeCapType DEF Send, TypeOK
  <2>2. {remote_known', first', multi_send', own_buf', failed'} \subseteq BOOLEAN
    BY <1>3 DEF Send, TypeOK
  <2>3. net' \subseteq 0 .. AgeCap
    <3>1. net' \subseteq net \cup {0}
      BY <1>3 DEF Send
    <3> QED BY <3>1, AgeCapType DEF TypeOK
  <2>4. lost' \in 0 .. MaxLost
    BY <1>3, HandshakeAssumption DEF Send, TypeOK
  <2> QED BY <1>3, <2>1, <2>2, <2>3, <2>4 DEF Send, TypeOK, MadeBelow
<1>4. CASE PollTimeout
  BY <1>4 DEF PollTimeout, TypeOK, MadeBelow
<1>5. CASE \E age \in net : RecvEcho(age)
  BY <1>5, EstablishProp DEF RecvEcho, TypeOK, MadeBelow
<1>6. CASE RecvOther
  BY <1>6 DEF RecvOther, TypeOK, MadeBelow
<1>7. CASE RecvError
  <2>1. CASE own_buf
    BY <1>7, <2>1, EstablishProp DEF RecvError, TypeOK, MadeBelow
  <2>2. CASE ~own_buf
    BY <1>7, <2>2 DEF RecvError, TypeOK, MadeBelow
  <2> QED BY <2>1, <2>2
<1>8. CASE Tick
  <2>1. last_send' \in 0 .. AgeCap /\ waited' \in 0 .. AgeCap
    BY <1>8, OlderProp DEF Tick, TypeOK
  <2>2. net' \subseteq 0 .. AgeCap
    BY <1>8, OlderProp DEF Tick, TypeOK
  <2> QED BY <1>8, <2>1, <2>2 DEF Tick, TypeOK, MadeBelow
<1>9. CASE UNCHANGED vars
  BY <1>9 DEF vars, TypeOK, MadeBelow
<1> QED BY <1>1, <1>2, <1>3, <1>4, <1>5, <1>6, <1>7, <1>8, <1>9 DEF Next

(* While the first handshake is being made: nothing is on its way before   *)
(* the first send, and after a single one nothing older than last_send.    *)
(* Once it is made, and nothing failed, the external RTT is unset or one   *)
(* the network can have shown.                                             *)
FirstInv ==
  ~failed =>
    /\ made = 0 => /\ external_min_rtt = 0
                   /\ pc = "flow" => first
                   /\ first => net = {}
                   /\ ~multi_send => \A age \in net : age <= last_send
    /\ made <= 1 => RightRTT

HandshakeInv == TypeOK /\ MadeBelow /\ FirstInv

LEMMA HandshakeInvInit == Init => HandshakeInv
<1> SUFFICES ASSUME Init PROVE HandshakeInv
  OBVIOUS
<1>1. FirstInv
  BY DEF Init, FirstInv, RightRTT
<1> QED BY <1>1, HandshakeTypeInit DEF HandshakeInv

LEMMA HandshakeInvStep ==
  ASSUME HandshakeInv, [Next]_vars
  PROVE  HandshakeInv'
<1>1. TypeOK' /\ MadeBelow'
  BY HandshakeTypeStep DEF HandshakeInv
<1>2. FirstInv'
  <2> SUFFICES ASSUME ~failed' PROVE FirstInv'
    BY DEF FirstInv
  <2>1. ~failed
    BY DEF Next, Begin, Punched, Send, PollTimeout, RecvEcho, RecvOther, RecvError, Tick, vars
  <2>2. /\ made = 0 => /\ external_min_rtt = 0
                       /\ pc = "flow" => first
                       /\ first => net = {}
                       /\ ~multi_send => \A age \in net : age <= last_send
        /\ made <= 1 => RightRTT
    BY <2>1 DEF HandshakeInv, FirstInv
  <2>3. /\ made \in Nat /\ net \subseteq 0 .. AgeCap
        /\ last_send \in 0 .. AgeCap /\ external_min_rtt \in 0 .. AgeCap
    BY HandshakeAssumption DEF HandshakeInv, TypeOK
  <2>4. CASE Begin
    BY <2>2, <2>3, <2>4 DEF Begin, FirstInv, RightRTT
  <2>5. CASE Punched \/ PollTimeout \/ RecvOther \/ UNCHANGED vars
    BY <2>1, <2>2, <2>5 DEF Punched, PollTimeout, RecvOther, vars, FirstInv, RightRTT
  <2>6. CASE Send
    <3>1. pc' = "wait" /\ UNCHANGED <<made, external_min_rtt, failed>>
      BY <2>6 DEF Send
    <3>2. CASE ResendDue
      <4>1. /\ first' = FALSE /\ last_send' = 0 /\ net' \subseteq net \cup {0}
            /\ ~multi_send' => ~multi_send /\ first
        BY <2>6, <3>2 DEF Send
      <4>2. made = 0 /\ ~multi_send' => \A age \in net' : age <= last_send'
        BY <2>2, <4>1
      <4> QED BY <2>1, <2>2, <3>1, <4>1, <4>2 DEF FirstInv, RightRTT
    <3>3. CASE ~ResendDue
      BY <2>1, <2>2, <2>6, <3>1, <3>3 DEF Send, FirstInv, RightRTT
    <3> QED BY <3>2, <3>3
  <2>7. CASE \E age \in net : RecvEcho(age)
    <3>1. PICK age \in net : RecvEcho(age)
      BY <2>7
    <3>2. /\ age >= MinRTT /\ made' = made + 1
          /\ external_min_rtt' \in {external_min_rtt, last_send}
          /\ multi_send => external_min_rtt' = external_min_rtt
          /\ UNCHANGED <<first, multi_send, last_send, net>>
      BY <3>1, EstablishProp DEF RecvEcho, HandshakeInv
    <3>3. made' # 0 /\ (made' <= 1 => made = 0)
      BY <2>3, <3>2
    <3>4. made = 0 /\ ~multi_send => last_send >= MinRTT
      BY <2>2, <2>3, <3>2, HandshakeAssumption
    <3> QED BY <2>2, <3>2, <3>3, <3>4 DEF FirstInv, RightRTT
  <2>8. CASE RecvError
    BY <2>8 DEF RecvError
  <2>9. CASE Tick
    <3>1. /\ last_send' = Older(last_send) /\ net' = {Older(a) : a \in net}
          /\ UNCHANGED <<pc, made, first, multi_send, external_min_rtt>>
      BY <2>9 DEF Tick
    <3>2. ASSUME made = 0, ~multi_send, NEW age \in net'
          PROVE  age <= last_send'
      <4>1. PICK a \in net : age = Older(a)
        BY <3>1
      <4>2. a <= last_send
        BY <2>2, <3>2
      <4> QED BY <2>3, <3>1, <4>1, <4>2, OlderProp
    <3> QED BY <2>1, <2>2, <3>1, <3>2 DEF FirstInv, RightRTT
  <2> QED BY <2>4, <2>5, <2>6, <2>7, <2>8, <2>9 DEF Next
<1> QED BY <1>1, <1>2 DEF HandshakeInv

LEMMA HandshakeInductive == ProbingSafety => []HandshakeInv
<1>1. ProbingInit => HandshakeInv
  BY HandshakeInvInit DEF ProbingInit
<1>2. HandshakeInv /\ [ProbingNext]_probingVars => HandshakeInv'
  <2> SUFFICES ASSUME HandshakeInv, [ProbingNext]_probingVars PROVE HandshakeInv'
    OBVIOUS
  <2>1. [Next]_vars
    BY DEF ProbingNext, probingVars
  <2> QED BY <2>1, HandshakeInvStep
<1> QED BY <1>1, <1>2, PTL DEF ProbingSafety

(* The handshake's variables keep the types of tcp_handshake; made counts  *)
(* no more handshakes than flows.                                          *)
THEOREM HandshakeTypesHold == ProbingSpec => []TypeOK
<1>1. HandshakeInv => TypeOK
  BY DEF HandshakeInv
<1> QED BY <1>1, SpecSafety, HandshakeInductive, PTL

(* Whatever was lost and repeated, the external minimum RTT that the first *)
(* handshake of a program leaves is not below the network's round trip, if *)
(* receivedata never failed.  After the second, made can be larger than 1  *)
(* and an echo of the first handshake can have been taken for the second.  *)
THEOREM FirstHandshakeRight == ProbingSpec => [](made <= 1 => RightRTT)
<1>1. HandshakeInv => (made <= 1 => RightRTT)
  BY DEF HandshakeInv, FirstInv, RightRTT
<1> QED BY <1>1, SpecSafety, HandshakeInductive, PTL
-----------------------------------------------------------------------------
(* The prober.                                                             *)

Echo == [seq : Nat, time : Nat]

GroupNumbers == 0 .. MaxGroups - 1

(* The echoes e of a group are its first n packets, in order. *)
InOrder(e, n) == Len(e) = n /\ \A i \in 1 .. n : e[i].seq % GroupSize = i - 1

(* The accumulator is the time from the first to the last of them. *)
Spans(e, n, acc) == acc = e[n].time - e[1].time

(* One of them was passed over: n packets count, and it is not below n. *)
Spoiled(e, n) == \E i \in 1 .. Len(e) : e[i].seq % GroupSize >= n

ProberTypes ==
  /\ groups \in 0 .. MaxGroups /\ cur_time \in Nat
  /\ on_way \subseteq 0 .. GroupSize * groups - 1
  /\ echoed \in [GroupNumbers -> Seq(Echo)]
  /\ cur_ack_group_number \in -1 .. MaxGroups - 1
  /\ latest_ack_time_in_group \in Int /\ link_rate_measurement_accumulator \in Int
  /\ num_packets_received_in_current_group \in Int

(* An echo that has come was sent, and does not come again. *)
EchoedOnce ==
  \A g \in GroupNumbers : \A i \in 1 .. Len(echoed[g]) :
    /\ echoed[g][i].seq \div GroupSize = g
    /\ echoed[g][i].seq < GroupSize * groups
    /\ echoed[g][i].seq \notin on_way

(* Groups after the current one have no echo yet. *)
LaterUntouched == \A g \in GroupNumbers : g > cur_ack_group_number => echoed[g] = <<>>

CurrentGroup ==
  cur_ack_group_number # -1 =>
    LET e == echoed[cur_ack_group_number]
        n == num_packets_received_in_current_group
    IN  /\ n \in 1 .. GroupSize
        /\ \/ /\ InOrder(e, n)
              /\ Spans(e, n, link_rate_measurement_accumulator)
              /\ latest_ack_time_in_group = e[n].time
           \/ Spoiled(e, n)

MeasuredWhole ==
  \A m \in measured :
    /\ m[1] \in GroupNumbers
    /\ InOrder(echoed[m[1]], GroupSize)
    /\ Spans(echoed[m[1]], GroupSize, m[2])

ProberInv ==
  ~broken => ProberTypes /\ EchoedOnce /\ LaterUntouched /\ CurrentGroup /\ MeasuredWhole

(* A sequence number is GroupSize times its group plus its place in it. *)
LEMMA DivMod ==
  ASSUME NEW s \in Nat
  PROVE  /\ s \div GroupSize \in Nat
         /\ s % GroupSize \in 0 .. GroupSize - 1
         /\ s = GroupSize * (s \div GroupSize) + (s % GroupSize)
<1>1. GroupSize \in Nat \ {0}
  BY ProberAssumption
<1>2. s \div GroupSize \in Int /\ s % GroupSize \in 0 .. GroupSize - 1
  BY <1>1
<1>3. s = GroupSize * (s \div GroupSize) + (s % GroupSize)
  BY <1>1
<1>4. s \div GroupSize >= 0
  BY <1>1
<1> QED BY <1>2, <1>3, <1>4

(* A packet of the first n groups is in one of them. *)
LEMMA DivBelow ==
  ASSUME NEW s \in Nat, NEW n \in Nat, s < GroupSize * n
  PROVE  s \div GroupSize < n
<1> DEFINE q == s \div GroupSize
<1>1. GroupSize \in Nat \ {0}
  BY ProberAssumption
<1>2. q \in Nat /\ GroupSize * q <= s
  <2>1. q \in Nat /\ s % GroupSize \in Nat /\ s = GroupSize * q + (s % GroupSize)
    BY DivMod, <1>1
  <2>2. GroupSize * q \in Nat
    BY <1>1, <2>1
  <2> HIDE DEF q
  <2> QED BY <2>1, <2>2
<1>3. ASSUME q >= n PROVE FALSE
  <2> HIDE DEF q
  <2>1. GroupSize * q >= GroupSize * n
    BY <1>1, <1>2, <1>3
  <2> QED BY <1>1, <1>2, <2>1
<1> QED BY <1>2, <1>3

(* Two packets with the same group and place are one. *)
LEMMA SamePacket ==
  ASSUME NEW s \in Nat, NEW t \in Nat,
         s \div GroupSize = t \div GroupSize, s % GroupSize = t % GroupSize
  PROVE  s = t
  BY DivMod

(* A group's echoes after one more. *)
LEMMA OneMoreEcho ==
  ASSUME NEW e \in Seq(Echo), NEW x \in Echo
  PROVE  /\ Append(e, x) \in Seq(Echo)
         /\ Len(e) \in Nat /\ Len(Append(e, x)) = Len(e) + 1
         /\ \A i \in 1 .. Len(e) : Append(e, x)[i] = e[i] /\ e[i].seq \in Nat /\ e[i].time \in Nat
         /\ Append(e, x)[Len(e) + 1] = x
<1>1. /\ Append(e, x) \in Seq(Echo) /\ Len(Append(e, x)) = Len(e) + 1
      /\ \A i \in 1 .. Len(e) : Append(e, x)[i] = e[i]
      /\ Append(e, x)[Len(e) + 1] = x
  BY AppendProperties
<1>2. Len(e) \in Nat /\ \A i \in 1 .. Len(e) : e[i] \in Echo
  BY LenProperties, ElementOfSeq
<1> QED BY <1>1, <1>2 DEF Echo

LEMMA ProberInvInit == ProberInit => ProberInv
<1> SUFFICES ASSUME ProberInit PROVE ProberInv
  OBVIOUS
<1>1. ProberTypes
  <2>1. 0 .. GroupSize * groups - 1 = {} /\ groups \in 0 .. MaxGroups
    BY ProberAssumption DEF ProberInit
  <2>2. echoed \in [GroupNumbers -> Seq(Echo)]
    BY EmptySeq DEF ProberInit, GroupNumbers
  <2>3. cur_ack_group_number \in -1 .. MaxGroups - 1
    BY ProberAssumption DEF ProberInit
  <2> QED BY <2>1, <2>2, <2>3 DEF ProberInit, ProberTypes
<1>2. EchoedOnce /\ LaterUntouched
  <2>1. \A g \in GroupNumbers : echoed[g] = <<>> /\ Len(echoed[g]) = 0
    BY EmptySeq DEF ProberInit, GroupNumbers
  <2> QED BY <2>1 DEF EchoedOnce, LaterUntouched
<1>3. CurrentGroup /\ MeasuredWhole
  BY DEF ProberInit, CurrentGroup, MeasuredWhole
<1> QED BY <1>1, <1>2, <1>3 DEF ProberInv

(* A new group's packets are new. *)
LEMMA SendGroupInv ==
  ASSUME ProberInv, SendGroup
  PROVE  ProberInv'
<1> SUFFICES ASSUME ~broken
             PROVE  ProberTypes' /\ EchoedOnce' /\ LaterUntouched' /\ CurrentGroup'
                      /\ MeasuredWhole'
  BY DEF ProberInv, SendGroup
<1> USE DEF ProberInv
<1>1. /\ groups' = groups + 1 /\ groups < MaxGroups
      /\ UNCHANGED <<cur_time, measureVars, echoed>>
  BY DEF SendGroup
<1>2. PICK arriving \in SUBSET (GroupSize * groups .. GroupSize * groups + GroupSize - 1) :
        on_way' = on_way \cup arriving
  BY DEF SendGroup
<1>3. /\ groups \in Nat /\ MaxGroups \in Nat /\ GroupSize \in Nat
      /\ GroupSize * groups \in Nat /\ GroupSize * groups' = GroupSize * groups + GroupSize
  <2>1. groups \in Nat /\ MaxGroups \in Nat /\ GroupSize \in Nat
    BY ProberAssumption DEF ProberTypes
  <2>2. GroupSize * groups \in Nat /\ GroupSize * (groups + 1) = GroupSize * groups + GroupSize
    BY <2>1
  <2> QED BY <1>1, <2>1, <2>2
<1>4. ProberTypes'
  <2>1. on_way' \subseteq 0 .. GroupSize * groups' - 1
    <3> SUFFICES ASSUME NEW q \in on_way' PROVE q \in 0 .. GroupSize * groups' - 1
      OBVIOUS
    <3>1. \/ q \in 0 .. GroupSize * groups - 1
          \/ q \in GroupSize * groups .. GroupSize * groups + GroupSize - 1
      BY <1>2 DEF ProberTypes
    <3> QED BY <1>3, <3>1
  <2>2. groups' \in 0 .. MaxGroups
    BY <1>1, <1>3
  <2> QED BY <1>1, <2>1, <2>2 DEF ProberTypes, measureVars
<1>5. EchoedOnce'
  <2> SUFFICES ASSUME NEW g \in GroupNumbers, NEW i \in 1 .. Len(echoed[g])
               PROVE  /\ echoed[g][i].seq \div GroupSize = g
                      /\ echoed[g][i].seq < GroupSize * groups'
                      /\ echoed[g][i].seq \notin on_way'
    BY <1>1 DEF EchoedOnce
  <2> DEFINE q == echoed[g][i].seq
  <2>1. q \div GroupSize = g /\ q < GroupSize * groups /\ q \notin on_way
    BY DEF EchoedOnce
  <2>2. q \in Nat
    <3>1. echoed[g] \in Seq(Echo)
      BY DEF ProberTypes
    <3>2. echoed[g][i] \in Echo
      BY <3>1, ElementOfSeq
    <3> QED BY <3>2 DEF Echo
  <2> HIDE DEF q
  <2>3. q < GroupSize * groups' /\ q \notin on_way'
    BY <1>2, <1>3, <2>1, <2>2
  <2> QED BY <2>1, <2>3 DEF q
<1>6. LaterUntouched' /\ CurrentGroup' /\ MeasuredWhole'
  BY <1>1 DEF LaterUntouched, CurrentGroup, MeasuredWhole, measureVars
<1> QED BY <1>4, <1>5, <1>6

(* An echo: in turn, of a new group, or passed over. *)
LEMMA RecvProbeInv ==
  ASSUME ProberInv, NEW seq \in on_way, RecvProbe(seq)
  PROVE  ProberInv'
<1> SUFFICES ASSUME ~broken
             PROVE  ProberTypes' /\ EchoedOnce' /\ LaterUntouched' /\ CurrentGroup'
                      /\ MeasuredWhole'
  BY DEF ProberInv, RecvProbe
<1> USE DEF ProberInv
<1> DEFINE g  == seq \div GroupSize
           r  == seq % GroupSize
           x  == [seq |-> seq, time |-> cur_time]
           e  == echoed[g]
           e1 == Append(e, x)
           n  == num_packets_received_in_current_group
           cur == cur_ack_group_number
<1>1. /\ on_way' = on_way \ {seq}
      /\ echoed' = [echoed EXCEPT ![g] = e1]
      /\ UNCHANGED <<groups, cur_time>>
      /\ Measure(seq)
  BY DEF RecvProbe
<1>2. /\ seq \in Nat /\ seq < GroupSize * groups
      /\ groups \in Nat /\ groups <= MaxGroups /\ MaxGroups \in Nat
      /\ GroupSize \in Nat /\ GroupSize >= 2 /\ GroupSize * groups \in Nat
      /\ cur_time \in Nat
  BY ProberAssumption DEF ProberTypes
<1>3. g \in GroupNumbers /\ g \in Nat /\ r \in 0 .. GroupSize - 1
  <2>1. g \in Nat /\ r \in 0 .. GroupSize - 1
    BY <1>2, DivMod
  <2>2. g < groups
    BY <1>2, DivBelow
  <2> HIDE DEF g, r
  <2> QED BY <1>2, <2>1, <2>2 DEF GroupNumbers
<1>4. e \in Seq(Echo) /\ x \in Echo
  BY <1>2, <1>3 DEF ProberTypes, Echo
<1>5. /\ e1 \in Seq(Echo) /\ Len(e) \in Nat /\ Len(e1) = Len(e) + 1
      /\ \A i \in 1 .. Len(e) : e1[i] = e[i] /\ e[i].seq \in Nat /\ e[i].time \in Nat
      /\ e1[Len(e) + 1] = x
  BY <1>4, OneMoreEcho
<1>6. echoed'[g] = e1 /\ \A h \in GroupNumbers \ {g} : echoed'[h] = echoed[h]
  BY <1>1, <1>3 DEF ProberTypes
(* No echo of the group that came before has this one's place. *)
<1>7. \A i \in 1 .. Len(e) : e[i].seq % GroupSize # r
  <2> SUFFICES ASSUME NEW i \in 1 .. Len(e), e[i].seq % GroupSize = r PROVE FALSE
    OBVIOUS
  <2>1. e[i].seq \div GroupSize = g /\ e[i].seq \notin on_way
    BY <1>3 DEF EchoedOnce
  <2>2. e[i].seq = seq
    BY <1>2, <1>5, <2>1, SamePacket
  <2> QED BY <2>1, <2>2
<1>8. ~InOrder(e, GroupSize)
  <2> SUFFICES ASSUME InOrder(e, GroupSize) PROVE FALSE
    OBVIOUS
  <2> HIDE DEF g, r, e
  <2>1. r + 1 \in 1 .. GroupSize
    BY <1>2, <1>3
  <2>2. r + 1 \in 1 .. Len(e) /\ e[r + 1].seq % GroupSize = (r + 1) - 1
    BY <2>1 DEF InOrder
  <2> QED BY <1>3, <1>7, <2>2
<1>9. EchoedOnce'
  <2> SUFFICES ASSUME NEW h \in GroupNumbers, NEW i \in 1 .. Len(echoed'[h])
               PROVE  /\ echoed'[h][i].seq \div GroupSize = h
                      /\ echoed'[h][i].seq < GroupSize * groups
                      /\ echoed'[h][i].seq \notin on_way'
    BY <1>1 DEF EchoedOnce
  <2>1. CASE h = g /\ i = Len(e) + 1
    BY <1>1, <1>2, <1>5, <1>6, <2>1
  <2>2. CASE ~(h = g /\ i = Len(e) + 1)
    <3>1. i \in 1 .. Len(echoed[h]) /\ echoed'[h][i] = echoed[h][i]
      BY <1>5, <1>6, <2>2
    <3> QED BY <1>1, <3>1 DEF EchoedOnce
  <2> QED BY <2>1, <2>2
(* A whole group gets no further echo. *)
<1>10. \A m \in measured : m[1] # g /\ echoed'[m[1]] = echoed[m[1]]
  BY <1>6, <1>8 DEF MeasuredWhole
<1> HIDE DEF g, r, x, e, e1, n, cur
<1>11. CASE IsNextOfGroup(seq)
  <2>1. g = cur /\ r = n
    BY <1>11 DEF IsNextOfGroup, g, r, n, cur
  <2>2. /\ num_packets_received_in_current_group' = n + 1
        /\ link_rate_measurement_accumulator' =
             link_rate_measurement_accumulator + (cur_time - latest_ack_time_in_group)
        /\ latest_ack_time_in_group' = cur_time
        /\ measured' = IF n + 1 = GroupSize
                         THEN measured \cup {<<g, link_rate_measurement_accumulator'>>}
                         ELSE measured
        /\ cur_ack_group_number' = cur
    BY <1>1, <1>11 DEF Measure, g, n, cur
  <2>3. /\ n \in 1 .. GroupSize
        /\ \/ /\ InOrder(e, n) /\ Spans(e, n, link_rate_measurement_accumulator)
              /\ latest_ack_time_in_group = e[n].time
           \/ Spoiled(e, n)
    BY <1>3, <2>1 DEF CurrentGroup, e, n, cur
  <2>4. \/ /\ InOrder(e1, n + 1) /\ Spans(e1, n + 1, link_rate_measurement_accumulator')
           /\ latest_ack_time_in_group' = e1[n + 1].time
        \/ Spoiled(e1, n + 1) /\ n + 1 < GroupSize
    <3>1. CASE /\ InOrder(e, n) /\ Spans(e, n, link_rate_measurement_accumulator)
               /\ latest_ack_time_in_group = e[n].time
      <4>1. Len(e) = n /\ e1[n + 1] = x /\ e1[1] = e[1]
        BY <1>5, <2>3, <3>1 DEF InOrder
      <4>2. x.seq % GroupSize = n /\ x.time = cur_time
        BY <2>1 DEF x, r
      <4>3. InOrder(e1, n + 1)
        BY <1>5, <2>3, <3>1, <4>1, <4>2 DEF InOrder
      <4>4. e[1].time \in Nat /\ e[n].time \in Nat
        BY <1>5, <2>3, <4>1
      <4>5. Spans(e1, n + 1, link_rate_measurement_accumulator')
        BY <1>2, <2>2, <3>1, <4>1, <4>2, <4>4 DEF Spans
      <4> QED BY <2>2, <4>1, <4>2, <4>3, <4>5
    <3>2. CASE Spoiled(e, n)
      <4>1. PICK i \in 1 .. Len(e) : e[i].seq % GroupSize >= n
        BY <3>2 DEF Spoiled
      <4>2. e[i].seq % GroupSize \in 0 .. GroupSize - 1 /\ e[i].seq % GroupSize # n
        BY <1>5, <1>7, <2>1, DivMod
      <4>3. e[i].seq % GroupSize >= n + 1 /\ n + 1 < GroupSize
        BY <1>2, <2>3, <4>1, <4>2
      <4>4. i \in 1 .. Len(e1) /\ e1[i] = e[i]
        BY <1>5
      <4> QED BY <4>3, <4>4 DEF Spoiled
    <3> QED BY <2>3, <3>1, <3>2
  <2>5. n + 1 \in 1 .. GroupSize
    BY <1>2, <1>3, <2>1, <2>3
  <2>6. CurrentGroup'
    BY <1>6, <2>1, <2>2, <2>4, <2>5 DEF CurrentGroup
  <2>7. MeasuredWhole'
    <3>1. ASSUME n + 1 = GroupSize
          PROVE  /\ InOrder(echoed'[g], GroupSize)
                 /\ Spans(echoed'[g], GroupSize, link_rate_measurement_accumulator')
      BY <1>2, <1>6, <2>4, <3>1
    <3> QED BY <1>3, <1>10, <2>2, <3>1 DEF MeasuredWhole
  <2>8. LaterUntouched'
    BY <1>3, <1>6, <2>1, <2>2 DEF LaterUntouched, GroupNumbers, cur
  <2>9. ProberTypes'
    <3>1. link_rate_measurement_accumulator' \in Int
      BY <1>2, <2>2 DEF ProberTypes
    <3>2. echoed' \in [GroupNumbers -> Seq(Echo)]
      BY <1>1, <1>3, <1>5 DEF ProberTypes
    <3>3. n + 1 \in Int /\ cur_time \in Int
      BY <1>2, <2>5
    <3> QED BY <1>1, <1>2, <2>2, <3>1, <3>2, <3>3 DEF ProberTypes, cur
  <2> QED BY <1>9, <2>6, <2>7, <2>8, <2>9
<1>12. CASE ~IsNextOfGroup(seq) /\ g > cur
  <2>1. /\ cur_ack_group_number' = g
        /\ num_packets_received_in_current_group' = 1
        /\ link_rate_measurement_accumulator' = 0
        /\ latest_ack_time_in_group' = cur_time
        /\ measured' = measured
    BY <1>1, <1>12 DEF Measure, g, cur
  <2>2. e = <<>> /\ Len(e) = 0
    BY <1>3, <1>12, EmptySeq DEF LaterUntouched, e, cur
  <2>3. Len(e1) = 1 /\ e1[1] = x /\ x.time = cur_time /\ x.seq % GroupSize = r
    BY <1>5, <2>2 DEF x, r
  <2>4. r = 0 => InOrder(e1, 1) /\ Spans(e1, 1, 0)
    BY <1>2, <2>3 DEF InOrder, Spans
  <2>5. r # 0 => Spoiled(e1, 1)
    BY <1>3, <2>3 DEF Spoiled
  <2>6. CurrentGroup'
    BY <1>2, <1>6, <2>1, <2>3, <2>4, <2>5 DEF CurrentGroup
  <2>7. MeasuredWhole'
    BY <1>10, <2>1 DEF MeasuredWhole
  <2>8. LaterUntouched'
    BY <1>3, <1>6, <1>12, <2>1 DEF LaterUntouched, GroupNumbers, cur, ProberTypes
  <2>9. ProberTypes'
    <3>1. echoed' \in [GroupNumbers -> Seq(Echo)]
      BY <1>1, <1>3, <1>5 DEF ProberTypes
    <3>2. g \in -1 .. MaxGroups - 1
      BY <1>2, <1>3 DEF GroupNumbers
    <3> QED BY <1>1, <1>2, <2>1, <3>1, <3>2 DEF ProberTypes
  <2> QED BY <1>9, <2>6, <2>7, <2>8, <2>9
<1>13. CASE ~IsNextOfGroup(seq) /\ ~(g > cur)
  <2>1. UNCHANGED measureVars
    BY <1>1, <1>13 DEF Measure, g, cur
  <2>2. cur \in Int /\ cur # -1 /\ g <= cur
    BY <1>3, <1>13 DEF ProberTypes, cur
  <2>3. CurrentGroup'
    <3>1. CASE g # cur
      <4>1. echoed'[cur] = echoed[cur]
        BY <1>6, <2>2, <3>1 DEF GroupNumbers, ProberTypes, cur
      <4> QED BY <2>1, <4>1 DEF CurrentGroup, measureVars, cur
    <3>2. CASE g = cur
      <4>1. r # n
        BY <1>13, <3>2 DEF IsNextOfGroup, g, r, n, cur
      <4>2. /\ n \in 1 .. GroupSize
            /\ \/ InOrder(e, n)
               \/ Spoiled(e, n)
        BY <2>2, <3>2 DEF CurrentGroup, e, n, cur
      <4>3. InOrder(e, n) => r > n
        <5> SUFFICES ASSUME InOrder(e, n), r < n PROVE FALSE
          BY <1>3, <4>1, <4>2
        <5>1. r + 1 \in 1 .. n
          BY <1>3, <4>2
        <5>2. r + 1 \in 1 .. Len(e) /\ e[r + 1].seq % GroupSize = (r + 1) - 1
          BY <5>1 DEF InOrder
        <5> QED BY <1>3, <1>7, <5>2
      <4>4. Spoiled(e1, n)
        <5>1. CASE InOrder(e, n)
          <6>1. e1[Len(e1)] = x /\ Len(e1) \in 1 .. Len(e1) /\ x.seq % GroupSize = r
            BY <1>5 DEF x, r
          <6> QED BY <1>3, <4>2, <4>3, <5>1, <6>1 DEF Spoiled
        <5>2. CASE Spoiled(e, n)
          <6>1. PICK i \in 1 .. Len(e) : e[i].seq % GroupSize >= n
            BY <5>2 DEF Spoiled
          <6> QED BY <1>5, <6>1 DEF Spoiled
        <5> QED BY <4>2, <5>1, <5>2
      <4>5. cur_ack_group_number' = g /\ num_packets_received_in_current_group' = n
        BY <2>1, <3>2 DEF measureVars, n, cur
      <4> QED BY <1>6, <4>2, <4>4, <4>5 DEF CurrentGroup
    <3> QED BY <3>1, <3>2
  <2>4. MeasuredWhole'
    BY <1>10, <2>1 DEF MeasuredWhole, measureVars
  <2>5. LaterUntouched'
    BY <1>6, <2>1, <2>2 DEF LaterUntouched, measureVars, GroupNumbers, cur
  <2>6. ProberTypes'
    <3>1. echoed' \in [GroupNumbers -> Seq(Echo)]
      BY <1>1, <1>3, <1>5 DEF ProberTypes
    <3> QED BY <1>1, <2>1, <3>1 DEF ProberTypes, measureVars
  <2> QED BY <1>9, <2>3, <2>4, <2>5, <2>6
<1> QED BY <1>11, <1>12, <1>13

LEMMA ProberInvStep ==
  ASSUME ProberInv, [ProberNext]_proberVars
  PROVE  ProberInv'
<1>1. CASE SendGroup
  BY <1>1, SendGroupInv
<1>2. CASE \E seq \in on_way : RecvProbe(seq)
  BY <1>2, RecvProbeInv
<1>3. CASE RecvForeign
  BY <1>3 DEF RecvForeign, ProberInv, ProberTypes, EchoedOnce, LaterUntouched, CurrentGroup,
              MeasuredWhole, measureVars
<1>4. CASE RecvFailed
  BY <1>4 DEF RecvFailed, ProberInv
<1>5. CASE ProbeTick
  <2>1. ~broken => ProberTypes'
    BY <1>5 DEF ProbeTick, ProberInv, ProberTypes, measureVars
  <2>2. ~broken => EchoedOnce' /\ LaterUntouched' /\ CurrentGroup' /\ MeasuredWhole'
    BY <1>5 DEF ProbeTick, ProberInv, EchoedOnce, LaterUntouched, CurrentGroup,
                MeasuredWhole, measureVars
  <2> QED BY <1>5, <2>1, <2>2 DEF ProbeTick, ProberInv
<1>6. CASE UNCHANGED proberVars
  BY <1>6 DEF proberVars, ProberInv, ProberTypes, EchoedOnce, LaterUntouched, CurrentGroup,
              MeasuredWhole, measureVars
<1> QED BY <1>1, <1>2, <1>3, <1>4, <1>5, <1>6 DEF ProberNext

LEMMA ProberInductive == ProbingSafety => []ProberInv
<1>1. ProbingInit => ProberInv
  BY ProberInvInit DEF ProbingInit
<1>2. ProberInv /\ [ProbingNext]_probingVars => ProberInv'
  <2> SUFFICES ASSUME ProberInv, [ProbingNext]_probingVars PROVE ProberInv'
    OBVIOUS
  <2>1. [ProberNext]_proberVars
    BY DEF ProbingNext, probingVars
  <2> QED BY <2>1, ProberInvStep
<1> QED BY <1>1, <1>2, PTL DEF ProbingSafety

(* A rate that prober.cc logs is that of a whole group: its packets came   *)
(* from the first to the last in order, and the time is that between       *)
(* those two; whatever was lost, reordered or not for this program, if     *)
(* receivedata never failed.                                               *)
THEOREM MeasuresWholeGroupsAlways == ProbingSpec => []MeasuresWholeGroups
<1>1. ProberInv => MeasuresWholeGroups
  <2> SUFFICES ASSUME ProberInv, ~broken, NEW m \in measured
               PROVE  LET e == echoed[m[1]]
                      IN  /\ [i \in DOMAIN e |-> e[i].seq % GroupSize]
                               = [i \in 1 .. GroupSize |-> i - 1]
                          /\ m[2] = e[Len(e)].time - e[1].time
    BY DEF MeasuresWholeGroups
  <2> DEFINE e == echoed[m[1]]
  <2>1. m[1] \in GroupNumbers /\ InOrder(e, GroupSize) /\ Spans(e, GroupSize, m[2])
    BY DEF ProberInv, MeasuredWhole
  <2>2. e \in Seq(Echo)
    BY <2>1 DEF ProberInv, ProberTypes
  <2>3. DOMAIN e = 1 .. GroupSize /\ Len(e) = GroupSize
    BY <2>1, <2>2, LenProperties DEF InOrder
  <2>4. \A i \in 1 .. GroupSize : e[i].seq % GroupSize = i - 1
    BY <2>1 DEF InOrder
  <2> QED BY <2>1, <2>3, <2>4 DEF Spans
<1> QED BY <1>1, SpecSafety, ProberInductive, PTL
=============================================================================
