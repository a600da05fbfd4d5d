------------------------------- MODULE Prober -------------------------------
(***************************************************************************)
(* prober.cc: groups of packets are sent back to back, copa_recv echoes    *)
(* them, and the times between the echoes of a group measure the rate of   *)
(* the link.  A group is followed by the next when as many datagrams have  *)
(* come, whatever they are.                                                *)
(*                                                                         *)
(* The network loses and reorders; one that also duplicates can make a     *)
(* group look complete that is not, as a failed receive does, which leaves *)
(* the datagram before in the buffer.                                      *)
(***************************************************************************)
EXTENDS Integers, Sequences

CONSTANTS
  GroupSize,  \* num_packets_per_link_rate_measurement: 30
  MaxGroups,  \* bound: groups sent
  ProbeTime,  \* bound: of the clock
  MaxForeign  \* bound: datagrams for other programs or flows

ASSUME ProberAssumption ==
  GroupSize \in Nat \ {0, 1} /\ {MaxGroups, ProbeTime, MaxForeign} \subseteq Nat

VARIABLES
  groups,    \* seq_num: groups sent
  to_come,   \* datagrams until the next group
  buf,       \* the sequence number in buf, NotOwn in another's datagram
  on_way,    \* the echoes in the network
  cur_time,
  cur_ack_group_number, num_packets_received_in_current_group,
  link_rate_measurement_accumulator, latest_ack_time_in_group,
  measured,  \* history: the accumulators that became a rate, with their groups
  echoed,    \* history: the echoes received of each group, with their times
  foreign,   \* history: the datagrams of others
  broken     \* history: receivedata has returned -1

measureVars == <<cur_ack_group_number, num_packets_received_in_current_group,
                 link_rate_measurement_accumulator, latest_ack_time_in_group, measured>>
proberVars == <<groups, to_come, buf, on_way, cur_time, measureVars, echoed, foreign, broken>>

(* In buf: a header with another src_id or flow_id. *)
NotOwn == -1

ProberInit ==
  /\ groups = 0 /\ to_come = 0 /\ buf = 0
  /\ on_way = {} /\ cur_time = 0
  /\ cur_ack_group_number = -1 /\ num_packets_received_in_current_group = -1
  /\ link_rate_measurement_accumulator = -1 /\ latest_ack_time_in_group = -1
  /\ measured = {} /\ foreign = 0 /\ broken = FALSE
  /\ echoed = [g \in 0 .. MaxGroups - 1 |-> <<>>]

SendGroup ==
  /\ to_come = 0 /\ groups < MaxGroups
  /\ LET group == GroupSize * groups .. GroupSize * groups + GroupSize - 1
     IN  \E arriving \in SUBSET group : on_way' = on_way \cup arriving
  /\ groups' = groups + 1
  /\ to_come' = GroupSize
  /\ buf' = GroupSize * groups + GroupSize - 1
  /\ UNCHANGED <<cur_time, measureVars, echoed, foreign, broken>>

(* Mutant: any packet of the group counts as the next. *)
IsAnyOfGroup(seq) == seq \div GroupSize = cur_ack_group_number

(* "in case of reordering, the measurement is cancelled": only the next    *)
(* packet of the group counts.                                             *)
IsNextOfGroup(seq) ==
  /\ seq \div GroupSize = cur_ack_group_number
  /\ seq % GroupSize = num_packets_received_in_current_group

(* An echo of this program. *)
Measure(seq) ==
  LET group == seq \div GroupSize
  IN  IF IsNextOfGroup(seq)
        THEN /\ num_packets_received_in_current_group' =
                  num_packets_received_in_current_group + 1
             /\ link_rate_measurement_accumulator' =
                  link_rate_measurement_accumulator + (cur_time - latest_ack_time_in_group)
             /\ latest_ack_time_in_group' = cur_time
             /\ measured' = IF num_packets_received_in_current_group' = GroupSize
                              THEN measured \cup {<<group, link_rate_measurement_accumulator'>>}
                              ELSE measured
             /\ UNCHANGED cur_ack_group_number
      ELSE IF group > cur_ack_group_number
        THEN /\ cur_ack_group_number' = group
             /\ num_packets_received_in_current_group' = 1
             /\ link_rate_measurement_accumulator' = 0
             /\ latest_ack_time_in_group' = cur_time
             /\ UNCHANGED measured
      ELSE UNCHANGED measureVars

(* A datagram, or an error, ends one round of the loop; without one it     *)
(* waits for ever.                                                         *)
RecvProbe(seq) ==
  /\ to_come > 0
  /\ on_way' = on_way \ {seq}
  /\ buf' = seq
  /\ Measure(seq)
  /\ echoed' = [echoed EXCEPT ![seq \div GroupSize] =
                   Append(@, [seq |-> seq, time |-> cur_time])]
  /\ to_come' = to_come - 1
  /\ UNCHANGED <<groups, cur_time, foreign, broken>>

RecvForeign ==
  /\ to_come > 0 /\ foreign < MaxForeign
  /\ foreign' = foreign + 1
  /\ buf' = NotOwn
  /\ to_come' = to_come - 1
  /\ UNCHANGED <<groups, on_way, cur_time, measureVars, echoed, broken>>

(* receivedata returned -1, which is not 0: what buf holds, sent or        *)
(* received before, is taken for a datagram that arrived.                  *)
RecvFailed ==
  /\ to_come > 0
  /\ broken' = TRUE
  /\ IF buf = NotOwn THEN UNCHANGED measureVars ELSE Measure(buf)
  /\ to_come' = to_come - 1
  /\ UNCHANGED <<groups, buf, on_way, cur_time, echoed, foreign>>

ProbeTick ==
  /\ cur_time < ProbeTime
  /\ cur_time' = cur_time + 1
  /\ UNCHANGED <<groups, to_come, buf, on_way, measureVars, echoed, foreign, broken>>

ProberNext ==
  \/ SendGroup
  \/ \E seq \in on_way : RecvProbe(seq)
  \/ RecvForeign
  \/ RecvFailed
  \/ ProbeTick

ProberSpec == ProberInit /\ [][ProberNext]_proberVars
-----------------------------------------------------------------------------
(* A rate that is logged is that of a whole group received in order, from  *)
(* its first packet to its last, although losses, reordering and datagrams *)
(* of others push packets of one group into the rounds of the next;        *)
(* provided that receivedata never failed.                                 *)
MeasuresWholeGroups ==
  ~broken =>
    \A m \in measured :
      LET e == echoed[m[1]]
      IN  /\ [i \in DOMAIN e |-> e[i].seq % GroupSize] = [i \in 1 .. GroupSize |-> i - 1]
          /\ m[2] = e[Len(e)].time - e[1].time

=============================================================================
