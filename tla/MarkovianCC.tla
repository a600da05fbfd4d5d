---------------------------- MODULE MarkovianCC ----------------------------
(***************************************************************************)
(* Class MarkovianCC of markoviancc.{hh,cc}, the part CTCP relies on: the  *)
(* map of unacknowledged packets, the loss and acknowledgement counters,   *)
(* and the window with the probing phase that freezes it.  An object is a  *)
(* record, a callback an operator from the object before to the one after. *)
(*                                                                         *)
(* Window sizes are whole packets.  What the delay and loss signals make   *)
(* of the window, never less than the 2 that onACK and                     *)
(* update_intersend_time clamp it to, is any of WindowSizes.               *)
(***************************************************************************)
EXTENDS Integers, FiniteSets

CONSTANTS
  WindowSizes,   \* the windows the delay controller may choose
  NumProbe,      \* num_probe_pkts: the initial window, and the probing phase
  ReduceMin,     \* fewest packets ReduceOnLoss reacts to
  AckCap         \* bound: num_pkts_acked saturates here

ASSUME CCAssumption ==
  /\ WindowSizes \subseteq Nat /\ \A w \in WindowSizes : w >= 2
  /\ NumProbe \in Nat /\ NumProbe >= 1
  /\ ReduceMin \in Nat
  /\ AckCap \in Nat /\ AckCap >= 2 * NumProbe

CC == [the_window : WindowSizes \cup {NumProbe},
       unacknowledged_packets : SUBSET Nat,
       num_pkts_acked : 0 .. AckCap,
       num_pkts_lost : Nat,
       num_pkts_sent : Nat]

(* Mutant: init does not set the probing window. *)
InitNoWindow ==
  [the_window             |-> 0,
   unacknowledged_packets |-> {},
   num_pkts_acked         |-> 0,
   num_pkts_lost          |-> 0,
   num_pkts_sent          |-> 0]

(* MarkovianCC::init: a new flow, or the same one after an idle timeout. *)
init ==
  [the_window             |-> NumProbe,
   unacknowledged_packets |-> {},
   num_pkts_acked         |-> 0,
   num_pkts_lost          |-> 0,
   num_pkts_sent          |-> 0]

(* MarkovianCC::onPktSent for each packet of the set seqs in turn. *)
onPktsSent(cc, seqs) ==
  [cc EXCEPT !.unacknowledged_packets = @ \cup seqs,
             !.num_pkts_sent = @ + Cardinality(seqs)]

(* Mutant: the packets older than the acknowledged one stay. *)
RemovedOnlyIt(cc, seq_num) == {seq_num} \cap cc.unacknowledged_packets

(* The packets one acknowledgement removes: up to and including its own,   *)
(* if its own is still there.                                              *)
Removed(cc, seq_num) ==
  IF seq_num \in cc.unacknowledged_packets
    THEN {s \in cc.unacknowledged_packets : s <= seq_num}
    ELSE {}

(* update_intersend_time leaves the window alone during the probing phase; *)
(* reduce_on_loss can shrink it once enough packets have been counted.     *)
NextWindow(cc, lost) ==
  {cc.the_window} \cup
    (IF \/ cc.num_pkts_acked >= 2 * NumProbe - 1
        \/ lost > 0 /\ cc.num_pkts_acked + lost + 1 > ReduceMin
       THEN WindowSizes
       ELSE {})

(* Mutant: the acknowledged packet is counted as lost too. *)
OnACKCountsOwn(cc, ack, w) ==
  LET removed == Removed(cc, ack - 1)
  IN  [cc EXCEPT !.the_window             = w,
                 !.unacknowledged_packets = @ \ removed,
                 !.num_pkts_lost          = @ + Cardinality(removed),
                 !.num_pkts_acked         = IF @ < AckCap THEN @ + 1 ELSE @]

(* MarkovianCC::onACK, with the window w that comes out of it.  Every      *)
(* removed packet older than the acknowledged one counts as lost.          *)
onACK(cc, ack, w) ==
  LET seq_num == ack - 1
      removed == Removed(cc, seq_num)
      lost    == Cardinality(removed \ {seq_num})
  IN  [cc EXCEPT !.the_window             = w,
                 !.unacknowledged_packets = @ \ removed,
                 !.num_pkts_lost          = @ + lost,
                 !.num_pkts_acked         = IF @ < AckCap THEN @ + 1 ELSE @]

(* The windows an acknowledgement can lead to. *)
WindowsAfter(cc, ack) ==
  NextWindow(cc, cc.num_pkts_lost + Cardinality(Removed(cc, ack - 1) \ {ack - 1}))

=============================================================================
