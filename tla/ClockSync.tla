----------------------------- MODULE ClockSync -----------------------------
(***************************************************************************)
(* How dci_copa_rx (and receiver) find the offset between the clock of the *)
(* DCIs and that of the packets (ngscope_sync.cc): a packet whose one-way  *)
(* delay differs much from that of the packet before it is taken for one   *)
(* that was retransmitted, and the offset is the candidate that brings the *)
(* retransmissions of the log nearest to these packets.  Client leaves it  *)
(* open (Offsets); here it is what the code computes from Client's state.  *)
(***************************************************************************)
EXTENDS Receiver

CONSTANTS
  JumpDelay,   \* RE_TX_DELAY_THD
  OffsetSteps, \* 100: candidates on either side of 0
  OffsetStep   \* 100 microseconds: from one candidate to the next

LOCAL FSE == INSTANCE FiniteSetsExt

offset_vec ==
  [i \in 1 .. 2 * OffsetSteps + 1 |-> (i - 1 - OffsetSteps) * OffsetStep]

ASSUME ClockSyncAssumption ==
  /\ {JumpDelay, OffsetSteps, OffsetStep} \subseteq Nat
  /\ Offsets = {offset_vec[i] : i \in DOMAIN offset_vec}
-----------------------------------------------------------------------------
(* The change of the delay, either way; none for the first of the list. *)
delay_diff(l, i) == IF i = 1 THEN 0 ELSE Abs(l[i].oneway - l[i - 1].oneway)

(* The times at which the retransmitted packets of list l came. *)
ngscope_list_get_reTx(l) ==
  LET reTx == SelectSeq([i \in DOMAIN l |-> i], LAMBDA i : delay_diff(l, i) >= JumpDelay)
  IN  [k \in DOMAIN reTx |-> l[reTx[k]].recv_t]

(* The times of the retransmissions in the copy w of the log. *)
ngscope_dci_get_reTx_t(w) ==
  SelectSeq([i \in 1 .. w.header - w.tail + 1 |-> w.tail + i - 1],
            LAMBDA ms : block(ms).reTx)


(* In a loop for a minimum: is it to be replaced in round i? *)
Nearer(i, dist, dist_min) == i = 1 \/ dist < dist_min

(* 0 if the array is empty. *)
nearest_neighbour_dist_w_offset(array, num, offset) ==
  LET dist_min[i \in 0 .. Len(array)] ==
        IF i = 0 THEN 0
        ELSE LET dist == Abs(array[i] + offset - num)
             IN  IF Nearer(i, dist, dist_min[i - 1]) THEN dist ELSE dist_min[i - 1]
  IN  dist_min[Len(array)]

correlate_2_vec_w_offset(array1, array2, offset) ==
  LET dist[i \in 0 .. Len(array1)] ==
        IF i = 0 THEN 0
        ELSE dist[i - 1] + nearest_neighbour_dist_w_offset(array2, array1[i], offset)
  IN  dist[Len(array1)]

(* The first of the nearest candidates: of all, when no packet seems       *)
(* retransmitted.                                                          *)
ngscope_sync_dci_pkt(array1, array2) ==
  LET best[i \in 0 .. Len(offset_vec)] ==
        IF i = 0 THEN [idx |-> 1, dist |-> 0]
        ELSE LET d == correlate_2_vec_w_offset(array1, array2, offset_vec[i])
             IN  IF Nearer(i, d, best[i - 1].dist) THEN [idx |-> i, dist |-> d]
                                                   ELSE best[i - 1]
  IN  offset_vec[best[Len(offset_vec)].idx]

(* All times of the copy of the log are shifted. *)
ngscope_dci_sync_multi_cell(w, offset) == [w EXCEPT !.offset = @ + offset]

(* The offset a round of the main loop computes.  (What the round does to  *)
(* the packets of the list changes neither times nor delays.)              *)
SyncPacket ==
  /\ RecvPacket
  /\ new_dl_reTx =>
       LET w == CaWindow(0)
       IN  window' = ngscope_dci_sync_multi_cell(
                       w, ngscope_sync_dci_pkt(ngscope_list_get_reTx(list'),
                                               ngscope_dci_get_reTx_t(w)))

(* receiver answers its packets before it computes the same offset.        *)
SyncNext ==
  /\ \/ RecvDci
     \/ program = "dci_copa_rx" /\ SyncPacket
     \/ program = "receiver" /\ ReceiverPacket
  /\ UNCHANGED program

SyncSpec == Start /\ [][SyncNext]_<<vars, program>>
-----------------------------------------------------------------------------
(* How far the packets l seems to have got by a retransmission lie, under  *)
(* offset o, from the retransmissions of the copy w of the log.            *)
Misfit(l, w, o) ==
  FSE!MapThenSumSet(
    LAMBDA i : FSE!Min({Abs(ms + o - l[i].recv_t) :
                          ms \in {m \in w.tail .. w.header : block(m).reTx}}),
    {i \in DOMAIN l \ {1} : Abs(l[i].oneway - l[i - 1].oneway) >= JumpDelay})


=============================================================================
