------------------------------ MODULE Receiver ------------------------------
(***************************************************************************)
(* receiver.cc, the earlier client, beside dci_copa_rx.cc (Client).  It    *)
(* keeps the same list of packets and the same reordering buffer, but      *)
(* answers a packet at once, does not give up a search and does not look   *)
(* again for a retransmission it missed.                                   *)
(***************************************************************************)
EXTENDS Client

CONSTANT Programs  \* of "dci_copa_rx" and "receiver", those that run

ASSUME ReceiverAssumption == Programs \subseteq {"dci_copa_rx", "receiver"}

VARIABLE program

Start == Init /\ program \in Programs

(* When a retransmission is new, the buffer is updated from the copy of    *)
(* the log before and after the clock offset is added to it.  (In every    *)
(* other round it is added once more, to a copy nothing reads.)            *)
UpdatedTwice(q, offset) ==
  IF ~new_dl_reTx THEN [q |-> q, added |-> 0]
  ELSE LET first  == update_reTx_buf(q, CaWindow(0))
           second == update_reTx_buf(first.q, CaWindow(offset))
       IN  [q |-> second.q, added |-> first.added + second.added]

(* The search for the start of the burst. *)
Found(l, q) ==
  LET index == ngscope_reTx_find_burst_start(l, q.buf_start_t)
  IN  IF Searches(q) /\ index > 0
        THEN [q EXCEPT !.start_pkt_found = TRUE, !.start_pkt_t = l[index + 1].recv_t]
        ELSE q

(* A packet is answered whether or not it gets into the list, of which     *)
(* acked is not read.                                                      *)
Answered(l) == [i \in DOMAIN l |-> [l[i] EXCEPT !.acked = TRUE]]

(* A round of the loop of echo_packets. *)
ReceiverPacket ==
  /\ ~crashed
  /\ \E lag \in Lags, oneway \in Oneways, offset \in Offsets :
     \E l \in {insertNode_checkTime(list, NewPacket(now - lag, oneway))} :
     \E u \in {UpdatedTwice(buf, offset)} :
     \E r \in {Reverted(l, Found(l, u.q))} :
       /\ Len(l) <= MaxPkts
       /\ seen_reTx' = IF new_dl_reTx \/ seen_reTx = 0 THEN recent_reTx ELSE seen_reTx
       /\ counted' = counted + u.added
       /\ crashed' = DividesByZero(l, u.q)
       /\ list' = Answered(r.l)
       /\ buf' = r.q
  /\ UNCHANGED <<air, window, Missing_DL>>

ClientsNext ==
  /\ RecvDci \/ (program = "dci_copa_rx" /\ RecvPacket)
             \/ (program = "receiver" /\ ReceiverPacket)
  /\ UNCHANGED program

ClientsSpec == Start /\ [][ClientsNext]_<<vars, program>>

=============================================================================
