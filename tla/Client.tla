------------------------------- MODULE Client -------------------------------
(***************************************************************************)
(* The main loop of dci_copa_rx.cc (ngscope_client.cc, ngscope_reTx.cc,    *)
(* ngscope_packet_list.cc).  A block the base station had to retransmit    *)
(* holds back, in the phone's reordering buffer, everything received after *)
(* it.  The client learns of retransmissions from the DCI log, estimates   *)
(* what the buffer holds, finds the packet with which its release began    *)
(* and gives back the added delay to the packets of that burst before it   *)
(* acknowledges them.                                                      *)
(*                                                                         *)
(* Time is in milliseconds and data in packets of 1440 bytes; the code has *)
(* microseconds and bits.  What the main thread copies of the log (module  *)
(* DciLog) is a window of the milliseconds so far, of one cell.  The delay *)
(* given back (ref_oneway, adjust_us) and the filler headers sent in a     *)
(* quiet millisecond are left out: no guard depends on them.               *)
(***************************************************************************)
EXTENDS TTI, Sequences, FiniteSets

CONSTANTS
  NumLog,      \* NOF_LOG_DCI: entries of the log, milliseconds of the list
  Gap,         \* 8: subframes until a block is retransmitted
  Padding,     \* 4: packets a retransmitted block counts for
  Search,      \* BURST_FIND_SEARCH_PKT
  SearchTTIs,  \* 20: TTIs after which the search for the start ends
  Hold,        \* 10: milliseconds a packet can be held behind the buffer
  Near,        \* 10: milliseconds within which the start may still come
  TimeDiff, OnewayDiff,   \* TIME_DIFF_THD, ONEWAY_DIFF_THD
  FirstMs,     \* the millisecond before the first DCI
  MaxMs,       \* bound: milliseconds
  MaxReTx,     \* bound: retransmissions
  MaxPkts,     \* bound: packets in the list
  Blocks,      \* the sizes of a transport block
  Oneways,     \* the one-way delays of a packet
  Lags,        \* how long a packet may wait in the socket
  Offsets,     \* what ngscope_sync_dci_pkt may return
  UplinkNews   \* what ngscope_dci_new_ul_reTx may return

ASSUME ClientAssumption ==
  /\ {NumLog, Gap, Padding, Search} \subseteq Nat \ {0}
  /\ {SearchTTIs, Hold, Near, TimeDiff, OnewayDiff} \subseteq Nat
  /\ {FirstMs, MaxMs, MaxReTx, MaxPkts} \subseteq Nat
  /\ Blocks \subseteq Nat /\ Oneways \subseteq Nat /\ Lags \subseteq Nat
  /\ Offsets \subseteq Int /\ UplinkNews \subseteq BOOLEAN

VARIABLES
  air,         \* what was sent in each millisecond after FirstMs
  window,      \* dci_all: the milliseconds it covers, and the clock offset
  seen_reTx,   \* recent_dl_reTx_us: the last retransmission seen, 0 at first
  list,        \* pkt_list
  buf,         \* reTx_buffer
  Missing_DL,
  crashed,
  counted      \* history: how many retransmissions went into the buffer

vars == <<air, window, seen_reTx, list, buf, Missing_DL, crashed, counted>>

now == FirstMs + Len(air)
Block == [reTx : BOOLEAN, tbs : Blocks]
Packet == [recv_t : Int, oneway : Nat, revert_flag : BOOLEAN, acked : BOOLEAN]

(* ngscope_reordering_buf_t; a TTI is kept as its millisecond, of which    *)
(* the code has wrap_tti.                                                  *)
Buffer == [ready : BOOLEAN, buffer_active : BOOLEAN, buf_size : Int,
           buf_start_ms : Nat, buf_last_ms : Nat,
           buf_start_t : Int, buf_last_t : Int,
           start_pkt_t : Int, start_pkt_found : BOOLEAN]

ngscope_reTx_init_buf ==
  [ready |-> FALSE, buffer_active |-> FALSE, buf_size |-> 0,
   buf_start_ms |-> 0, buf_last_ms |-> 0, buf_start_t |-> 0, buf_last_t |-> 0,
   start_pkt_t |-> 0, start_pkt_found |-> FALSE]

Init ==
  /\ air = <<>>
  /\ window = [tail |-> 1, header |-> 0, offset |-> 0]
  /\ seen_reTx = 0
  /\ list = <<>>
  /\ buf = ngscope_reTx_init_buf
  /\ Missing_DL = FALSE
  /\ crashed = FALSE
  /\ counted = 0
-----------------------------------------------------------------------------
(* The re-ordering buffer.                                                 *)

ngscope_reTx_reset_buf(q) ==
  [q EXCEPT !.buffer_active = FALSE, !.buf_size = 0, !.start_pkt_found = FALSE]

ngscope_reTx_activate_buf(q) ==
  [q EXCEPT !.buffer_active = TRUE, !.buf_size = 0, !.start_pkt_found = TRUE]

block(ms) == air[ms - FirstMs]

(* The blocks sent from millisecond a to before b. *)
SumTbs(a, b) ==
  LET n == IF a < b THEN b - a ELSE 0
      sum[i \in 0 .. n] == IF i = 0 THEN 0 ELSE sum[i - 1] + block(a + i - 1).tbs
  IN  sum[n]

(* The subframes of the window w within Gap before millisecond ms. *)
FirstBefore(w, ms) == IF ms - w.tail < Gap THEN w.tail ELSE ms - Gap

ngscope_reTx_is_new_burst(w, ms) ==
  \A m \in FirstBefore(w, ms) .. ms - 1 : ~block(m).reTx

set_reTx_start_tti(q, w, ms) ==
  [q EXCEPT !.buffer_active = TRUE, !.ready = TRUE,
            !.buf_size = SumTbs(FirstBefore(w, ms), ms) + Padding,
            !.buf_start_ms = ms, !.buf_last_ms = ms,
            !.buf_start_t = ms + w.offset, !.buf_last_t = ms + w.offset]

(* The blocks since the last retransmission; since the start of the window *)
(* when that one is no longer in it.                                       *)
set_reTx_tti_inBurst(q, w, ms) ==
  LET after == IF q.buf_last_ms \in w.tail .. w.header THEN q.buf_last_ms + 1
                                                       ELSE w.tail
  IN  [q EXCEPT !.buffer_active = TRUE,
                !.buf_size = @ + SumTbs(after, ms) + Padding,
                !.buf_last_ms = ms,
                !.buf_last_t = ms + w.offset]

(* A retransmission at ms of the window is added to the buffer. *)
AddReTx(q, w, ms) ==
  LET new_burst == ngscope_reTx_is_new_burst(w, ms)
  IN  CASE q.buffer_active /\ new_burst -> q
        [] q.buffer_active /\ ~new_burst -> set_reTx_tti_inBurst(q, w, ms)
        [] ~q.buffer_active /\ (new_burst \/ ~q.ready) -> set_reTx_start_tti(q, w, ms)
        [] OTHER -> set_reTx_tti_inBurst(ngscope_reTx_activate_buf(q), w, ms)

(* Mutant: the last retransmission itself is not skipped. *)
BeforeLast(ms, last) == tti_a_l_b(wrap_tti(last), wrap_tti(ms))

(* Is subframe ms not after the last retransmission counted? *)
NotAfter(ms, last) == tti_a_se_b(wrap_tti(ms), wrap_tti(last))

(* One round of the loop in update_reTx_buf. *)
UpdateStep(s, w, ms) ==
  IF s.over \/ (s.q.ready /\ NotAfter(ms, s.q.buf_last_ms))
    THEN s
    ELSE LET q == IF block(ms).reTx THEN AddReTx(s.q, w, ms) ELSE s.q
         IN  [q |-> q, found |-> s.found \/ block(ms).reTx,
              added |-> IF block(ms).reTx /\ q.buf_last_ms = ms THEN s.added + 1
                                                                ELSE s.added,
              over |-> /\ q.buffer_active
                       /\ tti_a_l_b(wrap_tti(ms), wrap_tti(q.buf_last_ms + Gap))]

(* ngscope_reTx_update_buf *)
update_reTx_buf(q, w) ==
  LET n == IF w.tail <= w.header THEN w.header - w.tail + 1 ELSE 0
      loop[i \in 0 .. n] ==
        IF i = 0 THEN [q |-> q, found |-> FALSE, added |-> 0, over |-> FALSE]
                 ELSE UpdateStep(loop[i - 1], w, w.tail + i - 1)
  IN  loop[n]
-----------------------------------------------------------------------------
(* The packets.                                                            *)

(* checkTimeDelay_wTime: packets of more than NumLog milliseconds ago are  *)
(* forgotten, acknowledged or not, but for the last.                       *)
Expired(l, i) ==
  /\ i < Len(l)
  /\ l[Len(l)].recv_t - l[i].recv_t > NumLog

checkTimeDelay_wTime(l) ==
  LET n == CHOOSE n \in 0 .. Len(l) :
             /\ \A i \in 1 .. n : Expired(l, i)
             /\ n < Len(l) => ~Expired(l, n + 1)
  IN  SubSeq(l, n + 1, Len(l))

(* enqueue_pkt *)
NewPacket(t, oneway) ==
  [recv_t |-> t, oneway |-> oneway, revert_flag |-> FALSE, acked |-> FALSE]

(* Mutant: a packet is inserted whatever its time. *)
InsertUnchecked(l, p) == checkTimeDelay_wTime(Append(l, p))

(* insertNode_checkTime: a packet with an earlier time is not inserted. *)
insertNode_checkTime(l, p) ==
  IF l # <<>> /\ l[Len(l)].recv_t > p.recv_t
    THEN l
    ELSE checkTimeDelay_wTime(Append(l, p))

(* The search sees all packets but the last (ngscope_list_length), which   *)
(* have the indices 0 .. pkt_num - 1.                                      *)
pkt_num(l) == Len(l) - 1

is_burst_start(l, i) ==
  /\ i < pkt_num(l)
  /\ i # 0 => /\ l[i + 1].recv_t - l[i].recv_t >= TimeDiff
              /\ l[i + 1].oneway - l[i].oneway > OnewayDiff

nearest_neighbour_index(l, t) ==
  LET dist(i) == Abs(l[i + 1].recv_t - t)
  IN  CHOOSE i \in 0 .. pkt_num(l) - 1 :
        \A j \in 0 .. pkt_num(l) - 1 :
          dist(i) <= dist(j) /\ (j < i => dist(i) < dist(j))

(* 0 or -1 when the start is not found. *)
ngscope_reTx_find_burst_start(l, t) ==
  LET index == nearest_neighbour_index(l, t)
      back == IF index < Search THEN 0 .. index ELSE index - Search + 1 .. index
      on == IF index + Search < pkt_num(l) THEN index + 1 .. index + Search - 1
                                           ELSE index + 1 .. pkt_num(l) - 1
      Starts(I) == {i \in I : is_burst_start(l, i)}
  IN  CASE pkt_num(l) <= 0 -> 0
        [] pkt_num(l) > 0 /\ Starts(back) # {} ->
             CHOOSE i \in Starts(back) : \A j \in Starts(back) : j <= i
        [] pkt_num(l) > 0 /\ Starts(back) = {} /\ Starts(on) # {} ->
             CHOOSE i \in Starts(on) : \A j \in Starts(on) : i <= j
        [] OTHER -> IF Abs(t - l[pkt_num(l)].recv_t) < Near THEN -1 ELSE index

(* Mutant: a packet received at the very start of the burst is skipped. *)
RevertsLater(q, p) == p.recv_t > q.start_pkt_t /\ ~p.revert_flag /\ q.buffer_active

(* Is p of the burst that empties buffer q, and not counted yet? *)
Reverts(q, p) == p.recv_t >= q.start_pkt_t /\ ~p.revert_flag /\ q.buffer_active

(* Mutant: an empty buffer stays active. *)
DrainedNoReset(q) == q

(* The buffer after the size of a packet was taken off it. *)
Drained(q) == IF q.buf_size <= 0 THEN ngscope_reTx_reset_buf(q) ELSE q

(* One round of the loop in ngscope_list_revert_delay, for packet i.       *)
RevertStep(s, i) ==
  LET r == Reverts(s.q, s.l[i])
      size == IF r THEN s.q.buf_size - 1 ELSE s.q.buf_size
  IN  IF s.over THEN s
      ELSE [l |-> IF r THEN [s.l EXCEPT ![i].revert_flag = TRUE] ELSE s.l,
            q |-> Drained([s.q EXCEPT !.buf_size = size]),
            over |-> size <= 0]

(* ngscope_list_revert_delay: packets take their size off the buffer, in   *)
(* the order of the list, until it is empty.                               *)
ngscope_list_revert_delay(l, q) ==
  LET loop[i \in 0 .. Len(l)] ==
        IF i = 0 THEN [l |-> l, q |-> q, over |-> FALSE] ELSE RevertStep(loop[i - 1], i)
  IN  loop[Len(l)]

(* tx_pkt_ornot; the difference of two uint64_t times is huge when the     *)
(* packet is the earlier one.                                              *)
tx_pkt_ornot(q, p) ==
  \/ ~q.ready
  \/ p.revert_flag
  \/ q.buf_size <= 0 /\ p.recv_t > q.buf_last_t
  \/ q.buf_size > 0 /\ (p.recv_t < q.buf_last_t \/ p.recv_t - q.buf_last_t > Hold)

send_pkt_list(l, q) ==
  [i \in DOMAIN l |-> [l[i] EXCEPT !.acked = @ \/ tx_pkt_ornot(q, l[i])]]
-----------------------------------------------------------------------------
(* The millisecond of the last retransmission in the log, 0 if none. *)
recent_reTx ==
  LET R == {m \in FirstMs + 1 .. now : block(m).reTx}
  IN  IF R = {} THEN 0 ELSE CHOOSE m \in R : \A n \in R : n <= m

new_dl_reTx == seen_reTx # 0 /\ seen_reTx # recent_reTx

(* The window all DCIs of which are logged: the oldest one is left out. *)
CaWindow(offset) ==
  [tail |-> (IF Len(air) < NumLog THEN FirstMs + 1 ELSE now - NumLog + 1) + 1,
   header |-> now, offset |-> offset]

(* The buffer is updated from the log when a retransmission is new or, the *)
(* buffer being idle, an earlier one could not be found.                   *)
Updated(q, w) ==
  IF new_dl_reTx \/ (Missing_DL /\ q.ready /\ ~q.buffer_active)
    THEN update_reTx_buf(q, w)
    ELSE [q |-> q, found |-> ~Missing_DL, added |-> 0, over |-> FALSE]

(* The packet that started the burst is searched for. *)
Searches(q) == q.ready /\ q.buffer_active /\ ~q.start_pkt_found

(* What the search makes of the buffer; it is given up once the copy of    *)
(* the log ends more than SearchTTIs after the retransmission.             *)
StartSearched(l, q, w) ==
  LET index == ngscope_reTx_find_burst_start(l, q.buf_start_t)
  IN  CASE Searches(q) /\ index > 0 ->
             [q EXCEPT !.start_pkt_found = TRUE, !.start_pkt_t = l[index + 1].recv_t]
        [] Searches(q) /\ index <= 0
             /\ tti_distance(wrap_tti(q.buf_start_ms), wrap_tti(w.header)) > SearchTTIs ->
             ngscope_reTx_reset_buf(q)
        [] OTHER -> q

(* ngscope_list_ave_oneway averages the packets before the one before the  *)
(* start: none if the start is the second packet, and it divides by 0.     *)
DividesByZero(l, q) ==
  Searches(q) /\ ngscope_reTx_find_burst_start(l, q.buf_start_t) = 1

(* The end of pkt_handling: packets of a burst get their delay back. *)
Reverted(l, q) ==
  IF q.ready /\ q.buffer_active /\ q.start_pkt_found
    THEN ngscope_list_revert_delay(l, q)
    ELSE [l |-> l, q |-> q, over |-> FALSE]

(* pkt_handling and send_pkt_list, for list l and the copy w of the log.   *)
(* (A name bound to the only element of a set is evaluated once.)          *)
pkt_handling(l, w) ==
  \E u \in {Updated(buf, w)} :
    /\ Missing_DL' = ~u.found
    /\ counted' = counted + u.added
    /\ crashed' = DividesByZero(l, u.q)
    /\ \E r \in {Reverted(l, StartSearched(l, u.q, w))} :
         IF crashed'
           THEN list' = l /\ buf' = u.q
           ELSE list' = send_pkt_list(r.l, r.q) /\ buf' = r.q

(* One round of the main loop of echo_packets with a packet:               *)
(* copy_dci_data_from_struct, enqueue_pkt, pkt_handling, send_pkt_list.    *)
RecvPacket ==
  /\ ~crashed
  /\ \E lag \in Lags, oneway \in Oneways, new_ul_reTx \in UplinkNews :
     \E offset \in IF new_dl_reTx THEN Offsets ELSE {0} :
     \E l \in {insertNode_checkTime(list, NewPacket(now - lag, oneway))} :
     \E w \in {IF new_dl_reTx \/ new_ul_reTx THEN CaWindow(offset) ELSE window} :
       /\ Len(l) <= MaxPkts
       /\ window' = w
       /\ seen_reTx' = IF new_dl_reTx \/ seen_reTx = 0 THEN recent_reTx ELSE seen_reTx
       /\ pkt_handling(l, w)
  /\ UNCHANGED air

(* NG-Scope reports the next subframe (module DciLog). *)
RecvDci ==
  /\ ~crashed
  /\ now < MaxMs
  /\ \E b \in Block :
       /\ b.reTx => Len(SelectSeq(air, LAMBDA x : x.reTx)) < MaxReTx
       /\ air' = Append(air, b)
  /\ UNCHANGED <<window, seen_reTx, list, buf, Missing_DL, crashed, counted>>

Next == RecvPacket \/ RecvDci

Spec == Init /\ [][Next]_vars
-----------------------------------------------------------------------------
(* The state of the client has its type; the list is in order of receipt.  *)
TypeOK ==
  /\ air \in Seq(Block)
  /\ window \in [tail : Nat, header : Nat, offset : Int]
  /\ seen_reTx \in Nat
  /\ list \in Seq(Packet)
  /\ \A i, j \in DOMAIN list : i < j => list[i].recv_t <= list[j].recv_t
  /\ buf \in Buffer
  /\ Missing_DL \in BOOLEAN
  /\ crashed \in BOOLEAN
  /\ counted \in Nat

(* Between packets the flags and the size of the re-ordering buffer agree, *)
(* which pkt_handling and tx_pkt_ornot take for granted: one asks for      *)
(* buffer_active, the other for buf_size.                                  *)
BufferSane ==
  /\ buf.buffer_active <=> buf.buf_size > 0
  /\ buf.buffer_active => buf.ready
  /\ buf.start_pkt_found => buf.buffer_active

(* No retransmission goes into the buffer twice, although every update     *)
(* reads the whole log again and TTIs wrap around: the buffer has counted  *)
(* at most those up to the last one it remembers.                          *)
CountedOnce ==
  counted <= Cardinality({m \in FirstMs + 1 .. now :
                            block(m).reTx /\ m <= buf.buf_last_ms})

(* Once the start of the burst is known, the packets since then are given  *)
(* their delay back and acknowledged: none is held.                        *)
NothingHeldInBurst ==
  (~crashed /\ buf.buffer_active /\ buf.start_pkt_found) =>
    \A i \in DOMAIN list : list[i].recv_t >= buf.start_pkt_t => list[i].acked

(* "we need to timeout if we cannot find the pkt_start": when a packet has *)
(* been handled, no search is older than SearchTTIs.                       *)
SearchTimesOut ==
  [][(list' # list /\ ~crashed' /\ Searches(buf')) =>
       now - buf'.buf_start_ms < SearchTTIs]_vars

=============================================================================
