---------------------------- MODULE ClientProofs ----------------------------
(***************************************************************************)
(* Proofs about the two clients, for any log size, any number of packets   *)
(* and retransmissions, and any cycle of TTIs.                             *)
(*                                                                         *)
(* The argument (ClientsInv): the copy of the log covers milliseconds that *)
(* were received, fewer than NumLog; the last retransmission in the buffer *)
(* is not after the end of the copy, so that one the copy still has is     *)
(* less than half a cycle of TTIs from it and the comparison of TTIs is    *)
(* that of milliseconds; and a buffer without a retransmission has counted *)
(* none.                                                                   *)
(***************************************************************************)
EXTENDS Receiver, TTIProofs, SequenceTheorems, FiniteSetTheorems

(* A copy of the log: milliseconds received, at most as many as fit.       *)
Covered(w) ==
  /\ w.header <= now
  /\ w.tail <= w.header => w.tail > FirstMs
  /\ w.header - w.tail < NumLog

(* The flags and the size of a buffer agree. *)
Sane(q) ==
  /\ q.buffer_active <=> q.buf_size > 0
  /\ q.buffer_active => q.ready
  /\ q.start_pkt_found => q.buffer_active

(* The retransmissions up to millisecond ms. *)
ReTxUpTo(ms) == {m \in FirstMs + 1 .. now : block(m).reTx /\ m <= ms}

(* Buffer q, in which n retransmissions were counted, has counted none     *)
(* twice.                                                                  *)
CountedIn(q, n) ==
  /\ n <= Cardinality(ReTxUpTo(q.buf_last_ms))
  /\ ~q.ready => n = 0

(* The log is shorter than half a cycle of TTIs (1000 of 10240). *)
ShortLog == 2 * NumLog < MaxTTI

(* The last retransmission of the buffer was received; in dci_copa_rx, by  *)
(* the time the copy of the log was made.                                  *)
LastKnown ==
  /\ buf.buf_last_ms <= now
  /\ program = "dci_copa_rx" => buf.buf_last_ms <= window.header

ClientsInv ==
  /\ TypeOK
  /\ Covered(window)
  /\ Sane(buf)
  /\ LastKnown
  /\ ShortLog => CountedIn(buf, counted)
  /\ NothingHeldInBurst
-----------------------------------------------------------------------------
(* The log.                                                                *)

Window == [tail : Nat, header : Nat, offset : Int]

(* What was received in a millisecond so far. *)
LEMMA BlockType ==
  ASSUME air \in Seq(Block), NEW m \in FirstMs + 1 .. now
  PROVE  block(m) \in Block /\ block(m).reTx \in BOOLEAN /\ block(m).tbs \in Nat
<1>1. FirstMs \in Nat /\ Len(air) \in Nat /\ Blocks \subseteq Nat
  BY ClientAssumption
<1>2. m - FirstMs \in 1 .. Len(air)
  BY <1>1 DEF now
<1>3. block(m) \in Block
  BY <1>2, ElementOfSeq DEF block
<1> QED BY <1>1, <1>3 DEF Block

(* The size of the blocks between two milliseconds received. *)
LEMMA SumTbsType ==
  ASSUME air \in Seq(Block), NEW a \in Int, NEW b \in Int, a .. b - 1 \subseteq FirstMs + 1 .. now
  PROVE  SumTbs(a, b) \in Nat
<1> DEFINE n == IF a < b THEN b - a ELSE 0
           F(f) == [i \in 0 .. n |-> IF i = 0 THEN 0 ELSE f[i - 1] + block(a + i - 1).tbs]
           sum == CHOOSE f : f = F(f)
           h == [i \in 1 .. n |-> [x \in Nat |-> x + block(a + i - 1).tbs]]
           T == [i \in 0 .. n |-> Nat]
<1>1. SumTbs(a, b) = sum[n]
  BY DEF SumTbs
<1>2. n \in Nat
  OBVIOUS
<1>3. \A i \in 1 .. n : a + i - 1 \in a .. b - 1 /\ i \in 0 .. n /\ i - 1 \in 0 .. n /\ i # 0
  OBVIOUS
<1>4. \A i \in 1 .. n : block(a + i - 1).tbs \in Nat
  BY <1>3, BlockType
<1> HIDE DEF n
<1>5. h \in [1 .. n -> [Nat -> Nat]]
  BY <1>4
<1>6. PICK f \in [0 .. n -> Nat] :
        f[0] = 0 /\ \A i \in 1 .. n : f[i] = h[i][f[i - 1]]
  <2>1. PICK f \in [0 .. n -> Nat] : Recursion(f, n, 0, h)
    <3> HIDE DEF h
    <3> QED BY <1>2, <1>5, RecursionExists
  <2> QED BY <2>1 DEF Recursion
<1>7. f = F(f)
  <2>1. \A i \in 0 .. n : i # 0 => i \in 1 .. n /\ f[i - 1] \in Nat
    BY <1>2
  <2>2. \A i \in 1 .. n : f[i] = f[i - 1] + block(a + i - 1).tbs
    BY <1>3, <1>6, <2>1
  <2> QED BY <1>6, <2>1, <2>2
<1>8. sum = F(sum)
  <2> HIDE DEF F
  <2> QED BY <1>7
<1>9. \A i \in 0 .. n : sum[i] \in T[i]
  <2> HIDE DEF sum
  <2>1. sum[0] \in T[0]
    BY <1>2, <1>8
  <2>2. ASSUME NEW i \in 1 .. n, sum[i - 1] \in T[i - 1] PROVE sum[i] \in T[i]
    BY <1>3, <1>4, <1>8, <2>2
  <2> HIDE DEF T
  <2> QED BY <1>2, <2>1, <2>2, RecursionKeeps
<1> QED BY <1>1, <1>2, <1>9

(* The most recent retransmission is a millisecond. *)
LEMMA RecentType ==
  ASSUME air \in Seq(Block)
  PROVE  recent_reTx \in Nat
<1> DEFINE R == {m \in FirstMs + 1 .. now : block(m).reTx}
           U == {now - m : m \in R}
<1>1. FirstMs \in Nat /\ Len(air) \in Nat /\ now \in Nat
  BY ClientAssumption DEF now
<1>2. CASE R = {}
  BY <1>2 DEF recent_reTx
<1>3. CASE R # {}
  <2>1. U \subseteq Nat /\ U # {} /\ R \subseteq Nat
    BY <1>1, <1>3
  <2>2. PICK x \in U : \A y \in U : x <= y
    <3> HIDE DEF U
    <3> QED BY <2>1, LeastNat
  <2>3. PICK m \in R : x = now - m
    BY <2>2
  <2>4. ASSUME NEW k \in R PROVE k <= m
    <3>1. now - m <= now - k
      BY <2>2, <2>3
    <3>2. m \in Nat /\ k \in Nat
      BY <2>1
    <3> QED BY <1>1, <3>1, <3>2
  <2>5. (CHOOSE k \in R : \A j \in R : j <= k) \in R
    <3> HIDE DEF R
    <3> QED BY <2>4
  <2> QED BY <1>3, <2>1, <2>5 DEF recent_reTx
<1> QED BY <1>2, <1>3

(* The retransmissions received are finitely many. *)
LEMMA ReTxFinite ==
  ASSUME air \in Seq(Block), NEW ms \in Nat
  PROVE  IsFiniteSet(ReTxUpTo(ms)) /\ Cardinality(ReTxUpTo(ms)) \in Nat
<1>1. FirstMs \in Nat /\ now \in Nat
  BY ClientAssumption DEF now
<1>2. IsFiniteSet(FirstMs + 1 .. now)
  BY <1>1, FS_Interval
<1> QED BY <1>2, FS_Subset, FS_CardinalityType DEF ReTxUpTo

(* There is one more at the next of them. *)
LEMMA ReTxGrows ==
  ASSUME air \in Seq(Block), NEW last \in Nat, NEW ms \in FirstMs + 1 .. now,
         last < ms, block(ms).reTx
  PROVE  /\ Cardinality(ReTxUpTo(last)) \in Nat
         /\ Cardinality(ReTxUpTo(last)) + 1 <= Cardinality(ReTxUpTo(ms))
<1>1. FirstMs \in Nat /\ now \in Nat
  BY ClientAssumption DEF now
<1>3. IsFiniteSet(ReTxUpTo(last)) /\ IsFiniteSet(ReTxUpTo(ms))
  BY <1>1, ReTxFinite
<1>4. ms \notin ReTxUpTo(last) /\ ReTxUpTo(last) \cup {ms} \subseteq ReTxUpTo(ms)
  BY <1>1 DEF ReTxUpTo
<1>5. Cardinality(ReTxUpTo(last) \cup {ms}) = Cardinality(ReTxUpTo(last)) + 1
  BY <1>3, <1>4, FS_AddElement
<1>6. Cardinality(ReTxUpTo(last) \cup {ms}) <= Cardinality(ReTxUpTo(ms))
  BY <1>3, <1>4, FS_Subset
<1> QED BY <1>3, <1>5, <1>6, FS_CardinalityType

(* A subframe of the copy that is not after the last retransmission is     *)
(* found not to be.                                                        *)
LEMMA NotAfterRight ==
  ASSUME ShortLog, NEW ms \in Nat, NEW last \in Nat, ms <= last, last - ms < NumLog
  PROVE  NotAfter(ms, last)
<1> DEFINE n == [c \in {1, 2} |-> IF c = 1 THEN ms ELSE last]
           a == [i \in {1, 2} |-> IF i = 1 THEN wrap_tti(ms) ELSE wrap_tti(last)]
           u == unwrap_tti_array(a)
<1> DEFINE D == {1, 2}
<1>1. a = [c \in D |-> wrap_tti(n[c])]
  OBVIOUS
<1>2. NumLog \in Nat /\ MaxTTI \in Nat
  BY ClientAssumption, TTIAssumption
<1>3. D # {} /\ n \in [D -> Nat] /\ \A c, o \in D : n[c] <= n[o] + NumLog
  BY <1>2
<1>4. PICK q \in Int : u = [c \in D |-> n[c] - MaxTTI * q]
  <2>1. \E q \in Int : unwrap_tti_array([c \in D |-> wrap_tti(n[c])])
                          = [c \in D |-> n[c] - MaxTTI * q]
    <3> HIDE DEF n, D
    <3> QED BY <1>2, <1>3, UnwrapRight DEF ShortLog
  <2> HIDE DEF n, a, D
  <2> QED BY <1>1, <2>1
<1>5. u[1] = ms - MaxTTI * q /\ u[2] = last - MaxTTI * q
  BY <1>4
<1>6. MaxTTI * q \in Int
  BY <1>2
<1>7. u[1] <= u[2]
  <2> HIDE DEF u
  <2> QED BY <1>5, <1>6
<1> QED BY <1>7 DEF NotAfter, tti_a_se_b
-----------------------------------------------------------------------------
(* The update of the re-ordering buffer from a copy w of the log.          *)

(* What the functions of the buffer assign keeps its type. *)
LEMMA BufferType ==
  ASSUME NEW q \in Buffer, NEW x \in BOOLEAN, NEW y \in BOOLEAN,
         NEW size \in Int, NEW ms \in Nat, NEW t \in Int
  PROVE  /\ [q EXCEPT !.buffer_active = x, !.ready = y, !.buf_size = size,
                      !.buf_start_ms = ms, !.buf_last_ms = ms,
                      !.buf_start_t = t, !.buf_last_t = t] \in Buffer
         /\ [q EXCEPT !.buffer_active = x, !.buf_size = size,
                      !.buf_last_ms = ms, !.buf_last_t = t] \in Buffer
         /\ [q EXCEPT !.buffer_active = x, !.buf_size = size, !.start_pkt_found = y] \in Buffer
         /\ [q EXCEPT !.start_pkt_found = y, !.start_pkt_t = t] \in Buffer
         /\ [q EXCEPT !.buf_size = size] \in Buffer
<1>1. [q EXCEPT !.buffer_active = x, !.ready = y, !.buf_size = size,
                !.buf_start_ms = ms, !.buf_last_ms = ms,
                !.buf_start_t = t, !.buf_last_t = t] \in Buffer
  BY DEF Buffer
<1>2. [q EXCEPT !.buffer_active = x, !.buf_size = size,
                !.buf_last_ms = ms, !.buf_last_t = t] \in Buffer
  BY DEF Buffer
<1>3. [q EXCEPT !.buffer_active = x, !.buf_size = size, !.start_pkt_found = y] \in Buffer
  BY DEF Buffer
<1>4. [q EXCEPT !.start_pkt_found = y, !.start_pkt_t = t] \in Buffer
  BY DEF Buffer
<1>5. [q EXCEPT !.buf_size = size] \in Buffer
  BY DEF Buffer
<1> QED BY <1>1, <1>2, <1>3, <1>4, <1>5

(* The buffer activated is empty and ready; one reset is idle. *)
LEMMA ActivateResetProp ==
  ASSUME NEW q \in Buffer
  PROVE  LET a == ngscope_reTx_activate_buf(q)
             r == ngscope_reTx_reset_buf(q)
         IN  /\ a \in Buffer /\ a.ready = q.ready /\ a.buf_size = 0
             /\ a.buf_last_ms = q.buf_last_ms
             /\ r \in Buffer /\ r.ready = q.ready /\ Sane(r)
             /\ r.buffer_active = FALSE
             /\ r.buf_last_ms = q.buf_last_ms /\ r.start_pkt_t = q.start_pkt_t
<1>1. TRUE \in BOOLEAN /\ FALSE \in BOOLEAN /\ 0 \in Int /\ 0 \in Nat
  OBVIOUS
<1>2. /\ [q EXCEPT !.buffer_active = TRUE, !.buf_size = 0, !.start_pkt_found = TRUE] \in Buffer
      /\ [q EXCEPT !.buffer_active = FALSE, !.buf_size = 0, !.start_pkt_found = FALSE] \in Buffer
  BY <1>1, BufferType, Zenon
<1> DEFINE a == ngscope_reTx_activate_buf(q)
           r == ngscope_reTx_reset_buf(q)
<1>3. a \in Buffer /\ r \in Buffer
  BY <1>2 DEF ngscope_reTx_activate_buf, ngscope_reTx_reset_buf
<1>4. a.ready = q.ready /\ a.buf_size = 0 /\ a.buf_last_ms = q.buf_last_ms
  BY DEF ngscope_reTx_activate_buf, Buffer
<1>5. /\ r.ready = q.ready /\ r.buffer_active = FALSE /\ r.buf_size = 0
      /\ r.buf_last_ms = q.buf_last_ms /\ r.start_pkt_t = q.start_pkt_t
      /\ r.start_pkt_found = FALSE
  BY DEF ngscope_reTx_reset_buf, Buffer
<1> HIDE DEF r, a
<1>6. Sane(r)
  BY <1>5 DEF Sane
<1> QED BY <1>3, <1>4, <1>5, <1>6 DEF r, a

(* The milliseconds of a copy were received, and those from Gap before one *)
(* of them, or from the start of the copy.                                 *)
LEMMA CoveredProp ==
  ASSUME air \in Seq(Block), NEW w \in Window, Covered(w), NEW ms \in w.tail .. w.header
  PROVE  /\ FirstMs \in Nat /\ now \in Nat /\ ms \in FirstMs + 1 .. now /\ ms \in Nat
         /\ FirstBefore(w, ms) \in w.tail .. ms
<1>1. FirstMs \in Nat /\ now \in Nat /\ Gap \in Nat \ {0}
  BY ClientAssumption DEF now
<1>2. w.tail \in Nat /\ w.header \in Nat /\ w.tail <= w.header
  BY DEF Window
<1>3. w.tail > FirstMs /\ w.header <= now
  BY <1>2 DEF Covered
<1>4. FirstBefore(w, ms) \in w.tail .. ms
  BY <1>1, <1>2 DEF FirstBefore
<1> QED BY <1>1, <1>2, <1>3, <1>4

(* The size of what came before ms, from a millisecond of the copy on.     *)
LEMMA SumInCopy ==
  ASSUME air \in Seq(Block), NEW w \in Window, Covered(w), NEW ms \in w.tail .. w.header,
         NEW a \in Int, a >= w.tail
  PROVE  SumTbs(a, ms) \in Nat
<1>1. w.tail \in Nat /\ w.header \in Nat /\ now \in Nat /\ FirstMs \in Nat /\ ms \in Nat
  BY CoveredProp DEF Window
<1>2. w.tail > FirstMs /\ w.header <= now
  BY <1>1 DEF Covered
<1>3. a .. ms - 1 \subseteq FirstMs + 1 .. now
  BY <1>1, <1>2
<1>4. ms \in Int
  BY <1>1
<1> QED BY <1>3, <1>4, SumTbsType, Zenon

LEMMA StartTtiProp ==
  ASSUME air \in Seq(Block), NEW w \in Window, Covered(w), NEW ms \in w.tail .. w.header,
         NEW q \in Buffer
  PROVE  LET r == set_reTx_start_tti(q, w, ms)
         IN  r \in Buffer /\ Sane(r) /\ r.ready /\ r.buf_last_ms = ms
<1> DEFINE size == SumTbs(FirstBefore(w, ms), ms) + Padding
<1>1. ms \in Nat /\ w.offset \in Int /\ Padding \in Nat \ {0}
  BY CoveredProp, ClientAssumption DEF Window
<1>2. FirstBefore(w, ms) \in Int /\ FirstBefore(w, ms) >= w.tail
  BY CoveredProp DEF Window
<1>3. size \in Nat \ {0}
  <2>1. SumTbs(FirstBefore(w, ms), ms) \in Nat
    BY <1>2, SumInCopy
  <2> QED BY <1>1, <2>1
<1>4. ms + w.offset \in Int
  BY <1>1
<1> HIDE DEF size
<1>5. set_reTx_start_tti(q, w, ms) =
        [q EXCEPT !.buffer_active = TRUE, !.ready = TRUE, !.buf_size = size,
                  !.buf_start_ms = ms, !.buf_last_ms = ms,
                  !.buf_start_t = ms + w.offset, !.buf_last_t = ms + w.offset]
  BY DEF set_reTx_start_tti, size
<1> DEFINE r == set_reTx_start_tti(q, w, ms)
<1>6. r \in Buffer
  <2>1. TRUE \in BOOLEAN /\ size \in Int
    BY <1>3
  <2>2. [q EXCEPT !.buffer_active = TRUE, !.ready = TRUE, !.buf_size = size,
                  !.buf_start_ms = ms, !.buf_last_ms = ms,
                  !.buf_start_t = ms + w.offset, !.buf_last_t = ms + w.offset] \in Buffer
    BY <1>1, <1>4, <2>1, BufferType, Zenon
  <2> QED BY <1>5, <2>2
<1>7. r.buffer_active = TRUE /\ r.ready = TRUE /\ r.buf_size = size /\ r.buf_last_ms = ms
  BY <1>5 DEF Buffer
<1> HIDE DEF r
<1>8. Sane(r)
  BY <1>3, <1>7 DEF Sane
<1> QED BY <1>6, <1>7, <1>8 DEF r

LEMMA InBurstProp ==
  ASSUME air \in Seq(Block), NEW w \in Window, Covered(w), NEW ms \in w.tail .. w.header,
         NEW q \in Buffer, q.ready, q.buf_size >= 0
  PROVE  LET r == set_reTx_tti_inBurst(q, w, ms)
         IN  r \in Buffer /\ Sane(r) /\ r.ready /\ r.buf_last_ms = ms
<1> DEFINE after == IF q.buf_last_ms \in w.tail .. w.header THEN q.buf_last_ms + 1
                                                            ELSE w.tail
           size == q.buf_size + SumTbs(after, ms) + Padding
<1>1. /\ ms \in Nat /\ w.offset \in Int /\ Padding \in Nat \ {0}
      /\ q.buf_size \in Int /\ q.buf_size >= 0
  <2>1. ms \in Nat /\ w.offset \in Int /\ Padding \in Nat \ {0}
    BY CoveredProp, ClientAssumption DEF Window
  <2>2. q.buf_size \in Int
    BY DEF Buffer
  <2> QED BY <2>1, <2>2
<1>2. after \in Int /\ after >= w.tail
  BY DEF Window, Buffer
<1>3. size \in Nat \ {0}
  <2> HIDE DEF after
  <2>1. SumTbs(after, ms) \in Nat
    BY <1>2, SumInCopy
  <2> QED BY <1>1, <2>1
<1>4. ms + w.offset \in Int
  BY <1>1
<1> HIDE DEF size
<1>5. set_reTx_tti_inBurst(q, w, ms) =
        [q EXCEPT !.buffer_active = TRUE, !.buf_size = size,
                  !.buf_last_ms = ms, !.buf_last_t = ms + w.offset]
  BY DEF set_reTx_tti_inBurst, size, Buffer
<1> DEFINE r == set_reTx_tti_inBurst(q, w, ms)
<1>6. r \in Buffer
  <2>1. TRUE \in BOOLEAN /\ size \in Int
    BY <1>3
  <2>2. [q EXCEPT !.buffer_active = TRUE, !.buf_size = size,
                  !.buf_last_ms = ms, !.buf_last_t = ms + w.offset] \in Buffer
    BY <1>1, <1>4, <2>1, BufferType, Zenon
  <2> QED BY <1>5, <2>2
<1>7. r.buffer_active = TRUE /\ r.ready = q.ready /\ r.buf_size = size /\ r.buf_last_ms = ms
  BY <1>5 DEF Buffer
<1> HIDE DEF r
<1>8. Sane(r)
  BY <1>3, <1>7 DEF Sane
<1> QED BY <1>6, <1>7, <1>8 DEF r

(* Whatever the state of the buffer, a retransmission leaves it in order,  *)
(* and as the last one unless the buffer is as it was.                     *)
LEMMA AddReTxProp ==
  ASSUME air \in Seq(Block), NEW w \in Window, Covered(w), NEW ms \in w.tail .. w.header,
         NEW q \in Buffer, Sane(q)
  PROVE  LET r == AddReTx(q, w, ms)
         IN  r \in Buffer /\ Sane(r) /\ r.ready /\ (r = q \/ r.buf_last_ms = ms)
<1> DEFINE new_burst == ngscope_reTx_is_new_burst(w, ms)
<1>1. new_burst \in BOOLEAN /\ q.buffer_active \in BOOLEAN /\ q.ready \in BOOLEAN
  BY DEF ngscope_reTx_is_new_burst, Buffer
<1> HIDE DEF new_burst
<1>2. CASE q.buffer_active /\ new_burst
  <2>1. AddReTx(q, w, ms) = q
    BY <1>2 DEF AddReTx, new_burst
  <2> QED BY <1>2, <2>1 DEF Sane
<1>3. CASE q.buffer_active /\ ~new_burst
  <2>1. AddReTx(q, w, ms) = set_reTx_tti_inBurst(q, w, ms)
    BY <1>3 DEF AddReTx, new_burst
  <2>2. q.ready /\ q.buf_size >= 0
    BY <1>3 DEF Sane, Buffer
  <2> QED BY <2>1, <2>2, InBurstProp
<1>4. CASE ~q.buffer_active /\ (new_burst \/ ~q.ready)
  <2>1. AddReTx(q, w, ms) = set_reTx_start_tti(q, w, ms)
    BY <1>4 DEF AddReTx, new_burst
  <2> QED BY <2>1, StartTtiProp
<1>5. CASE ~q.buffer_active /\ ~new_burst /\ q.ready
  <2> DEFINE a == ngscope_reTx_activate_buf(q)
  <2>1. AddReTx(q, w, ms) = set_reTx_tti_inBurst(a, w, ms)
    BY <1>5 DEF AddReTx, new_burst
  <2>2. a \in Buffer /\ a.ready /\ a.buf_size >= 0
    <3>1. a \in Buffer /\ a.ready = q.ready /\ a.buf_size = 0
      BY ActivateResetProp
    <3> HIDE DEF a
    <3> QED BY <1>5, <3>1
  <2>3. set_reTx_tti_inBurst(a, w, ms).buf_last_ms = ms
    <3> HIDE DEF a
    <3> QED BY <2>2, InBurstProp
  <2> HIDE DEF a
  <2> QED BY <2>1, <2>2, <2>3, InBurstProp
<1> QED BY <1>1, <1>2, <1>3, <1>4, <1>5

(* The states of an update, when n retransmissions were counted before it. *)
UpdateStates(w, n) ==
  {s \in [q : Buffer, found : BOOLEAN, added : Nat, over : BOOLEAN] :
     /\ Sane(s.q)
     /\ s.q.buf_last_ms <= w.header
     /\ ShortLog => CountedIn(s.q, n + s.added)}

(* A round of the loop does not count the subframe when the buffer has it: *)
(* a subframe of the copy at or before the last retransmission is skipped. *)
LEMMA UpdateStepProp ==
  ASSUME air \in Seq(Block), NEW w \in Window, Covered(w), NEW ms \in w.tail .. w.header,
         NEW n \in Nat, NEW s \in UpdateStates(w, n)
  PROVE  UpdateStep(s, w, ms) \in UpdateStates(w, n)
<1> DEFINE skip == s.over \/ (s.q.ready /\ NotAfter(ms, s.q.buf_last_ms))
           reTx == block(ms).reTx
           q == IF reTx THEN AddReTx(s.q, w, ms) ELSE s.q
           found == s.found \/ reTx
           added == IF reTx /\ q.buf_last_ms = ms THEN s.added + 1 ELSE s.added
           over == q.buffer_active /\ tti_a_l_b(wrap_tti(ms), wrap_tti(q.buf_last_ms + Gap))
<1>1. /\ s.q \in Buffer /\ s.found \in BOOLEAN /\ s.added \in Nat
      /\ Sane(s.q) /\ s.q.buf_last_ms <= w.header
      /\ ShortLog => CountedIn(s.q, n + s.added)
  BY DEF UpdateStates
<1>2. /\ FirstMs \in Nat /\ now \in Nat /\ ms \in FirstMs + 1 .. now /\ ms \in Nat
      /\ w.tail \in Nat /\ w.header \in Nat /\ NumLog \in Nat /\ s.q.buf_last_ms \in Nat
      /\ w.header - w.tail < NumLog
  BY <1>1, CoveredProp, ClientAssumption DEF Window, Buffer, Covered
<1>3. CASE skip
  <2>1. UpdateStep(s, w, ms) = s
    BY <1>3 DEF UpdateStep
  <2> QED BY <2>1
<1>4. CASE ~skip
  <2>1. UpdateStep(s, w, ms) = [q |-> q, found |-> found, added |-> added, over |-> over]
    BY <1>4 DEF UpdateStep
  <2>2. reTx \in BOOLEAN
    BY <1>2, BlockType
  <2>3. found \in BOOLEAN /\ over \in BOOLEAN
    BY <1>1, <2>2
  <2>4. q \in Buffer /\ Sane(q) /\ (q = s.q \/ q.buf_last_ms = ms) /\ (reTx => q.ready)
    <3>1. CASE reTx
      BY <1>1, <3>1, AddReTxProp
    <3>2. CASE ~reTx
      BY <1>1, <3>2
    <3> QED BY <3>1, <3>2
  <2>5. added \in Nat
    BY <1>1
  <2>6. q.buf_last_ms <= w.header
    BY <1>1, <1>2, <2>4
  <2>7. ASSUME ShortLog PROVE CountedIn(q, n + added)
    <3>1. /\ n + s.added <= Cardinality(ReTxUpTo(s.q.buf_last_ms))
          /\ ~s.q.ready => n + s.added = 0
          /\ n \in Nat /\ s.added \in Nat
      BY <1>1, <2>7 DEF CountedIn
    <3>2. CASE reTx /\ q.buf_last_ms = ms
      <4>1. added = s.added + 1 /\ q.ready
        BY <2>4, <3>2
      <4>2. n + s.added + 1 <= Cardinality(ReTxUpTo(ms))
        <5>1. CASE s.q.ready
          <6>1. s.q.buf_last_ms < ms
            <7> SUFFICES ASSUME ~(s.q.buf_last_ms < ms) PROVE FALSE
              OBVIOUS
            <7>1. ms <= s.q.buf_last_ms /\ s.q.buf_last_ms - ms < NumLog
              BY <1>1, <1>2
            <7>2. NotAfter(ms, s.q.buf_last_ms)
              BY <1>2, <2>7, <7>1, NotAfterRight
            <7> QED BY <1>4, <5>1, <7>2
          <6>2. /\ Cardinality(ReTxUpTo(s.q.buf_last_ms)) \in Nat
                /\ Cardinality(ReTxUpTo(s.q.buf_last_ms)) + 1 <= Cardinality(ReTxUpTo(ms))
            BY <1>2, <3>2, <6>1, ReTxGrows
          <6>3. Cardinality(ReTxUpTo(ms)) \in Nat
            BY <1>2, ReTxFinite
          <6> DEFINE x == Cardinality(ReTxUpTo(s.q.buf_last_ms))
                     y == Cardinality(ReTxUpTo(ms))
          <6> HIDE DEF x, y
          <6>4. x \in Nat /\ y \in Nat /\ x + 1 <= y /\ n + s.added <= x
            BY <3>1, <6>2, <6>3 DEF x, y
          <6>5. n + s.added + 1 <= y
            BY <3>1, <6>4
          <6> QED BY <6>5 DEF y
        <5>2. CASE ~s.q.ready
          <6>1. 0 < ms /\ 0 \in Nat
            BY <1>2
          <6>2. /\ Cardinality(ReTxUpTo(0)) \in Nat
                /\ Cardinality(ReTxUpTo(0)) + 1 <= Cardinality(ReTxUpTo(ms))
            BY <1>2, <3>2, <6>1, ReTxGrows
          <6>3. Cardinality(ReTxUpTo(ms)) \in Nat
            BY <1>2, ReTxFinite
          <6> DEFINE x == Cardinality(ReTxUpTo(0))
                     y == Cardinality(ReTxUpTo(ms))
          <6> HIDE DEF x, y
          <6>4. x \in Nat /\ y \in Nat /\ x + 1 <= y /\ n + s.added = 0
            BY <3>1, <5>2, <6>2, <6>3 DEF x, y
          <6>5. n + s.added + 1 <= y
            BY <3>1, <6>4
          <6> QED BY <6>5 DEF y
        <5> QED BY <5>1, <5>2
      <4>3. n + added = n + s.added + 1
        BY <3>1, <4>1
      <4> QED BY <3>2, <4>1, <4>2, <4>3 DEF CountedIn
    <3>3. CASE ~(reTx /\ q.buf_last_ms = ms)
      <4>1. q = s.q /\ added = s.added
        BY <2>4, <3>3
      <4> QED BY <3>1, <4>1 DEF CountedIn
    <3> QED BY <3>2, <3>3
  <2> HIDE DEF q, found, added, over
  <2> QED BY <2>1, <2>3, <2>4, <2>5, <2>6, <2>7 DEF UpdateStates
<1> QED BY <1>3, <1>4

(* Update the buffer: nothing the buffer has counted is counted again.     *)
LEMMA UpdateProp ==
  ASSUME air \in Seq(Block), NEW w \in Window, Covered(w), NEW n \in Nat,
         NEW q \in Buffer, Sane(q), q.buf_last_ms <= w.header,
         ShortLog => CountedIn(q, n)
  PROVE  update_reTx_buf(q, w) \in UpdateStates(w, n)
<1> DEFINE k == IF w.tail <= w.header THEN w.header - w.tail + 1 ELSE 0
           s0 == [q |-> q, found |-> FALSE, added |-> 0, over |-> FALSE]
           F(f) == [i \in 0 .. k |->
                      IF i = 0 THEN s0 ELSE UpdateStep(f[i - 1], w, w.tail + i - 1)]
           loop == CHOOSE f : f = F(f)
           S == UpdateStates(w, n)
           h == [i \in 1 .. k |-> [s \in S |-> UpdateStep(s, w, w.tail + i - 1)]]
           T == [i \in 0 .. k |-> S]
<1>1. update_reTx_buf(q, w) = loop[k]
  BY DEF update_reTx_buf
<1>2. w.tail \in Nat /\ w.header \in Nat /\ k \in Nat
  BY DEF Window
<1>3. s0 \in S
  <2>1. s0 \in [q : Buffer, found : BOOLEAN, added : Nat, over : BOOLEAN]
    OBVIOUS
  <2>2. n + s0.added = n
    OBVIOUS
  <2> QED BY <2>1, <2>2 DEF UpdateStates
<1>4. \A i \in 1 .. k : w.tail + i - 1 \in w.tail .. w.header
  BY <1>2
<1>5. \A i \in 1 .. k : i \in 0 .. k /\ i - 1 \in 0 .. k /\ i # 0
  BY <1>2
<1> HIDE DEF k, s0
<1>6. \A i \in 1 .. k : \A s \in S : UpdateStep(s, w, w.tail + i - 1) \in S
  BY <1>4, UpdateStepProp
<1> HIDE DEF S
<1>7. h \in [1 .. k -> [S -> S]]
  BY <1>6
<1>8. PICK f \in [0 .. k -> S] : f[0] = s0 /\ \A i \in 1 .. k : f[i] = h[i][f[i - 1]]
  <2>1. PICK f \in [0 .. k -> S] : Recursion(f, k, s0, h)
    <3> HIDE DEF h
    <3> QED BY <1>2, <1>3, <1>7, RecursionExists
  <2> QED BY <2>1 DEF Recursion
<1>9. f = F(f)
  <2>1. \A i \in 0 .. k : i # 0 => i \in 1 .. k /\ f[i - 1] \in S
    BY <1>2
  <2>2. \A i \in 1 .. k : f[i] = UpdateStep(f[i - 1], w, w.tail + i - 1)
    BY <1>5, <1>8, <2>1
  <2> QED BY <1>8, <2>1, <2>2
<1>10. loop = F(loop)
  <2> HIDE DEF F
  <2> QED BY <1>9
<1>11. \A i \in 0 .. k : loop[i] \in T[i]
  <2> HIDE DEF loop
  <2>1. loop[0] \in T[0]
    BY <1>2, <1>3, <1>10
  <2>2. ASSUME NEW i \in 1 .. k, loop[i - 1] \in T[i - 1] PROVE loop[i] \in T[i]
    BY <1>5, <1>6, <1>10, <2>2
  <2> HIDE DEF T
  <2> QED BY <1>2, <2>1, <2>2, RecursionKeeps
<1>12. k \in 0 .. k
  BY <1>2
<1> QED BY <1>1, <1>11, <1>12 DEF S
-----------------------------------------------------------------------------
(* The list of packets.                                                    *)

(* A list in order of receipt. *)
PacketList == {l \in Seq(Packet) : \A i, j \in DOMAIN l : i < j => l[i].recv_t <= l[j].recv_t}

LEMMA ListProp ==
  ASSUME NEW l \in Seq(Packet)
  PROVE  /\ Len(l) \in Nat /\ DOMAIN l = 1 .. Len(l)
         /\ \A i \in 1 .. Len(l) : /\ l[i] \in Packet /\ l[i].recv_t \in Int
                                   /\ l[i].revert_flag \in BOOLEAN /\ l[i].acked \in BOOLEAN
<1>1. Len(l) \in Nat /\ DOMAIN l = 1 .. Len(l)
  BY LenProperties
<1>2. \A i \in 1 .. Len(l) : l[i] \in Packet
  BY ElementOfSeq
<1> QED BY <1>1, <1>2 DEF Packet

(* What is left when old packets are forgotten is in order. *)
LEMMA ForgetProp ==
  ASSUME NEW l \in PacketList
  PROVE  checkTimeDelay_wTime(l) \in PacketList
<1> DEFINE U == {n \in 0 .. Len(l) : n < Len(l) => ~Expired(l, n + 1)}
           P(n) == /\ \A i \in 1 .. n : Expired(l, i)
                   /\ n < Len(l) => ~Expired(l, n + 1)
           cut == CHOOSE n \in 0 .. Len(l) : P(n)
<1>1. /\ l \in Seq(Packet) /\ Len(l) \in Nat /\ DOMAIN l = 1 .. Len(l)
      /\ \A i, j \in 1 .. Len(l) : i < j => l[i].recv_t <= l[j].recv_t
  BY ListProp DEF PacketList
<1>2. Len(l) \in U /\ U \subseteq Nat
  BY <1>1
<1>3. PICK n \in U : \A m \in U : n <= m
  <2> HIDE DEF U
  <2> QED BY <1>2, LeastNat
<1>4. \A i \in 1 .. n : Expired(l, i)
  <2> SUFFICES ASSUME NEW i \in 1 .. n, ~Expired(l, i) PROVE FALSE
    OBVIOUS
  <2>1. n \in 0 .. Len(l)
    BY <1>3
  <2>2. i - 1 \in 0 .. Len(l) /\ (i - 1) + 1 = i /\ ~(n <= i - 1)
    BY <1>1, <2>1
  <2>3. i - 1 \in U
    BY <2>2
  <2> QED BY <1>3, <2>2, <2>3
<1>5. n \in 0 .. Len(l) /\ P(n)
  BY <1>3, <1>4
<1>6. cut \in 0 .. Len(l)
  <2> HIDE DEF P
  <2> QED BY <1>5
<1>7. checkTimeDelay_wTime(l) = SubSeq(l, cut + 1, Len(l))
  BY DEF checkTimeDelay_wTime
<1> HIDE DEF cut
<1> DEFINE r == SubSeq(l, cut + 1, Len(l))
<1>8. cut + 1 \in 1 .. Len(l) + 1 /\ Len(l) \in (cut + 1) - 1 .. Len(l)
  BY <1>1, <1>6
<1>9. /\ r \in Seq(Packet) /\ Len(r) = Len(l) - (cut + 1) + 1
      /\ \A i \in 1 .. Len(l) - (cut + 1) + 1 : r[i] = l[(cut + 1) + i - 1]
  BY <1>1, <1>8, SubSeqProperties
<1>10. ASSUME NEW i \in DOMAIN r, NEW j \in DOMAIN r, i < j PROVE r[i].recv_t <= r[j].recv_t
  <2>1. DOMAIN r = 1 .. Len(l) - (cut + 1) + 1
    BY <1>9, LenProperties
  <2>2. i \in Nat /\ j \in Nat
    BY <1>1, <1>6, <2>1
  <2> DEFINE x == (cut + 1) + i - 1
             y == (cut + 1) + j - 1
  <2>3. x \in 1 .. Len(l) /\ y \in 1 .. Len(l) /\ x < y
    BY <1>1, <1>6, <1>10, <2>1, <2>2
  <2>4. r[i] = l[x] /\ r[j] = l[y]
    BY <1>9, <2>1
  <2> HIDE DEF r, x, y
  <2> QED BY <1>1, <2>3, <2>4
<1> QED
  <2> HIDE DEF r
  <2>1. r \in PacketList
    BY <1>9, <1>10 DEF PacketList
  <2> QED BY <1>7, <2>1 DEF r

(* A packet is inserted in order, or not at all. *)
LEMMA InsertProp ==
  ASSUME NEW l \in PacketList, NEW p \in Packet
  PROVE  insertNode_checkTime(l, p) \in PacketList
<1> DEFINE a == Append(l, p)
<1>1. /\ l \in Seq(Packet) /\ Len(l) \in Nat /\ DOMAIN l = 1 .. Len(l)
      /\ \A i, j \in 1 .. Len(l) : i < j => l[i].recv_t <= l[j].recv_t
      /\ \A i \in 1 .. Len(l) : l[i].recv_t \in Int
  BY ListProp DEF PacketList
<1>2. CASE l # <<>> /\ l[Len(l)].recv_t > p.recv_t
  BY <1>2 DEF insertNode_checkTime
<1>3. CASE ~(l # <<>> /\ l[Len(l)].recv_t > p.recv_t)
  <2>1. insertNode_checkTime(l, p) = checkTimeDelay_wTime(a)
    BY <1>3 DEF insertNode_checkTime
  <2>2. /\ a \in Seq(Packet) /\ Len(a) = Len(l) + 1
        /\ \A i \in 1 .. Len(l) : a[i] = l[i]
        /\ a[Len(l) + 1] = p
    BY <1>1, AppendProperties
  <2>3. DOMAIN a = 1 .. Len(l) + 1
    BY <2>2, LenProperties
  <2>4. ASSUME NEW i \in DOMAIN a, NEW j \in DOMAIN a, i < j PROVE a[i].recv_t <= a[j].recv_t
    <3>1. i \in 1 .. Len(l) /\ i \in Nat /\ j \in Nat /\ j <= Len(l) + 1
      BY <1>1, <2>3, <2>4
    <3>2. CASE j \in 1 .. Len(l)
      BY <1>1, <2>2, <2>4, <3>1, <3>2
    <3>3. CASE j = Len(l) + 1
      <4>1. Len(l) \in 1 .. Len(l) /\ l # <<>>
        BY <1>1, <3>1
      <4>2. ~(l[Len(l)].recv_t > p.recv_t)
        BY <1>3, <4>1
      <4>3. l[i].recv_t <= l[Len(l)].recv_t
        <5>1. CASE i = Len(l)
          BY <1>1, <3>1, <5>1
        <5>2. CASE i # Len(l)
          <6>1. i < Len(l)
            <7>1. Len(l) \in Nat /\ i \in Nat /\ i <= Len(l)
              BY <1>1, <3>1
            <7> QED BY <5>2, <7>1
          <6> QED BY <1>1, <3>1, <4>1, <6>1
        <5> QED BY <5>1, <5>2
      <4>4. l[i].recv_t \in Int /\ l[Len(l)].recv_t \in Int /\ p.recv_t \in Int
        BY <1>1, <3>1, <4>1 DEF Packet
      <4>5. l[i].recv_t <= p.recv_t
        BY <4>2, <4>3, <4>4
      <4>6. a[i] = l[i] /\ a[j] = p
        BY <2>2, <3>1, <3>3
      <4> HIDE DEF a
      <4> QED BY <4>5, <4>6
    <3>4. j \in 1 .. Len(l) \/ j = Len(l) + 1
      BY <1>1, <3>1, <2>4
    <3> QED BY <3>2, <3>3, <3>4
  <2>5. a \in PacketList
    <3> HIDE DEF a
    <3> QED BY <2>2, <2>4 DEF PacketList
  <2> QED BY <2>1, <2>5, ForgetProp
<1> QED BY <1>2, <1>3
-----------------------------------------------------------------------------
(* The search for the packet that started the burst.                       *)

(* The nearest packet is one of those the search sees. *)
LEMMA NearestProp ==
  ASSUME NEW l \in Seq(Packet), NEW t \in Int, pkt_num(l) > 0
  PROVE  nearest_neighbour_index(l, t) \in 0 .. pkt_num(l) - 1
<1> DEFINE I == 0 .. pkt_num(l) - 1
           dist(i) == Abs(l[i + 1].recv_t - t)
           D == {dist(i) : i \in I}
           P(i) == \A j \in I : dist(i) <= dist(j) /\ (j < i => dist(i) < dist(j))
<1>1. pkt_num(l) \in Nat /\ I \subseteq Nat /\ I # {}
  <2>1. Len(l) \in Nat
    BY LenProperties
  <2>2. pkt_num(l) \in Nat /\ pkt_num(l) - 1 \in Nat
    BY <2>1 DEF pkt_num
  <2>3. 0 \in I
    BY <2>2
  <2> QED BY <2>2, <2>3
<1>2. \A i \in I : dist(i) \in Nat
  <2> SUFFICES ASSUME NEW i \in I PROVE dist(i) \in Nat
    OBVIOUS
  <2>1. i + 1 \in 1 .. Len(l)
    BY LenProperties DEF pkt_num
  <2>2. l[i + 1].recv_t - t \in Int
    BY <2>1, ListProp
  <2> QED BY <2>2 DEF Abs
<1> HIDE DEF I, dist
<1>3. D \subseteq Nat /\ D # {}
  BY <1>1, <1>2
<1>4. PICK d \in D : \A e \in D : d <= e
  <2> HIDE DEF D
  <2> QED BY <1>3, LeastNat
<1> DEFINE J == {i \in I : dist(i) = d}
<1>5. J \subseteq Nat /\ J # {}
  BY <1>1, <1>4
<1>6. PICK i \in J : \A j \in J : i <= j
  <2> HIDE DEF J
  <2> QED BY <1>5, LeastNat
<1>7. i \in I /\ dist(i) = d /\ i \in Nat
  BY <1>1, <1>6
<1>8. ASSUME NEW j \in I PROVE dist(i) <= dist(j) /\ (j < i => dist(i) < dist(j))
  <2>1. dist(j) \in Nat /\ dist(i) \in Nat /\ j \in Nat
    BY <1>1, <1>2, <1>7
  <2>2. dist(i) <= dist(j)
    BY <1>4, <1>7
  <2>3. CASE dist(j) = dist(i)
    <3>1. i <= j
      BY <1>6, <1>7, <2>3
    <3> QED BY <1>7, <2>1, <2>2, <3>1
  <2>4. CASE dist(j) # dist(i)
    BY <2>1, <2>2, <2>4
  <2> QED BY <2>3, <2>4
<1>9. P(i)
  BY <1>8
<1>10. (CHOOSE k \in I : P(k)) \in I
  <2> HIDE DEF P
  <2> QED BY <1>7, <1>9
<1>11. nearest_neighbour_index(l, t) = CHOOSE k \in I : P(k)
  BY DEF nearest_neighbour_index, I, dist
<1> QED
  <2> HIDE DEF P
  <2> QED BY <1>10, <1>11 DEF I

(* The first and the last of a set of naturals below a bound. *)
LEMMA FirstAndLast ==
  ASSUME NEW b \in Nat, NEW T, T \subseteq 0 .. b, T # {}
  PROVE  /\ (CHOOSE i \in T : \A j \in T : i <= j) \in T
         /\ (CHOOSE i \in T : \A j \in T : j <= i) \in T
<1> DEFINE U == {b - i : i \in T}
<1>1. T \subseteq Nat /\ U \subseteq Nat /\ U # {} /\ \A i \in T : i \in 0 .. b
  <2>1. \A i \in T : i \in 0 .. b
    OBVIOUS
  <2>2. \A i \in T : i \in Nat /\ b - i \in Nat
    BY <2>1
  <2> QED BY <2>1, <2>2
<1>2. \E i \in T : \A j \in T : i <= j
  BY <1>1, LeastNat
<1>3. PICK x \in U : \A y \in U : x <= y
  <2> HIDE DEF U
  <2> QED BY <1>1, LeastNat
<1>4. PICK i \in T : x = b - i
  BY <1>3
<1>5. \A j \in T : j <= i
  <2> SUFFICES ASSUME NEW j \in T PROVE j <= i
    OBVIOUS
  <2>1. b - i <= b - j
    BY <1>3, <1>4
  <2>2. i \in 0 .. b /\ j \in 0 .. b
    BY <1>1
  <2> QED BY <2>1, <2>2
<1>6. \E k \in T : \A j \in T : j <= k
  BY <1>5
<1> QED BY <1>2, <1>6

(* The search finds a packet of the list, or none. *)
LEMMA FindProp ==
  ASSUME NEW l \in Seq(Packet), NEW t \in Int
  PROVE  LET index == ngscope_reTx_find_burst_start(l, t)
         IN  /\ index \in Int
             /\ index > 0 => index + 1 \in 1 .. Len(l)
<1> DEFINE index == nearest_neighbour_index(l, t)
           back == IF index < Search THEN 0 .. index ELSE index - Search + 1 .. index
           on == IF index + Search < pkt_num(l) THEN index + 1 .. index + Search - 1
                                                ELSE index + 1 .. pkt_num(l) - 1
           Starts(I) == {i \in I : is_burst_start(l, i)}
           r == ngscope_reTx_find_burst_start(l, t)
<1>1. Len(l) \in Nat /\ pkt_num(l) = Len(l) - 1 /\ Search \in Nat \ {0}
  BY ListProp, ClientAssumption DEF pkt_num
<1> DEFINE last == CHOOSE i \in Starts(back) : \A j \in Starts(back) : j <= i
           first == CHOOSE i \in Starts(on) : \A j \in Starts(on) : i <= j
           none == IF Abs(t - l[pkt_num(l)].recv_t) < Near THEN -1 ELSE index
<1>2. r = CASE pkt_num(l) <= 0 -> 0
            [] pkt_num(l) > 0 /\ Starts(back) # {} -> last
            [] pkt_num(l) > 0 /\ Starts(back) = {} /\ Starts(on) # {} -> first
            [] OTHER -> none
  BY DEF ngscope_reTx_find_burst_start
<1> HIDE DEF last, first, none, r, Starts
<1>3. CASE pkt_num(l) <= 0
  <2>1. ~(pkt_num(l) > 0)
    BY <1>1, <1>3
  <2>2. r = 0
    <3> HIDE DEF back, on
    <3> QED BY <1>2, <1>3, <2>1
  <2> QED BY <2>2 DEF r
<1>4. CASE pkt_num(l) > 0
  <2>1. index \in 0 .. pkt_num(l) - 1 /\ pkt_num(l) - 1 \in Nat /\ ~(pkt_num(l) <= 0)
    BY <1>1, <1>4, NearestProp
  <2> HIDE DEF index
  <2>2. back \subseteq 0 .. pkt_num(l) - 1 /\ on \subseteq 0 .. pkt_num(l) - 1
    BY <1>1, <2>1
  <2> HIDE DEF back, on
  <2>3. Starts(back) \subseteq 0 .. pkt_num(l) - 1 /\ Starts(on) \subseteq 0 .. pkt_num(l) - 1
    BY <2>2 DEF Starts
  <2>4. \/ r \in 0 .. pkt_num(l) - 1
        \/ r = -1
    <3>1. CASE Starts(back) # {}
      <4>1. r = last
        BY <1>2, <1>4, <2>1, <3>1
      <4>2. last \in Starts(back)
        BY <2>1, <2>3, <3>1, FirstAndLast DEF last
      <4> QED BY <2>3, <4>1, <4>2
    <3>2. CASE Starts(back) = {} /\ Starts(on) # {}
      <4>1. r = first
        BY <1>2, <1>4, <2>1, <3>2
      <4>2. first \in Starts(on)
        BY <2>1, <2>3, <3>2, FirstAndLast DEF first
      <4> QED BY <2>3, <4>1, <4>2
    <3>3. CASE Starts(back) = {} /\ Starts(on) = {}
      <4>1. r = none
        BY <1>2, <1>4, <2>1, <3>3
      <4>2. none \in {-1, index}
        BY DEF none
      <4> QED BY <2>1, <4>1, <4>2
    <3> QED BY <3>1, <3>2, <3>3
  <2>5. r \in Int /\ (r > 0 => r + 1 \in 1 .. Len(l))
    BY <1>1, <2>4
  <2> QED BY <2>5 DEF r
<1> QED BY <1>1, <1>3, <1>4

(* What the buffer keeps when its burst is searched for or given back.     *)
Keeps(q, r) ==
  /\ r \in Buffer /\ Sane(r)
  /\ r.ready = q.ready
  /\ r.buf_last_ms = q.buf_last_ms

(* The start of the burst is set only in an active buffer. *)
LEMMA SetStartProp ==
  ASSUME NEW l \in Seq(Packet), NEW q \in Buffer, Sane(q), Searches(q),
         ngscope_reTx_find_burst_start(l, q.buf_start_t) > 0
  PROVE  LET index == ngscope_reTx_find_burst_start(l, q.buf_start_t)
         IN  Keeps(q, [q EXCEPT !.start_pkt_found = TRUE, !.start_pkt_t = l[index + 1].recv_t])
<1> DEFINE index == ngscope_reTx_find_burst_start(l, q.buf_start_t)
           t == l[index + 1].recv_t
           r == [q EXCEPT !.start_pkt_found = TRUE, !.start_pkt_t = t]
<1>1. q.buf_start_t \in Int
  BY DEF Buffer
<1>2. index \in Int /\ index > 0 /\ index + 1 \in 1 .. Len(l)
  BY <1>1, FindProp
<1> HIDE DEF index
<1>3. t \in Int
  BY <1>2, ListProp
<1> HIDE DEF t
<1>4. r \in Buffer
  <2>1. TRUE \in BOOLEAN
    OBVIOUS
  <2> QED BY <1>3, <2>1, BufferType, Zenon
<1>5. /\ r.buffer_active = q.buffer_active /\ r.buf_size = q.buf_size
      /\ r.ready = q.ready /\ r.buf_last_ms = q.buf_last_ms
  BY DEF Buffer
<1>6. q.buffer_active
  BY DEF Searches
<1> HIDE DEF r
<1>7. Keeps(q, r)
  BY <1>4, <1>5, <1>6 DEF Keeps, Sane
<1> QED BY <1>7 DEF r, t, index

LEMMA StartSearchedProp ==
  ASSUME NEW l \in Seq(Packet), NEW q \in Buffer, Sane(q), NEW w \in Window
  PROVE  Keeps(q, StartSearched(l, q, w))
<1> DEFINE index == ngscope_reTx_find_burst_start(l, q.buf_start_t)
           late == tti_distance(wrap_tti(q.buf_start_ms), wrap_tti(w.header)) > SearchTTIs
<1>1. index \in Int
  <2>1. q.buf_start_t \in Int
    BY DEF Buffer
  <2> QED BY <2>1, FindProp
<1>2. CASE Searches(q) /\ index > 0
  <2>1. ~(Searches(q) /\ index <= 0 /\ late)
    <3> HIDE DEF index
    <3> QED BY <1>1, <1>2
  <2>2. StartSearched(l, q, w) =
          [q EXCEPT !.start_pkt_found = TRUE, !.start_pkt_t = l[index + 1].recv_t]
    BY <1>2, <2>1 DEF StartSearched
  <2> QED BY <1>2, <2>2, SetStartProp
<1>3. CASE Searches(q) /\ index <= 0 /\ late
  <2>1. ~(Searches(q) /\ index > 0)
    <3> HIDE DEF index
    <3> QED BY <1>1, <1>3
  <2>2. StartSearched(l, q, w) = ngscope_reTx_reset_buf(q)
    BY <1>3, <2>1 DEF StartSearched
  <2> QED BY <2>2, ActivateResetProp DEF Keeps
<1>4. CASE ~(Searches(q) /\ index > 0) /\ ~(Searches(q) /\ index <= 0 /\ late)
  <2>1. StartSearched(l, q, w) = q
    BY <1>4 DEF StartSearched
  <2> QED BY <2>1 DEF Keeps
<1> QED BY <1>2, <1>3, <1>4

LEMMA FoundProp ==
  ASSUME NEW l \in Seq(Packet), NEW q \in Buffer, Sane(q)
  PROVE  Keeps(q, Found(l, q))
<1> DEFINE index == ngscope_reTx_find_burst_start(l, q.buf_start_t)
<1>1. CASE Searches(q) /\ index > 0
  <2>1. Found(l, q) = [q EXCEPT !.start_pkt_found = TRUE, !.start_pkt_t = l[index + 1].recv_t]
    BY <1>1 DEF Found
  <2> QED BY <1>1, <2>1, SetStartProp
<1>2. CASE ~(Searches(q) /\ index > 0)
  <2>1. Found(l, q) = q
    BY <1>2 DEF Found
  <2> QED BY <2>1 DEF Keeps
<1> QED BY <1>1, <1>2
-----------------------------------------------------------------------------
(* Giving packets their delay back, and acknowledging them.                *)

LEMMA PacketType ==
  ASSUME NEW p \in Packet, NEW x \in BOOLEAN
  PROVE  /\ [p EXCEPT !.revert_flag = x] \in Packet
         /\ [p EXCEPT !.acked = x] \in Packet
  BY DEF Packet

(* The states of the loop over list l with buffer q. *)
RevertStates(l, q) ==
  {s \in [l : Seq(Packet), q : Buffer, over : BOOLEAN] :
     /\ Len(s.l) = Len(l)
     /\ \A j \in 1 .. Len(l) : s.l[j].recv_t = l[j].recv_t
     /\ Keeps(q, s.q) /\ s.q.start_pkt_t = q.start_pkt_t
     /\ s.over => ~s.q.buffer_active}

(* The first i packets of s that are of the burst have their delay back,   *)
(* while the buffer is active.                                             *)
BackTo(s, i) ==
  s.q.buffer_active =>
    \A j \in 1 .. i : s.l[j].recv_t >= s.q.start_pkt_t => s.l[j].revert_flag

(* Taking a packet's size off leaves flags and size in agreement. *)
LEMMA DrainedProp ==
  ASSUME NEW q \in Buffer, Sane(q), NEW size \in Int, size <= q.buf_size,
         size < q.buf_size => q.buffer_active
  PROVE  LET d == Drained([q EXCEPT !.buf_size = size])
         IN  /\ Keeps(q, d) /\ d.start_pkt_t = q.start_pkt_t
             /\ d.buffer_active => q.buffer_active
             /\ size <= 0 => ~d.buffer_active
<1> DEFINE r == [q EXCEPT !.buf_size = size]
           d == Drained(r)
<1>1. r \in Buffer
  BY BufferType, Zenon
<1>2. /\ r.buf_size = size /\ r.buffer_active = q.buffer_active /\ r.ready = q.ready
      /\ r.start_pkt_found = q.start_pkt_found /\ r.start_pkt_t = q.start_pkt_t
      /\ r.buf_last_ms = q.buf_last_ms
  BY DEF Buffer
<1>3. q.buf_size \in Int
  BY DEF Buffer
<1> HIDE DEF r
<1>4. CASE size <= 0
  <2>1. d = ngscope_reTx_reset_buf(r)
    BY <1>2, <1>4 DEF Drained
  <2>2. /\ d \in Buffer /\ d.ready = r.ready /\ Sane(d) /\ d.buffer_active = FALSE
        /\ d.buf_last_ms = r.buf_last_ms /\ d.start_pkt_t = r.start_pkt_t
    BY <1>1, <2>1, ActivateResetProp
  <2> HIDE DEF d
  <2>3. Keeps(q, d) /\ d.start_pkt_t = q.start_pkt_t /\ ~d.buffer_active
    BY <1>2, <2>2 DEF Keeps
  <2> QED BY <2>3 DEF d, r
<1>5. CASE size > 0
  <2>1. d = r
    BY <1>2, <1>5 DEF Drained
  <2>2. q.buffer_active
    <3>1. q.buf_size > 0
      BY <1>3, <1>5
    <3> QED BY <3>1 DEF Sane
  <2>3. Sane(r)
    BY <1>2, <1>5, <2>2 DEF Sane
  <2>4. Keeps(q, r)
    BY <1>1, <1>2, <2>3 DEF Keeps
  <2>5. ~(size <= 0)
    BY <1>5
  <2> HIDE DEF d
  <2>6. Keeps(q, d) /\ d.start_pkt_t = q.start_pkt_t
    BY <1>2, <2>1, <2>4
  <2> QED BY <2>2, <2>5, <2>6 DEF d, r
<1> QED BY <1>4, <1>5

(* A round of the loop: the packet has its delay back, unless it is not of *)
(* the burst, or the buffer is not active.                                 *)
LEMMA RevertStepProp ==
  ASSUME NEW l \in Seq(Packet), NEW q \in Buffer, NEW i \in 1 .. Len(l),
         NEW s \in RevertStates(l, q), BackTo(s, i - 1)
  PROVE  RevertStep(s, i) \in RevertStates(l, q) /\ BackTo(RevertStep(s, i), i)
<1> DEFINE r == Reverts(s.q, s.l[i])
           size == IF r THEN s.q.buf_size - 1 ELSE s.q.buf_size
           m == IF r THEN [s.l EXCEPT ![i].revert_flag = TRUE] ELSE s.l
           d == Drained([s.q EXCEPT !.buf_size = size])
           over == size <= 0
<1>1. /\ s.l \in Seq(Packet) /\ s.q \in Buffer /\ s.over \in BOOLEAN
      /\ Len(s.l) = Len(l)
      /\ \A j \in 1 .. Len(l) : s.l[j].recv_t = l[j].recv_t
      /\ Keeps(q, s.q) /\ s.q.start_pkt_t = q.start_pkt_t
      /\ s.over => ~s.q.buffer_active
  BY DEF RevertStates
<1>2. Len(l) \in Nat /\ i \in Nat /\ DOMAIN s.l = 1 .. Len(l)
  BY <1>1, ListProp
<1>3. CASE s.over
  <2>1. RevertStep(s, i) = s
    BY <1>3 DEF RevertStep
  <2> QED BY <1>1, <1>3, <2>1 DEF BackTo
<1>4. CASE ~s.over
  <2>1. RevertStep(s, i) = [l |-> m, q |-> d, over |-> over]
    BY <1>4 DEF RevertStep
  <2>2. s.l[i] \in Packet /\ s.l[i].revert_flag \in BOOLEAN
    BY <1>1, <1>2, ListProp
  <2>3. s.q.buf_size \in Int /\ Sane(s.q) /\ r \in BOOLEAN /\ (r => s.q.buffer_active)
    BY <1>1 DEF Keeps, Buffer, Reverts
  <2> HIDE DEF r
  <2>4. size \in Int /\ size <= s.q.buf_size /\ (size < s.q.buf_size => s.q.buffer_active)
    BY <2>3
  <2> HIDE DEF size
  <2>5. /\ Keeps(s.q, d) /\ d.start_pkt_t = s.q.start_pkt_t
        /\ d.buffer_active => s.q.buffer_active
        /\ size <= 0 => ~d.buffer_active
    BY <1>1, <2>3, <2>4, DrainedProp
  <2> HIDE DEF d
  <2>6. Keeps(q, d) /\ d.start_pkt_t = q.start_pkt_t /\ d \in Buffer
    BY <1>1, <2>5 DEF Keeps
  <2>7. over \in BOOLEAN /\ (over => ~d.buffer_active)
    BY <2>4, <2>5
  <2>8. /\ m \in Seq(Packet) /\ Len(m) = Len(l)
        /\ \A j \in 1 .. Len(l) : /\ m[j].recv_t = s.l[j].recv_t
                                  /\ s.l[j].revert_flag => m[j].revert_flag
        /\ r => m[i].revert_flag
    <3>1. CASE ~r
      BY <1>1, <3>1
    <3>2. CASE r
      <4> DEFINE p == [s.l[i] EXCEPT !.revert_flag = TRUE]
      <4>1. p \in Packet
        BY <2>2, PacketType
      <4>2. p.recv_t = s.l[i].recv_t /\ p.revert_flag = TRUE
        BY <2>2 DEF Packet
      <4> HIDE DEF p
      <4>3. m = [s.l EXCEPT ![i] = p]
        BY <3>2 DEF p
      <4> HIDE DEF m
      <4>4. m \in Seq(Packet) /\ Len(m) = Len(l)
        <5>1. i \in 1 .. Len(s.l) /\ s.l \in Seq(Packet)
          BY <1>1, <1>2
        <5>2. /\ [s.l EXCEPT ![i] = p] \in Seq(Packet)
              /\ Len([s.l EXCEPT ![i] = p]) = Len(s.l)
          BY <4>1, <5>1, ExceptSeq
        <5> QED BY <1>1, <4>3, <5>2
      <4>5. \A j \in 1 .. Len(l) : m[j] = IF j = i THEN p ELSE s.l[j]
        BY <1>2, <4>3
      <4> QED BY <4>2, <4>4, <4>5
    <3> QED BY <2>3, <3>1, <3>2
  <2>9. ASSUME d.buffer_active, NEW j \in 1 .. i, m[j].recv_t >= d.start_pkt_t
        PROVE  m[j].revert_flag
    <3>1. s.q.buffer_active /\ d.start_pkt_t = s.q.start_pkt_t /\ j \in 1 .. Len(l)
      BY <1>2, <2>5, <2>9
    <3>2. s.l[j].recv_t >= s.q.start_pkt_t
      BY <2>8, <2>9, <3>1
    <3>3. s.l[j].revert_flag => m[j].revert_flag
      BY <2>8, <3>1
    <3>4. CASE j \in 1 .. i - 1
      BY <3>1, <3>2, <3>3, <3>4 DEF BackTo
    <3>5. CASE j = i
      BY <2>8, <3>1, <3>2, <3>3, <3>5 DEF r, Reverts
    <3>6. j \in 1 .. i - 1 \/ j = i
      BY <1>2
    <3> QED BY <3>4, <3>5, <3>6
  <2> HIDE DEF m, over
  <2>10. \A j \in 1 .. Len(l) : m[j].recv_t = l[j].recv_t
    BY <1>1, <2>8
  <2>11. RevertStep(s, i) \in RevertStates(l, q)
    BY <2>1, <2>6, <2>7, <2>8, <2>10 DEF RevertStates
  <2>12. BackTo(RevertStep(s, i), i)
    BY <2>1, <2>9 DEF BackTo
  <2> QED BY <2>11, <2>12
<1> QED BY <1>3, <1>4

(* After the loop every packet of the burst has its delay back, or the     *)
(* buffer is empty and idle.                                               *)
LEMMA RevertProp ==
  ASSUME NEW l \in Seq(Packet), NEW q \in Buffer, Sane(q)
  PROVE  LET r == ngscope_list_revert_delay(l, q)
         IN  r \in RevertStates(l, q) /\ BackTo(r, Len(l))
<1> DEFINE k == Len(l)
           s0 == [l |-> l, q |-> q, over |-> FALSE]
           F(f) == [i \in 0 .. k |-> IF i = 0 THEN s0 ELSE RevertStep(f[i - 1], i)]
           loop == CHOOSE f : f = F(f)
           S == RevertStates(l, q)
           Back(i) == {s \in S : BackTo(s, i)}
           h == [i \in 1 .. k |-> [s \in S |-> IF BackTo(s, i - 1) THEN RevertStep(s, i) ELSE s0]]
           T == [i \in 0 .. k |-> Back(i)]
<1>1. ngscope_list_revert_delay(l, q) = loop[k]
  BY DEF ngscope_list_revert_delay
<1>2. k \in Nat
  BY ListProp
<1>3. s0 \in S /\ BackTo(s0, 0)
  <2>1. s0 \in [l : Seq(Packet), q : Buffer, over : BOOLEAN]
    OBVIOUS
  <2>2. Keeps(q, q)
    BY DEF Keeps
  <2> QED BY <2>1, <2>2 DEF RevertStates, BackTo
<1>4. \A i \in 1 .. k : i \in 0 .. k /\ i - 1 \in 0 .. k /\ i # 0
  BY <1>2
<1> HIDE DEF s0
<1>5. \A i \in 1 .. k : \A s \in Back(i - 1) : RevertStep(s, i) \in Back(i)
  BY RevertStepProp
<1>6. \A i \in 1 .. k : \A s \in S : (IF BackTo(s, i - 1) THEN RevertStep(s, i) ELSE s0) \in S
  BY <1>3, <1>5
<1> HIDE DEF k, S
<1>7. h \in [1 .. k -> [S -> S]]
  BY <1>6
<1>8. PICK f \in [0 .. k -> S] : f[0] = s0 /\ \A i \in 1 .. k : f[i] = h[i][f[i - 1]]
  <2>1. PICK f \in [0 .. k -> S] : Recursion(f, k, s0, h)
    <3> HIDE DEF h
    <3> QED BY <1>2, <1>3, <1>7, RecursionExists
  <2> QED BY <2>1 DEF Recursion
<1>9. \A i \in 0 .. k : f[i] \in T[i]
  <2>1. f[0] \in T[0]
    BY <1>2, <1>3, <1>8
  <2>2. ASSUME NEW i \in 1 .. k, f[i - 1] \in T[i - 1] PROVE f[i] \in T[i]
    <3>1. f[i - 1] \in S /\ BackTo(f[i - 1], i - 1)
      BY <1>4, <2>2
    <3>2. f[i] = RevertStep(f[i - 1], i)
      BY <1>8, <3>1
    <3> QED BY <1>4, <1>5, <3>1, <3>2
  <2> HIDE DEF T
  <2> QED BY <1>2, <2>1, <2>2, RecursionKeeps
<1>10. f = F(f)
  <2>1. \A i \in 0 .. k : i # 0 => i \in 1 .. k /\ f[i - 1] \in S
    BY <1>2
  <2>2. \A i \in 1 .. k : f[i] = RevertStep(f[i - 1], i)
    <3> SUFFICES ASSUME NEW i \in 1 .. k PROVE f[i] = RevertStep(f[i - 1], i)
      OBVIOUS
    <3>1. f[i - 1] \in S /\ BackTo(f[i - 1], i - 1)
      BY <1>4, <1>9
    <3> QED BY <1>8, <3>1
  <2> QED BY <1>8, <2>1, <2>2
<1>11. loop = F(loop)
  <2> HIDE DEF F
  <2> QED BY <1>10
<1>12. \A i \in 0 .. k : loop[i] \in T[i]
  <2> HIDE DEF loop
  <2>1. loop[0] \in T[0]
    BY <1>2, <1>3, <1>11
  <2>2. ASSUME NEW i \in 1 .. k, loop[i - 1] \in T[i - 1] PROVE loop[i] \in T[i]
    <3>1. loop[i] = RevertStep(loop[i - 1], i)
      BY <1>4, <1>11
    <3> QED BY <1>4, <1>5, <2>2, <3>1
  <2> HIDE DEF T
  <2> QED BY <1>2, <2>1, <2>2, RecursionKeeps
<1>13. k \in 0 .. k
  BY <1>2
<1> QED BY <1>1, <1>12, <1>13 DEF S, k

(* The packets of a burst with a known start have their delay back.        *)
BurstBack(l, q) ==
  (q.buffer_active /\ q.start_pkt_found) =>
    \A j \in 1 .. Len(l) : l[j].recv_t >= q.start_pkt_t => l[j].revert_flag

LEMMA RevertedProp ==
  ASSUME NEW l \in PacketList, NEW q \in Buffer, Sane(q)
  PROVE  LET r == Reverted(l, q)
         IN  r.l \in PacketList /\ Keeps(q, r.q) /\ BurstBack(r.l, r.q)
<1> DEFINE r == Reverted(l, q)
<1>1. /\ l \in Seq(Packet) /\ Len(l) \in Nat /\ DOMAIN l = 1 .. Len(l)
      /\ \A i, j \in 1 .. Len(l) : i < j => l[i].recv_t <= l[j].recv_t
  BY ListProp DEF PacketList
<1>2. r \in RevertStates(l, q) /\ BurstBack(r.l, r.q)
  <2>1. CASE q.ready /\ q.buffer_active /\ q.start_pkt_found
    <3>1. r = ngscope_list_revert_delay(l, q)
      BY <2>1 DEF Reverted
    <3>2. r \in RevertStates(l, q) /\ BackTo(r, Len(l))
      BY <1>1, <3>1, RevertProp
    <3> HIDE DEF r
    <3> QED BY <3>2 DEF RevertStates, BackTo, BurstBack
  <2>2. CASE ~(q.ready /\ q.buffer_active /\ q.start_pkt_found)
    <3>1. r = [l |-> l, q |-> q, over |-> FALSE]
      BY <2>2 DEF Reverted
    <3>2. ~(q.buffer_active /\ q.start_pkt_found)
      BY <2>2 DEF Sane
    <3>3. Keeps(q, q)
      BY DEF Keeps
    <3>4. r \in [l : Seq(Packet), q : Buffer, over : BOOLEAN]
      BY <1>1, <3>1
    <3>5. r.l = l /\ r.q = q /\ r.over = FALSE
      BY <3>1
    <3> HIDE DEF r
    <3> QED BY <3>2, <3>3, <3>4, <3>5 DEF RevertStates, BurstBack
  <2> QED BY <2>1, <2>2
<1> HIDE DEF r
<1>3. /\ r.l \in Seq(Packet) /\ Len(r.l) = Len(l) /\ Keeps(q, r.q)
      /\ \A j \in 1 .. Len(l) : r.l[j].recv_t = l[j].recv_t
  BY <1>2 DEF RevertStates
<1>4. DOMAIN r.l = 1 .. Len(l)
  BY <1>3, ListProp
<1>5. r.l \in PacketList
  BY <1>1, <1>3, <1>4 DEF PacketList
<1> QED BY <1>2, <1>3, <1>5 DEF r

(* Acknowledging the packets b says changes nothing else. *)
LEMMA AckedProp ==
  ASSUME NEW l \in PacketList, NEW b \in [1 .. Len(l) -> BOOLEAN]
  PROVE  LET k == [i \in DOMAIN l |-> [l[i] EXCEPT !.acked = b[i]]]
         IN  /\ k \in PacketList /\ DOMAIN k = 1 .. Len(l)
             /\ \A i \in 1 .. Len(l) : k[i].recv_t = l[i].recv_t /\ k[i].acked = b[i]
<1> DEFINE k == [i \in DOMAIN l |-> [l[i] EXCEPT !.acked = b[i]]]
<1>1. /\ l \in Seq(Packet) /\ Len(l) \in Nat /\ DOMAIN l = 1 .. Len(l)
      /\ \A i, j \in 1 .. Len(l) : i < j => l[i].recv_t <= l[j].recv_t
      /\ \A i \in 1 .. Len(l) : l[i] \in Packet
  BY ListProp DEF PacketList
<1>2. \A i \in 1 .. Len(l) : [l[i] EXCEPT !.acked = b[i]] \in Packet
  BY <1>1, PacketType
<1>3. k \in [1 .. Len(l) -> Packet]
  BY <1>1, <1>2
<1>4. k \in Seq(Packet) /\ DOMAIN k = 1 .. Len(l)
  BY <1>1, <1>3, SeqDef
<1>5. \A i \in 1 .. Len(l) : k[i].recv_t = l[i].recv_t /\ k[i].acked = b[i]
  BY <1>1 DEF Packet
<1> HIDE DEF k
<1>6. k \in PacketList
  BY <1>1, <1>4, <1>5 DEF PacketList
<1> QED BY <1>4, <1>5, <1>6 DEF k

(* A packet that has its delay back is acknowledged. *)
LEMMA SendProp ==
  ASSUME NEW l \in PacketList, NEW q \in Buffer, BurstBack(l, q)
  PROVE  LET k == send_pkt_list(l, q)
         IN  /\ k \in PacketList
             /\ (q.buffer_active /\ q.start_pkt_found) =>
                  \A i \in DOMAIN k : k[i].recv_t >= q.start_pkt_t => k[i].acked
<1> DEFINE b == [i \in 1 .. Len(l) |-> l[i].acked \/ tx_pkt_ornot(q, l[i])]
           k == [i \in DOMAIN l |-> [l[i] EXCEPT !.acked = b[i]]]
<1>1. DOMAIN l = 1 .. Len(l)
  BY ListProp DEF PacketList
<1>2. send_pkt_list(l, q) = k
  BY <1>1 DEF send_pkt_list
<1>3. b \in [1 .. Len(l) -> BOOLEAN]
  OBVIOUS
<1>4. \A i \in 1 .. Len(l) : l[i].revert_flag => b[i]
  BY DEF tx_pkt_ornot
<1> HIDE DEF b
<1>5. /\ k \in PacketList /\ DOMAIN k = 1 .. Len(l)
      /\ \A i \in 1 .. Len(l) : k[i].recv_t = l[i].recv_t /\ k[i].acked = b[i]
  BY <1>3, AckedProp
<1> HIDE DEF k
<1>6. ASSUME q.buffer_active, q.start_pkt_found, NEW i \in DOMAIN k, k[i].recv_t >= q.start_pkt_t
      PROVE  k[i].acked
  BY <1>4, <1>5, <1>6 DEF BurstBack
<1> QED BY <1>2, <1>5, <1>6

(* The earlier client acknowledges all. *)
LEMMA AnsweredProp ==
  ASSUME NEW l \in PacketList
  PROVE  Answered(l) \in PacketList /\ \A i \in DOMAIN Answered(l) : Answered(l)[i].acked
<1> DEFINE b == [i \in 1 .. Len(l) |-> TRUE]
           k == [i \in DOMAIN l |-> [l[i] EXCEPT !.acked = b[i]]]
<1>1. DOMAIN l = 1 .. Len(l)
  BY ListProp DEF PacketList
<1>2. Answered(l) = k
  BY <1>1 DEF Answered
<1>3. b \in [1 .. Len(l) -> BOOLEAN] /\ \A i \in 1 .. Len(l) : b[i]
  OBVIOUS
<1> HIDE DEF b
<1>4. /\ k \in PacketList /\ DOMAIN k = 1 .. Len(l)
      /\ \A i \in 1 .. Len(l) : k[i].recv_t = l[i].recv_t /\ k[i].acked = b[i]
  BY <1>3, AckedProp
<1> HIDE DEF k
<1> QED BY <1>2, <1>3, <1>4
-----------------------------------------------------------------------------
(* The steps of the two clients.                                           *)

LEMMA TypeList == TypeOK => list \in PacketList /\ air \in Seq(Block) /\ window \in Window
  BY DEF TypeOK, PacketList, Window

LEMMA ClientsInvInit == Start => ClientsInv
<1> SUFFICES ASSUME Start PROVE ClientsInv
  OBVIOUS
<1>1. /\ air = <<>> /\ window = [tail |-> 1, header |-> 0, offset |-> 0] /\ seen_reTx = 0
      /\ list = <<>> /\ buf = ngscope_reTx_init_buf /\ Missing_DL = FALSE
      /\ crashed = FALSE /\ counted = 0
  BY DEF Start, Init
<1>2. FirstMs \in Nat /\ NumLog \in Nat \ {0} /\ now = FirstMs
  BY <1>1, ClientAssumption DEF now
<1>3. /\ buf \in Buffer /\ Sane(buf) /\ buf.ready = FALSE /\ buf.buf_last_ms = 0
      /\ buf.buffer_active = FALSE
  BY <1>1 DEF ngscope_reTx_init_buf, Buffer, Sane
<1>4. DOMAIN list = {}
  BY <1>1
<1>5. TypeOK
  <2>1. air \in Seq(Block) /\ list \in Seq(Packet)
    BY <1>1, EmptySeq
  <2>2. window \in [tail : Nat, header : Nat, offset : Int] /\ seen_reTx \in Nat /\ counted \in Nat
    BY <1>1
  <2>3. Missing_DL \in BOOLEAN /\ crashed \in BOOLEAN
    BY <1>1
  <2> QED BY <1>3, <1>4, <2>1, <2>2, <2>3 DEF TypeOK
<1>6. Covered(window)
  BY <1>1, <1>2 DEF Covered
<1>7. LastKnown
  BY <1>1, <1>2, <1>3 DEF LastKnown
<1>8. CountedIn(buf, counted)
  <2>1. Cardinality(ReTxUpTo(0)) \in Nat
    BY <1>5, TypeList, ReTxFinite
  <2> QED BY <1>1, <1>3, <2>1 DEF CountedIn
<1>9. NothingHeldInBurst
  BY <1>3 DEF NothingHeldInBurst
<1> QED BY <1>3, <1>5, <1>6, <1>7, <1>8, <1>9 DEF ClientsInv

(* A copy made now ends now, and covers what was received. *)
LEMMA CaWindowProp ==
  ASSUME air \in Seq(Block), NEW offset \in Int
  PROVE  /\ CaWindow(offset) \in Window /\ Covered(CaWindow(offset))
         /\ CaWindow(offset).header = now
<1>1. FirstMs \in Nat /\ NumLog \in Nat \ {0} /\ Len(air) \in Nat /\ now = FirstMs + Len(air)
  BY ClientAssumption, LenProperties DEF now
<1> DEFINE tail == (IF Len(air) < NumLog THEN FirstMs + 1 ELSE now - NumLog + 1) + 1
<1>2. tail \in Nat /\ tail > FirstMs /\ now - tail < NumLog /\ now \in Nat
  <2>1. CASE Len(air) < NumLog
    <3>1. tail = FirstMs + 2
      BY <1>1, <2>1
    <3> HIDE DEF tail
    <3> QED BY <1>1, <2>1, <3>1
  <2>2. CASE ~(Len(air) < NumLog)
    <3>1. tail = now - NumLog + 2
      BY <1>1, <2>2
    <3> HIDE DEF tail
    <3> QED BY <1>1, <2>2, <3>1
  <2> QED BY <2>1, <2>2
<1> HIDE DEF tail
<1>3. CaWindow(offset) = [tail |-> tail, header |-> now, offset |-> offset]
  BY DEF CaWindow, tail
<1>4. CaWindow(offset) \in Window
  BY <1>2, <1>3 DEF Window
<1>5. CaWindow(offset).tail = tail /\ CaWindow(offset).header = now
  BY <1>3
<1>6. Covered(CaWindow(offset))
  BY <1>2, <1>5 DEF Covered
<1> QED BY <1>4, <1>5, <1>6

(* NG-Scope's next subframe. *)
LEMMA RecvDciInv == ClientsInv /\ RecvDci /\ UNCHANGED program => ClientsInv'
<1> SUFFICES ASSUME ClientsInv, RecvDci, UNCHANGED program PROVE ClientsInv'
  OBVIOUS
<1>1. PICK b \in Block : air' = Append(air, b)
  BY DEF RecvDci
<1>2. UNCHANGED <<window, seen_reTx, list, buf, Missing_DL, crashed, counted>>
  BY DEF RecvDci
<1>3. TypeOK /\ Covered(window) /\ Sane(buf) /\ LastKnown /\ NothingHeldInBurst
  BY DEF ClientsInv
<1>4. air \in Seq(Block) /\ window \in Window /\ buf \in Buffer /\ FirstMs \in Nat
  BY <1>3, TypeList, ClientAssumption DEF TypeOK
<1>5. /\ air' \in Seq(Block) /\ Len(air') = Len(air) + 1 /\ Len(air) \in Nat
      /\ \A i \in 1 .. Len(air) : air'[i] = air[i]
  BY <1>1, <1>4, AppendProperties, LenProperties
<1>6. now' = now + 1 /\ now \in Nat
  BY <1>4, <1>5 DEF now
<1>7. TypeOK'
  BY <1>2, <1>3, <1>5 DEF TypeOK
<1>8. Covered(window)'
  BY <1>2, <1>3, <1>4, <1>6 DEF Covered, Window
<1>9. LastKnown'
  <2>1. buf.buf_last_ms \in Nat
    BY <1>4 DEF Buffer
  <2> QED BY <1>2, <1>3, <1>6, <2>1 DEF LastKnown
<1>10. Sane(buf)' /\ NothingHeldInBurst'
  BY <1>2, <1>3 DEF Sane, NothingHeldInBurst
<1>11. ASSUME ShortLog PROVE CountedIn(buf, counted)'
  <2> DEFINE last == buf.buf_last_ms
             R == ReTxUpTo(last)
             Q == ReTxUpTo(buf.buf_last_ms)'
  <2>1. last \in Nat /\ last' = last
    BY <1>2, <1>4 DEF Buffer
  <2>2. counted <= Cardinality(R) /\ (~buf.ready => counted = 0) /\ counted \in Nat
    BY <1>3, <1>11 DEF ClientsInv, CountedIn, TypeOK
  <2>3. \A m \in FirstMs + 1 .. now : m - FirstMs \in 1 .. Len(air)
    BY <1>4, <1>5 DEF now
  <2>4. \A m \in FirstMs + 1 .. now : block(m)' = block(m)
    BY <1>5, <2>3 DEF block
  <2>5. \A m \in FirstMs + 1 .. now : m \in FirstMs + 1 .. now'
    BY <1>4, <1>6
  <2>6. Q = {m \in FirstMs + 1 .. now' : block(m)'.reTx /\ m <= last}
    BY <2>1 DEF ReTxUpTo
  <2>7. R \subseteq Q
    BY <2>4, <2>5, <2>6 DEF ReTxUpTo
  <2>8. IsFiniteSet(Q)
    <3>1. IsFiniteSet(FirstMs + 1 .. now')
      BY <1>4, <1>6, FS_Interval
    <3> QED BY <2>6, <3>1, FS_Subset
  <2>9. Cardinality(R) \in Nat /\ Cardinality(Q) \in Nat /\ Cardinality(R) <= Cardinality(Q)
    <3> HIDE DEF R, Q
    <3> QED BY <2>7, <2>8, FS_Subset, FS_CardinalityType
  <2> HIDE DEF R
  <2>10. counted <= Cardinality(Q)
    <3> HIDE DEF Q
    <3> QED BY <2>2, <2>9
  <2> QED BY <1>2, <2>2, <2>10 DEF CountedIn
<1> QED BY <1>7, <1>8, <1>9, <1>10, <1>11 DEF ClientsInv, ShortLog

(* A packet received is inserted in its order. *)
LEMMA ReceivedProp ==
  ASSUME TypeOK, NEW lag \in Lags, NEW oneway \in Oneways
  PROVE  insertNode_checkTime(list, NewPacket(now - lag, oneway)) \in PacketList
<1>1. lag \in Nat /\ oneway \in Nat /\ FirstMs \in Nat /\ Len(air) \in Nat
  BY ClientAssumption, TypeList, LenProperties
<1>2. now - lag \in Int
  BY <1>1 DEF now
<1>3. NewPacket(now - lag, oneway) \in Packet
  BY <1>1, <1>2 DEF NewPacket, Packet
<1> QED BY <1>3, TypeList, InsertProp

(* Updated or not, the buffer has counted nothing twice. *)
LEMMA UpdatedProp ==
  ASSUME ClientsInv, NEW w \in Window, Covered(w), buf.buf_last_ms <= w.header
  PROVE  Updated(buf, w) \in UpdateStates(w, counted)
<1>1. /\ air \in Seq(Block) /\ counted \in Nat /\ buf \in Buffer /\ Sane(buf)
      /\ Missing_DL \in BOOLEAN /\ (ShortLog => CountedIn(buf, counted))
  BY TypeList DEF ClientsInv, TypeOK
<1> DEFINE due == new_dl_reTx \/ (Missing_DL /\ buf.ready /\ ~buf.buffer_active)
<1>2. CASE due
  <2>1. Updated(buf, w) = update_reTx_buf(buf, w)
    BY <1>2 DEF Updated
  <2> QED BY <1>1, <2>1, UpdateProp
<1>3. CASE ~due
  <2> DEFINE s == [q |-> buf, found |-> ~Missing_DL, added |-> 0, over |-> FALSE]
  <2>1. Updated(buf, w) = s
    BY <1>3 DEF Updated
  <2>2. s \in [q : Buffer, found : BOOLEAN, added : Nat, over : BOOLEAN]
    BY <1>1
  <2>3. s.q = buf /\ counted + s.added = counted
    BY <1>1
  <2> HIDE DEF s
  <2> QED BY <1>1, <2>1, <2>2, <2>3 DEF UpdateStates
<1> QED BY <1>2, <1>3

(* CountedIn of the next state, in which nothing was received. *)
LEMMA CountedNext ==
  ASSUME UNCHANGED air, CountedIn(buf', counted')
  PROVE  CountedIn(buf, counted)'
<1>1. ReTxUpTo(buf.buf_last_ms)' = ReTxUpTo(buf'.buf_last_ms)
  BY DEF ReTxUpTo, block, now
<1> QED BY <1>1 DEF CountedIn

(* What is kept of the buffer when its burst is handled. *)
LEMMA CountedKept ==
  ASSUME NEW q, NEW r, Keeps(q, r), NEW n, CountedIn(q, n)
  PROVE  CountedIn(r, n)
  BY DEF Keeps, CountedIn

(* A round of dci_copa_rx after the copy of the log. *)
LEMMA HandlingProp ==
  ASSUME ClientsInv, NEW l \in PacketList, NEW w \in Window, Covered(w),
         buf.buf_last_ms <= w.header, pkt_handling(l, w)
  PROVE  /\ list' \in PacketList /\ buf' \in Buffer /\ Missing_DL' \in BOOLEAN
         /\ crashed' \in BOOLEAN /\ counted' \in Nat
         /\ Sane(buf') /\ buf'.buf_last_ms <= w.header
         /\ ShortLog => CountedIn(buf', counted')
         /\ NothingHeldInBurst'
<1>1. PICK u \in {Updated(buf, w)} :
        /\ Missing_DL' = ~u.found
        /\ counted' = counted + u.added
        /\ crashed' = DividesByZero(l, u.q)
        /\ \E r \in {Reverted(l, StartSearched(l, u.q, w))} :
             IF crashed'
               THEN list' = l /\ buf' = u.q
               ELSE list' = send_pkt_list(r.l, r.q) /\ buf' = r.q
  BY DEF pkt_handling
<1>2. u \in UpdateStates(w, counted)
  BY <1>1, UpdatedProp
<1>3. /\ u.q \in Buffer /\ u.found \in BOOLEAN /\ u.added \in Nat /\ Sane(u.q)
      /\ u.q.buf_last_ms <= w.header
      /\ ShortLog => CountedIn(u.q, counted')
  BY <1>1, <1>2 DEF UpdateStates
<1>4. counted' \in Nat
  <2>1. counted \in Nat
    BY DEF ClientsInv, TypeOK
  <2> QED BY <1>1, <1>3, <2>1
<1>5. Missing_DL' \in BOOLEAN /\ crashed' \in BOOLEAN
  BY <1>1, <1>3 DEF DividesByZero
<1> DEFINE q == StartSearched(l, u.q, w)
           r == Reverted(l, q)
<1>6. l \in Seq(Packet)
  BY DEF PacketList
<1>7. Keeps(u.q, q) /\ q \in Buffer /\ Sane(q)
  <2>1. Keeps(u.q, q)
    BY <1>3, <1>6, StartSearchedProp
  <2> HIDE DEF q
  <2> QED BY <2>1 DEF Keeps
<1>8. r.l \in PacketList /\ Keeps(q, r.q) /\ BurstBack(r.l, r.q)
  <2> HIDE DEF q
  <2> QED BY <1>7, RevertedProp
<1>9. CASE crashed'
  <2>1. list' = l /\ buf' = u.q
    BY <1>1, <1>9
  <2> QED BY <1>3, <1>4, <1>5, <1>9, <2>1 DEF NothingHeldInBurst
<1>10. CASE ~crashed'
  <2>1. list' = send_pkt_list(r.l, r.q) /\ buf' = r.q
    BY <1>1, <1>10
  <2> HIDE DEF q, r
  <2>2. Keeps(u.q, r.q) /\ r.q \in Buffer /\ Sane(r.q) /\ r.q.buf_last_ms = u.q.buf_last_ms
    BY <1>7, <1>8 DEF Keeps
  <2>3. /\ list' \in PacketList
        /\ (buf'.buffer_active /\ buf'.start_pkt_found) =>
             \A i \in DOMAIN list' : list'[i].recv_t >= buf'.start_pkt_t => list'[i].acked
    BY <1>8, <2>1, <2>2, SendProp
  <2>4. NothingHeldInBurst'
    BY <2>3 DEF NothingHeldInBurst
  <2>5. ShortLog => CountedIn(buf', counted')
    BY <1>3, <2>1, <2>2, CountedKept
  <2> QED BY <1>3, <1>4, <1>5, <2>1, <2>2, <2>3, <2>4, <2>5
<1> QED BY <1>5, <1>9, <1>10

LEMMA RecvPacketInv ==
  ClientsInv /\ program = "dci_copa_rx" /\ RecvPacket /\ UNCHANGED program => ClientsInv'
<1> SUFFICES ASSUME ClientsInv, program = "dci_copa_rx", RecvPacket, UNCHANGED program
             PROVE  ClientsInv'
  OBVIOUS
<1>1. PICK lag \in Lags, oneway \in Oneways, new_ul_reTx \in UplinkNews :
      \E offset \in IF new_dl_reTx THEN Offsets ELSE {0} :
      \E l \in {insertNode_checkTime(list, NewPacket(now - lag, oneway))} :
      \E w \in {IF new_dl_reTx \/ new_ul_reTx THEN CaWindow(offset) ELSE window} :
        /\ window' = w
        /\ seen_reTx' = IF new_dl_reTx \/ seen_reTx = 0 THEN recent_reTx ELSE seen_reTx
        /\ pkt_handling(l, w)
  BY DEF RecvPacket
<1>2. PICK offset \in IF new_dl_reTx THEN Offsets ELSE {0} :
      \E l \in {insertNode_checkTime(list, NewPacket(now - lag, oneway))} :
      \E w \in {IF new_dl_reTx \/ new_ul_reTx THEN CaWindow(offset) ELSE window} :
        /\ window' = w
        /\ seen_reTx' = IF new_dl_reTx \/ seen_reTx = 0 THEN recent_reTx ELSE seen_reTx
        /\ pkt_handling(l, w)
  BY <1>1
<1> DEFINE l == insertNode_checkTime(list, NewPacket(now - lag, oneway))
           w == IF new_dl_reTx \/ new_ul_reTx THEN CaWindow(offset) ELSE window
<1>3. /\ window' = w
      /\ seen_reTx' = IF new_dl_reTx \/ seen_reTx = 0 THEN recent_reTx ELSE seen_reTx
      /\ pkt_handling(l, w)
  BY <1>2
<1>4. /\ TypeOK /\ Covered(window) /\ LastKnown /\ buf \in Buffer /\ window \in Window
      /\ air \in Seq(Block) /\ seen_reTx \in Nat
  BY TypeList DEF ClientsInv, TypeOK
<1>5. air' = air /\ now' = now /\ now \in Nat
  <2>1. air' = air
    BY DEF RecvPacket
  <2>2. FirstMs \in Nat /\ Len(air) \in Nat
    BY <1>4, ClientAssumption, LenProperties
  <2> QED BY <2>1, <2>2 DEF now
<1>6. l \in PacketList
  BY <1>4, ReceivedProp
<1>7. w \in Window /\ Covered(w) /\ buf.buf_last_ms <= w.header
  <2>1. CASE new_dl_reTx \/ new_ul_reTx
    <3>1. offset \in Int
      BY ClientAssumption
    <3> QED BY <1>4, <2>1, <3>1, CaWindowProp DEF LastKnown
  <2>2. CASE ~(new_dl_reTx \/ new_ul_reTx)
    BY <1>4, <2>2 DEF LastKnown
  <2> QED BY <2>1, <2>2
<1> HIDE DEF l, w
<1>8. /\ list' \in PacketList /\ buf' \in Buffer /\ Missing_DL' \in BOOLEAN
      /\ crashed' \in BOOLEAN /\ counted' \in Nat
      /\ Sane(buf') /\ buf'.buf_last_ms <= w.header
      /\ ShortLog => CountedIn(buf', counted')
      /\ NothingHeldInBurst'
  BY <1>3, <1>6, <1>7, HandlingProp
<1>9. seen_reTx' \in Nat
  BY <1>3, <1>4, RecentType
<1>10. TypeOK'
  <2>1. window' \in Window
    BY <1>3, <1>7
  <2> QED BY <1>4, <1>5, <1>8, <1>9, <2>1 DEF TypeOK, PacketList, Window
<1>11. Covered(window)'
  BY <1>3, <1>5, <1>7 DEF Covered
<1>12. Sane(buf)'
  BY <1>8 DEF Sane
<1>13. LastKnown'
  <2>1. w.header <= now /\ w.header \in Nat /\ buf'.buf_last_ms \in Nat
    BY <1>7, <1>8 DEF Covered, Window, Buffer
  <2>2. buf'.buf_last_ms <= now
    BY <1>5, <1>8, <2>1
  <2> QED BY <1>3, <1>5, <1>8, <2>2 DEF LastKnown
<1>14. ShortLog => CountedIn(buf, counted)'
  BY <1>5, <1>8, CountedNext
<1> QED BY <1>8, <1>10, <1>11, <1>12, <1>13, <1>14 DEF ClientsInv, ShortLog

(* Two updates of the earlier client count nothing twice either. *)
LEMMA UpdatedTwiceProp ==
  ASSUME ClientsInv, NEW offset \in Offsets
  PROVE  LET u == UpdatedTwice(buf, offset)
         IN  /\ u.q \in Buffer /\ u.added \in Nat /\ Sane(u.q) /\ u.q.buf_last_ms <= now
             /\ ShortLog => CountedIn(u.q, counted + u.added)
<1> DEFINE u == UpdatedTwice(buf, offset)
           v == CaWindow(0)
           w == CaWindow(offset)
           first == update_reTx_buf(buf, v)
           second == update_reTx_buf(first.q, w)
<1>1. /\ air \in Seq(Block) /\ counted \in Nat /\ buf \in Buffer /\ Sane(buf)
      /\ buf.buf_last_ms <= now /\ (ShortLog => CountedIn(buf, counted))
  BY TypeList DEF ClientsInv, TypeOK, LastKnown
<1>2. CASE ~new_dl_reTx
  <2>1. u = [q |-> buf, added |-> 0]
    BY <1>2 DEF UpdatedTwice
  <2>2. u.q = buf /\ u.added = 0 /\ counted + u.added = counted
    BY <1>1, <2>1
  <2> HIDE DEF u
  <2> QED BY <1>1, <2>2 DEF u
<1>3. CASE new_dl_reTx
  <2>1. u = [q |-> second.q, added |-> first.added + second.added]
    BY <1>3 DEF UpdatedTwice
  <2>2. offset \in Int /\ 0 \in Int
    BY ClientAssumption
  <2>3. /\ v \in Window /\ Covered(v) /\ v.header = now
        /\ w \in Window /\ Covered(w) /\ w.header = now
    BY <1>1, <2>2, CaWindowProp
  <2> HIDE DEF v, w
  <2>4. first \in UpdateStates(v, counted)
    BY <1>1, <2>3, UpdateProp
  <2> HIDE DEF first
  <2>5. /\ first.q \in Buffer /\ first.added \in Nat /\ Sane(first.q)
        /\ first.q.buf_last_ms <= w.header
        /\ ShortLog => CountedIn(first.q, counted + first.added)
    BY <2>3, <2>4 DEF UpdateStates
  <2>6. counted + first.added \in Nat
    BY <1>1, <2>5
  <2>7. second \in UpdateStates(w, counted + first.added)
    BY <1>1, <2>3, <2>5, <2>6, UpdateProp
  <2> HIDE DEF second
  <2>8. /\ second.q \in Buffer /\ second.added \in Nat /\ Sane(second.q)
        /\ second.q.buf_last_ms <= now
        /\ ShortLog => CountedIn(second.q, counted + first.added + second.added)
    BY <2>3, <2>7 DEF UpdateStates
  <2>9. u.q = second.q /\ u.added = first.added + second.added
    BY <2>1
  <2>10. /\ first.added + second.added \in Nat
         /\ counted + (first.added + second.added) = counted + first.added + second.added
    BY <1>1, <2>5, <2>8
  <2> HIDE DEF u
  <2> QED BY <2>8, <2>9, <2>10 DEF u
<1> QED BY <1>2, <1>3

LEMMA ReceiverPacketInv ==
  ClientsInv /\ program = "receiver" /\ ReceiverPacket /\ UNCHANGED program => ClientsInv'
<1> SUFFICES ASSUME ClientsInv, program = "receiver", ReceiverPacket, UNCHANGED program
             PROVE  ClientsInv'
  OBVIOUS
<1>1. PICK lag \in Lags, oneway \in Oneways, offset \in Offsets :
      \E l \in {insertNode_checkTime(list, NewPacket(now - lag, oneway))} :
      \E u \in {UpdatedTwice(buf, offset)} :
      \E r \in {Reverted(l, Found(l, u.q))} :
        /\ seen_reTx' = IF new_dl_reTx \/ seen_reTx = 0 THEN recent_reTx ELSE seen_reTx
        /\ counted' = counted + u.added
        /\ crashed' = DividesByZero(l, u.q)
        /\ list' = Answered(r.l)
        /\ buf' = r.q
  BY DEF ReceiverPacket
<1> DEFINE l == insertNode_checkTime(list, NewPacket(now - lag, oneway))
           u == UpdatedTwice(buf, offset)
           q == Found(l, u.q)
           r == Reverted(l, q)
<1>2. /\ seen_reTx' = IF new_dl_reTx \/ seen_reTx = 0 THEN recent_reTx ELSE seen_reTx
      /\ counted' = counted + u.added
      /\ crashed' = DividesByZero(l, u.q)
      /\ list' = Answered(r.l)
      /\ buf' = r.q
  BY <1>1
<1>3. /\ TypeOK /\ Covered(window) /\ LastKnown /\ buf \in Buffer /\ window \in Window
      /\ air \in Seq(Block) /\ seen_reTx \in Nat /\ counted \in Nat
  BY TypeList DEF ClientsInv, TypeOK
<1>4. air' = air /\ now' = now /\ window' = window /\ Missing_DL' = Missing_DL
  BY DEF ReceiverPacket, now
<1>5. l \in PacketList /\ l \in Seq(Packet)
  BY <1>3, ReceivedProp DEF PacketList
<1>6. /\ u.q \in Buffer /\ u.added \in Nat /\ Sane(u.q) /\ u.q.buf_last_ms <= now
      /\ ShortLog => CountedIn(u.q, counted + u.added)
  BY UpdatedTwiceProp
<1> HIDE DEF l, u
<1>7. Keeps(u.q, q)
  BY <1>5, <1>6, FoundProp
<1> HIDE DEF q
<1>8. r.l \in PacketList /\ Keeps(q, r.q) /\ BurstBack(r.l, r.q)
  BY <1>5, <1>7, RevertedProp DEF Keeps
<1> HIDE DEF r
<1>9. Keeps(u.q, buf') /\ buf' \in Buffer /\ Sane(buf') /\ buf'.buf_last_ms = u.q.buf_last_ms
  BY <1>2, <1>7, <1>8 DEF Keeps
<1>10. list' \in PacketList /\ \A i \in DOMAIN list' : list'[i].acked
  BY <1>2, <1>8, AnsweredProp
<1>11. counted' \in Nat /\ crashed' \in BOOLEAN /\ seen_reTx' \in Nat
  <2>1. counted' \in Nat
    BY <1>2, <1>3, <1>6
  <2>2. crashed' \in BOOLEAN
    BY <1>2 DEF DividesByZero
  <2>3. seen_reTx' \in Nat
    BY <1>2, <1>3, RecentType
  <2> QED BY <2>1, <2>2, <2>3
<1>12. TypeOK'
  BY <1>3, <1>4, <1>9, <1>10, <1>11 DEF TypeOK, PacketList
<1>13. Covered(window)'
  BY <1>3, <1>4 DEF Covered
<1>14. Sane(buf)'
  BY <1>9 DEF Sane
<1>15. LastKnown'
  BY <1>4, <1>6, <1>9 DEF LastKnown
<1>16. ShortLog => CountedIn(buf, counted)'
  BY <1>2, <1>4, <1>6, <1>9, CountedKept, CountedNext
<1>17. NothingHeldInBurst'
  BY <1>10 DEF NothingHeldInBurst
<1> QED BY <1>12, <1>13, <1>14, <1>15, <1>16, <1>17 DEF ClientsInv, ShortLog

LEMMA ClientsInvAlways == ClientsSpec => []ClientsInv
<1>1. ClientsInv /\ [ClientsNext]_<<vars, program>> => ClientsInv'
  <2> SUFFICES ASSUME ClientsInv, [ClientsNext]_<<vars, program>> PROVE ClientsInv'
    OBVIOUS
  <2>1. CASE RecvDci /\ UNCHANGED program
    BY <2>1, RecvDciInv
  <2>2. CASE program = "dci_copa_rx" /\ RecvPacket /\ UNCHANGED program
    BY <2>2, RecvPacketInv
  <2>3. CASE program = "receiver" /\ ReceiverPacket /\ UNCHANGED program
    BY <2>3, ReceiverPacketInv
  <2>4. CASE UNCHANGED <<vars, program>>
    <3>1. /\ air' = air /\ window' = window /\ seen_reTx' = seen_reTx /\ list' = list
          /\ buf' = buf /\ Missing_DL' = Missing_DL /\ crashed' = crashed
          /\ counted' = counted /\ program' = program
      BY <2>4 DEF vars
    <3> QED BY <3>1 DEF ClientsInv, TypeOK, Covered, Sane, LastKnown, ShortLog, CountedIn,
                        ReTxUpTo, block, now, NothingHeldInBurst
  <2> QED BY <2>1, <2>2, <2>3, <2>4 DEF ClientsNext
<1> QED BY <1>1, ClientsInvInit, PTL DEF ClientsSpec
-----------------------------------------------------------------------------
(* The state of both clients has its type, and the list of packets is in   *)
(* order of receipt, however long packets waited in the socket.            *)
THEOREM ClientTypesHold == ClientsSpec => []TypeOK
<1>1. ClientsInv => TypeOK
  BY DEF ClientsInv
<1> QED BY <1>1, ClientsInvAlways, PTL

(* Between packets the flags and the size of the re-ordering buffer agree, *)
(* whatever order of updates, searches, resets and packets led there.      *)
THEOREM BufferSaneAlways == ClientsSpec => []BufferSane
<1>1. ClientsInv => BufferSane
  BY DEF ClientsInv, Sane, BufferSane
<1> QED BY <1>1, ClientsInvAlways, PTL

(* The buffer counts no retransmission twice, for any log shorter than     *)
(* half a cycle of TTIs, although each update reads the whole copy and     *)
(* compares TTIs that wrap around.                                         *)
THEOREM CountedOnceAlways ==
  ASSUME 2 * NumLog < MaxTTI
  PROVE  ClientsSpec => []CountedOnce
<1>1. ClientsInv => CountedOnce
  BY DEF ClientsInv, ShortLog, CountedIn, ReTxUpTo, CountedOnce
<1> QED BY <1>1, ClientsInvAlways, PTL

(* While a burst with a known start lasts, no packet since that start is   *)
(* held back in the list.                                                  *)
THEOREM NothingHeldInBurstAlways == ClientsSpec => []NothingHeldInBurst
<1>1. ClientsInv => NothingHeldInBurst
  BY DEF ClientsInv
<1> QED BY <1>1, ClientsInvAlways, PTL

=============================================================================
