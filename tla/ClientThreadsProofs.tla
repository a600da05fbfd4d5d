------------------------ MODULE ClientThreadsProofs ------------------------
(***************************************************************************)
(* Proofs about the log of DCIs and the two threads around it, for any     *)
(* number of cells, log size and cycle of TTIs.                            *)
(*                                                                         *)
(* The argument for the log (LogInv): the history of a cell is as long as  *)
(* the ring is full, and its i-th DCI is where the unrolling looks for the *)
(* i-th entry; its milliseconds increase; and the most recent              *)
(* retransmission of a cell is in the history or older than all of it.     *)
(***************************************************************************)
EXTENDS ClientThreads, TTIProofs, SequenceTheorems

(* A number below two rounds of the ring. *)
LEMMA RingIndex ==
  ASSUME NEW x \in Int
  PROVE  /\ x \in 0 .. NumLog - 1 => x % NumLog = x
         /\ x \in NumLog .. 2 * NumLog - 1 => x % NumLog = x - NumLog
<1>1. NumLog \in Nat \ {0}
  BY DciLogAssumption
<1>2. ASSUME x \in 0 .. NumLog - 1 PROVE x % NumLog = x
  BY <1>1, <1>2
<1>3. ASSUME x \in NumLog .. 2 * NumLog - 1 PROVE x % NumLog = x - NumLog
  BY <1>1, <1>3
<1> QED BY <1>2, <1>3
-----------------------------------------------------------------------------
(* The log.                                                                *)

(* Where the unrolling finds the i-th entry of a ring. *)
Slot(c, i) == IF nof_logged_dci[c] < NumLog THEN i - 1 ELSE (header[c] + i - 1) % NumLog

(* A ring holds the history of its cell, in its slots. *)
RingHoldsLog ==
  \A c \in Cells :
    /\ Len(log[c]) = nof_logged_dci[c]
    /\ nof_logged_dci[c] < NumLog => header[c] = nof_logged_dci[c]
    /\ \A i \in 1 .. Len(log[c]) : log[c][i] = dci[c][Slot(c, i)]

MsIncrease ==
  \A c \in Cells : \A i, j \in 1 .. Len(log[c]) : i < j => log[c][i].ms < log[c][j].ms

(* The most recent retransmission of a cell is in its history, or was      *)
(* pushed out by later DCIs; with no history there was none.               *)
RecentIn(s, x, recent) ==
  \/ \E i \in 1 .. Len(s) : s[i].ms = recent /\ x \in s[i].reTx
  \/ /\ \A i \in 1 .. Len(s) : s[i].ms > recent
     /\ Len(s) = 0 => recent = 0

RecentKnown ==
  \A x \in Directions, c \in Cells : RecentIn(log[c], x, recent_reTx[x][c])

LogInv == TypeOK /\ RingHoldsLog /\ MsIncrease /\ RecentKnown

(* The last NumLog elements of a history after one more. *)
LEMMA LastNAppend ==
  ASSUME NEW s \in Seq(DCI), NEW d \in DCI, Len(s) <= NumLog
  PROVE  LET t == LastN(Append(s, d))
             k == IF Len(s) < NumLog THEN 0 ELSE 1
         IN  /\ t \in Seq(DCI)
             /\ Len(s) \in Nat /\ Len(t) = Len(s) + 1 - k
             /\ \A i \in 1 .. Len(t) - 1 : t[i] = s[i + k]
             /\ t[Len(t)] = d
<1> DEFINE a == Append(s, d)
           t == LastN(a)
<1>1. /\ a \in Seq(DCI) /\ Len(a) = Len(s) + 1 /\ Len(s) \in Nat
      /\ \A i \in 1 .. Len(s) : a[i] = s[i]
      /\ a[Len(s) + 1] = d
  BY AppendProperties, LenProperties
<1>2. NumLog \in Nat \ {0}
  BY DciLogAssumption
<1> HIDE DEF a
<1>3. CASE Len(s) < NumLog
  <2>1. t = a
    BY <1>1, <1>2, <1>3 DEF LastN
  <2> QED BY <1>1, <1>2, <1>3, <2>1 DEF a
<1>4. CASE Len(s) = NumLog
  <2>1. t = SubSeq(a, 2, NumLog + 1)
    BY <1>1, <1>2, <1>4 DEF LastN
  <2>2. \A i \in 2 .. NumLog + 1 : a[i] \in DCI
    BY <1>1, <1>2, <1>4, ElementOfSeq
  <2>3. /\ t \in Seq(DCI) /\ Len(t) = NumLog
        /\ \A i \in 1 .. NumLog : t[i] = a[i + 1]
    <3>1. /\ SubSeq(a, 2, NumLog + 1) \in Seq(DCI)
          /\ Len(SubSeq(a, 2, NumLog + 1)) =
               IF 2 <= NumLog + 1 THEN NumLog + 1 - 2 + 1 ELSE 0
          /\ \A i \in 1 .. NumLog + 1 - 2 + 1 :
               SubSeq(a, 2, NumLog + 1)[i] = a[2 + i - 1]
      BY <1>2, <2>2, SubSeqProperties
    <3> QED BY <1>2, <2>1, <3>1
  <2>4. \A i \in 1 .. NumLog - 1 : t[i] = s[i + 1]
    BY <1>1, <1>2, <1>4, <2>3
  <2>5. t[NumLog] = d
    BY <1>1, <1>2, <1>4, <2>3
  <2> QED BY <1>1, <1>2, <1>4, <2>3, <2>4, <2>5 DEF a
<1> QED BY <1>1, <1>2, <1>3, <1>4

(* The newest DCI of a cell is its last. *)
LEMMA NewestProp ==
  ASSUME LogInv, NEW c \in Cells
  PROVE  /\ Newest(c) \in Nat
         /\ \A i \in 1 .. Len(log[c]) : log[c][i].ms \in Nat /\ log[c][i].ms <= Newest(c)
<1>1. log[c] \in Seq(DCI) /\ Len(log[c]) \in Nat
  BY LenProperties DEF LogInv, TypeOK
<1>2. \A i \in 1 .. Len(log[c]) : log[c][i].ms \in Nat
  <2>1. \A i \in 1 .. Len(log[c]) : log[c][i] \in DCI
    BY <1>1, ElementOfSeq
  <2> QED BY <2>1 DEF DCI
<1>3. CASE log[c] = <<>>
  <2>1. Len(log[c]) = 0
    BY <1>3, EmptySeq
  <2> QED BY <1>3, <2>1, DciLogAssumption DEF Newest
<1>4. CASE log[c] # <<>>
  <2>1. Len(log[c]) \in 1 .. Len(log[c]) /\ Newest(c) = log[c][Len(log[c])].ms
    BY <1>1, <1>4, EmptySeq DEF Newest
  <2>2. \A i \in 1 .. Len(log[c]) : log[c][i].ms <= Newest(c)
    <3> SUFFICES ASSUME NEW i \in 1 .. Len(log[c]), i # Len(log[c])
                 PROVE  log[c][i].ms <= Newest(c)
      BY <1>2, <2>1
    <3>1. log[c][i].ms < log[c][Len(log[c])].ms
      BY <1>1, <2>1 DEF LogInv, MsIncrease
    <3> QED BY <1>2, <2>1, <3>1
  <2> QED BY <1>2, <2>1, <2>2
<1> QED BY <1>3, <1>4

LEMMA DciLogInit == Init => LogInv
<1> SUFFICES ASSUME Init PROVE LogInv
  OBVIOUS
<1> USE DEF Init
<1>1. NumLog \in Nat \ {0} /\ MaxTTI \in Nat \ {0} /\ NumCells \in Nat \ {0}
  BY DciLogAssumption, TTIAssumption
<1>2. TypeOK
  <2>1. header \in [Cells -> 0 .. NumLog - 1] /\ nof_logged_dci \in [Cells -> 0 .. NumLog]
    BY <1>1
  <2>2. dci \in [Cells -> [0 .. NumLog - 1 -> DCI]]
    BY DEF NoDCI, DCI
  <2>3. /\ recent_reTx \in [Directions -> [Cells -> Nat]]
        /\ seen_reTx \in [Directions -> [Cells -> Nat]]
    OBVIOUS
  <2>4. nof_cell \in 1 .. NumCells /\ ca_header \in 0 .. MaxTTI - 1 /\ ca_tail \in 0 .. MaxTTI - 1
    BY <1>1
  <2>5. dci_all \in [Cells -> Seq(DCI)] /\ log \in [Cells -> Seq(DCI)]
    BY EmptySeq
  <2>6. ca_ready \in BOOLEAN /\ new_reTx \subseteq Directions
    OBVIOUS
  <2> QED BY <2>1, <2>2, <2>3, <2>4, <2>5, <2>6 DEF TypeOK
<1>3. \A c \in Cells : Len(log[c]) = 0 /\ nof_logged_dci[c] = 0 /\ header[c] = 0
  BY EmptySeq
<1>4. RingHoldsLog /\ MsIncrease /\ RecentKnown
  BY <1>3 DEF RingHoldsLog, MsIncrease, RecentKnown, RecentIn
<1> QED BY <1>2, <1>4 DEF LogInv

(* The window of TTIs that ca_update_header leaves is one of TTIs. *)
LEMMA CaUpdateType ==
  ASSUME nof_cell \in Nat \ {0}, ca_ready \in BOOLEAN,
         ca_header \in 0 .. MaxTTI - 1, ca_tail \in 0 .. MaxTTI - 1,
         \A c \in 0 .. nof_cell - 1 : find_dci_cell_tail(c) \in 0 .. MaxTTI - 1,
         ca_update_header
  PROVE  /\ ca_header' \in 0 .. MaxTTI - 1
         /\ ca_tail' \in 0 .. MaxTTI - 1
         /\ ca_ready' \in BOOLEAN
<1> DEFINE used == 0 .. nof_cell - 1
           ts == [c \in used |-> find_dci_cell_tail(c)]
<1>1. used # {} /\ MaxTTI \in Nat \ {0}
  <2>1. 0 \in used
    OBVIOUS
  <2> QED BY <2>1, TTIAssumption
<1>2. CASE ~ca_ready
  BY <1>2 DEF ca_update_header
<1>3. CASE ca_ready
  <2>1. PICK hs \in [used -> Garbage \cup 0 .. MaxTTI - 1] : ca_header' = CaHeader(hs)
    BY <1>3 DEF ca_update_header
  <2>2. ca_tail' = CaTail(ts) /\ ca_ready' = ca_ready
    BY <1>3 DEF ca_update_header
  <2>3. hs \in [used -> Nat]
    <3>1. Garbage \cup 0 .. MaxTTI - 1 \subseteq Nat
      BY <1>1, DciLogAssumption
    <3> HIDE DEF used
    <3> QED BY <3>1
  <2>4. unwrap_tti_array(hs) \in [used -> Nat]
    BY <1>1, <2>3 DEF unwrap_tti_array
  <2>5. ca_header' \in 0 .. MaxTTI - 1
    <3> HIDE DEF used
    <3>1. min_in_array(unwrap_tti_array(hs)) \in Nat
      BY <1>1, <2>4, MinInArray
    <3> QED BY <2>1, <3>1, WrapType DEF CaHeader
  <2>6. ca_tail' \in 0 .. MaxTTI - 1
    <3>1. ts \in [used -> 0 .. MaxTTI - 1] /\ MaxTTI - 1 \in Nat
      BY <1>1
    <3> HIDE DEF used, ts
    <3>2. max_in_array(ts) \in 0 .. MaxTTI - 1
      BY <1>1, <3>1, MaxInArray
    <3>3. max_in_array(ts) + 1 \in Int
      BY <3>2
    <3> QED BY <2>2, <3>3, WrapType DEF CaTail
  <2> QED BY <2>2, <2>5, <2>6
<1> QED BY <1>2, <1>3

(* An insertion keeps the ring and the history together. *)
LEMMA InsertRing ==
  ASSUME LogInv, NEW c \in Cells, NEW d \in DCI, Insert(c, d)
  PROVE  /\ header' \in [Cells -> 0 .. NumLog - 1]
         /\ nof_logged_dci' \in [Cells -> 0 .. NumLog]
         /\ dci' \in [Cells -> [0 .. NumLog - 1 -> DCI]]
         /\ log' \in [Cells -> Seq(DCI)]
         /\ RingHoldsLog'
<1> DEFINE h == header[c]
           n == nof_logged_dci[c]
           s == log[c]
           t == LastN(Append(s, d))
           k == IF n < NumLog THEN 0 ELSE 1
<1>1. NumLog \in Nat \ {0}
  BY DciLogAssumption
<1>2. h \in 0 .. NumLog - 1 /\ n \in 0 .. NumLog /\ s \in Seq(DCI) /\ Len(s) = n
  BY DEF LogInv, TypeOK, RingHoldsLog
<1>3. /\ dci' = [dci EXCEPT ![c][h] = d]
      /\ header' = [header EXCEPT ![c] = (h + 1) % NumLog]
      /\ nof_logged_dci' = [nof_logged_dci EXCEPT ![c] = Logged(n)]
      /\ log' = [log EXCEPT ![c] = t]
  BY DEF Insert, LogInv, TypeOK
<1>4. (h + 1) % NumLog = (IF h + 1 < NumLog THEN h + 1 ELSE 0)
  <2> HIDE DEF h
  <2>1. \/ h + 1 \in 0 .. NumLog - 1
        \/ h + 1 \in NumLog .. 2 * NumLog - 1 /\ h + 1 = NumLog
    BY <1>1, <1>2
  <2>2. h + 1 \in Int
    BY <1>2
  <2> QED BY <1>1, <2>1, <2>2, RingIndex
<1>5. Logged(n) = n + 1 - k /\ Logged(n) \in 0 .. NumLog
  BY <1>1, <1>2 DEF Logged
<1>6. /\ t \in Seq(DCI) /\ Len(t) = n + 1 - k
      /\ \A i \in 1 .. Len(t) - 1 : t[i] = s[i + k]
      /\ t[Len(t)] = d
  <2>1. Len(s) <= NumLog
    BY <1>1, <1>2
  <2>2. k = IF Len(s) < NumLog THEN 0 ELSE 1
    BY <1>2
  <2> HIDE DEF s, n, k
  <2> QED BY <1>2, <2>1, <2>2, LastNAppend DEF t
<1>7. /\ header' \in [Cells -> 0 .. NumLog - 1]
      /\ nof_logged_dci' \in [Cells -> 0 .. NumLog]
      /\ log' \in [Cells -> Seq(DCI)]
  BY <1>1, <1>2, <1>3, <1>4, <1>5, <1>6 DEF LogInv, TypeOK
<1>8. dci' \in [Cells -> [0 .. NumLog - 1 -> DCI]]
  BY <1>2, <1>3 DEF LogInv, TypeOK
<1>9. /\ header'[c] = (h + 1) % NumLog /\ nof_logged_dci'[c] = n + 1 - k /\ log'[c] = t
      /\ dci'[c] = [dci[c] EXCEPT ![h] = d]
      /\ \A o \in Cells \ {c} : /\ header'[o] = header[o] /\ log'[o] = log[o]
                                /\ nof_logged_dci'[o] = nof_logged_dci[o] /\ dci'[o] = dci[o]
  BY <1>3, <1>5 DEF LogInv, TypeOK
<1>10. ASSUME NEW j \in 0 .. NumLog - 1
       PROVE  dci'[c][j] = IF j = h THEN d ELSE dci[c][j]
  BY <1>9 DEF LogInv, TypeOK
(* The ring of the cell: the slots of the entries that stay are theirs     *)
(* still, and the new one is in the slot of the last.                      *)
<1>11. ASSUME NEW i \in 1 .. Len(t)
       PROVE  t[i] = dci'[c][Slot(c, i)']
  <2> HIDE DEF h, n, s, t
  <2>1. Slot(c, i)' = IF n + 1 - k < NumLog THEN i - 1 ELSE (((h + 1) % NumLog) + i - 1) % NumLog
    BY <1>9 DEF Slot
  <2>2. n < NumLog => h = n
    BY DEF LogInv, RingHoldsLog, h, n
  <2>3. i = Len(t) => Slot(c, i)' = h
    <3> SUFFICES ASSUME i = Len(t) PROVE Slot(c, i)' = h
      OBVIOUS
    <3>1. CASE n + 1 < NumLog
      BY <1>1, <1>2, <1>6, <2>1, <2>2, <3>1
    <3>2. CASE n + 1 = NumLog
      <4>1. h + 1 = NumLog /\ i = NumLog /\ (h + 1) % NumLog = 0
        BY <1>1, <1>2, <1>4, <1>6, <2>2, <3>2
      <4>2. NumLog - 1 \in 0 .. NumLog - 1 /\ NumLog - 1 \in Int
        BY <1>1
      <4>3. (NumLog - 1) % NumLog = NumLog - 1
        BY <4>2, RingIndex
      <4>4. Slot(c, i)' = (0 + NumLog - 1) % NumLog
        BY <1>1, <1>2, <2>1, <3>2, <4>1
      <4> QED BY <1>1, <1>2, <4>1, <4>3, <4>4
    <3>3. CASE n = NumLog
      <4>1. i = NumLog /\ Slot(c, i)' = (((h + 1) % NumLog) + NumLog - 1) % NumLog
        BY <1>1, <1>2, <1>6, <2>1, <3>3
      <4>2. CASE h + 1 < NumLog
        <5>1. ((h + 1) % NumLog) + NumLog - 1 = h + NumLog
          BY <1>1, <1>2, <1>4, <4>2
        <5>2. h + NumLog \in NumLog .. 2 * NumLog - 1 /\ h + NumLog \in Int
          BY <1>1, <1>2
        <5>3. (h + NumLog) % NumLog = (h + NumLog) - NumLog
          BY <5>2, RingIndex
        <5> QED BY <1>1, <1>2, <4>1, <5>1, <5>3
      <4>3. CASE h + 1 = NumLog
        <5>1. ((h + 1) % NumLog) + NumLog - 1 = NumLog - 1
          BY <1>1, <1>4, <4>3
        <5>2. NumLog - 1 \in 0 .. NumLog - 1 /\ NumLog - 1 \in Int
          BY <1>1
        <5>3. (NumLog - 1) % NumLog = NumLog - 1
          BY <5>2, RingIndex
        <5> QED BY <1>1, <1>2, <4>1, <4>3, <5>1, <5>3
      <4> QED BY <1>1, <1>2, <4>2, <4>3
    <3> QED BY <1>1, <1>2, <3>1, <3>2, <3>3
  <2>4. CASE i = Len(t)
    BY <1>2, <1>6, <1>10, <2>3, <2>4
  <2>5. CASE i # Len(t)
    <3>1. i + k \in 1 .. n /\ t[i] = s[i + k] /\ i \in Nat
      BY <1>1, <1>2, <1>6, <2>5
    <3>2. s[i + k] = dci[c][Slot(c, i + k)]
      BY <1>2, <3>1 DEF LogInv, RingHoldsLog, s, n
    <3>3. Slot(c, i + k) = IF n < NumLog THEN i - 1 ELSE (h + i) % NumLog
      <4>1. CASE n < NumLog
        BY <3>1, <4>1 DEF Slot, n
      <4>2. CASE ~(n < NumLog)
        <5>1. h + (i + 1) - 1 = h + i
          BY <1>2, <3>1
        <5> QED BY <4>2, <5>1 DEF Slot, h, n
      <4> QED BY <4>1, <4>2
    <3>4. /\ Slot(c, i)' = Slot(c, i + k)
          /\ Slot(c, i)' \in 0 .. NumLog - 1 /\ Slot(c, i)' # h
      <4>1. CASE n < NumLog
        <5>1. i \in 1 .. n /\ k = 0 /\ h = n
          BY <1>2, <1>6, <2>2, <2>5, <3>1, <4>1
        <5>2. Slot(c, i + k) = i - 1
          BY <3>3, <4>1
        <5>3. Slot(c, i)' = i - 1
          <6>1. CASE n + 1 < NumLog
            BY <1>2, <2>1, <5>1, <6>1
          <6>2. CASE n + 1 = NumLog
            <7>1. (h + 1) % NumLog = 0
              BY <1>1, <1>2, <1>4, <5>1, <6>2
            <7>2. Slot(c, i)' = (i - 1) % NumLog
              BY <1>1, <1>2, <2>1, <5>1, <6>2, <7>1
            <7>3. i - 1 \in 0 .. NumLog - 1 /\ i - 1 \in Int
              BY <1>1, <1>2, <5>1
            <7> QED BY <7>2, <7>3, RingIndex
          <6> QED BY <1>1, <1>2, <4>1, <6>1, <6>2
        <5> QED BY <1>1, <1>2, <5>1, <5>2, <5>3
      <4>2. CASE n = NumLog
        <5>1. i \in 1 .. NumLog - 1
          BY <1>1, <1>2, <1>6, <2>5, <4>2
        <5>2. Slot(c, i)' = (((h + 1) % NumLog) + i - 1) % NumLog
          BY <1>1, <1>2, <2>1, <4>2
        <5>3. (h + i) % NumLog = IF h + i < NumLog THEN h + i ELSE h + i - NumLog
          <6>1. \/ h + i \in 0 .. NumLog - 1
                \/ h + i \in NumLog .. 2 * NumLog - 1
            BY <1>1, <1>2, <5>1
          <6>2. h + i \in Int
            BY <1>2, <5>1
          <6>3. CASE h + i \in 0 .. NumLog - 1
            <7>1. h + i < NumLog /\ (h + i) % NumLog = h + i
              BY <1>1, <6>2, <6>3, RingIndex
            <7> QED BY <7>1
          <6>4. CASE h + i \in NumLog .. 2 * NumLog - 1
            <7>1. ~(h + i < NumLog)
              BY <1>1, <6>4
            <7>2. (h + i) % NumLog = (h + i) - NumLog
              BY <6>2, <6>4, RingIndex
            <7> QED BY <1>1, <1>2, <5>1, <7>1, <7>2
          <6> QED BY <6>1, <6>3, <6>4
        <5>4. (((h + 1) % NumLog) + i - 1) % NumLog
                = IF h + i < NumLog THEN h + i ELSE h + i - NumLog
          <6>1. CASE h + 1 < NumLog
            <7>1. ((h + 1) % NumLog) + i - 1 = h + i
              BY <1>1, <1>2, <1>4, <5>1, <6>1
            <7> QED BY <5>3, <7>1
          <6>2. CASE h + 1 = NumLog
            <7>1. ((h + 1) % NumLog) + i - 1 = i - 1
              BY <1>1, <1>2, <1>4, <5>1, <6>2
            <7>2. i - 1 \in 0 .. NumLog - 1 /\ i - 1 \in Int
              BY <1>1, <5>1
            <7>3. (i - 1) % NumLog = i - 1
              BY <7>2, RingIndex
            <7> QED BY <1>1, <1>2, <5>1, <6>2, <7>1, <7>3
          <6> QED BY <1>1, <1>2, <6>1, <6>2
        <5> QED BY <1>1, <1>2, <3>3, <4>2, <5>1, <5>2, <5>3, <5>4
      <4> QED BY <1>1, <1>2, <4>1, <4>2
    <3> QED BY <1>10, <3>1, <3>2, <3>4
  <2> QED BY <2>4, <2>5
<1>12. RingHoldsLog'
  <2> SUFFICES ASSUME NEW o \in Cells
               PROVE  /\ Len(log'[o]) = nof_logged_dci'[o]
                      /\ nof_logged_dci'[o] < NumLog => header'[o] = nof_logged_dci'[o]
                      /\ \A i \in 1 .. Len(log'[o]) : log'[o][i] = dci'[o][Slot(o, i)']
    BY DEF RingHoldsLog
  <2>1. CASE o # c
    BY <1>9, <2>1 DEF LogInv, RingHoldsLog, Slot
  <2>2. CASE o = c
    <3>1. Len(log'[c]) = nof_logged_dci'[c]
      BY <1>6, <1>9
    <3>2. \A i \in 1 .. Len(log'[c]) : log'[c][i] = dci'[c][Slot(c, i)']
      BY <1>9, <1>11
    <3>3. n < NumLog => h = n
      BY DEF LogInv, RingHoldsLog
    <3>4. nof_logged_dci'[c] < NumLog => header'[c] = nof_logged_dci'[c]
      <4> HIDE DEF h, n, s, t
      <4> QED BY <1>1, <1>2, <1>4, <1>9, <3>3
    <3> QED BY <2>2, <3>1, <3>2, <3>4
  <2> QED BY <2>1, <2>2
<1> QED BY <1>7, <1>8, <1>12

(* A DCI later than the others of its cell is inserted. *)
LEMMA InsertLogInv ==
  ASSUME LogInv, NEW c \in Cells, NEW d \in DCI, Newest(c) < d.ms, Insert(c, d),
         UNCHANGED clientVars
  PROVE  LogInv'
<1> DEFINE s == log[c]
           t == LastN(Append(s, d))
           k == IF Len(s) < NumLog THEN 0 ELSE 1
<1>1. /\ header' \in [Cells -> 0 .. NumLog - 1]
      /\ nof_logged_dci' \in [Cells -> 0 .. NumLog]
      /\ dci' \in [Cells -> [0 .. NumLog - 1 -> DCI]]
      /\ log' \in [Cells -> Seq(DCI)]
      /\ RingHoldsLog'
  BY InsertRing
<1>2. NumLog \in Nat \ {0} /\ NumCells \in Nat \ {0} /\ nof_cell \in 1 .. NumCells
  BY DciLogAssumption DEF LogInv, TypeOK
<1>3. d.ms \in Nat /\ d.reTx \in SUBSET Directions
  BY DEF DCI
<1>4. s \in Seq(DCI) /\ Len(s) <= NumLog
  BY <1>2 DEF LogInv, TypeOK, RingHoldsLog
<1>5. /\ Len(s) \in Nat /\ k \in {0, 1} /\ Len(t) = Len(s) + 1 - k
      /\ Len(t) \in Nat /\ Len(t) >= 1 /\ Len(t) \in 1 .. Len(t)
      /\ k = 1 => Len(s) >= 1
      /\ \A i \in 1 .. Len(t) - 1 : i \in Nat /\ i + k \in 1 .. Len(s) /\ t[i] = s[i + k]
      /\ t[Len(t)] = d
  <2>1. /\ Len(s) \in Nat /\ Len(t) = Len(s) + 1 - k
        /\ \A i \in 1 .. Len(t) - 1 : t[i] = s[i + k]
        /\ t[Len(t)] = d
    BY <1>4, LastNAppend
  <2>2. k \in {0, 1} /\ (k = 1 => Len(s) >= 1)
    <3> HIDE DEF s, t
    <3> QED BY <1>2, <1>4, <2>1
  <2> HIDE DEF s, t, k
  <2>3. Len(t) \in Nat /\ Len(t) >= 1 /\ Len(t) \in 1 .. Len(t)
    BY <2>1, <2>2
  <2>4. \A i \in 1 .. Len(t) - 1 : i \in Nat /\ i + k \in 1 .. Len(s)
    BY <2>1, <2>2, <2>3
  <2> QED BY <2>1, <2>2, <2>3, <2>4
<1>6. log'[c] = t /\ \A o \in Cells \ {c} : log'[o] = log[o]
  BY DEF Insert, LogInv, TypeOK
<1>7. \A i \in 1 .. Len(s) : s[i].ms \in Nat /\ s[i].ms < d.ms
  BY <1>3, NewestProp
<1>8. TypeOK'
  <2>1. recent_reTx' \in [Directions -> [Cells -> Nat]]
    BY <1>3 DEF Insert, LogInv, TypeOK
  <2>2. nof_cell' = nof_cell /\ ca_update_header
    BY DEF Insert
  <2>3. \A o \in Cells : find_dci_cell_tail(o) \in 0 .. MaxTTI - 1
    <3> SUFFICES ASSUME NEW o \in Cells PROVE find_dci_cell_tail(o) \in 0 .. MaxTTI - 1
      OBVIOUS
    <3> DEFINE x == (header'[o] - nof_logged_dci'[o] + NumLog) % NumLog
    <3>1. header'[o] - nof_logged_dci'[o] + NumLog \in Int
      BY <1>1, <1>2
    <3>2. x \in 0 .. NumLog - 1
      BY <1>2, <3>1
    <3>3. dci'[o][x] \in DCI
      BY <1>1, <3>2
    <3>4. dci'[o][x].ms \in Int
      BY <3>3 DEF DCI
    <3> QED BY <3>4, WrapType DEF find_dci_cell_tail, tti
  <2>4. nof_cell \in Nat \ {0} /\ 0 .. nof_cell - 1 \subseteq Cells
    BY <1>2 DEF Cells
  <2>5. /\ ca_header' \in 0 .. MaxTTI - 1 /\ ca_tail' \in 0 .. MaxTTI - 1
        /\ ca_ready' \in BOOLEAN
    <3>1. /\ ca_ready \in BOOLEAN /\ ca_header \in 0 .. MaxTTI - 1
          /\ ca_tail \in 0 .. MaxTTI - 1
      BY DEF LogInv, TypeOK
    <3>2. \A o \in 0 .. nof_cell - 1 : find_dci_cell_tail(o) \in 0 .. MaxTTI - 1
      BY <2>3, <2>4
    <3> QED BY <2>2, <2>4, <3>1, <3>2, CaUpdateType
  <2>6. /\ seen_reTx' \in [Directions -> [Cells -> Nat]]
        /\ new_reTx' \subseteq Directions
        /\ dci_all' \in [Cells -> Seq(DCI)]
    BY DEF LogInv, TypeOK, clientVars
  <2> QED BY <1>1, <1>2, <2>1, <2>2, <2>5, <2>6 DEF TypeOK
<1> HIDE DEF t, k
<1>9. MsIncrease'
  <2> SUFFICES ASSUME NEW o \in Cells, NEW i \in 1 .. Len(log'[o]), NEW j \in 1 .. Len(log'[o]),
                      i < j
               PROVE  log'[o][i].ms < log'[o][j].ms
    BY DEF MsIncrease
  <2>1. CASE o # c
    BY <1>6, <2>1 DEF LogInv, MsIncrease
  <2>2. CASE o = c
    <3>1. i \in 1 .. Len(t) - 1 /\ j \in 1 .. Len(t)
      <4>1. i \in 1 .. Len(t) /\ j \in 1 .. Len(t)
        BY <1>6, <2>2
      <4> HIDE DEF s
      <4> QED BY <1>5, <4>1
    <3>2. i + k \in 1 .. Len(s) /\ t[i] = s[i + k]
      BY <1>5, <3>1
    <3>3. CASE j = Len(t)
      BY <1>5, <1>6, <1>7, <2>2, <3>2, <3>3
    <3>4. CASE j # Len(t)
      <4>1. j \in 1 .. Len(t) - 1
        <5> HIDE DEF s
        <5> QED BY <1>5, <3>1, <3>4
      <4>2. j + k \in 1 .. Len(s) /\ t[j] = s[j + k]
        BY <1>5, <4>1
      <4>3. i + k < j + k
        BY <1>5, <3>1, <4>1
      <4>4. s[i + k].ms < s[j + k].ms
        BY <3>2, <4>2, <4>3 DEF LogInv, MsIncrease
      <4> QED BY <1>6, <2>2, <3>2, <4>2, <4>4
    <3> QED BY <3>3, <3>4
  <2> QED BY <2>1, <2>2
<1>10. RecentKnown'
  <2> SUFFICES ASSUME NEW x \in Directions, NEW o \in Cells
               PROVE  RecentIn(log'[o], x, recent_reTx'[x][o])
    BY DEF RecentKnown
  <2>1. RecentIn(log[o], x, recent_reTx[x][o])
    BY DEF LogInv, RecentKnown
  <2>2. recent_reTx'[x] = IF x \in d.reTx THEN [recent_reTx[x] EXCEPT ![c] = d.ms]
                                          ELSE recent_reTx[x]
    BY DEF Insert
  <2>3. recent_reTx[x] \in [Cells -> Nat]
    BY DEF LogInv, TypeOK
  <2>4. CASE o # c
    BY <1>6, <2>1, <2>2, <2>3, <2>4
  <2>5. CASE o = c /\ x \in d.reTx
    <3>1. recent_reTx'[x][c] = d.ms
      BY <2>2, <2>3, <2>5
    <3>2. RecentIn(t, x, d.ms)
      BY <1>5, <2>5 DEF RecentIn
    <3> QED BY <1>6, <2>5, <3>1, <3>2
  <2>6. CASE o = c /\ x \notin d.reTx
    <3> DEFINE r == recent_reTx[x][c]
    <3>1. recent_reTx'[x][c] = r /\ r \in Nat
      BY <2>2, <2>3, <2>6
    <3>2. RecentIn(s, x, r)
      BY <2>1, <2>6
    <3>3. log'[c] = t
      BY <1>6
    <3> HIDE DEF r, s
    <3>4. CASE (\A i \in 1 .. Len(s) : s[i].ms > r) /\ (Len(s) = 0 => r = 0)
      <4>1. d.ms > r
        <5>1. CASE Len(s) = 0
          <6>1. Newest(c) \in Nat
            BY NewestProp
          <6> QED BY <1>3, <3>4, <5>1, <6>1
        <5>2. CASE Len(s) # 0
          <6>1. 1 \in 1 .. Len(s)
            BY <1>5, <5>2
          <6>2. s[1].ms \in Nat /\ s[1].ms < d.ms /\ s[1].ms > r
            BY <1>7, <3>4, <6>1
          <6> QED BY <1>3, <3>1, <6>2
        <5> QED BY <5>1, <5>2
      <4>2. ASSUME NEW j \in 1 .. Len(t) PROVE t[j].ms > r
        <5>1. CASE j = Len(t)
          BY <1>5, <4>1, <5>1
        <5>2. CASE j # Len(t)
          <6>1. j \in 1 .. Len(t) - 1
            BY <1>5, <5>2
          <6>2. j + k \in 1 .. Len(s) /\ t[j] = s[j + k]
            BY <1>5, <6>1
          <6> QED BY <3>4, <6>2
        <5> QED BY <5>1, <5>2
      <4>3. RecentIn(t, x, r)
        BY <1>5, <4>2 DEF RecentIn
      <4> QED BY <2>6, <3>1, <3>3, <4>3
    <3>5. CASE \E i \in 1 .. Len(s) : s[i].ms = r /\ x \in s[i].reTx
      <4>1. PICK i \in 1 .. Len(s) : s[i].ms = r /\ x \in s[i].reTx
        BY <3>5
      <4>2. CASE i - k \in 1 .. Len(t) - 1
        <5>1. (i - k) + k = i
          BY <1>5
        <5>2. t[i - k] = s[i] /\ i - k \in 1 .. Len(t)
          BY <1>5, <4>2, <5>1
        <5>3. RecentIn(t, x, r)
          BY <4>1, <5>2 DEF RecentIn
        <5> QED BY <2>6, <3>1, <3>3, <5>3
      <4>3. CASE i - k \notin 1 .. Len(t) - 1
        <5>1. i = 1 /\ k = 1
          BY <1>5, <4>3
        <5>2. s[1].ms = r /\ 1 \in 1 .. Len(s)
          BY <4>1, <5>1
        <5>3. ASSUME NEW j \in 1 .. Len(t) PROVE t[j].ms > r
          <6>1. CASE j = Len(t)
            <7>1. s[1].ms < d.ms /\ s[1].ms \in Nat
              BY <1>7, <5>2
            <7> QED BY <1>3, <1>5, <5>2, <6>1, <7>1
          <6>2. CASE j # Len(t)
            <7>1. j \in 1 .. Len(t) - 1
              BY <1>5, <6>2
            <7>2. j + 1 \in 1 .. Len(s) /\ t[j] = s[j + 1] /\ 1 < j + 1
              BY <1>5, <5>1, <7>1
            <7>3. s[1].ms < s[j + 1].ms
              BY <5>2, <7>2 DEF LogInv, MsIncrease, s
            <7>4. s[1].ms \in Nat /\ s[j + 1].ms \in Nat
              BY <1>7, <5>2, <7>2
            <7> QED BY <5>2, <7>2, <7>3, <7>4
          <6> QED BY <6>1, <6>2
        <5>4. RecentIn(t, x, r)
          BY <1>5, <5>3 DEF RecentIn
        <5> QED BY <2>6, <3>1, <3>3, <5>4
      <4> QED BY <4>2, <4>3
    <3> QED BY <3>2, <3>4, <3>5 DEF RecentIn
  <2> QED BY <2>4, <2>5, <2>6
<1> QED BY <1>1, <1>8, <1>9, <1>10 DEF LogInv

(* What the unrolling makes of a ring is the history of its cell. *)
LEMMA ExtractIsLog ==
  ASSUME LogInv
  PROVE  \A c \in Cells : ngscope_dci_extract_single_cell(c) = log[c]
<1> SUFFICES ASSUME NEW c \in Cells
             PROVE  ngscope_dci_extract_single_cell(c) = log[c]
  OBVIOUS
<1>1. log[c] \in Seq(DCI) /\ Len(log[c]) = nof_logged_dci[c]
  BY DEF LogInv, TypeOK, RingHoldsLog
<1>2. log[c] = [i \in 1 .. nof_logged_dci[c] |-> log[c][i]]
  BY <1>1, LenProperties
<1>3. \A i \in 1 .. nof_logged_dci[c] : log[c][i] = dci[c][Slot(c, i)]
  BY <1>1 DEF LogInv, RingHoldsLog
<1>4. \A i \in 1 .. nof_logged_dci[c] :
        dci[c][Slot(c, i)] =
          dci[c][IF nof_logged_dci[c] < NumLog THEN i - 1 ELSE (header[c] + i - 1) % NumLog]
  BY DEF Slot
<1> QED BY <1>2, <1>3, <1>4 DEF ngscope_dci_extract_single_cell

LEMMA RecvDciLogInv == LogInv /\ RecvDci => LogInv'
<1> SUFFICES ASSUME LogInv, RecvDci PROVE LogInv'
  OBVIOUS
<1>1. PICK c \in Cells, reTx \in SUBSET Directions, lost \in 0 .. LastMs :
        Insert(c, [ms |-> Newest(c) + 1 + lost, reTx |-> reTx])
  BY DEF RecvDci
<1> DEFINE d == [ms |-> Newest(c) + 1 + lost, reTx |-> reTx]
<1>2. Newest(c) \in Nat
  BY NewestProp
<1>3. d \in DCI /\ Newest(c) < d.ms
  BY <1>2 DEF DCI, Directions
<1>4. UNCHANGED clientVars /\ Insert(c, d)
  BY <1>1 DEF RecvDci
<1> HIDE DEF d
<1> QED BY <1>3, <1>4, InsertLogInv

LEMMA RecvConfigLogInv == LogInv /\ RecvConfig => LogInv'
<1> SUFFICES ASSUME LogInv, RecvConfig PROVE LogInv'
  OBVIOUS
<1>1. TypeOK'
  BY DEF LogInv, TypeOK, RecvConfig
<1>2. RingHoldsLog' /\ MsIncrease' /\ RecentKnown'
  BY DEF LogInv, RingHoldsLog, Slot, MsIncrease, RecentKnown, RecvConfig
<1> QED BY <1>1, <1>2 DEF LogInv

LEMMA CopyLogInv == LogInv /\ CopyDciData => LogInv'
<1> SUFFICES ASSUME LogInv, CopyDciData PROVE LogInv'
  OBVIOUS
<1>1. UNCHANGED logVars
  BY DEF CopyDciData
<1>2. RingHoldsLog' /\ MsIncrease' /\ RecentKnown'
  BY <1>1 DEF LogInv, RingHoldsLog, Slot, MsIncrease, RecentKnown, logVars
<1>3. new_reTx' \subseteq Directions
  BY DEF CopyDciData
<1>4. seen_reTx' \in [Directions -> [Cells -> Nat]]
  BY DEF CopyDciData, SeenAfter, LogInv, TypeOK
<1>5. dci_all' \in [Cells -> Seq(DCI)]
  <2>1. \A c \in Cells : ngscope_dci_extract_single_cell(c) \in Seq(DCI)
    BY ExtractIsLog DEF LogInv, TypeOK
  <2>2. Copied \in [Cells -> Seq(DCI)]
    BY <2>1 DEF Copied, LogInv, TypeOK
  <2> QED BY <2>2 DEF CopyDciData, LogInv, TypeOK
<1>6. TypeOK'
  BY <1>1, <1>3, <1>4, <1>5 DEF LogInv, TypeOK, logVars
<1> QED BY <1>2, <1>6 DEF LogInv

LEMMA StutterLogInv == LogInv /\ UNCHANGED vars => LogInv'
  BY DEF LogInv, TypeOK, RingHoldsLog, Slot, MsIncrease, RecentKnown, vars, logVars, clientVars

(* A copy holds the retransmission it was made for, or no DCI as old.      *)
LEMMA CopyHoldsRecent ==
  ASSUME LogInv, CopyDciData
  PROVE  \A x \in Directions : \A c \in Differs(x) :
           \/ \E i \in DOMAIN dci_all'[c] :
                dci_all'[c][i].ms = recent_reTx[x][c] /\ x \in dci_all'[c][i].reTx
           \/ \A i \in DOMAIN log[c] : log[c][i].ms > recent_reTx[x][c]
<1> SUFFICES ASSUME NEW x \in Directions, NEW c \in Differs(x)
             PROVE  \/ \E i \in DOMAIN dci_all'[c] :
                         dci_all'[c][i].ms = recent_reTx[x][c] /\ x \in dci_all'[c][i].reTx
                    \/ \A i \in DOMAIN log[c] : log[c][i].ms > recent_reTx[x][c]
  OBVIOUS
<1>1. c \in Cells /\ c < nof_cell
  <2>1. nof_cell \in 1 .. NumCells /\ NumCells \in Nat /\ c \in 0 .. nof_cell - 1
    BY DciLogAssumption DEF Differs, LogInv, TypeOK
  <2> QED BY <2>1 DEF Cells
<1>2. new_reTx' # {}
  BY DEF CopyDciData
<1>3. dci_all'[c] = log[c]
  BY <1>1, <1>2, ExtractIsLog DEF CopyDciData, Copied
<1>4. DOMAIN log[c] = 1 .. Len(log[c])
  BY <1>1, LenProperties DEF LogInv, TypeOK
<1>5. RecentIn(log[c], x, recent_reTx[x][c])
  BY <1>1 DEF LogInv, RecentKnown
<1> QED BY <1>3, <1>4, <1>5 DEF RecentIn
-----------------------------------------------------------------------------
(* The window of the TTIs all cells have logged.                           *)

(* NG-Scope reports no cell more than MaxSkew milliseconds ahead. *)
CellsTogether == \A c, o \in Cells : Newest(c) <= Newest(o) + MaxSkew

LEMMA TogetherInit == Init => CellsTogether
<1> SUFFICES ASSUME Init, NEW c \in Cells, NEW o \in Cells
             PROVE  Newest(c) <= Newest(o) + MaxSkew
  BY DEF CellsTogether
<1>1. Newest(c) = FirstMs - 1 /\ Newest(o) = FirstMs - 1
  BY DEF Init, Newest
<1> QED BY <1>1, DciLogAssumption

(* The newest DCI of a cell is the one inserted last. *)
LEMMA InsertNewest ==
  ASSUME LogInv, NEW c \in Cells, NEW d \in DCI, Insert(c, d)
  PROVE  Newest(c)' = d.ms /\ \A o \in Cells \ {c} : Newest(o)' = Newest(o)
<1> DEFINE s == log[c]
           t == LastN(Append(s, d))
<1>1. log'[c] = t /\ \A o \in Cells \ {c} : log'[o] = log[o]
  BY DEF Insert, LogInv, TypeOK
<1>2. s \in Seq(DCI) /\ Len(s) <= NumLog
  <2>1. NumLog \in Nat
    BY DciLogAssumption
  <2> QED BY <2>1 DEF LogInv, TypeOK, RingHoldsLog
<1>3. t[Len(t)] = d /\ Len(t) # 0
  <2>1. Len(s) \in Nat /\ Len(t) = Len(s) + 1 - (IF Len(s) < NumLog THEN 0 ELSE 1)
    BY <1>2, LastNAppend
  <2>2. NumLog \in Nat \ {0}
    BY DciLogAssumption
  <2>3. Len(t) # 0
    <3> HIDE DEF s, t
    <3> QED BY <2>1, <2>2
  <2> QED BY <1>2, <2>3, LastNAppend
<1>4. t # <<>>
  <2> HIDE DEF t
  <2> QED BY <1>3, EmptySeq
<1> HIDE DEF t
<1> QED BY <1>1, <1>3, <1>4 DEF Newest

LEMMA RecvDciTogether == LogInv /\ CellsTogether /\ RecvDci => CellsTogether'
<1> SUFFICES ASSUME LogInv, CellsTogether, RecvDci PROVE CellsTogether'
  OBVIOUS
<1>1. PICK c \in Cells, reTx \in SUBSET Directions, lost \in 0 .. LastMs :
        /\ \A o \in Cells \ {c} : Newest(c) + 1 + lost <= Newest(o) + MaxSkew
        /\ Insert(c, [ms |-> Newest(c) + 1 + lost, reTx |-> reTx])
  BY DEF RecvDci
<1> DEFINE ms == Newest(c) + 1 + lost
           d == [ms |-> ms, reTx |-> reTx]
<1>2. \A o \in Cells : Newest(o) \in Nat
  BY NewestProp
<1>3. d \in DCI /\ d.ms = ms /\ ms \in Nat /\ ms >= Newest(c)
  BY <1>2 DEF DCI, Directions
<1>4. Newest(c)' = ms /\ \A o \in Cells \ {c} : Newest(o)' = Newest(o)
  <2>1. Insert(c, d)
    BY <1>1
  <2> HIDE DEF d
  <2> QED BY <1>3, <2>1, InsertNewest
<1>5. \A o \in Cells \ {c} : ms <= Newest(o) + MaxSkew
  BY <1>1
<1> HIDE DEF ms
<1>6. ASSUME NEW a \in Cells, NEW o \in Cells
      PROVE  Newest(a)' <= Newest(o)' + MaxSkew
  <2>1. MaxSkew \in Nat /\ Newest(a) <= Newest(o) + MaxSkew
    BY DciLogAssumption DEF CellsTogether
  <2>2. CASE a = c /\ o = c
    BY <1>3, <1>4, <2>1, <2>2
  <2>3. CASE a = c /\ o # c
    BY <1>2, <1>3, <1>4, <1>5, <2>1, <2>3
  <2>4. CASE a # c
    BY <1>2, <1>3, <1>4, <2>1, <2>4
  <2> QED BY <2>2, <2>3, <2>4
<1> QED BY <1>6 DEF CellsTogether

(* A history without gaps counts up from its first millisecond. *)
LEMMA Contiguous ==
  ASSUME NEW s \in Seq(DCI), s # <<>>,
         \A i \in 1 .. Len(s) - 1 : s[i + 1].ms = s[i].ms + 1
  PROVE  \A k \in 1 .. Len(s) : s[k].ms = s[1].ms + k - 1
<1> DEFINE T == {k \in 1 .. Len(s) : s[k].ms # s[1].ms + k - 1}
<1>1. Len(s) \in Nat /\ \A k \in 1 .. Len(s) : s[k].ms \in Nat
  <2>1. \A k \in 1 .. Len(s) : s[k] \in DCI
    BY ElementOfSeq
  <2> QED BY <2>1, LenProperties DEF DCI
<1>2. T = {}
  <2> SUFFICES ASSUME T # {} PROVE FALSE
    OBVIOUS
  <2>1. T \subseteq Nat
    BY <1>1
  <2>2. PICK x \in T : \A y \in T : x <= y
    <3> HIDE DEF T
    <3> QED BY <2>1, LeastNat
  <2>3. x \in 1 .. Len(s) /\ x # 1
    BY <1>1, <2>2
  <2>4. x - 1 \in 1 .. Len(s) - 1 /\ x - 1 \in 1 .. Len(s) /\ (x - 1) + 1 = x
    BY <1>1, <2>3
  <2>5. s[x - 1].ms = s[1].ms + (x - 1) - 1
    <3>1. x - 1 \notin T
      BY <1>1, <2>2, <2>4
    <3> QED BY <2>4, <3>1
  <2>6. s[x].ms = s[x - 1].ms + 1
    BY <2>4
  <2>7. 1 \in 1 .. Len(s)
    BY <1>1, <2>3
  <2>8. s[x].ms = s[1].ms + x - 1
    <3>1. x \in Nat /\ s[1].ms \in Nat
      BY <1>1, <2>3, <2>7
    <3>2. s[x].ms = (s[1].ms + (x - 1) - 1) + 1
      BY <2>5, <2>6
    <3> HIDE DEF T
    <3>3. (s[1].ms + (x - 1) - 1) + 1 = s[1].ms + x - 1
      BY <3>1
    <3> QED BY <3>2, <3>3
  <2> QED BY <2>2, <2>8
<1> QED BY <1>2

(* What ca_update_header finds at the ends of a ring. *)
LEMMA RingEnds ==
  ASSUME TypeOK', RingHoldsLog', NEW c \in Cells, log'[c] # <<>>
  PROVE  /\ find_dci_cell_tail(c) = wrap_tti(log'[c][1].ms)
         /\ header'[c] # 0 => HeaderTTIs(c) = {wrap_tti(Newest(c)')}
<1> DEFINE h == header'[c]
           n == nof_logged_dci'[c]
           s == log'[c]
<1>1. NumLog \in Nat \ {0}
  BY DciLogAssumption
<1>2. /\ h \in 0 .. NumLog - 1 /\ n \in 0 .. NumLog /\ s \in Seq(DCI) /\ Len(s) = n
      /\ n < NumLog => h = n
      /\ \A i \in 1 .. n :
           s[i] = dci'[c][IF n < NumLog THEN i - 1 ELSE (h + i - 1) % NumLog]
  BY DEF TypeOK, RingHoldsLog, Slot
<1>3. n # 0 /\ Newest(c)' = s[n].ms
  BY <1>2, EmptySeq DEF Newest
<1> HIDE DEF h, n, s
<1>4. 1 \in 1 .. n /\ n \in 1 .. n
  BY <1>1, <1>2, <1>3
<1>5. s[1] = dci'[c][(h - n + NumLog) % NumLog]
  <2>1. CASE n < NumLog
    <3>1. h - n + NumLog = NumLog /\ NumLog \in NumLog .. 2 * NumLog - 1 /\ NumLog \in Int
      BY <1>1, <1>2, <2>1
    <3>2. NumLog % NumLog = NumLog - NumLog
      BY <3>1, RingIndex
    <3>3. s[1] = dci'[c][1 - 1] /\ 1 - 1 = NumLog - NumLog
      BY <1>1, <1>2, <1>4, <2>1
    <3> QED BY <3>1, <3>2, <3>3
  <2>2. CASE n = NumLog
    <3>1. h - n + NumLog = h /\ h + 1 - 1 = h
      BY <1>1, <1>2, <2>2
    <3>2. s[1] = dci'[c][(h + 1 - 1) % NumLog]
      BY <1>1, <1>2, <1>4, <2>2
    <3> QED BY <3>1, <3>2
  <2> QED BY <1>1, <1>2, <2>1, <2>2
<1>6. ASSUME h # 0 PROVE s[n] = dci'[c][h - 1]
  <2>1. CASE n < NumLog
    BY <1>2, <1>4, <2>1
  <2>2. CASE n = NumLog
    <3>1. h + NumLog - 1 \in NumLog .. 2 * NumLog - 1 /\ h + NumLog - 1 \in Int
      BY <1>1, <1>2, <1>6
    <3>2. (h + NumLog - 1) % NumLog = (h + NumLog - 1) - NumLog
      BY <3>1, RingIndex
    <3>3. s[n] = dci'[c][(h + NumLog - 1) % NumLog]
      BY <1>1, <1>2, <1>4, <2>2
    <3>4. (h + NumLog - 1) - NumLog = h - 1
      BY <1>1, <1>2
    <3> QED BY <3>2, <3>3, <3>4
  <2> QED BY <1>1, <1>2, <2>1, <2>2
<1>7. find_dci_cell_tail(c) = wrap_tti(s[1].ms)
  BY <1>5 DEF find_dci_cell_tail, tti, h, n
<1>8. h # 0 => HeaderTTIs(c) = {wrap_tti(s[n].ms)}
  BY <1>6 DEF HeaderTTIs, tti, h
<1> QED BY <1>3, <1>7, <1>8 DEF h, s

(* After an insertion, the window between the latest of the oldest DCIs    *)
(* and the earliest of the newest ones is logged in every cell.            *)
LEMMA InsertKeepsCommon ==
  ASSUME 2 * MaxSkew < MaxTTI, LogInv', CellsTogether', nof_cell' = nof_cell,
         ca_update_header, ca_ready, Common', TailsTogether',
         \A c \in 0 .. nof_cell - 1 : header'[c] # 0
  PROVE  WindowLogged'
<1> DEFINE used == 0 .. nof_cell - 1
           New(c) == Newest(c)'
           Old(c) == log'[c][1].ms
<1>1. MaxTTI \in Nat \ {0} /\ MaxSkew \in Nat
  BY DciLogAssumption, TTIAssumption
<1>2. used # {} /\ used \subseteq Cells /\ InUse' = used
  <2>1. nof_cell \in 1 .. NumCells /\ NumCells \in Nat
    BY DciLogAssumption DEF LogInv, TypeOK
  <2>2. 0 \in used
    BY <2>1
  <2>3. used \subseteq Cells
    BY <2>1 DEF Cells
  <2>4. InUse' = used
    BY DEF InUse
  <2> QED BY <2>2, <2>3, <2>4
<1>3. ASSUME NEW c \in used
      PROVE  /\ log'[c] \in Seq(DCI) /\ log'[c] # <<>> /\ Len(log'[c]) \in Nat \ {0}
             /\ DOMAIN log'[c] = 1 .. Len(log'[c])
             /\ Old(c) \in Nat
             /\ \A k \in 1 .. Len(log'[c]) : log'[c][k].ms = Old(c) + k - 1
             /\ New(c) = Old(c) + Len(log'[c]) - 1
  <2> DEFINE s == log'[c]
  <2>1. s \in Seq(DCI) /\ s # <<>> /\ \A i \in 1 .. Len(s) - 1 : s[i + 1].ms = s[i].ms + 1
    BY <1>2 DEF LogInv, TypeOK, Common
  <2>2. New(c) = s[Len(s)].ms
    BY <2>1 DEF Newest
  <2> HIDE DEF s
  <2>3. Len(s) \in Nat \ {0} /\ DOMAIN s = 1 .. Len(s)
    BY <2>1, EmptySeq, LenProperties
  <2>4. 1 \in 1 .. Len(s) /\ Len(s) \in 1 .. Len(s)
    BY <2>3
  <2>5. \A k \in 1 .. Len(s) : s[k].ms = s[1].ms + k - 1
    BY <2>1, Contiguous
  <2>6. s[1].ms \in Nat
    <3>1. s[1] \in DCI
      BY <2>1, <2>4, ElementOfSeq
    <3> QED BY <3>1 DEF DCI
  <2> QED BY <2>1, <2>2, <2>3, <2>4, <2>5, <2>6 DEF s
<1>4. \A c \in used : New(c) \in Nat
  <2> SUFFICES ASSUME NEW c \in used PROVE New(c) \in Nat
    OBVIOUS
  <2> HIDE DEF used, New, Old
  <2> QED BY <1>3
<1>5. \A c, o \in used : New(c) <= New(o) + MaxSkew
  BY <1>2 DEF CellsTogether
<1>6. \A c, o \in used : Old(c) < New(o)
  BY <1>2 DEF Common
<1>7. \A c \in used : /\ find_dci_cell_tail(c) = wrap_tti(Old(c))
                     /\ HeaderTTIs(c) = {wrap_tti(New(c))}
  BY <1>2, <1>3, RingEnds DEF LogInv
(* The end of the window. *)
<1>8. PICK e \in used : /\ ca_header' = wrap_tti(New(e))
                       /\ \A c \in used : New(e) <= New(c)
  <2> DEFINE n == [c \in used |-> New(c)]
             a == [c \in used |-> wrap_tti(n[c])]
             u == unwrap_tti_array(a)
  <2>1. PICK hs \in [used -> Garbage \cup 0 .. MaxTTI - 1] :
          (\A c \in used : hs[c] \in HeaderTTIs(c)) /\ ca_header' = CaHeader(hs)
    BY DEF ca_update_header
  <2>2. hs = a
    <3>1. \A c \in used : hs[c] = wrap_tti(New(c))
      BY <1>7, <2>1
    <3> HIDE DEF used, New
    <3> QED BY <3>1
  <2>3. n \in [used -> Nat] /\ \A c, o \in used : n[c] <= n[o] + MaxSkew
    <3> HIDE DEF used, New
    <3> QED BY <1>4, <1>5
  <2>4. a \in [used -> 0 .. MaxTTI - 1]
    <3> HIDE DEF used, n
    <3> QED BY <2>3, CycleDivision
  <2>5. PICK q \in Int : u = [c \in used |-> n[c] - MaxTTI * q]
    <3> HIDE DEF used, n
    <3> QED BY <1>1, <1>2, <2>3, UnwrapRight
  <2>6. u \in [used -> Nat]
    <3>1. max_in_array(a) \in 0 .. MaxTTI - 1
      <4> HIDE DEF used, a
      <4> QED BY <1>1, <1>2, <2>4, MaxInArray
    <3>2. DOMAIN a = used
      OBVIOUS
    <3> HIDE DEF used, a
    <3> QED BY <1>1, <2>4, <3>2 DEF unwrap_tti_array
  <2> DEFINE m == min_in_array(u)
  <2>7. m \in Nat /\ (\E c \in used : m = u[c]) /\ \A c \in used : m <= u[c]
    <3> HIDE DEF used, u
    <3> QED BY <1>2, <2>6, MinInArray
  <2>8. PICK e \in used : m = u[e]
    BY <2>7
  <2>9. \A c \in used : u[c] = New(c) - MaxTTI * q
    <3> HIDE DEF used, u, New
    <3> QED BY <2>5
  <2>10. \A c \in used : New(e) <= New(c)
    <3> SUFFICES ASSUME NEW c \in used PROVE New(e) <= New(c)
      OBVIOUS
    <3> HIDE DEF used, u, m, New
    <3>1. New(e) - MaxTTI * q <= New(c) - MaxTTI * q
      BY <2>7, <2>8, <2>9
    <3>2. MaxTTI * q \in Int /\ New(e) \in Nat /\ New(c) \in Nat
      BY <1>1, <1>4
    <3> QED BY <3>1, <3>2
  <2>11. ca_header' = wrap_tti(New(e))
    <3>1. ca_header' = wrap_tti(m)
      BY <2>1, <2>2 DEF CaHeader
    <3> HIDE DEF used, u, m, New
    <3>2. m = New(e) + MaxTTI * (-q) /\ -q \in Int /\ New(e) \in Int
      BY <1>1, <1>4, <2>8, <2>9
    <3> QED BY <3>1, <3>2, WrapShift
  <2> QED BY <2>10, <2>11
(* Its beginning. *)
<1>9. PICK b \in used : /\ ca_tail' = wrap_tti(Old(b) + 1)
                       /\ \A c \in used : Old(c) <= Old(b)
  <2> DEFINE ts == [c \in used |-> find_dci_cell_tail(c)]
             m == max_in_array(ts)
  <2>1. \A c \in used : Old(c) \in Nat
    BY <1>3
  <2>2. \A c \in used : ts[c] = wrap_tti(Old(c)) /\ ts[c] \in 0 .. MaxTTI - 1
    <3>1. \A c \in used : ts[c] = wrap_tti(Old(c))
      BY <1>7
    <3> HIDE DEF ts, used, Old
    <3> QED BY <2>1, <3>1, CycleDivision
  <2>3. ts \in [used -> 0 .. MaxTTI - 1] /\ MaxTTI - 1 \in Nat
    <3>1. DOMAIN ts = used /\ ts = [c \in used |-> ts[c]]
      OBVIOUS
    <3> HIDE DEF ts, used
    <3> QED BY <1>1, <2>2, <3>1
  <2>4. m \in 0 .. MaxTTI - 1 /\ (\E c \in used : m = ts[c]) /\ \A c \in used : ts[c] <= m
    <3> HIDE DEF ts, used
    <3> QED BY <1>2, <2>3, MaxInArray
  <2>5. PICK b \in used : m = ts[b]
    BY <2>4
  <2>6. ca_tail' = wrap_tti(m + 1)
    BY DEF ca_update_header, CaTail
  <2>7. ca_tail' = wrap_tti(Old(b) + 1)
    <3> HIDE DEF ts, used, m, Old
    <3>1. m = wrap_tti(Old(b)) /\ Old(b) \in Int /\ 1 \in Int
      BY <2>1, <2>2, <2>5
    <3>2. wrap_tti(wrap_tti(Old(b)) + 1) = wrap_tti(Old(b) + 1)
      BY <3>1, WrapAdd
    <3> QED BY <2>6, <3>1, <3>2
  <2>8. \A c \in used : Old(c) <= Old(b)
    <3> SUFFICES ASSUME NEW c \in used PROVE Old(c) <= Old(b)
      OBVIOUS
    <3> DEFINE q == Old(b) \div MaxTTI
    <3>1. Old(c) \div MaxTTI = q
      BY <1>2 DEF TailsTogether
    <3> HIDE DEF ts, used, m, Old
    <3>2. /\ Old(c) = MaxTTI * q + ts[c] /\ Old(b) = MaxTTI * q + ts[b]
          /\ q \in Int
      BY <2>1, <2>2, <3>1, CycleDivision
    <3>3. ts[c] <= ts[b] /\ ts[c] \in Int /\ ts[b] \in Int
      BY <1>1, <2>2, <2>4, <2>5
    <3> HIDE DEF q
    <3> QED BY <1>1, <3>2, <3>3
  <2> QED BY <2>7, <2>8
(* What lies between. *)
<1>10. ASSUME NEW c \in used, NEW i \in 0 .. tti_to_idx(ca_header', ca_tail')
       PROVE  \E k \in DOMAIN log'[c] : tti(log'[c][k]) = wrap_tti(ca_tail' + i)
  <2> DEFINE first == Old(b) + 1
             last == New(e)
             k == first + i - Old(c) + 1
  <2>1. first \in Nat /\ last \in Nat /\ first <= last /\ Old(b) \in Nat
    <3>1. Old(b) \in Nat /\ New(e) \in Nat /\ Old(b) < New(e)
      BY <1>3, <1>4, <1>6
    <3> HIDE DEF Old, New
    <3> QED BY <3>1
  <2>2. tti_to_idx(ca_header', ca_tail') = (last - first) % MaxTTI
    <3> HIDE DEF first, last, used, Old, New
    <3> DEFINE p == last \div MaxTTI
               r == first \div MaxTTI
    <3>1. last = MaxTTI * p + ca_header' /\ p \in Int /\ ca_header' \in 0 .. MaxTTI - 1
      BY <1>8, <2>1, CycleDivision DEF last
    <3>2. first = MaxTTI * r + ca_tail' /\ r \in Int /\ ca_tail' \in 0 .. MaxTTI - 1
      BY <1>9, <2>1, CycleDivision DEF first
    <3> HIDE DEF p, r
    <3>3. /\ ca_header' - ca_tail' + MaxTTI = (last - first) + MaxTTI * (r - p + 1)
          /\ r - p + 1 \in Int /\ last - first \in Int
      BY <1>1, <2>1, <3>1, <3>2
    <3> QED BY <3>3, WrapShift DEF tti_to_idx, wrap_tti
  <2>3. i \in Nat /\ i <= last - first
    <3> HIDE DEF first, last
    <3>1. last - first \in Nat
      BY <2>1
    <3>2. (last - first) % MaxTTI \in Nat /\ (last - first) % MaxTTI <= last - first
      <4> DEFINE z == last - first
      <4> HIDE DEF z
      <4>1. z \in Nat => z % MaxTTI \in Nat /\ z % MaxTTI <= z
        BY <1>1
      <4> QED BY <3>1, <4>1 DEF z
    <3>3. i \in 0 .. (last - first) % MaxTTI
      BY <2>2
    <3> HIDE DEF k
    <3> QED BY <3>1, <3>2, <3>3
  <2>4. k \in 1 .. Len(log'[c]) /\ Old(c) + k - 1 = first + i
    <3>1. Old(c) <= Old(b) /\ New(e) <= New(c)
      BY <1>8, <1>9
    <3>2. Old(c) \in Nat /\ New(c) = Old(c) + Len(log'[c]) - 1 /\ Len(log'[c]) \in Nat
      BY <1>3
    <3> DEFINE l == Len(log'[c])
               x == Old(c)
    <3>3. last <= x + l - 1 /\ x < first /\ x \in Nat /\ l \in Nat
      <4> HIDE DEF x, l, Old, New
      <4> QED BY <2>1, <3>1, <3>2 DEF x, l
    <3> HIDE DEF x, l, first, last
    <3>4. first + i - x + 1 \in 1 .. l /\ x + (first + i - x + 1) - 1 = first + i
      BY <2>1, <2>3, <3>3
    <3> QED BY <3>4 DEF x, l
  <2>5. log'[c][k].ms = Old(c) + k - 1
    <3> HIDE DEF k
    <3> QED BY <1>3, <2>4
  <2>6. wrap_tti(ca_tail' + i) = wrap_tti(first + i)
    <3>1. ca_tail' = wrap_tti(first)
      BY <1>9
    <3> HIDE DEF first
    <3>2. first \in Int /\ i \in Int
      BY <2>1, <2>3
    <3> QED BY <3>1, <3>2, WrapAdd
  <2>7. k \in DOMAIN log'[c] /\ tti(log'[c][k]) = wrap_tti(ca_tail' + i)
    <3> HIDE DEF k, first, Old
    <3> QED BY <1>3, <2>4, <2>5, <2>6 DEF tti
  <2> QED BY <2>7
<1> QED BY <1>2, <1>10 DEF WindowLogged, tti

-----------------------------------------------------------------------------
(* The threads: the main thread loops only after the other one has left    *)
(* its start, for the socket is ready only then, and files_open lasts      *)
(* until the end of the thread is awaited.                                 *)
ThreadsInv ==
  /\ LogInv
  /\ program \in Programs
  /\ main \in {"waiting", "looping", "joining", "ended"}
  /\ receiver \in {"starting", "connecting", "receiving", "ended"}
  /\ go_exit \in BOOLEAN /\ sock_ready \in BOOLEAN /\ files_open \in BOOLEAN
  /\ nof_cli_req \in 0 .. 2
  /\ receiver = "starting" => ~sock_ready /\ nof_cli_req = 0
  /\ receiver = "connecting" => nof_cli_req < 2
  /\ receiver # "ended" => files_open
  /\ main = "looping" => receiver # "starting"

LEMMA ThreadsInvInit == Start => ThreadsInv
<1> SUFFICES ASSUME Start PROVE ThreadsInv
  OBVIOUS
<1>1. LogInv
  BY DciLogInit DEF Start
<1>2. main \in {"waiting", "joining"} /\ program \in Programs /\ receiver = "starting"
  BY DEF Start
<1>3. nof_cli_req \in 0 .. 2 /\ nof_cli_req = 0
  BY DEF Start
<1>4. go_exit = FALSE /\ sock_ready = FALSE /\ files_open = TRUE
  BY DEF Start
<1> QED BY <1>1, <1>2, <1>3, <1>4 DEF ThreadsInv

LEMMA ThreadsInvStep == ThreadsInv /\ [ThreadsNext]_allVars => ThreadsInv'
<1> SUFFICES ASSUME ThreadsInv, [ThreadsNext]_allVars PROVE ThreadsInv'
  OBVIOUS
<1>1. CASE StartReceiver
  <2>1. LogInv'
    BY <1>1, StutterLogInv DEF StartReceiver, ThreadsInv
  <2> QED BY <1>1, <2>1 DEF StartReceiver, ThreadsInv
<1>2. CASE Connect
  <2>1. LogInv'
    BY <1>2, StutterLogInv DEF Connect, ThreadsInv
  <2>2. nof_cli_req' \in 0 .. 2
    BY <1>2 DEF Connect, ThreadsInv
  <2>3. sock_ready' \in BOOLEAN /\ (~sock_ready' => nof_cli_req' < 2)
    <3>1. sock_ready' = (go_exit \/ nof_cli_req' >= 2)
      BY <1>2 DEF Connect, ConnectOver
    <3>2. sock_ready' \in BOOLEAN
      BY <3>1 DEF ThreadsInv
    <3>3. ~(nof_cli_req' >= 2) => nof_cli_req' < 2
      BY <2>2
    <3> QED BY <3>1, <3>2, <3>3
  <2>4. /\ receiver' \in {"connecting", "receiving", "ended"}
        /\ receiver' = "connecting" => ~sock_ready'
    BY <1>2, <2>3 DEF Connect
  <2> QED BY <1>2, <2>1, <2>2, <2>3, <2>4 DEF Connect, ThreadsInv
<1>3. CASE Message
  <2>1. LogInv'
    BY <1>3, RecvDciLogInv, RecvConfigLogInv, StutterLogInv DEF Message, ThreadsInv
  <2> QED BY <1>3, <2>1 DEF Message, ThreadsInv, threadVars
<1>4. CASE ExitMessage
  <2>1. LogInv'
    BY <1>4, StutterLogInv DEF ExitMessage, ThreadsInv
  <2> QED BY <1>4, <2>1 DEF ExitMessage, ThreadsInv
<1>5. CASE Leave
  <2>1. LogInv'
    BY <1>5, StutterLogInv DEF Leave, ThreadsInv
  <2> QED BY <1>5, <2>1 DEF Leave, ThreadsInv
<1>6. CASE Wait
  <2>1. LogInv'
    BY <1>6, StutterLogInv DEF Wait, ThreadsInv
  <2>2. /\ main' \in {"looping", "joining"}
        /\ main' = "looping" => receiver # "starting"
    BY <1>6 DEF Wait, WaitOver, ThreadsInv
  <2> QED BY <1>6, <2>1, <2>2 DEF Wait, ThreadsInv
<1>7. CASE Round
  <2>1. LogInv'
    BY <1>7, CopyLogInv, StutterLogInv DEF Round, ThreadsInv
  <2>2. main' \in {"looping", "joining"} /\ receiver # "starting"
    BY <1>7 DEF Round, ThreadsInv
  <2> QED BY <1>7, <2>1, <2>2 DEF Round, ThreadsInv
<1>8. CASE Join
  <2>1. LogInv'
    BY <1>8, StutterLogInv DEF Join, ThreadsInv
  <2> QED BY <1>8, <2>1 DEF Join, ThreadsInv
<1>9. CASE SigInt
  <2>1. LogInv'
    BY <1>9, StutterLogInv DEF SigInt, ThreadsInv
  <2> QED BY <1>9, <2>1 DEF SigInt, ThreadsInv
<1>10. CASE UNCHANGED allVars
  <2>1. LogInv'
    BY <1>10, StutterLogInv DEF allVars, ThreadsInv
  <2> QED BY <1>10, <2>1 DEF allVars, threadVars, ThreadsInv
<1> QED BY <1>1, <1>2, <1>3, <1>4, <1>5, <1>6, <1>7, <1>8, <1>9, <1>10 DEF ThreadsNext

LEMMA ThreadsInvAlways == ThreadsSpec => []ThreadsInv
  BY ThreadsInvInit, ThreadsInvStep, PTL DEF ThreadsSpec

(* The log, the window of common TTIs, the copy and the state of the       *)
(* threads have their types for any number of cells, whatever arrives,     *)
(* also when ca_update_header reads dci[-1].tti.                           *)
THEOREM ThreadsTypesHold == ThreadsSpec => []ThreadsTypeOK
<1>1. ThreadsInv => ThreadsTypeOK
  BY DEF ThreadsInv, LogInv, ThreadsTypeOK
<1> QED BY <1>1, ThreadsInvAlways, PTL

(* Whenever Ctrl-C and the message to exit come, the log files are open    *)
(* while the thread runs, and the main loop does not meet                  *)
(* ngscope_dci_CA_init.                                                    *)
THEOREM SharedInLifetimeAlways == ThreadsSpec => []SharedInLifetime
<1>1. ThreadsInv => SharedInLifetime
  BY DEF ThreadsInv, SharedInLifetime
<1> QED BY <1>1, ThreadsInvAlways, PTL

(* ngscope_dci_extract_single_cell gives the last NOF_LOG_DCI DCIs of each *)
(* cell in order, for any size of the ring, wherever its header is.        *)
THEOREM ExtractIsRecentAlways == ThreadsSpec => []ExtractIsRecent
<1>1. ThreadsInv => ExtractIsRecent
  BY ExtractIsLog DEF ThreadsInv, ExtractIsRecent
<1> QED BY <1>1, ThreadsInvAlways, PTL

(* What a step of either thread does to the log. *)
LEMMA LogSteps ==
  ASSUME [ThreadsNext]_allVars
  PROVE  RecvDci \/ RecvConfig \/ CopyDciData \/ UNCHANGED vars
  BY DEF ThreadsNext, StartReceiver, Connect, Message, ExitMessage, Leave, Wait, Round,
         Join, SigInt, allVars

(* The retransmission copy_dci_data_from_struct reports, found through     *)
(* recent_dl_reTx_us while the other thread goes on logging, is in the     *)
(* copy of the log it leaves, unless the ring has dropped it.              *)
THEOREM AnnouncedIsCopiedAlways == ThreadsSpec => AnnouncedIsCopied
<1> DEFINE A == \A x \in Directions : \A c \in Differs(x) :
                  seen_reTx'[x][c] # seen_reTx[x][c] =>
                    \/ \E i \in DOMAIN dci_all'[c] :
                         dci_all'[c][i].ms = recent_reTx[x][c] /\ x \in dci_all'[c][i].reTx
                    \/ \A i \in DOMAIN log[c] : log[c][i].ms > recent_reTx[x][c]
<1>1. ThreadsInv /\ [ThreadsNext]_allVars => [A]_vars
  <2> SUFFICES ASSUME ThreadsInv, [ThreadsNext]_allVars PROVE [A]_vars
    OBVIOUS
  <2>1. RecvDci \/ RecvConfig \/ CopyDciData \/ UNCHANGED vars
    BY LogSteps
  <2>2. CASE CopyDciData
    BY <2>2, CopyHoldsRecent DEF ThreadsInv
  <2>3. CASE RecvDci \/ RecvConfig
    <3>1. seen_reTx' = seen_reTx
      BY <2>3 DEF RecvDci, RecvConfig, clientVars
    <3> QED BY <3>1
  <2> QED BY <2>1, <2>2, <2>3
<1>2. ThreadsSpec => [][A]_vars
  BY <1>1, ThreadsInvAlways, PTL DEF ThreadsSpec
<1> QED BY <1>2 DEF AnnouncedIsCopied

LEMMA TogetherAlways == ThreadsSpec => []CellsTogether
<1>1. Start => CellsTogether
  BY TogetherInit DEF Start
<1>2. ThreadsInv /\ CellsTogether /\ [ThreadsNext]_allVars => CellsTogether'
  <2> SUFFICES ASSUME ThreadsInv, CellsTogether, [ThreadsNext]_allVars PROVE CellsTogether'
    OBVIOUS
  <2>1. CASE RecvDci
    BY <2>1, RecvDciTogether DEF ThreadsInv
  <2>2. CASE RecvConfig \/ CopyDciData \/ UNCHANGED vars
    <3>1. log' = log
      BY <2>2 DEF RecvConfig, CopyDciData, vars, logVars
    <3> QED BY <3>1 DEF CellsTogether, Newest
  <2> QED BY <2>1, <2>2, LogSteps
<1> QED BY <1>1, <1>2, ThreadsInvAlways, PTL DEF ThreadsSpec

(* When no cell is half a cycle of TTIs ahead of another, what             *)
(* ca_update_header leaves as ca_header and ca_tail encloses only TTIs     *)
(* logged in every cell, for any number of cells and size of the log,      *)
(* also where the TTIs wrap: the unwrapping by the largest of them is      *)
(* right there.                                                            *)
THEOREM InsertKeepsWindowAlways ==
  ASSUME 2 * MaxSkew < MaxTTI
  PROVE  ThreadsSpec => InsertKeepsWindow
<1> DEFINE A == (log' # log /\ ca_ready /\ Common' /\ TailsTogether'
                  /\ \A c \in 0 .. nof_cell - 1 : header'[c] # 0) => WindowLogged'
<1>1. ThreadsInv /\ CellsTogether /\ CellsTogether' /\ [ThreadsNext]_allVars => [A]_vars
  <2> SUFFICES ASSUME ThreadsInv, CellsTogether', [ThreadsNext]_allVars PROVE A
    OBVIOUS
  <2>1. CASE RecvDci
    <3>1. LogInv'
      BY <2>1, RecvDciLogInv DEF ThreadsInv
    <3>2. nof_cell' = nof_cell /\ ca_update_header
      BY <2>1 DEF RecvDci, Insert
    <3> QED BY <3>1, <3>2, InsertKeepsCommon
  <2>2. CASE RecvConfig \/ CopyDciData \/ UNCHANGED vars
    <3>1. log' = log
      BY <2>2 DEF RecvConfig, CopyDciData, vars, logVars
    <3> QED BY <3>1
  <2> QED BY <2>1, <2>2, LogSteps
<1>2. ThreadsSpec => [][A]_vars
  BY <1>1, ThreadsInvAlways, TogetherAlways, PTL DEF ThreadsSpec
<1> QED BY <1>2 DEF InsertKeepsWindow
=============================================================================
