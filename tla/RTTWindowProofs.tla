-------------------------- MODULE RTTWindowProofs --------------------------
(***************************************************************************)
(* Proofs about the RTT windows, for every set of SampleRTTs and sample times.   *)
(*                                                                         *)
(* The argument: each deque is sorted in time and value, its front is the  *)
(* extreme, and every unexpired sample is dominated by a sample of the     *)
(* deque that is at least as recent and not beaten by it (WindowInv).      *)
(* Since the horizon of unjittered_rtt never exceeds that of min_rtt, its  *)
(* unexpired samples are among min_rtt's, so its extreme is not smaller.   *)
(***************************************************************************)
EXTENDS RTTWindow, TLAPS, SequenceTheorems, WellFoundedInduction

(* Every non-empty set of naturals has a least element. *)
LEMMA LeastNat ==
  ASSUME NEW T, T \subseteq Nat, T # {}
  PROVE  \E x \in T : \A y \in T : x <= y
<1> DEFINE R == {ss \in Nat \X Nat : ss[1] < ss[2]}
<1>1. IsWellFoundedOn(R, Nat)
  BY NatLessThanWellFounded DEF OpToRel
<1>2. PICK x \in T : \A y \in T : ~(<<y, x>> \in R)
  <2> HIDE DEF R
  <2> QED BY <1>1, WFMin
<1>3. ASSUME NEW y \in T PROVE x <= y
  <2>1. x \in Nat /\ y \in Nat /\ <<y, x>> \notin R
    BY <1>2
  <2>2. ~(y < x)
    BY <2>1
  <2> QED BY <2>1, <2>2
<1>4. QED BY <1>3

(* The fields of a window and of the samples of its deque have their types. *)
LEMMA WindowType ==
  ASSUME NEW w \in Window
  PROVE  /\ w.vals \in Seq(Sample) /\ Len(w.vals) \in Nat
         /\ w.find_min \in BOOLEAN /\ w.max_time \in Int /\ w.extreme \in Int
         /\ \A i \in 1 .. Len(w.vals) :
              /\ w.vals[i] \in Sample
              /\ w.vals[i].time \in Int
              /\ w.vals[i].val \in Int
<1>1. /\ w.vals \in Seq(Sample)
      /\ w.find_min \in BOOLEAN /\ w.max_time \in Int /\ w.extreme \in Int
  BY DEF Window
<1>2. Len(w.vals) \in Nat
  BY <1>1
<1>3. \A i \in 1 .. Len(w.vals) : w.vals[i] \in Sample
  BY <1>1, ElementOfSeq
<1>4. \A s \in Sample : s.time \in Int /\ s.val \in Int
  BY DEF Sample
<1>5. QED BY <1>1, <1>2, <1>3, <1>4

(* The pop_back loop of new_sample stops where LastUnbeaten says. *)
LEMMA LastUnbeatenProp ==
  ASSUME NEW w \in Window, NEW val \in Int
  PROVE  LET n == LastUnbeaten(w, val)
         IN  /\ n \in 0 .. Len(w.vals)
             /\ n # 0 => ~Beats(w, val, w.vals[n].val)
             /\ \A i \in n + 1 .. Len(w.vals) : Beats(w, val, w.vals[i].val)
<1> DEFINE L == Len(w.vals)
           T == {k \in 0 .. L : k # L => ~Beats(w, val, w.vals[L - k].val)}
<1>1. L \in Nat
  BY DEF Window
<1>2. T \subseteq Nat /\ L \in T
  BY <1>1
<1>3. PICK x \in T : \A y \in T : x <= y
  <2> HIDE DEF T
  <2> QED BY <1>2, LeastNat
<1>4. /\ L - x \in 0 .. L
      /\ L - x # 0 => ~Beats(w, val, w.vals[L - x].val)
  BY <1>1, <1>3
<1>5. ASSUME NEW i \in (L - x) + 1 .. L
      PROVE  Beats(w, val, w.vals[i].val)
  <2>1. L - i \in 0 .. L /\ L - i < x /\ L - (L - i) = i /\ L - i # L
    BY <1>1, <1>3
  <2>2. L - i \notin T
    BY <2>1, <1>3, <1>1
  <2> QED BY <2>1, <2>2
<1>6. QED
  BY <1>4, <1>5 DEF LastUnbeaten

(* The pop_front loop of clear_old_hist stops where FirstKept says. *)
LEMMA FirstKeptProp ==
  ASSUME NEW w \in Window, NEW now0 \in Int, w.vals # <<>>
  PROVE  LET n == FirstKept(w, now0)
         IN  /\ n \in 1 .. Len(w.vals)
             /\ n = Len(w.vals) \/ w.vals[n].time >= now0 - w.max_time
             /\ \A i \in 1 .. n - 1 : w.vals[i].time < now0 - w.max_time
<1> DEFINE L == Len(w.vals)
           T == {k \in 1 .. L : k = L \/ w.vals[k].time >= now0 - w.max_time}
<1>1. L \in Nat /\ L >= 1
  BY EmptySeq DEF Window
<1>2. T \subseteq Nat /\ L \in T
  BY <1>1
<1>3. PICK x \in T : \A y \in T : x <= y
  <2> HIDE DEF T
  <2> QED BY <1>2, LeastNat
<1>4. ASSUME NEW i \in 1 .. x - 1
      PROVE  w.vals[i].time < now0 - w.max_time
  <2>1. i \in 1 .. L /\ i # L /\ i < x
    BY <1>1, <1>3
  <2>2. i \notin T
    BY <2>1, <1>3, <1>1
  <2>3. w.vals[i].time \in Int /\ w.max_time \in Int
    BY <2>1, WindowType
  <2> QED BY <2>1, <2>2, <2>3
<1>5. QED
  BY <1>1, <1>3, <1>4 DEF FirstKept

(* Pushing a sample that is not older than the clock keeps WindowInv. *)
LEMMA PushSampleInv ==
  ASSUME NEW w \in Window, NEW S \in SUBSET Sample, NEW t0 \in Int, NEW t \in Int,
         NEW val \in Int, t0 <= t, DblMin < val, val < DblMax,
         WindowInv(w, S, t0)
  PROVE  LET u == PushSample(w, val, t)
         IN  /\ u \in Window
             /\ u.find_min = w.find_min /\ u.max_time = w.max_time
             /\ u.vals # <<>> /\ u.vals[Len(u.vals)].time = t
             /\ WindowInv(u, S \cup {[time |-> t, val |-> val]}, t)
<1> DEFINE u == PushSample(w, val, t)
           smp == [time |-> t, val |-> val]
           n == LastUnbeaten(w, val)
           L == Len(w.vals)
           v == w.vals
           p == SubSeq(v, 1, n)
<1>1. /\ n \in 0 .. L
      /\ n # 0 => ~Beats(w, val, v[n].val)
      /\ \A i \in n + 1 .. L : Beats(w, val, v[i].val)
  BY LastUnbeatenProp
<1>2. /\ v \in Seq(Sample) /\ L \in Nat /\ w.extreme \in Int
      /\ w.find_min \in BOOLEAN /\ w.max_time \in Int
      /\ \A i \in 1 .. L : v[i] \in Sample /\ v[i].time \in Int /\ v[i].val \in Int
  BY WindowType
<1>3. smp \in Sample /\ smp.time = t /\ smp.val = val
  BY DEF Sample
<1>4. /\ p \in Seq(Sample) /\ Len(p) = n
      /\ \A i \in 1 .. n : p[i] = v[i]
  <2> HIDE DEF n
  <2>1. \A i \in 1 .. n : v[i] \in Sample
    BY <1>1, <1>2
  <2> QED BY <2>1, <1>1, <1>2, SubSeqProperties
<1>5. /\ u.vals = Append(p, smp)
      /\ u.extreme = IF Beats(w, val, w.extreme) THEN val ELSE w.extreme
      /\ u.find_min = w.find_min /\ u.max_time = w.max_time
      /\ u \in [find_min : {w.find_min}, max_time : {w.max_time},
                vals : {u.vals}, extreme : {u.extreme}]
  BY DEF PushSample, Window
<1>6. /\ Append(p, smp) \in Seq(Sample) /\ Len(Append(p, smp)) = n + 1
      /\ \A i \in 1 .. n : Append(p, smp)[i] = v[i]
      /\ Append(p, smp)[n + 1] = smp
  <2> HIDE DEF p, smp, n
  <2> QED BY <1>1, <1>2, <1>3, <1>4
<1>7. /\ u.vals \in Seq(Sample) /\ Len(u.vals) = n + 1
      /\ \A i \in 1 .. n : u.vals[i] = v[i]
      /\ u.vals[n + 1] = smp
  BY <1>5, <1>6
<1> HIDE DEF u, n, p
<1>8. u \in Window
  BY <1>2, <1>5, <1>7 DEF Window
<1>9. u.vals # <<>> /\ u.vals[Len(u.vals)].time = t
  BY <1>7, <1>1, <1>3, EmptySeq
<1>10. \A a, b : Beats(u, a, b) <=> Beats(w, a, b)
  BY <1>5 DEF Beats
<1>11. \A i \in 1 .. Len(u.vals) : u.vals[i] \in S \cup {smp}
  BY <1>1, <1>7 DEF WindowInv, InWindow
<1>12. Sorted(u)
  <2> SUFFICES ASSUME NEW i \in 1 .. n + 1, NEW j \in 1 .. n + 1, i < j
               PROVE  /\ u.vals[i].time <= u.vals[j].time
                      /\ ~Beats(w, u.vals[j].val, u.vals[i].val)
    BY <1>7, <1>10 DEF Sorted
  <2>1. i \in 1 .. n /\ i \in 1 .. L /\ u.vals[i] = v[i] /\ v[i] \in S
    BY <1>1, <1>2, <1>7 DEF WindowInv, InWindow
  <2>2. CASE j \in 1 .. n
    <3>1. j \in 1 .. L /\ u.vals[j] = v[j]
      BY <2>2, <1>1, <1>2, <1>7
    <3>2. v[i].time <= v[j].time /\ ~Beats(w, v[j].val, v[i].val)
      BY <2>1, <3>1 DEF WindowInv, Sorted
    <3> QED BY <2>1, <3>1, <3>2
  <2>3. CASE j = n + 1
    <3>1. u.vals[j] = smp /\ v[i].time <= t
      BY <2>3, <2>1, <1>7, <1>2 DEF WindowInv, Dominated
    <3>2. ~Beats(w, val, v[i].val)
      <4>1. i = n \/ ~Beats(w, v[n].val, v[i].val)
        BY <2>1, <1>1, <1>2 DEF WindowInv, Sorted
      <4>2. ~Beats(w, val, v[n].val)
        BY <2>1, <1>1
      <4> QED BY <4>1, <4>2, <2>1, <1>1, <1>2 DEF Beats
    <3> QED BY <3>1, <3>2, <2>1, <1>3
  <2> QED BY <2>2, <2>3, <1>1
<1>13. Dominated(u, S \cup {smp}, t)
  <2>1. ASSUME NEW s \in S
        PROVE  /\ s.time <= t /\ DblMin < s.val /\ s.val < DblMax
               /\ \E i \in 1 .. n + 1 : /\ s.time <= u.vals[i].time
                                       /\ ~Beats(w, s.val, u.vals[i].val)
    <3>0. s.time \in Int /\ s.val \in Int
      BY DEF Sample
    <3>1. s.time <= t0 /\ DblMin < s.val /\ s.val < DblMax
      BY DEF WindowInv, Dominated
    <3>2. PICK i \in 1 .. L : s.time <= v[i].time /\ ~Beats(w, s.val, v[i].val)
      BY DEF WindowInv, Dominated
    <3>3. CASE i \in 1 .. n
      <4>1. i \in 1 .. n + 1 /\ u.vals[i] = v[i]
        BY <3>3, <1>1, <1>2, <1>7
      <4> QED BY <4>1, <3>0, <3>1, <3>2
    <3>4. CASE i \in n + 1 .. L
      <4>1. Beats(w, val, v[i].val)
        BY <3>4, <1>1
      <4>2. ~Beats(w, s.val, val)
        BY <4>1, <3>2, <3>0, <1>2 DEF Beats
      <4>3. n + 1 \in 1 .. n + 1 /\ s.time <= u.vals[n + 1].time /\ u.vals[n + 1].val = val
        BY <3>0, <3>1, <1>1, <1>3, <1>7
      <4> QED BY <4>2, <4>3, <3>0, <3>1
    <3> QED BY <3>3, <3>4, <1>1
  <2>2. /\ smp.time <= t /\ DblMin < smp.val /\ smp.val < DblMax
        /\ \E i \in 1 .. n + 1 : /\ smp.time <= u.vals[i].time
                                /\ ~Beats(w, smp.val, u.vals[i].val)
    <3>1. n + 1 \in 1 .. n + 1 /\ u.vals[n + 1] = smp /\ ~Beats(w, val, val)
      BY <1>1, <1>7 DEF Beats
    <3> QED BY <3>1, <1>3
  <2> QED BY <2>1, <2>2, <1>7, <1>10 DEF Dominated
<1>14. u.extreme = u.vals[1].val
  <2>1. CASE n = 0
    <3>1. u.vals[1].val = val
      BY <2>1, <1>7, <1>3
    <3>2. Beats(w, val, w.extreme)
      <4>1. CASE v = <<>>
        BY <4>1, <1>2, ExtremeAssumption DEF WindowInv, ExtremeIsFront, Beats, NewWindow
      <4>2. CASE v # <<>>
        <5>1. L >= 1
          BY <4>2, <1>2, EmptySeq
        <5> QED BY <5>1, <4>2, <2>1, <1>1, <1>2 DEF WindowInv, ExtremeIsFront
      <4> QED BY <4>1, <4>2
    <3> QED BY <3>1, <3>2, <1>5
  <2>2. CASE n # 0
    <3>1. u.vals[1] = v[1] /\ L >= 1 /\ v # <<>> /\ n \in 1 .. L
      BY <2>2, <1>7, <1>1, <1>2
    <3>2. w.extreme = v[1].val
      BY <3>1 DEF WindowInv, ExtremeIsFront
    <3>3. ~Beats(w, val, v[1].val)
      <4>1. n = 1 \/ ~Beats(w, v[n].val, v[1].val)
        BY <3>1, <1>2 DEF WindowInv, Sorted
      <4> QED BY <4>1, <2>2, <3>1, <1>1, <1>2 DEF Beats
    <3> QED BY <3>1, <3>2, <3>3, <1>5
  <2> QED BY <2>1, <2>2
<1>15. QED
  BY <1>5, <1>8, <1>9, <1>11, <1>12, <1>13, <1>14
     DEF WindowInv, InWindow, ExtremeIsFront, u

(* Dropping the samples older than the horizon keeps WindowInv: what is    *)
(* left dominates the samples that have not expired.                       *)
LEMMA ClearOldHistInv ==
  ASSUME NEW w \in Window, NEW S \in SUBSET Sample, NEW t \in Int,
         w.vals # <<>>, w.vals[Len(w.vals)].time = t, w.max_time >= 0,
         WindowInv(w, S, t)
  PROVE  LET u == clear_old_hist(w, t)
         IN  /\ u \in Window
             /\ u.find_min = w.find_min
             /\ u.vals # <<>>
             /\ WindowInv(u, Unexpired(S, t, w.max_time), t)
<1> DEFINE u == clear_old_hist(w, t)
           f == FirstKept(w, t)
           L == Len(w.vals)
           v == w.vals
           cut == t - w.max_time
           rec == \E i \in 1 .. f - 1 : ~Beats(w, w.extreme, v[i].val)
<1>1. /\ f \in 1 .. L
      /\ f = L \/ v[f].time >= cut
      /\ \A i \in 1 .. f - 1 : v[i].time < cut
  BY FirstKeptProp
<1>2. /\ v \in Seq(Sample) /\ L \in Nat /\ w.extreme \in Int
      /\ w.find_min \in BOOLEAN /\ w.max_time \in Int
      /\ \A i \in 1 .. L : v[i] \in Sample /\ v[i].time \in Int /\ v[i].val \in Int
  BY WindowType
<1>3. /\ u.vals = SubSeq(v, f, L)
      /\ u.extreme = IF rec THEN v[f].val ELSE w.extreme
      /\ u.find_min = w.find_min /\ u.max_time = w.max_time
      /\ u \in [find_min : {w.find_min}, max_time : {w.max_time},
                vals : {u.vals}, extreme : {u.extreme}]
  BY DEF clear_old_hist, Window
<1>4. /\ u.vals \in Seq(Sample) /\ Len(u.vals) = L - f + 1
      /\ \A i \in 1 .. L - f + 1 : u.vals[i] = v[f + i - 1]
  <2> HIDE DEF f, u
  <2>1. \A i \in f .. L : v[i] \in Sample
    BY <1>1, <1>2
  <2>2. f \in Int /\ L \in Int /\ f <= L
    BY <1>1, <1>2
  <2>3. /\ SubSeq(v, f, L) \in Seq(Sample)
        /\ Len(SubSeq(v, f, L)) = L - f + 1
        /\ \A i \in 1 .. L - f + 1 : SubSeq(v, f, L)[i] = v[f + i - 1]
    BY <2>1, <2>2, SubSeqProperties
  <2> QED BY <2>3, <1>3
<1> HIDE DEF u, f
<1>5. /\ u \in Window
      /\ u.vals # <<>>
  <2>1. u.extreme \in Int
    BY <1>1, <1>2, <1>3
  <2>2. u \in Window
    BY <2>1, <1>2, <1>3, <1>4 DEF Window
  <2>3. Len(u.vals) >= 1
    BY <1>1, <1>2, <1>4
  <2>4. u.vals # <<>>
    BY <2>3
  <2> QED BY <2>2, <2>4
<1>6. \A a, b : Beats(u, a, b) <=> Beats(w, a, b)
  BY <1>3 DEF Beats
<1>7. v[f].time >= cut
  BY <1>1, <1>2
<1>8. InWindow(u, Unexpired(S, t, w.max_time))
  <2> SUFFICES ASSUME NEW i \in 1 .. L - f + 1
               PROVE  u.vals[i] \in Unexpired(S, t, w.max_time)
    BY <1>4 DEF InWindow
  <2>1. f + i - 1 \in 1 .. L /\ u.vals[i] = v[f + i - 1] /\ (f + i - 1 = f \/ f < f + i - 1)
    BY <1>1, <1>2, <1>4
  <2>2. v[f + i - 1] \in S
    BY <2>1 DEF WindowInv, InWindow
  <2>3. v[f].time <= v[f + i - 1].time
    BY <2>1, <1>1, <1>2 DEF WindowInv, Sorted
  <2>4. v[f + i - 1].time >= cut
    <3>1. v[f + i - 1].time \in Int /\ v[f].time \in Int /\ cut \in Int
      BY <2>1, <1>1, <1>2
    <3> QED BY <3>1, <2>3, <1>7
  <2> QED BY <2>1, <2>2, <2>4 DEF Unexpired
<1>9. Sorted(u)
  <2> SUFFICES ASSUME NEW i \in 1 .. L - f + 1, NEW j \in 1 .. L - f + 1, i < j
               PROVE  /\ u.vals[i].time <= u.vals[j].time
                      /\ ~Beats(w, u.vals[j].val, u.vals[i].val)
    BY <1>4, <1>6 DEF Sorted
  <2>1. /\ f + i - 1 \in 1 .. L /\ f + j - 1 \in 1 .. L /\ f + i - 1 < f + j - 1
        /\ u.vals[i] = v[f + i - 1] /\ u.vals[j] = v[f + j - 1]
    BY <1>1, <1>2, <1>4
  <2>2. /\ v[f + i - 1].time <= v[f + j - 1].time
        /\ ~Beats(w, v[f + j - 1].val, v[f + i - 1].val)
    BY <2>1 DEF WindowInv, Sorted
  <2> QED BY <2>1, <2>2
<1>10. Dominated(u, Unexpired(S, t, w.max_time), t)
  <2> SUFFICES ASSUME NEW s \in S, s.time >= cut
               PROVE  /\ s.time <= t /\ DblMin < s.val /\ s.val < DblMax
                      /\ \E i \in 1 .. L - f + 1 : /\ s.time <= u.vals[i].time
                                                  /\ ~Beats(w, s.val, u.vals[i].val)
    BY <1>4, <1>6 DEF Dominated, Unexpired
  <2>1. s.time <= t /\ DblMin < s.val /\ s.val < DblMax
    BY DEF WindowInv, Dominated
  <2>2. PICK i \in 1 .. L : s.time <= v[i].time /\ ~Beats(w, s.val, v[i].val)
    BY DEF WindowInv, Dominated
  <2>3. s.time \in Int
    BY DEF Sample
  <2>4. i \notin 1 .. f - 1
    <3>1. ASSUME i \in 1 .. f - 1 PROVE FALSE
      <4>1. v[i].time < cut /\ v[i].time \in Int
        BY <3>1, <1>1, <1>2
      <4> QED BY <4>1, <2>2, <2>3, <1>2
    <3> QED BY <3>1
  <2>5. /\ (i - f) + 1 \in 1 .. L - f + 1
        /\ u.vals[(i - f) + 1] = v[i]
    <3>1. (i - f) + 1 \in 1 .. L - f + 1 /\ f + ((i - f) + 1) - 1 = i
      BY <2>4, <1>1, <1>2
    <3> QED BY <3>1, <1>4
  <2> QED BY <2>1, <2>2, <2>5
<1>11. u.extreme = u.vals[1].val
  <2>1. u.vals[1] = v[f]
    BY <1>1, <1>2, <1>4
  <2>2. w.extreme = v[1].val
    BY DEF WindowInv, ExtremeIsFront
  <2>3. CASE f = 1
    <3>1. 1 .. f - 1 = {}
      BY <2>3
    <3> QED BY <3>1, <2>1, <2>2, <2>3, <1>3
  <2>4. CASE f # 1
    <3>1. 1 \in 1 .. f - 1
      BY <2>4, <1>1, <1>2
    <3>2. ~Beats(w, w.extreme, v[1].val)
      BY <2>2, <1>2 DEF Beats
    <3> QED BY <3>1, <3>2, <2>1, <1>3
  <2> QED BY <2>3, <2>4
<1>12. QED
  BY <1>3, <1>5, <1>8, <1>9, <1>10, <1>11 DEF WindowInv, ExtremeIsFront, u

(* Both together: one call of new_sample, with the horizon set before it. *)
LEMMA NewSampleInv ==
  ASSUME NEW w \in Window, NEW S \in SUBSET Sample, NEW t0 \in Int, NEW t \in Int,
         NEW val \in Int, t0 <= t, DblMin < val, val < DblMax,
         NEW h \in Nat, WindowInv(w, S, t0)
  PROVE  LET u == new_sample(update_max_time(w, h), val, t)
         IN  /\ u \in Window
             /\ u.find_min = w.find_min
             /\ u.vals # <<>>
             /\ WindowInv(u, Unexpired(S \cup {[time |-> t, val |-> val]}, t, h), t)
<1> DEFINE wh == update_max_time(w, h)
           p == PushSample(wh, val, t)
           T == S \cup {[time |-> t, val |-> val]}
<1>1. /\ wh \in Window /\ wh.find_min = w.find_min /\ wh.max_time = h
      /\ wh.vals = w.vals /\ wh.extreme = w.extreme
  BY DEF update_max_time, Window
<1> HIDE DEF wh
<1>2. \A a, b : Beats(wh, a, b) <=> Beats(w, a, b)
  BY <1>1 DEF Beats
<1>3. WindowInv(wh, S, t0)
  BY <1>1, <1>2 DEF WindowInv, InWindow, Sorted, Dominated, ExtremeIsFront
<1>4. /\ p \in Window /\ p.find_min = w.find_min /\ p.max_time = h
      /\ p.vals # <<>> /\ p.vals[Len(p.vals)].time = t
      /\ WindowInv(p, T, t)
  <2>1. /\ p \in Window
        /\ p.find_min = wh.find_min /\ p.max_time = wh.max_time
        /\ p.vals # <<>> /\ p.vals[Len(p.vals)].time = t
        /\ WindowInv(p, T, t)
    BY <1>1, <1>3, PushSampleInv, Zenon
  <2> QED BY <2>1, <1>1
<1>5. T \in SUBSET Sample
  BY DEF Sample
<1> HIDE DEF p, T
<1>6. /\ clear_old_hist(p, t) \in Window
      /\ clear_old_hist(p, t).find_min = p.find_min
      /\ clear_old_hist(p, t).vals # <<>>
      /\ WindowInv(clear_old_hist(p, t), Unexpired(T, t, p.max_time), t)
  <2>1. p.max_time >= 0
    BY <1>4
  <2> QED BY <1>4, <1>5, <2>1, ClearOldHistInv
<1>7. QED
  BY <1>4, <1>6 DEF new_sample, p, wh, T

(* A shorter horizon leaves fewer samples unexpired. *)
LEMMA UnexpiredMonotone ==
  ASSUME NEW A \in SUBSET Sample, NEW B \in SUBSET Sample, A \subseteq B,
         NEW t \in Int, NEW h \in Int, NEW k \in Int, h <= k
  PROVE  Unexpired(A, t, h) \subseteq Unexpired(B, t, k)
<1> SUFFICES ASSUME NEW x \in A, x.time >= t - h PROVE x.time >= t - k
  BY DEF Unexpired
<1>1. x.time \in Int
  BY DEF Sample
<1>2. QED BY <1>1

(* The horizons new_rtt_sample sets are not negative, and min_rtt's is the *)
(* longest.                                                                *)
LEMMA Horizons ==
  ASSUME WindowsTypeOK, NEW s \in Nat
  PROVE  /\ MinHorizon \in Nat /\ UnjHorizon(s) \in Nat /\ CopaHorizon(s) \in Nat
         /\ UnjHorizon(s) <= MinHorizon /\ CopaHorizon(s) <= MinHorizon
<1>1. min_rtt.extreme \in Int
  BY WindowType DEF WindowsTypeOK
<1>2. MinHorizon \in Nat
  BY <1>1, ExtremeAssumption DEF MinHorizon, Larger
<1>3. s \div 2 \in Nat /\ 4 * s \in Nat
  OBVIOUS
<1>4. QED
  BY <1>2, <1>3 DEF UnjHorizon, CopaHorizon, Smaller

(* The constructors of rtt-window.cc establish the inductive invariant. *)
LEMMA InitIInv == WindowsInit => WindowsInv
<1> SUFFICES ASSUME WindowsInit PROVE WindowsInv
  OBVIOUS
<1>1. ASSUME NEW b \in BOOLEAN
      PROVE  /\ NewWindow(b) \in Window /\ NewWindow(b).find_min = b
             /\ NewWindow(b).vals = <<>>
             /\ WindowInv(NewWindow(b), {}, 0)
  <2>1. /\ NewWindow(b) \in Window /\ NewWindow(b).find_min = b
        /\ NewWindow(b).vals = <<>>
    BY ExtremeAssumption DEF NewWindow, Window
  <2>2. Len(NewWindow(b).vals) = 0
    BY <2>1
  <2> QED BY <2>1, <2>2
          DEF WindowInv, InWindow, Sorted, Dominated, ExtremeIsFront
<1>2. \A w \in Windows : live[w] = {}
  BY DEF WindowsInit
<1>3. WindowsTypeOK
  BY <1>1 DEF WindowsInit, WindowsTypeOK
<1>4. QED
  BY <1>1, <1>2, <1>3 DEF WindowsInit, WindowsInv, Windows

(* RTTWindow::new_rtt_sample preserves it: one call of new_sample for each *)
(* of the four windows, with the horizons computed before them.            *)
LEMMA SampleIInv ==
  ASSUME WindowsInv, NewRTTSample
  PROVE  WindowsInv'
<1>1. PICK rtt \in SampleRTTs, t \in Times :
        t > now /\ \E s \in Smoothed(rtt) : new_rtt_sample(rtt, t, s)
  BY DEF NewRTTSample
<1>2. PICK s \in Smoothed(rtt) : new_rtt_sample(rtt, t, s)
  BY <1>1
<1> DEFINE smp == [time |-> t, val |-> rtt]
           hm == MinHorizon
           hu == UnjHorizon(s)
           hc == CopaHorizon(s)
<1>3. /\ rtt \in Int /\ rtt >= 1 /\ DblMin < rtt /\ rtt < DblMax
      /\ t \in Nat /\ now \in Nat /\ now <= t
  BY <1>1, ExtremeAssumption, RTTAssumption DEF WindowsInv, WindowsTypeOK
<1>4. s \in Nat
  BY <1>3 DEF Smoothed, Smaller, Larger, WindowsInv, WindowsTypeOK
<1>5. WindowsTypeOK
  BY DEF WindowsInv
<1>6. /\ hm \in Nat /\ hu \in Nat /\ hc \in Nat /\ hu <= hm /\ hc <= hm
  BY <1>4, <1>5, Horizons
<1>7. smp \in Sample /\ smp.time = t
  BY <1>3 DEF Sample
<1>8. /\ live'["min_rtt"] = Unexpired(live["min_rtt"] \cup {smp}, t, hm)
      /\ live'["unjittered_rtt"] = Unexpired(live["unjittered_rtt"] \cup {smp}, t, hu)
      /\ live'["is_copa_min"] = Unexpired(live["is_copa_min"] \cup {smp}, t, hc)
      /\ live'["is_copa_max"] = Unexpired(live["is_copa_max"] \cup {smp}, t, hc)
      /\ live' = [w \in Windows |-> live'[w]]
      /\ now' = t /\ srtt' = s
  BY <1>2 DEF new_rtt_sample, Windows
<1>9. \A w \in Windows : live[w] \in SUBSET Sample
  BY <1>5 DEF WindowsTypeOK
<1> HIDE DEF hm, hu, hc
<1>9a. ASSUME NEW w \in Window, NEW S \in SUBSET Sample, NEW h \in Nat,
                WindowInv(w, S, now)
         PROVE  /\ new_sample(update_max_time(w, h), rtt, t) \in Window
                /\ new_sample(update_max_time(w, h), rtt, t).find_min = w.find_min
                /\ WindowInv(new_sample(update_max_time(w, h), rtt, t),
                             Unexpired(S \cup {smp}, t, h), t)
  <2> DEFINE u == new_sample(update_max_time(w, h), rtt, t)
  <2>1. now \in Int /\ t \in Int /\ rtt \in Int /\ now <= t
    BY <1>3
  <2>2. DblMin < rtt /\ rtt < DblMax
    BY <1>3
  <2>3. /\ u \in Window
        /\ u.find_min = w.find_min
        /\ u.vals # <<>>
        /\ WindowInv(u, Unexpired(S \cup {[time |-> t, val |-> rtt]}, t, h), t)
    BY <2>1, <2>2, <1>9a, NewSampleInv, ZenonT(30)
  <2> QED BY <2>3
<1>10. /\ min_rtt' \in Window /\ min_rtt'.find_min
       /\ WindowInv(min_rtt', live'["min_rtt"], t)
  <2>1. min_rtt \in Window /\ min_rtt.find_min /\ WindowInv(min_rtt, live["min_rtt"], now)
    BY <1>5 DEF WindowsInv, WindowsTypeOK
  <2>2. min_rtt' = new_sample(update_max_time(min_rtt, hm), rtt, t)
    BY <1>2 DEF new_rtt_sample, hm
  <2>3. live["min_rtt"] \in SUBSET Sample
    BY <1>9 DEF Windows
  <2> QED BY <2>1, <2>2, <2>3, <1>6, <1>8, <1>9a
<1>11. /\ unjittered_rtt' \in Window /\ unjittered_rtt'.find_min
       /\ WindowInv(unjittered_rtt', live'["unjittered_rtt"], t)
  <2>1. /\ unjittered_rtt \in Window /\ unjittered_rtt.find_min
        /\ WindowInv(unjittered_rtt, live["unjittered_rtt"], now)
    BY <1>5 DEF WindowsInv, WindowsTypeOK
  <2>2. unjittered_rtt' = new_sample(update_max_time(unjittered_rtt, hu), rtt, t)
    BY <1>2 DEF new_rtt_sample, hu
  <2>3. live["unjittered_rtt"] \in SUBSET Sample
    BY <1>9 DEF Windows
  <2> QED BY <2>1, <2>2, <2>3, <1>6, <1>8, <1>9a
<1>12. /\ is_copa_min' \in Window /\ is_copa_min'.find_min
       /\ WindowInv(is_copa_min', live'["is_copa_min"], t)
  <2>1. /\ is_copa_min \in Window /\ is_copa_min.find_min
        /\ WindowInv(is_copa_min, live["is_copa_min"], now)
    BY <1>5 DEF WindowsInv, WindowsTypeOK
  <2>2. is_copa_min' = new_sample(update_max_time(is_copa_min, hc), rtt, t)
    BY <1>2 DEF new_rtt_sample, hc
  <2>3. live["is_copa_min"] \in SUBSET Sample
    BY <1>9 DEF Windows
  <2> QED BY <2>1, <2>2, <2>3, <1>6, <1>8, <1>9a
<1>13. /\ is_copa_max' \in Window /\ ~is_copa_max'.find_min
       /\ WindowInv(is_copa_max', live'["is_copa_max"], t)
  <2>1. /\ is_copa_max \in Window /\ ~is_copa_max.find_min
        /\ WindowInv(is_copa_max, live["is_copa_max"], now)
    BY <1>5 DEF WindowsInv, WindowsTypeOK
  <2>2. is_copa_max' = new_sample(update_max_time(is_copa_max, hc), rtt, t)
    BY <1>2 DEF new_rtt_sample, hc
  <2>3. live["is_copa_max"] \in SUBSET Sample
    BY <1>9 DEF Windows
  <2> QED BY <2>1, <2>2, <2>3, <1>6, <1>8, <1>9a
<1>14. \A w \in Windows : live[w] \cup {smp} \in SUBSET Sample
  BY <1>7, <1>9
<1> HIDE DEF smp
<1>15. live'["unjittered_rtt"] \subseteq live'["min_rtt"]
  <2>1. live["unjittered_rtt"] \cup {smp} \subseteq live["min_rtt"] \cup {smp}
    BY DEF WindowsInv
  <2> QED BY <2>1, <1>3, <1>6, <1>8, <1>14, UnexpiredMonotone DEF Windows
<1>16. live'["is_copa_min"] \subseteq live'["min_rtt"]
  <2>1. live["is_copa_min"] \cup {smp} \subseteq live["min_rtt"] \cup {smp}
    BY DEF WindowsInv
  <2> QED BY <2>1, <1>3, <1>6, <1>8, <1>14, UnexpiredMonotone DEF Windows
<1>17. live'["is_copa_min"] = live'["is_copa_max"]
  BY <1>8 DEF WindowsInv
<1>18. smp \in live'["min_rtt"] /\ smp \in live'["is_copa_min"]
  <2>1. t >= t - hm /\ t >= t - hc
    BY <1>3, <1>6
  <2> QED BY <2>1, <1>7, <1>8 DEF Unexpired
<1>19. live' \in [Windows -> SUBSET Sample]
  <2>1. \A w \in Windows : live'[w] \in SUBSET Sample
    BY <1>8, <1>14 DEF Unexpired, Windows
  <2> QED BY <2>1, <1>8
<1>20. WindowsTypeOK'
  BY <1>3, <1>4, <1>8, <1>10, <1>11, <1>12, <1>13, <1>19 DEF WindowsTypeOK
<1>21. QED
  BY <1>8, <1>10, <1>11, <1>12, <1>13, <1>15, <1>16, <1>17, <1>18, <1>20 DEF WindowsInv

(* RTTWindow::clear preserves it, whether the clock restarts or not. *)
LEMMA ClearIInv ==
  ASSUME WindowsInv, Clear
  PROVE  WindowsInv'
<1>1. ASSUME NEW b \in BOOLEAN, NEW t
      PROVE  /\ NewWindow(b) \in Window /\ NewWindow(b).find_min = b
             /\ WindowInv(NewWindow(b), {}, t)
  <2>1. /\ NewWindow(b) \in Window /\ NewWindow(b).find_min = b
        /\ NewWindow(b).vals = <<>>
    BY ExtremeAssumption DEF NewWindow, Window
  <2>2. Len(NewWindow(b).vals) = 0
    BY <2>1
  <2> QED BY <2>1, <2>2
          DEF WindowInv, InWindow, Sorted, Dominated, ExtremeIsFront
<1>2. /\ min_rtt' = NewWindow(TRUE) /\ unjittered_rtt' = NewWindow(TRUE)
      /\ is_copa_min' = NewWindow(TRUE) /\ is_copa_max' = NewWindow(FALSE)
  BY WindowType DEF Clear, clear, WindowsInv, WindowsTypeOK
<1>3. \A w \in Windows : live'[w] = {}
  BY DEF Clear
<1>4. live' \in [Windows -> SUBSET Sample] /\ now' \in Nat /\ srtt' = 0
  BY DEF Clear, WindowsInv, WindowsTypeOK
<1>5. WindowsTypeOK'
  BY <1>1, <1>2, <1>4 DEF WindowsTypeOK
<1>6. QED
  BY <1>1, <1>2, <1>3, <1>5 DEF WindowsInv, Windows

(* WindowsInv is an inductive invariant. *)
LEMMA NextIInv == WindowsInv /\ [WindowsNext]_windowsVars => WindowsInv'
<1> SUFFICES ASSUME WindowsInv, [WindowsNext]_windowsVars PROVE WindowsInv'
  OBVIOUS
<1>1. CASE NewRTTSample
  BY <1>1, SampleIInv
<1>2. CASE Clear
  BY <1>2, ClearIInv
<1>3. CASE UNCHANGED windowsVars
  <2>1. /\ min_rtt' = min_rtt /\ unjittered_rtt' = unjittered_rtt
        /\ is_copa_min' = is_copa_min /\ is_copa_max' = is_copa_max
        /\ srtt' = srtt /\ now' = now /\ live' = live
    BY <1>3 DEF windowsVars
  <2>2. WindowsTypeOK'
    BY <2>1 DEF WindowsInv, WindowsTypeOK
  <2> QED BY <2>1, <2>2 DEF WindowsInv
<1>4. QED
  BY <1>1, <1>2, <1>3 DEF WindowsNext

(* In every reachable state of the RTT statistics of rtt-window.cc each    *)
(* deque is sorted, holds unexpired samples only and dominates all of them.*)
THEOREM InductiveInvariant == WindowsSpec => []WindowsInv
  BY InitIInv, NextIInv, PTL DEF WindowsSpec

(* The types of the four windows, the clock and the history hold in every  *)
(* reachable state, whatever SampleRTTs and sample times rtt-window.cc is given. *)
THEOREM TypeCorrect == WindowsSpec => []WindowsTypeOK
<1>1. WindowsInv => WindowsTypeOK
  BY DEF WindowsInv
<1>2. QED BY <1>1, InductiveInvariant, PTL

(* A window's answer is not beaten by any of its unexpired samples, and is *)
(* one of them when there are any.                                         *)
LEMMA ExtremeIsBest ==
  ASSUME NEW w \in Window, NEW S \in SUBSET Sample, NEW t \in Int,
         WindowInv(w, S, t)
  PROVE  /\ \A s \in S : ~Beats(w, s.val, w.extreme)
         /\ S # {} => \E s \in S : s.val = w.extreme
         /\ S = {} => w.extreme = NewWindow(w.find_min).extreme
<1> DEFINE v == w.vals
           L == Len(w.vals)
<1>1. /\ v \in Seq(Sample) /\ L \in Nat
      /\ \A i \in 1 .. L : v[i] \in Sample /\ v[i].time \in Int /\ v[i].val \in Int
  BY WindowType
<1>2. ASSUME NEW s \in S
      PROVE  ~Beats(w, s.val, w.extreme) /\ \E x \in S : x.val = w.extreme
  <2>1. s.val \in Int
    BY DEF Sample
  <2>2. PICK i \in 1 .. L : ~Beats(w, s.val, v[i].val)
    BY DEF WindowInv, Dominated
  <2>3. v # <<>> /\ 1 \in 1 .. L /\ (i = 1 \/ 1 < i)
    BY <1>1
  <2>4. w.extreme = v[1].val /\ v[1] \in S
    BY <2>3 DEF WindowInv, ExtremeIsFront, InWindow
  <2>5. i = 1 \/ ~Beats(w, v[i].val, v[1].val)
    BY <2>3 DEF WindowInv, Sorted
  <2>6. ~Beats(w, s.val, v[1].val)
    BY <2>1, <2>2, <2>3, <2>5, <1>1 DEF Beats
  <2> QED BY <2>4, <2>6
<1>3. ASSUME S = {} PROVE v = <<>>
  <2>1. \A i \in 1 .. L : FALSE
    BY <1>3 DEF WindowInv, InWindow
  <2> QED BY <2>1, <1>1, EmptySeq
<1>4. QED
  BY <1>2, <1>3 DEF WindowInv, ExtremeIsFront

(* The assertion of markoviancc.cc:241 holds after every acknowledgement   *)
(* and clear, for all SampleRTTs and sample times.                               *)
THEOREM UnjitteredAboveMin == WindowsSpec => []MinNotAboveUnjittered
<1>1. ASSUME WindowsInv PROVE MinNotAboveUnjittered
  <2>1. /\ min_rtt \in Window /\ min_rtt.find_min
        /\ unjittered_rtt \in Window /\ unjittered_rtt.find_min
        /\ live["min_rtt"] \in SUBSET Sample /\ live["unjittered_rtt"] \in SUBSET Sample
        /\ now \in Int
    BY <1>1 DEF WindowsInv, WindowsTypeOK, Windows
  <2>2. /\ WindowInv(min_rtt, live["min_rtt"], now)
        /\ WindowInv(unjittered_rtt, live["unjittered_rtt"], now)
        /\ live["unjittered_rtt"] \subseteq live["min_rtt"]
    BY <1>1 DEF WindowsInv
  <2>3. \A s \in live["min_rtt"] : ~Beats(min_rtt, s.val, min_rtt.extreme)
    BY <2>1, <2>2, ExtremeIsBest
  <2>4. min_rtt.extreme \in Int /\ unjittered_rtt.extreme \in Int
    BY <2>1, WindowType
  <2>5. CASE live["unjittered_rtt"] # {}
    <3>1. PICK s \in live["unjittered_rtt"] : s.val = unjittered_rtt.extreme
      BY <2>1, <2>2, <2>5, ExtremeIsBest
    <3>2. ~Beats(min_rtt, s.val, min_rtt.extreme)
      BY <2>2, <2>3, <3>1
    <3> QED BY <2>1, <2>4, <3>1, <3>2 DEF Beats, MinNotAboveUnjittered
  <2>6. CASE live["unjittered_rtt"] = {}
    <3>1. unjittered_rtt.extreme = DblMax
      <4>1. unjittered_rtt.extreme = NewWindow(unjittered_rtt.find_min).extreme
        BY <2>1, <2>2, <2>6, ExtremeIsBest
      <4> QED BY <4>1, <2>1 DEF NewWindow
    <3>2. min_rtt.extreme <= DblMax
      <4>1. CASE live["min_rtt"] = {}
        <5>1. min_rtt.extreme = NewWindow(min_rtt.find_min).extreme
          BY <2>1, <2>2, <4>1, ExtremeIsBest
        <5> QED BY <5>1, <2>1, ExtremeAssumption DEF NewWindow
      <4>2. CASE live["min_rtt"] # {}
        <5>1. PICK s \in live["min_rtt"] : s.val = min_rtt.extreme
          BY <2>1, <2>2, <4>2, ExtremeIsBest
        <5>2. s.val < DblMax
          BY <2>2 DEF WindowInv, Dominated
        <5> QED BY <5>1, <5>2, <2>4, ExtremeAssumption
      <4> QED BY <4>1, <4>2
    <3> QED BY <3>1, <3>2 DEF MinNotAboveUnjittered
  <2> QED BY <2>5, <2>6
<1>2. QED BY <1>1, InductiveInvariant, PTL

(* The three extremes is_copa compares are in order, whatever the horizons *)
(* the deques were trimmed with: all are of samples min_rtt has kept.      *)
THEOREM CopaExtremesOrderedAlways == WindowsSpec => []CopaExtremesOrdered
<1>1. ASSUME WindowsInv, live["min_rtt"] # {}
      PROVE  /\ min_rtt.extreme <= is_copa_min.extreme
             /\ is_copa_min.extreme <= is_copa_max.extreme
  <2>1. /\ min_rtt \in Window /\ min_rtt.find_min
        /\ is_copa_min \in Window /\ is_copa_min.find_min
        /\ is_copa_max \in Window /\ ~is_copa_max.find_min
        /\ live["min_rtt"] \in SUBSET Sample /\ live["is_copa_min"] \in SUBSET Sample
        /\ live["is_copa_max"] \in SUBSET Sample
        /\ now \in Int
    BY <1>1 DEF WindowsInv, WindowsTypeOK, Windows
  <2>2. /\ live["is_copa_min"] \subseteq live["min_rtt"]
        /\ live["is_copa_min"] = live["is_copa_max"] /\ live["is_copa_min"] # {}
    BY <1>1 DEF WindowsInv
  <2>3. PICK s \in live["is_copa_min"] : s.val = is_copa_min.extreme
    BY <1>1, <2>1, <2>2, ExtremeIsBest DEF WindowsInv
  <2>4. ~Beats(min_rtt, s.val, min_rtt.extreme)
    <3>1. \A x \in live["min_rtt"] : ~Beats(min_rtt, x.val, min_rtt.extreme)
      BY <1>1, <2>1, ExtremeIsBest DEF WindowsInv
    <3> QED BY <2>2, <3>1
  <2>5. ~Beats(is_copa_max, s.val, is_copa_max.extreme)
    <3>1. \A x \in live["is_copa_max"] : ~Beats(is_copa_max, x.val, is_copa_max.extreme)
      BY <1>1, <2>1, ExtremeIsBest DEF WindowsInv
    <3> QED BY <2>2, <3>1
  <2>6. /\ min_rtt.extreme \in Int /\ is_copa_min.extreme \in Int
        /\ is_copa_max.extreme \in Int
    BY <2>1, WindowType
  <2> QED BY <2>1, <2>3, <2>4, <2>5, <2>6 DEF Beats
<1>2. WindowsInv => CopaExtremesOrdered
  BY <1>1 DEF CopaExtremesOrdered
<1> QED BY <1>2, InductiveInvariant, PTL

(* A sample step of the min_rtt window is a NewSample step of its abstract   *)
(* specification.                                                          *)
LEMMA MinAbsStep ==
  ASSUME WindowsInv', NEW t \in Nat, NEW rtt \in Int, NEW h \in Nat,
         \A o \in live["min_rtt"] : o.time \in Int /\ o.time <= t,
         live'["min_rtt"]
           = Unexpired(live["min_rtt"] \cup {[time |-> t, val |-> rtt]}, t, h)
  PROVE  MinAbs!Next
<1> DEFINE smp == [time |-> t, val |-> rtt]
           S == live["min_rtt"]
           T == live'["min_rtt"]
<1>1. smp.time = t /\ t >= t - h /\ t - h \in Int
  OBVIOUS
<1>2. smp \in T /\ T \subseteq S \cup {smp}
  BY <1>1 DEF Unexpired
<1>3. \A o \in S : o.time <= smp.time
  BY <1>1
<1>4. \A o \in S \ T, k \in T : o.time < k.time
  <2> SUFFICES ASSUME NEW o \in S, o \notin T, NEW k \in T PROVE o.time < k.time
    OBVIOUS
  <2>1. o.time \in Int /\ ~(o.time >= t - h)
    BY DEF Unexpired
  <2>2. k.time >= t - h /\ k.time \in Int
    BY <1>1, <1>2 DEF Unexpired
  <2> QED BY <1>1, <2>1, <2>2
<1>5. /\ min_rtt' \in Window /\ min_rtt'.find_min
      /\ T \in SUBSET Sample /\ now' \in Int /\ WindowInv(min_rtt', T, now')
  BY DEF WindowsInv, WindowsTypeOK, Windows
<1>6. /\ \A s \in T : ~Beats(min_rtt', s.val, min_rtt'.extreme)
      /\ \E s \in T : s.val = min_rtt'.extreme
  <2> HIDE DEF T
  <2>1. T # {}
    BY <1>2
  <2> QED BY <2>1, <1>5, ExtremeIsBest
<1>7. ASSUME NEW s \in T PROVE min_rtt'.extreme <= s.val
  <2>1. min_rtt'.extreme \in Int /\ s.val \in Int
    BY <1>5, WindowType DEF Sample
  <2>2. ~Beats(min_rtt', s.val, min_rtt'.extreme) /\ min_rtt'.find_min
    BY <1>5, <1>6
  <2> QED BY <2>1, <2>2 DEF Beats
<1>8. QED
  BY <1>2, <1>3, <1>4, <1>6, <1>7 DEF MinAbs!Next, MinAbs!NewSample, MinAbs!IsExtreme

(* The min_rtt deque of rtt-window.cc implements the sliding minimum. *)
THEOREM MinWindowImplements == WindowsSpec => MinWindowSpec
<1>1. WindowsInit => MinAbs!Init
  <2>1. NewWindow(TRUE).extreme = DblMax
    BY DEF NewWindow
  <2> QED BY <2>1 DEF WindowsInit, MinAbs!Init, Windows
<1>2. ASSUME WindowsInv, WindowsInv', [WindowsNext]_windowsVars
      PROVE  [MinAbs!Next]_(MinAbs!vars)
  <2>1. CASE NewRTTSample
    <3>1. PICK rtt \in SampleRTTs, t \in Times :
            t > now /\ \E s \in Smoothed(rtt) : new_rtt_sample(rtt, t, s)
      BY <2>1 DEF NewRTTSample
    <3>2. PICK s \in Smoothed(rtt) : new_rtt_sample(rtt, t, s)
      BY <3>1
    <3>3. s \in Nat /\ rtt \in Int /\ t \in Nat /\ now \in Nat
      BY <1>2, <3>1, ExtremeAssumption, RTTAssumption
         DEF Smoothed, Smaller, Larger, WindowsInv, WindowsTypeOK
    <3>4. MinHorizon \in Nat
      BY <1>2, <3>3, Horizons DEF WindowsInv
    <3>5. live'["min_rtt"]
            = Unexpired(live["min_rtt"] \cup {[time |-> t, val |-> rtt]}, t, MinHorizon)
      BY <3>2 DEF new_rtt_sample, Windows
    <3>6. \A o \in live["min_rtt"] : o.time \in Int /\ o.time <= t
      <4>1. \A o \in live["min_rtt"] : o \in Sample
        BY <1>2 DEF WindowsInv, WindowsTypeOK, Windows
      <4>2. \A o \in live["min_rtt"] : o.time <= now
        BY <1>2 DEF WindowsInv, WindowInv, Dominated
      <4> QED BY <4>1, <4>2, <3>1, <3>3 DEF Sample
    <3> QED BY <1>2, <3>3, <3>4, <3>5, <3>6, MinAbsStep
  <2>2. CASE Clear
    <3>1. min_rtt'.extreme = DblMax /\ live'["min_rtt"] = {}
      <4>1. min_rtt.find_min /\ min_rtt.find_min \in BOOLEAN
        BY <1>2, WindowType DEF WindowsInv, WindowsTypeOK
      <4> QED BY <2>2, <4>1 DEF Clear, clear, NewWindow, Windows
    <3> QED BY <3>1 DEF MinAbs!Next, MinAbs!Clear
  <2>3. CASE UNCHANGED windowsVars
    BY <2>3 DEF windowsVars, MinAbs!vars
  <2> QED BY <1>2, <2>1, <2>2, <2>3 DEF WindowsNext
<1>3. QED
  BY <1>1, <1>2, InductiveInvariant, PTL DEF WindowsSpec, MinWindowSpec, MinAbs!Spec

(* A sample step of the unjittered_rtt window is a NewSample step of its abstract   *)
(* specification.                                                          *)
LEMMA UnjAbsStep ==
  ASSUME WindowsInv', NEW t \in Nat, NEW rtt \in Int, NEW h \in Nat,
         \A o \in live["unjittered_rtt"] : o.time \in Int /\ o.time <= t,
         live'["unjittered_rtt"]
           = Unexpired(live["unjittered_rtt"] \cup {[time |-> t, val |-> rtt]}, t, h)
  PROVE  UnjAbs!Next
<1> DEFINE smp == [time |-> t, val |-> rtt]
           S == live["unjittered_rtt"]
           T == live'["unjittered_rtt"]
<1>1. smp.time = t /\ t >= t - h /\ t - h \in Int
  OBVIOUS
<1>2. smp \in T /\ T \subseteq S \cup {smp}
  BY <1>1 DEF Unexpired
<1>3. \A o \in S : o.time <= smp.time
  BY <1>1
<1>4. \A o \in S \ T, k \in T : o.time < k.time
  <2> SUFFICES ASSUME NEW o \in S, o \notin T, NEW k \in T PROVE o.time < k.time
    OBVIOUS
  <2>1. o.time \in Int /\ ~(o.time >= t - h)
    BY DEF Unexpired
  <2>2. k.time >= t - h /\ k.time \in Int
    BY <1>1, <1>2 DEF Unexpired
  <2> QED BY <1>1, <2>1, <2>2
<1>5. /\ unjittered_rtt' \in Window /\ unjittered_rtt'.find_min
      /\ T \in SUBSET Sample /\ now' \in Int /\ WindowInv(unjittered_rtt', T, now')
  BY DEF WindowsInv, WindowsTypeOK, Windows
<1>6. /\ \A s \in T : ~Beats(unjittered_rtt', s.val, unjittered_rtt'.extreme)
      /\ \E s \in T : s.val = unjittered_rtt'.extreme
  <2> HIDE DEF T
  <2>1. T # {}
    BY <1>2
  <2> QED BY <2>1, <1>5, ExtremeIsBest
<1>7. ASSUME NEW s \in T PROVE unjittered_rtt'.extreme <= s.val
  <2>1. unjittered_rtt'.extreme \in Int /\ s.val \in Int
    BY <1>5, WindowType DEF Sample
  <2>2. ~Beats(unjittered_rtt', s.val, unjittered_rtt'.extreme) /\ unjittered_rtt'.find_min
    BY <1>5, <1>6
  <2> QED BY <2>1, <2>2 DEF Beats
<1>8. QED
  BY <1>2, <1>3, <1>4, <1>6, <1>7 DEF UnjAbs!Next, UnjAbs!NewSample, UnjAbs!IsExtreme

(* So does unjittered_rtt, although its horizon grows and shrinks with srtt. *)
THEOREM UnjitteredWindowImplements == WindowsSpec => UnjitteredWindowSpec
<1>1. WindowsInit => UnjAbs!Init
  <2>1. NewWindow(TRUE).extreme = DblMax
    BY DEF NewWindow
  <2> QED BY <2>1 DEF WindowsInit, UnjAbs!Init, Windows
<1>2. ASSUME WindowsInv, WindowsInv', [WindowsNext]_windowsVars
      PROVE  [UnjAbs!Next]_(UnjAbs!vars)
  <2>1. CASE NewRTTSample
    <3>1. PICK rtt \in SampleRTTs, t \in Times :
            t > now /\ \E s \in Smoothed(rtt) : new_rtt_sample(rtt, t, s)
      BY <2>1 DEF NewRTTSample
    <3>2. PICK s \in Smoothed(rtt) : new_rtt_sample(rtt, t, s)
      BY <3>1
    <3>3. s \in Nat /\ rtt \in Int /\ t \in Nat /\ now \in Nat
      BY <1>2, <3>1, ExtremeAssumption, RTTAssumption
         DEF Smoothed, Smaller, Larger, WindowsInv, WindowsTypeOK
    <3>4. UnjHorizon(s) \in Nat
      BY <1>2, <3>3, Horizons DEF WindowsInv
    <3>5. live'["unjittered_rtt"]
            = Unexpired(live["unjittered_rtt"] \cup {[time |-> t, val |-> rtt]}, t, UnjHorizon(s))
      BY <3>2 DEF new_rtt_sample, Windows
    <3>6. \A o \in live["unjittered_rtt"] : o.time \in Int /\ o.time <= t
      <4>1. \A o \in live["unjittered_rtt"] : o \in Sample
        BY <1>2 DEF WindowsInv, WindowsTypeOK, Windows
      <4>2. \A o \in live["unjittered_rtt"] : o.time <= now
        BY <1>2 DEF WindowsInv, WindowInv, Dominated
      <4> QED BY <4>1, <4>2, <3>1, <3>3 DEF Sample
    <3> QED BY <1>2, <3>3, <3>4, <3>5, <3>6, UnjAbsStep
  <2>2. CASE Clear
    <3>1. unjittered_rtt'.extreme = DblMax /\ live'["unjittered_rtt"] = {}
      <4>1. unjittered_rtt.find_min /\ unjittered_rtt.find_min \in BOOLEAN
        BY <1>2, WindowType DEF WindowsInv, WindowsTypeOK
      <4> QED BY <2>2, <4>1 DEF Clear, clear, NewWindow, Windows
    <3> QED BY <3>1 DEF UnjAbs!Next, UnjAbs!Clear
  <2>3. CASE UNCHANGED windowsVars
    BY <2>3 DEF windowsVars, UnjAbs!vars
  <2> QED BY <1>2, <2>1, <2>2, <2>3 DEF WindowsNext
<1>3. QED
  BY <1>1, <1>2, InductiveInvariant, PTL DEF WindowsSpec, UnjitteredWindowSpec, UnjAbs!Spec

(* A sample step of the is_copa_max window is a NewSample step of its abstract   *)
(* specification.                                                          *)
LEMMA CopaMaxAbsStep ==
  ASSUME WindowsInv', NEW t \in Nat, NEW rtt \in Int, NEW h \in Nat,
         \A o \in live["is_copa_max"] : o.time \in Int /\ o.time <= t,
         live'["is_copa_max"]
           = Unexpired(live["is_copa_max"] \cup {[time |-> t, val |-> rtt]}, t, h)
  PROVE  CopaMaxAbs!Next
<1> DEFINE smp == [time |-> t, val |-> rtt]
           S == live["is_copa_max"]
           T == live'["is_copa_max"]
<1>1. smp.time = t /\ t >= t - h /\ t - h \in Int
  OBVIOUS
<1>2. smp \in T /\ T \subseteq S \cup {smp}
  BY <1>1 DEF Unexpired
<1>3. \A o \in S : o.time <= smp.time
  BY <1>1
<1>4. \A o \in S \ T, k \in T : o.time < k.time
  <2> SUFFICES ASSUME NEW o \in S, o \notin T, NEW k \in T PROVE o.time < k.time
    OBVIOUS
  <2>1. o.time \in Int /\ ~(o.time >= t - h)
    BY DEF Unexpired
  <2>2. k.time >= t - h /\ k.time \in Int
    BY <1>1, <1>2 DEF Unexpired
  <2> QED BY <1>1, <2>1, <2>2
<1>5. /\ is_copa_max' \in Window /\ ~is_copa_max'.find_min
      /\ T \in SUBSET Sample /\ now' \in Int /\ WindowInv(is_copa_max', T, now')
  BY DEF WindowsInv, WindowsTypeOK, Windows
<1>6. /\ \A s \in T : ~Beats(is_copa_max', s.val, is_copa_max'.extreme)
      /\ \E s \in T : s.val = is_copa_max'.extreme
  <2> HIDE DEF T
  <2>1. T # {}
    BY <1>2
  <2> QED BY <2>1, <1>5, ExtremeIsBest
<1>7. ASSUME NEW s \in T PROVE is_copa_max'.extreme >= s.val
  <2>1. is_copa_max'.extreme \in Int /\ s.val \in Int
    BY <1>5, WindowType DEF Sample
  <2>2. ~Beats(is_copa_max', s.val, is_copa_max'.extreme) /\ ~is_copa_max'.find_min
    BY <1>5, <1>6
  <2> QED BY <2>1, <2>2 DEF Beats
<1>8. QED
  BY <1>2, <1>3, <1>4, <1>6, <1>7 DEF CopaMaxAbs!Next, CopaMaxAbs!NewSample, CopaMaxAbs!IsExtreme

(* is_copa_max implements the sliding maximum. *)
THEOREM CopaMaxWindowImplements == WindowsSpec => CopaMaxWindowSpec
<1>1. WindowsInit => CopaMaxAbs!Init
  <2>1. NewWindow(FALSE).extreme = DblMin
    BY DEF NewWindow
  <2> QED BY <2>1 DEF WindowsInit, CopaMaxAbs!Init, Windows
<1>2. ASSUME WindowsInv, WindowsInv', [WindowsNext]_windowsVars
      PROVE  [CopaMaxAbs!Next]_(CopaMaxAbs!vars)
  <2>1. CASE NewRTTSample
    <3>1. PICK rtt \in SampleRTTs, t \in Times :
            t > now /\ \E s \in Smoothed(rtt) : new_rtt_sample(rtt, t, s)
      BY <2>1 DEF NewRTTSample
    <3>2. PICK s \in Smoothed(rtt) : new_rtt_sample(rtt, t, s)
      BY <3>1
    <3>3. s \in Nat /\ rtt \in Int /\ t \in Nat /\ now \in Nat
      BY <1>2, <3>1, ExtremeAssumption, RTTAssumption
         DEF Smoothed, Smaller, Larger, WindowsInv, WindowsTypeOK
    <3>4. CopaHorizon(s) \in Nat
      BY <1>2, <3>3, Horizons DEF WindowsInv
    <3>5. live'["is_copa_max"]
            = Unexpired(live["is_copa_max"] \cup {[time |-> t, val |-> rtt]}, t, CopaHorizon(s))
      BY <3>2 DEF new_rtt_sample, Windows
    <3>6. \A o \in live["is_copa_max"] : o.time \in Int /\ o.time <= t
      <4>1. \A o \in live["is_copa_max"] : o \in Sample
        BY <1>2 DEF WindowsInv, WindowsTypeOK, Windows
      <4>2. \A o \in live["is_copa_max"] : o.time <= now
        BY <1>2 DEF WindowsInv, WindowInv, Dominated
      <4> QED BY <4>1, <4>2, <3>1, <3>3 DEF Sample
    <3> QED BY <1>2, <3>3, <3>4, <3>5, <3>6, CopaMaxAbsStep
  <2>2. CASE Clear
    <3>1. is_copa_max'.extreme = DblMin /\ live'["is_copa_max"] = {}
      <4>1. ~is_copa_max.find_min /\ is_copa_max.find_min \in BOOLEAN
        BY <1>2, WindowType DEF WindowsInv, WindowsTypeOK
      <4> QED BY <2>2, <4>1 DEF Clear, clear, NewWindow, Windows
    <3> QED BY <3>1 DEF CopaMaxAbs!Next, CopaMaxAbs!Clear
  <2>3. CASE UNCHANGED windowsVars
    BY <2>3 DEF windowsVars, CopaMaxAbs!vars
  <2> QED BY <1>2, <2>1, <2>2, <2>3 DEF WindowsNext
<1>3. QED
  BY <1>1, <1>2, InductiveInvariant, PTL DEF WindowsSpec, CopaMaxWindowSpec, CopaMaxAbs!Spec

=============================================================================
