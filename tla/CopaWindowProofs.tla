-------------------------- MODULE CopaWindowProofs --------------------------
(***************************************************************************)
(* Type correctness of CopaWindow, the bound on delta, the agreement of    *)
(* pacing and window, what raises the velocity, and that the controller    *)
(* moves its window only where the modules of CTCP let it, for all values  *)
(* of the constants.  One lemma for each method onACK calls says what it   *)
(* keeps.                                                                  *)
(***************************************************************************)
EXTENDS CopaWindow, TLAPS

(* A controller between two of those calls: the window is not yet bounded. *)
Between ==
  [clock : 0 .. MaxRTT, the_window : Int, slow_start : BOOLEAN,
   cur_intersend_time : Int, intersend_time : Int,
   inv_delta : Nat \ {0}, delta_updated : BOOLEAN,
   since_delta : 0 .. AgeCap, since_loss : 0 .. AgeCap,
   update_amt : Nat \ {0}, update_dir : Int, prev_update_dir : {-1, 1},
   since_update : 0 .. AgeCap,
   num_lost : Nat, num_pkts : Nat, since_win : 0 .. WinCap,
   num_pkts_acked : 0 .. AckCap, num_pkts_lost : 0 .. LostCap]

Paced(c) == c.intersend_time = c.the_window /\ c.cur_intersend_time = c.the_window

(* What an update of delta relies on: once set, it is at most the default. *)
DeltaKept(c) ==
  /\ c.delta_updated => c.inv_delta >= InvDefault
  /\ c.num_pkts_acked > 0 => c.inv_delta >= InvDefault

IInv ==
  /\ TypeOK
  /\ DeltaKept(cc)
  /\ PacingFollowsWindow

(* The windows of c are those of a controller between two acknowledgements. *)
Bounded(c) ==
  /\ c.the_window \in 2 .. MaxWindow
  /\ c.cur_intersend_time \in 0 .. MaxWindow
  /\ c.intersend_time \in 0 .. MaxWindow

SameWindow(c, d) ==
  /\ d.the_window = c.the_window
  /\ d.intersend_time = c.intersend_time
  /\ d.cur_intersend_time = c.cur_intersend_time
  /\ d.num_pkts_acked = c.num_pkts_acked
  /\ d.num_pkts_lost = c.num_pkts_lost

SameDelta(c, d) ==
  /\ d.inv_delta = c.inv_delta
  /\ d.delta_updated = c.delta_updated
  /\ d.num_pkts_acked = c.num_pkts_acked
  /\ d.num_pkts_lost = c.num_pkts_lost

(* A field of a controller can be replaced by a value of its type. *)
LEMMA SetField ==
  ASSUME NEW c \in Between
  PROVE  /\ \A v \in 0 .. MaxRTT : [c EXCEPT !.clock = v] \in Between
         /\ \A v \in Int : [c EXCEPT !.the_window = v] \in Between
         /\ \A v \in BOOLEAN : [c EXCEPT !.slow_start = v] \in Between
         /\ \A v \in Int : [c EXCEPT !.cur_intersend_time = v] \in Between
         /\ \A v \in Int : [c EXCEPT !.intersend_time = v] \in Between
         /\ \A v \in Nat \ {0} : [c EXCEPT !.inv_delta = v] \in Between
         /\ \A v \in BOOLEAN : [c EXCEPT !.delta_updated = v] \in Between
         /\ \A v \in 0 .. AgeCap : [c EXCEPT !.since_delta = v] \in Between
         /\ \A v \in 0 .. AgeCap : [c EXCEPT !.since_loss = v] \in Between
         /\ \A v \in Nat \ {0} : [c EXCEPT !.update_amt = v] \in Between
         /\ \A v \in Int : [c EXCEPT !.update_dir = v] \in Between
         /\ \A v \in {-1, 1} : [c EXCEPT !.prev_update_dir = v] \in Between
         /\ \A v \in 0 .. AgeCap : [c EXCEPT !.since_update = v] \in Between
         /\ \A v \in Nat : [c EXCEPT !.num_lost = v] \in Between
         /\ \A v \in Nat : [c EXCEPT !.num_pkts = v] \in Between
         /\ \A v \in 0 .. WinCap : [c EXCEPT !.since_win = v] \in Between
         /\ \A v \in 0 .. AckCap : [c EXCEPT !.num_pkts_acked = v] \in Between
         /\ \A v \in 0 .. LostCap : [c EXCEPT !.num_pkts_lost = v] \in Between
<1>1. \A v \in 0 .. MaxRTT : [c EXCEPT !.clock = v] \in Between
  BY DEF Between
<1>2. \A v \in Int : [c EXCEPT !.the_window = v] \in Between
  BY DEF Between
<1>3. \A v \in BOOLEAN : [c EXCEPT !.slow_start = v] \in Between
  BY DEF Between
<1>4. \A v \in Int : [c EXCEPT !.cur_intersend_time = v] \in Between
  BY DEF Between
<1>5. \A v \in Int : [c EXCEPT !.intersend_time = v] \in Between
  BY DEF Between
<1>6. \A v \in Nat \ {0} : [c EXCEPT !.inv_delta = v] \in Between
  BY DEF Between
<1>7. \A v \in BOOLEAN : [c EXCEPT !.delta_updated = v] \in Between
  BY DEF Between
<1>8. \A v \in 0 .. AgeCap : [c EXCEPT !.since_delta = v] \in Between
  BY DEF Between
<1>9. \A v \in 0 .. AgeCap : [c EXCEPT !.since_loss = v] \in Between
  BY DEF Between
<1>10. \A v \in Nat \ {0} : [c EXCEPT !.update_amt = v] \in Between
  BY DEF Between
<1>11. \A v \in Int : [c EXCEPT !.update_dir = v] \in Between
  BY DEF Between
<1>12. \A v \in {-1, 1} : [c EXCEPT !.prev_update_dir = v] \in Between
  BY DEF Between
<1>13. \A v \in 0 .. AgeCap : [c EXCEPT !.since_update = v] \in Between
  BY DEF Between
<1>14. \A v \in Nat : [c EXCEPT !.num_lost = v] \in Between
  BY DEF Between
<1>15. \A v \in Nat : [c EXCEPT !.num_pkts = v] \in Between
  BY DEF Between
<1>16. \A v \in 0 .. WinCap : [c EXCEPT !.since_win = v] \in Between
  BY DEF Between
<1>17. \A v \in 0 .. AckCap : [c EXCEPT !.num_pkts_acked = v] \in Between
  BY DEF Between
<1>18. \A v \in 0 .. LostCap : [c EXCEPT !.num_pkts_lost = v] \in Between
  BY DEF Between
<1> QED
  BY <1>1, <1>2, <1>3, <1>4, <1>5, <1>6, <1>7, <1>8, <1>9,
     <1>10, <1>11, <1>12, <1>13, <1>14, <1>15, <1>16, <1>17, <1>18

(* The two ways to round a quotient give natural numbers. *)
LEMMA RoundedNat ==
  ASSUME NEW a \in Nat, NEW b \in Nat \ {0}
  PROVE  Rounded(a, b) \subseteq Nat
  BY SMT DEF Rounded

(* update_delta leaves delta at most the default and the rest alone. *)
LEMMA UpdateDelta ==
  ASSUME CopaAssumption, NEW c \in Between, DeltaKept(c),
         NEW pkt_lost \in BOOLEAN, NEW rtt \in Nat, NEW is_copa \in BOOLEAN,
         NEW d \in update_delta(c, pkt_lost, rtt, is_copa)
  PROVE  /\ d \in Between
         /\ d.inv_delta >= InvDefault
         /\ SameWindow(c, d)
<1>0. 0 \in 0 .. AgeCap /\ InvDefault \in Nat \ {0}
  BY DEF CopaAssumption, AgeCap
<1>1. CASE d = DefaultDelta(c, rtt)
  <2>1. CASE ~c.delta_updated \/ c.since_loss > rtt
    <3>1. d = [c EXCEPT !.inv_delta = InvDefault,
                        !.delta_updated = TRUE, !.since_delta = 0]
      BY <1>1, <2>1 DEF DefaultDelta
    <3> DEFINE d1 == [c EXCEPT !.inv_delta = InvDefault]
               d2 == [d1 EXCEPT !.delta_updated = TRUE]
    <3>2. d1 \in Between
      BY <1>0, SetField
    <3>3. d2 \in Between
      BY <3>2, <1>0, SetField
    <3>4. d = [d2 EXCEPT !.since_delta = 0]
      BY <3>1
    <3> HIDE DEF d1, d2
    <3>5. d \in Between
      BY <3>3, <3>4, <1>0, SetField
    <3> QED
      BY <1>0, <3>1, <3>5 DEF Between, SameWindow
  <2>2. CASE ~(~c.delta_updated \/ c.since_loss > rtt)
    BY <1>1, <2>2 DEF DefaultDelta, DeltaKept, SameWindow
  <2> QED
    BY <2>1, <2>2
<1>2. CASE d \in LossSensitiveDelta(c, pkt_lost, rtt)
  <2> DEFINE inv == IF c.delta_updated THEN c.inv_delta ELSE InvDefault
  <2>1. inv \in Nat \ {0}
    BY <1>0 DEF Between
  <2>2. CASE pkt_lost /\ c.since_loss > rtt
    <3>1. PICK k \in Rounded(inv, 2) :
            d = [c EXCEPT !.inv_delta = Max2(k, InvDefault), !.since_loss = 0]
      BY <1>2, <2>2 DEF LossSensitiveDelta
    <3>2. k \in Nat
      BY <2>1, <3>1, RoundedNat
    <3>3. Max2(k, InvDefault) \in Nat \ {0} /\ Max2(k, InvDefault) >= InvDefault
      BY <1>0, <3>2 DEF Max2
    <3> QED
      BY <1>0, <3>1, <3>3 DEF Between, SameWindow
  <2>3. CASE ~(pkt_lost /\ c.since_loss > rtt) /\ c.since_delta > rtt
    <3>1. d = [c EXCEPT !.inv_delta = Max2(inv + 1, InvDefault),
                        !.delta_updated = TRUE, !.since_delta = 0]
      BY <1>2, <2>3 DEF LossSensitiveDelta
    <3>2. Max2(inv + 1, InvDefault) \in Nat \ {0} /\ Max2(inv + 1, InvDefault) >= InvDefault
      BY <1>0, <2>1 DEF Max2
    <3> QED
      BY <1>0, <3>1, <3>2 DEF Between, SameWindow
  <2>4. CASE ~(pkt_lost /\ c.since_loss > rtt) /\ ~(c.since_delta > rtt)
    <3>1. d = [c EXCEPT !.inv_delta = Max2(inv, InvDefault)]
      BY <1>2, <2>4 DEF LossSensitiveDelta
    <3>2. Max2(inv, InvDefault) \in Nat \ {0} /\ Max2(inv, InvDefault) >= InvDefault
      BY <1>0, <2>1 DEF Max2
    <3> QED
      BY <1>0, <3>1, <3>2 DEF Between, SameWindow
  <2> QED
    BY <2>2, <2>3, <2>4
<1> QED
  BY <1>1, <1>2 DEF update_delta

(* update_intersend_time leaves delta alone; unless it is still probing,   *)
(* it sets window and pacing together.                                     *)
LEMMA UpdateIntersend ==
  ASSUME CopaAssumption, NEW c \in Between, c.the_window \in 2 .. MaxWindow,
         NEW rtt \in RTTs, NEW unj \in RTTs, NEW min \in RTTs,
         NEW d \in update_intersend_time(c, rtt, unj, min)
  PROVE  /\ d \in Between
         /\ SameDelta(c, d)
         /\ d.the_window >= 2
         /\ IF Probing(c) THEN SameWindow(c, d) ELSE Paced(d)
<1>0. 0 \in 0 .. AgeCap
  BY DEF CopaAssumption, AgeCap
<1>1. CASE Probing(c)
  BY <1>1 DEF update_intersend_time, SameDelta, SameWindow
<1>2. CASE ~Probing(c)
  <2> DEFINE Limited == LimitVelocity(IF RTTOver(c, rtt) THEN NewRTT(c) ELSE c)
  <2>1. PICK e \in IF c.slow_start THEN {SlowStart(c, unj, min)}
                                   ELSE Step(Limited, unj, min) :
          d = [e EXCEPT !.the_window         = Max2(2, @),
                        !.cur_intersend_time = Max2(2, e.the_window),
                        !.intersend_time     = Max2(2, e.the_window)]
    BY <1>2 DEF update_intersend_time
  <2>2. e \in Between /\ SameDelta(c, e)
    <3>1. CASE c.slow_start
      <4>0. c.the_window + 1 \in Int
        BY DEF Between
      <4>1. PICK b \in BOOLEAN : e = [c EXCEPT !.the_window = @ + 1, !.slow_start = b]
        BY <2>1, <3>1 DEF SlowStart, BelowTarget, Between
      <4> DEFINE d1 == [c EXCEPT !.the_window = c.the_window + 1]
      <4>2. d1 \in Between
        BY <4>0, SetField
      <4>3. e = [d1 EXCEPT !.slow_start = b]
        BY <4>1
      <4> HIDE DEF d1
      <4>4. e \in Between
        BY <4>2, <4>3, <4>0, SetField
      <4> QED
        BY <4>1, <4>4 DEF Between, SameDelta
    <3>2. CASE ~c.slow_start
      <4> DEFINE n == IF RTTOver(c, rtt) THEN NewRTT(c) ELSE c
      <4>1. n \in Between /\ SameDelta(c, n) /\ n.the_window = c.the_window
        <5>1. CASE ~RTTOver(c, rtt)
          BY <5>1 DEF SameDelta
        <5>2. CASE RTTOver(c, rtt)
          <6>1. PICK amt \in Nat \ {0}, dir \in {-1, 1} :
                  n = [c EXCEPT !.update_amt = amt, !.prev_update_dir = dir,
                                !.since_update = 0, !.update_dir = 0]
            <7> DEFINE agreed == c.prev_update_dir * c.update_dir > 0
                       amt    == IF agreed THEN c.update_amt * 2 ELSE 1
                       dir    == IF agreed THEN c.prev_update_dir ELSE -c.prev_update_dir
            <7>1. amt \in Nat \ {0} /\ dir \in {-1, 1}
              BY DEF Between
            <7>2. n = [c EXCEPT !.update_amt = amt, !.prev_update_dir = dir,
                                !.since_update = 0, !.update_dir = 0]
              BY <5>2 DEF NewRTT
            <7> HIDE DEF n, amt, dir
            <7> QED
              BY <7>1, <7>2
          <6> DEFINE d1 == [c EXCEPT !.update_amt = amt]
                     d2 == [d1 EXCEPT !.prev_update_dir = dir]
                     d3 == [d2 EXCEPT !.since_update = 0]
          <6>2. d1 \in Between
            BY SetField
          <6>3. d2 \in Between
            BY <6>2, SetField
          <6>4. d3 \in Between
            BY <6>3, <1>0, SetField
          <6>5. n = [d3 EXCEPT !.update_dir = 0]
            BY <6>1
          <6> HIDE DEF d1, d2, d3, n
          <6>6. \A v \in Int : [d3 EXCEPT !.update_dir = v] \in Between
            BY <6>4, SetField
          <6>7. n \in Between
            BY <6>5, <6>6
          <6> QED
            BY <6>1, <6>7 DEF Between, SameDelta
        <5> QED
          BY <5>1, <5>2
      <4>2. Limited \in Between /\ SameDelta(n, Limited)
            /\ Limited.the_window = n.the_window
        BY <4>1 DEF LimitVelocity, Max2, Between, SameDelta
      <4> HIDE DEF Limited, n
      <4>3. PICK step \in Rounded(Limited.update_amt * Limited.inv_delta, Limited.the_window),
                 b \in BOOLEAN :
              e = [Limited EXCEPT !.update_dir = @ + (IF b THEN 1 ELSE -1),
                                  !.the_window = @ + (IF b THEN step ELSE -step)]
        BY <2>1, <3>2 DEF Step, BelowTarget
      <4>4. step \in Nat
        <5>1. Limited.update_amt * Limited.inv_delta \in Nat
              /\ Limited.the_window \in Nat \ {0}
          BY <4>1, <4>2 DEF Between
        <5> QED
          BY <4>3, <5>1, RoundedNat
      <4> DEFINE dir == Limited.update_dir + (IF b THEN 1 ELSE -1)
                 w   == Limited.the_window + (IF b THEN step ELSE -step)
                 d1  == [Limited EXCEPT !.update_dir = dir]
      <4>5. dir \in Int /\ w \in Int
        BY <4>2, <4>4 DEF Between
      <4>6. d1 \in Between
        BY <4>2, <4>5, SetField
      <4>7. e = [d1 EXCEPT !.the_window = w]
        BY <4>3
      <4>8. SameDelta(Limited, e)
        BY <4>2, <4>3 DEF Between, SameDelta
      <4> HIDE DEF d1, dir, w
      <4>9. e \in Between
        BY <4>5, <4>6, <4>7, SetField
      <4> QED
        BY <4>1, <4>2, <4>8, <4>9 DEF SameDelta
    <3> QED
      BY <3>1, <3>2
  <2>3. Max2(2, e.the_window) \in Int /\ Max2(2, e.the_window) >= 2
    BY <2>2 DEF Between, Max2
  <2> QED
    BY <1>2, <2>1, <2>2, <2>3 DEF Between, SameDelta, Paced
<1> QED
  BY <1>1, <1>2

(* ReduceOnLoss keeps its own counters and answers yes or no. *)
LEMMA ReduceOnLoss ==
  ASSUME CopaAssumption, NEW c \in Between, NEW lost \in Nat, NEW rtt \in RTTs
  PROVE  /\ reduce_on_loss(c, lost, rtt).cc \in Between
         /\ reduce_on_loss(c, lost, rtt).reduce \in BOOLEAN
         /\ SameWindow(c, reduce_on_loss(c, lost, rtt).cc)
         /\ SameDelta(c, reduce_on_loss(c, lost, rtt).cc)
<1> DEFINE n == EnoughAt(c)
           lostByThen == IF n < lost THEN n ELSE lost
<1>0. 0 \in 0 .. WinCap
  BY DEF CopaAssumption, WinCap
<1>1. n \in Nat \ {0} /\ lostByThen \in 0 .. lost
  BY DEF CopaAssumption, EnoughAt, Max2, Between
<1>2. CASE c.since_win > 2 * rtt /\ n <= lost + 1
  <2> DEFINE d == [c EXCEPT !.num_lost = lost - lostByThen,
                            !.num_pkts = lost + 1 - n, !.since_win = 0]
  <2>1. /\ reduce_on_loss(c, lost, rtt).cc = d
        /\ reduce_on_loss(c, lost, rtt).reduce \in BOOLEAN
    BY <1>2 DEF reduce_on_loss
  <2>2. lost - lostByThen \in Nat /\ lost + 1 - n \in Nat
    BY <1>1, <1>2
  <2> HIDE DEF n, lostByThen
  <2> QED
    BY <1>0, <2>1, <2>2 DEF Between, SameWindow, SameDelta
<1>3. CASE ~(c.since_win > 2 * rtt /\ n <= lost + 1)
  <2>1. /\ reduce_on_loss(c, lost, rtt).cc =
             [c EXCEPT !.num_lost = @ + lost, !.num_pkts = @ + lost + 1]
        /\ reduce_on_loss(c, lost, rtt).reduce = FALSE
    BY <1>3 DEF reduce_on_loss
  <2> DEFINE d  == reduce_on_loss(c, lost, rtt).cc
             d1 == [c EXCEPT !.num_lost = c.num_lost + lost]
  <2>2. c.num_lost + lost \in Nat /\ c.num_pkts + lost + 1 \in Nat
    BY DEF Between
  <2>3. d1 \in Between
    BY <2>2, SetField
  <2>4. d = [d1 EXCEPT !.num_pkts = c.num_pkts + lost + 1]
    BY <2>1
  <2>5. SameWindow(c, d) /\ SameDelta(c, d)
    BY <2>1 DEF Between, SameWindow, SameDelta
  <2> HIDE DEF d, d1
  <2>6. d \in Between
    BY <2>2, <2>3, <2>4, SetField
  <2> QED
    BY <2>1, <2>5, <2>6 DEF d
<1> QED
  BY <1>2, <1>3

(* A reduction sets window and pacing together, and never widens it. *)
LEMMA Reduction ==
  ASSUME CopaAssumption, NEW c \in Between, c.the_window \in 2 .. MaxWindow,
         NEW d \in Reduce(c)
  PROVE  /\ d \in Between
         /\ SameDelta(c, d)
         /\ d.the_window \in 2 .. MaxWindow
         /\ Paced(d)
<1>1. PICK w \in Rounded(7 * c.the_window, 10) :
        d = [c EXCEPT !.the_window         = Max2(2, w),
                      !.cur_intersend_time = Max2(2, w),
                      !.intersend_time     = Max2(2, w)]
  BY DEF Reduce
<1>2. w \in Int /\ w <= c.the_window
  BY DEF Rounded, Between
<1>3. Max2(2, w) \in 2 .. MaxWindow
  BY <1>2 DEF Max2, CopaAssumption
<1> DEFINE v  == Max2(2, w)
           d1 == [c EXCEPT !.the_window = v]
           d2 == [d1 EXCEPT !.cur_intersend_time = v]
<1>4. v \in Int
  BY <1>3
<1> HIDE DEF v
<1>5. d1 \in Between
  BY <1>4, SetField
<1>6. d2 \in Between
  BY <1>4, <1>5, SetField
<1>7. d = [d2 EXCEPT !.intersend_time = v]
  BY <1>1 DEF v
<1>8. SameDelta(c, d) /\ Paced(d) /\ d.the_window = v
  BY <1>1 DEF Between, SameDelta, Paced, v
<1> HIDE DEF d1, d2
<1>9. d \in Between
  BY <1>4, <1>6, <1>7, SetField
<1> QED
  BY <1>3, <1>8, <1>9 DEF v

(* Between two acknowledgements a controller is one whose windows are      *)
(* bounded.                                                                *)
LEMMA ControllerBounded ==
  ASSUME CopaAssumption, NEW c
  PROVE  c \in Controller <=> c \in Between /\ Bounded(c)
<1>1. ASSUME c \in Controller PROVE c \in Between /\ Bounded(c)
  BY <1>1 DEF Controller, Between, Bounded
<1>2. ASSUME c \in Between, Bounded(c) PROVE c \in Controller
  BY <1>2 DEF Controller, Between, Bounded
<1> QED
  BY <1>1, <1>2

(* The record init builds is a controller that owes nothing. *)
LEMMA InitController ==
  ASSUME CopaAssumption, NEW c, c.inv_delta \in Nat \ {0},
         NEW clock \in 0 .. WinCap, NEW external \in BOOLEAN
  PROVE  /\ init(c, clock, external) \in Controller
         /\ DeltaKept(init(c, clock, external))
         /\ init(c, clock, external).num_pkts_acked = 0
<1>1. /\ Saturate(clock, MaxRTT) \in 0 .. MaxRTT
      /\ Saturate(clock, AgeCap) \in 0 .. AgeCap
      /\ 0 \in 0 .. AckCap /\ 0 \in 0 .. LostCap
  BY DEF CopaAssumption, Saturate, AgeCap, WinCap, AckCap, LostCap, Max2
<1>2. NumProbe \in 2 .. MaxWindow /\ NumProbe \in 0 .. MaxWindow /\ 0 \in 0 .. MaxWindow
  BY DEF CopaAssumption
<1> DEFINE inv  == IF UtilityMode = "constant" THEN c.inv_delta ELSE 1
           pace == IF external THEN NumProbe ELSE 0
<1>3. inv \in Nat \ {0} /\ pace \in 0 .. MaxWindow
  BY <1>2
<1>4. init(c, clock, external) \in Controller
  BY <1>1, <1>2, <1>3 DEF init, Controller
<1> QED
  BY <1>4 DEF init, DeltaKept

LEMMA InitIInv == CopaAssumption /\ Init => IInv
<1> SUFFICES ASSUME CopaAssumption, Init PROVE IInv
  OBVIOUS
<1>1. PICK external \in BOOLEAN : cc = init(Configured, 0, external)
  BY DEF Init
<1>2. Configured.inv_delta \in Nat \ {0} /\ 0 \in 0 .. WinCap
  BY DEF Configured, CopaAssumption, WinCap
<1>3. cc \in Controller /\ DeltaKept(cc) /\ cc.num_pkts_acked = 0
  BY <1>1, <1>2, InitController
<1>4. ~(0 >= 2 * NumProbe)
  BY DEF CopaAssumption
<1> QED
  BY <1>3, <1>4 DEF Init, IInv, TypeOK, PacingFollowsWindow

(* The calls of onACK one after the other. *)
LEMMA ACKIInv ==
  ASSUME CopaAssumption, IInv,
         NEW rtt \in RTTs, NEW unj \in RTTs, NEW min \in RTTs,
         NEW is_copa \in BOOLEAN, NEW lost \in Losses,
         onACK(rtt, unj, min, is_copa, lost)
  PROVE  cc' \in Controller /\ DeltaKept(cc)' /\ PacingFollowsWindow'
<1>0. /\ rtt \in Nat /\ 0 \in Nat /\ lost \in Nat /\ NumProbe \in Nat
      /\ MaxWindow \in Nat /\ AckCap \in Nat /\ LostCap \in Nat
      /\ InvDefault \in Nat
  BY DEF CopaAssumption, RTTs, AckCap, LostCap, Max2
<1>1. PICK c1 \in update_delta(cc, FALSE, rtt, is_copa) :
      \E c2 \in update_intersend_time(c1, rtt, unj, min) :
      \E c3 \in IF lost > 0 THEN update_delta(c2, TRUE, 0, is_copa) ELSE {c2} :
      \E r \in {reduce_on_loss(c3, lost, rtt)} :
      \E c4 \in IF r.reduce THEN Reduce(r.cc) ELSE {r.cc} :
        /\ c2.the_window <= MaxWindow
        /\ cc' = [c4 EXCEPT !.num_pkts_acked = Saturate(@ + 1, AckCap),
                            !.num_pkts_lost  = Saturate(@ + lost, LostCap)]
  BY DEF onACK
<1>2. PICK c2 \in update_intersend_time(c1, rtt, unj, min) :
      \E c3 \in IF lost > 0 THEN update_delta(c2, TRUE, 0, is_copa) ELSE {c2} :
      \E r \in {reduce_on_loss(c3, lost, rtt)} :
      \E c4 \in IF r.reduce THEN Reduce(r.cc) ELSE {r.cc} :
        /\ c2.the_window <= MaxWindow
        /\ cc' = [c4 EXCEPT !.num_pkts_acked = Saturate(@ + 1, AckCap),
                            !.num_pkts_lost  = Saturate(@ + lost, LostCap)]
  BY <1>1
<1>3. PICK c3 \in IF lost > 0 THEN update_delta(c2, TRUE, 0, is_copa) ELSE {c2} :
      \E r \in {reduce_on_loss(c3, lost, rtt)} :
      \E c4 \in IF r.reduce THEN Reduce(r.cc) ELSE {r.cc} :
        /\ c2.the_window <= MaxWindow
        /\ cc' = [c4 EXCEPT !.num_pkts_acked = Saturate(@ + 1, AckCap),
                            !.num_pkts_lost  = Saturate(@ + lost, LostCap)]
  BY <1>2
<1> DEFINE r == reduce_on_loss(c3, lost, rtt)
<1>4. PICK c4 \in IF r.reduce THEN Reduce(r.cc) ELSE {r.cc} :
        /\ c2.the_window <= MaxWindow
        /\ cc' = [c4 EXCEPT !.num_pkts_acked = Saturate(@ + 1, AckCap),
                            !.num_pkts_lost  = Saturate(@ + lost, LostCap)]
  BY <1>3
<1>5. cc \in Between /\ Bounded(cc) /\ DeltaKept(cc)
  BY ControllerBounded DEF IInv, TypeOK
<1>6. c1 \in Between /\ c1.inv_delta >= InvDefault /\ SameWindow(cc, c1)
  BY <1>0, <1>5, UpdateDelta
<1>7. Bounded(c1)
  BY <1>5, <1>6 DEF Bounded, SameWindow
<1>8. /\ c2 \in Between /\ SameDelta(c1, c2) /\ c2.the_window >= 2
      /\ IF Probing(c1) THEN SameWindow(c1, c2) ELSE Paced(c2)
  BY <1>6, <1>7, UpdateIntersend DEF Bounded
<1>9. c2.the_window \in Int
  BY <1>8 DEF Between
<1>10. Bounded(c2) /\ DeltaKept(c2) /\ c2.inv_delta >= InvDefault
  BY <1>0, <1>4, <1>6, <1>7, <1>8, <1>9
     DEF Bounded, DeltaKept, SameDelta, SameWindow, Paced
<1>11. c3 \in Between /\ c3.inv_delta >= InvDefault /\ SameWindow(c2, c3)
  <2>1. CASE lost > 0
    BY <1>0, <1>3, <1>8, <1>10, <2>1, UpdateDelta
  <2>2. CASE ~(lost > 0)
    BY <1>3, <1>8, <1>10, <2>2 DEF SameWindow
  <2> QED
    BY <2>1, <2>2
<1>12. /\ r.cc \in Between /\ r.reduce \in BOOLEAN
       /\ SameWindow(c3, r.cc) /\ SameDelta(c3, r.cc)
  BY <1>0, <1>11, ReduceOnLoss
<1> HIDE DEF r
<1>13. Bounded(r.cc)
  BY <1>10, <1>11, <1>12 DEF Bounded, SameWindow
<1>14. /\ c4 \in Between /\ Bounded(c4) /\ SameDelta(r.cc, c4)
       /\ Paced(r.cc) => Paced(c4)
  <2>1. CASE r.reduce
    <3>1. /\ c4 \in Between /\ SameDelta(r.cc, c4)
          /\ c4.the_window \in 2 .. MaxWindow /\ Paced(c4)
      BY <1>4, <1>12, <1>13, <2>1, Reduction DEF Bounded
    <3> QED
      BY <3>1, <1>0 DEF Bounded, Paced
  <2>2. CASE ~r.reduce
    BY <1>4, <1>12, <1>13, <2>2 DEF SameDelta
  <2> QED
    BY <2>1, <2>2
<1> DEFINE acked == Saturate(c4.num_pkts_acked + 1, AckCap)
           shown == Saturate(c4.num_pkts_lost + lost, LostCap)
           d     == [c4 EXCEPT !.num_pkts_acked = acked]
<1>15. c4.num_pkts_acked \in 0 .. AckCap /\ c4.num_pkts_lost \in 0 .. LostCap
  BY <1>14 DEF Between
<1>16. /\ acked \in 0 .. AckCap /\ shown \in 0 .. LostCap
       /\ acked <= c4.num_pkts_acked + 1
  BY <1>0, <1>15 DEF Saturate
<1>17. cc' = [d EXCEPT !.num_pkts_lost = shown]
  BY <1>4
<1>18. /\ SameWindow(c4, [cc' EXCEPT !.num_pkts_acked = c4.num_pkts_acked,
                                     !.num_pkts_lost = c4.num_pkts_lost])
       /\ cc'.the_window = c4.the_window
       /\ cc'.cur_intersend_time = c4.cur_intersend_time
       /\ cc'.intersend_time = c4.intersend_time
       /\ cc'.inv_delta = c4.inv_delta
       /\ cc'.num_pkts_acked = acked
  BY <1>4, <1>14 DEF Between, SameWindow
<1>19. c4.num_pkts_acked = c1.num_pkts_acked /\ c4.inv_delta >= InvDefault
  BY <1>8, <1>11, <1>12, <1>14 DEF SameDelta, SameWindow
<1> HIDE DEF acked, shown
<1>20. d \in Between
  BY <1>14, <1>16, SetField
<1> HIDE DEF d
<1>21. cc' \in Between
  BY <1>16, <1>17, <1>20, SetField
<1>22. cc' \in Controller
  BY <1>14, <1>18, <1>21, ControllerBounded DEF Bounded
<1>23. DeltaKept(cc)'
  BY <1>18, <1>19 DEF DeltaKept
<1>24. PacingFollowsWindow'
  <2>1. ASSUME cc'.num_pkts_acked >= 2 * NumProbe PROVE Paced(c4)
    <3>1. c1.num_pkts_acked \in Int
      BY <1>6 DEF Between
    <3>2. ~Probing(c1)
      BY <1>0, <1>16, <1>18, <1>19, <2>1, <3>1 DEF Probing
    <3> QED
      BY <3>2, <1>8, <1>11, <1>12, <1>14 DEF Paced, SameWindow
  <2> QED
    BY <2>1, <1>18 DEF PacingFollowsWindow, Paced
<1> QED
  BY <1>22, <1>23, <1>24

(* init again restores what the induction needs, whatever delta was. *)
LEMMA RestartIInv ==
  ASSUME CopaAssumption, IInv, Restart
  PROVE  IInv'
<1>1. PICK clock \in {0, WinCap}, external \in BOOLEAN : cc' = init(cc, clock, external)
  BY DEF Restart
<1>2. clock \in 0 .. WinCap /\ ~(0 >= 2 * NumProbe)
  BY DEF CopaAssumption, WinCap
<1>3. cc.inv_delta \in Nat \ {0}
  BY DEF IInv, TypeOK, Controller
<1>4. cc' \in Controller /\ DeltaKept(cc') /\ cc'.num_pkts_acked = 0
  BY <1>1, <1>2, <1>3, InitController
<1> QED
  BY <1>2, <1>4 DEF IInv, TypeOK, DeltaKept, PacingFollowsWindow, Restart

(* Time only adds to ages. *)
LEMMA TickIInv ==
  ASSUME CopaAssumption, IInv, Tick
  PROVE  IInv'
<1> DEFINE a == Saturate(cc.clock + 1, MaxRTT)
           b == Saturate(cc.since_delta + 1, AgeCap)
           e == Saturate(cc.since_loss + 1, AgeCap)
           f == Saturate(cc.since_update + 1, AgeCap)
           g == Saturate(cc.since_win + 1, WinCap)
           d1 == [cc EXCEPT !.clock = a]
           d2 == [d1 EXCEPT !.since_delta = b]
           d3 == [d2 EXCEPT !.since_loss = e]
           d4 == [d3 EXCEPT !.since_update = f]
<1>1. cc \in Between /\ Bounded(cc)
  BY ControllerBounded DEF IInv, TypeOK
<1>2. /\ a \in 0 .. MaxRTT /\ b \in 0 .. AgeCap /\ e \in 0 .. AgeCap
      /\ f \in 0 .. AgeCap /\ g \in 0 .. WinCap
  BY <1>1 DEF CopaAssumption, Between, Saturate, AgeCap, WinCap
<1>3. /\ SameWindow(cc, cc') /\ SameDelta(cc, cc')
  BY <1>1 DEF Tick, Between, SameWindow, SameDelta
<1>4. cc' = [d4 EXCEPT !.since_win = g]
  BY DEF Tick
<1> HIDE DEF a, b, e, f, g
<1>5. d1 \in Between
  BY <1>1, <1>2, SetField
<1> HIDE DEF d1
<1>6. d2 \in Between
  BY <1>2, <1>5, SetField
<1> HIDE DEF d2
<1>7. d3 \in Between
  BY <1>2, <1>6, SetField
<1> HIDE DEF d3
<1>8. d4 \in Between
  BY <1>2, <1>7, SetField
<1> HIDE DEF d4
<1>9. cc' \in Between
  BY <1>2, <1>4, <1>8, SetField
<1>10. cc' \in Controller
  BY <1>1, <1>3, <1>9, ControllerBounded DEF Bounded, SameWindow
<1> QED
  BY <1>3, <1>10
     DEF IInv, TypeOK, DeltaKept, PacingFollowsWindow, SameWindow, SameDelta, Tick

(* Every step keeps the inductive invariant. *)
LEMMA NextIInv == CopaAssumption /\ IInv /\ [Next]_vars => IInv'
<1> SUFFICES ASSUME CopaAssumption, IInv, [Next]_vars PROVE IInv'
  OBVIOUS
<1>1. CASE OnACK
  <2>1. PICK rtt \in RTTs, is_copa \in BOOLEAN, lost \in Losses,
             unj \in RTTs, min \in RTTs :
          IF Unhandled(cc, unj, min)
            THEN aborted' = TRUE /\ UNCHANGED <<cc, last_net>>
            ELSE /\ onACK(rtt, unj, min, is_copa, lost)
                 /\ last_net' = IF ~Probing(cc) /\ RTTOver(cc, rtt)
                                  THEN Sign(cc.update_dir) ELSE last_net
                 /\ UNCHANGED aborted
    BY <1>1 DEF OnACK
  <2>2. CASE Unhandled(cc, unj, min)
    BY <2>1, <2>2 DEF IInv, TypeOK, PacingFollowsWindow, DeltaKept
  <2>3. CASE ~Unhandled(cc, unj, min)
    <3>1. cc' \in Controller /\ DeltaKept(cc)' /\ PacingFollowsWindow'
      BY <2>1, <2>3, ACKIInv
    <3>2. last_net' \in {-1, 0, 1} /\ aborted' \in BOOLEAN
      BY <2>1, <2>3 DEF Sign, IInv, TypeOK
    <3> QED
      BY <3>1, <3>2 DEF IInv, TypeOK
  <2> QED
    BY <2>2, <2>3
<1>2. CASE OnPktSent
  <2>1. cc \in Between /\ Bounded(cc)
    BY ControllerBounded DEF IInv, TypeOK
  <2>2. cc' = [cc EXCEPT !.intersend_time = cc.cur_intersend_time]
    BY <1>2 DEF OnPktSent
  <2>3. cc.cur_intersend_time \in Int
    BY <2>1 DEF Between
  <2>4. cc' \in Between
    BY <2>1, <2>2, <2>3, SetField
  <2>5. /\ SameDelta(cc, cc')
        /\ cc'.the_window = cc.the_window
        /\ cc'.cur_intersend_time = cc.cur_intersend_time
        /\ cc'.intersend_time = cc.cur_intersend_time
    BY <2>1, <2>2 DEF Between, SameDelta
  <2>6. cc' \in Controller
    BY <2>1, <2>4, <2>5, ControllerBounded DEF Bounded
  <2> QED
    BY <1>2, <2>5, <2>6
       DEF IInv, TypeOK, DeltaKept, PacingFollowsWindow, SameDelta, OnPktSent
<1>3. CASE Restart
  BY <1>3, RestartIInv
<1>4. CASE Tick
  BY <1>4, TickIInv
<1>5. CASE UNCHANGED vars
  BY <1>5 DEF vars, IInv, TypeOK, DeltaKept, PacingFollowsWindow
<1> QED
  BY <1>1, <1>2, <1>3, <1>4, <1>5 DEF Next

(* The inductive invariant holds in every reachable state. *)
LEMMA InductiveInvariant == Spec => []IInv
<1>1. Init => IInv
  BY CopaAssumption, InitIInv
<1>2. IInv /\ [Next]_vars => IInv'
  BY CopaAssumption, NextIInv
<1> QED
  BY <1>1, <1>2, PTL DEF Spec

(* Every field keeps the type of its declaration; windows stay at least 2  *)
(* and the velocity at least 1.                                            *)
THEOREM CopaTypeCorrect == Spec => []TypeOK
<1>1. IInv => TypeOK
  BY DEF IInv
<1> QED
  BY <1>1, InductiveInvariant, PTL

(* delta is never above the default once an acknowledgement was processed. *)
THEOREM DeltaAtMostDefaultAlways == Spec => []DeltaAtMostDefault
<1>1. IInv => DeltaAtMostDefault
  BY DEF IInv, DeltaKept, DeltaAtMostDefault
<1> QED
  BY <1>1, InductiveInvariant, PTL

(* Past the probing phase both intersend times are those of the window.    *)
THEOREM PacingFollowsWindowAlways == Spec => []PacingFollowsWindow
<1>1. IInv => PacingFollowsWindow
  BY DEF IInv
<1> QED
  BY <1>1, InductiveInvariant, PTL
-----------------------------------------------------------------------------
(* What the velocity rests on: the direction of a full RTT, once there was *)
(* one, is the way the window was last taken to go.                        *)
DirectionKept == last_net # 0 => cc.prev_update_dir = last_net

Agreed(c) == c.prev_update_dir * c.update_dir > 0

SameVelocity(c, d) ==
  /\ d.update_amt = c.update_amt
  /\ d.update_dir = c.update_dir
  /\ d.prev_update_dir = c.prev_update_dir
  /\ d.since_update = c.since_update
  /\ d.slow_start = c.slow_start

(* From c to d an RTT is over or it is not, and the velocity only grows in *)
(* the first case, on agreement.                                           *)
Turned(c, d, over) ==
  IF over THEN /\ d.prev_update_dir = IF Agreed(c) THEN c.prev_update_dir
                                                   ELSE -c.prev_update_dir
               /\ d.update_amt > c.update_amt => Agreed(c)
          ELSE /\ d.prev_update_dir = c.prev_update_dir
               /\ d.update_amt <= c.update_amt

(* delta is updated without a look at the velocity. *)
LEMMA UpdateDeltaVelocity ==
  ASSUME NEW c \in Between, NEW pkt_lost, NEW rtt, NEW is_copa,
         NEW d \in update_delta(c, pkt_lost, rtt, is_copa)
  PROVE  SameVelocity(c, d)
<1>1. CASE d = DefaultDelta(c, rtt)
  BY <1>1 DEF DefaultDelta, Between, SameVelocity
<1>2. CASE d \in LossSensitiveDelta(c, pkt_lost, rtt)
  <2>1. \/ \E x, y : d = [c EXCEPT !.inv_delta = x, !.since_loss = y]
        \/ \E x, y, z : d = [c EXCEPT !.inv_delta = x, !.delta_updated = y,
                                      !.since_delta = z]
        \/ \E x : d = [c EXCEPT !.inv_delta = x]
    BY <1>2, Zenon DEF LossSensitiveDelta
  <2> QED
    BY <2>1 DEF Between, SameVelocity
<1> QED
  BY <1>1, <1>2 DEF update_delta

(* The end of an RTT turns the direction or doubles the velocity. *)
LEMMA NewRTTTurns ==
  ASSUME NEW c \in Between
  PROVE  Turned(c, LimitVelocity(NewRTT(c)), TRUE)
<1> DEFINE n == NewRTT(c)
<1>1. /\ n.prev_update_dir = IF Agreed(c) THEN c.prev_update_dir ELSE -c.prev_update_dir
      /\ n.update_amt = IF Agreed(c) THEN c.update_amt * 2 ELSE 1
  BY DEF NewRTT, Agreed, Between
<1> QED
  BY <1>1 DEF LimitVelocity, Max2, Turned, Agreed, Between, NewRTT

(* update_intersend_time turns the direction at the end of an RTT only. *)
LEMMA UpdateIntersendVelocity ==
  ASSUME NEW c \in Between, NEW rtt, NEW unj, NEW min,
         NEW d \in update_intersend_time(c, rtt, unj, min)
  PROVE  Turned(c, d, ~Probing(c) /\ RTTOver(c, rtt))
<1>1. CASE Probing(c)
  BY <1>1 DEF update_intersend_time, Turned, Between
<1>2. CASE ~Probing(c)
  <2> DEFINE n == IF RTTOver(c, rtt) THEN NewRTT(c) ELSE c
             l == LimitVelocity(n)
  <2>1. PICK e \in IF c.slow_start THEN {SlowStart(c, unj, min)}
                                   ELSE Step(l, unj, min) :
          d = [e EXCEPT !.the_window         = Max2(2, @),
                        !.cur_intersend_time = Max2(2, e.the_window),
                        !.intersend_time     = Max2(2, e.the_window)]
    BY <1>2 DEF update_intersend_time
  <2>2. CASE c.slow_start
    <3>1. e = SlowStart(c, unj, min) /\ ~RTTOver(c, rtt)
      BY <2>1, <2>2 DEF RTTOver
    <3>2. d.prev_update_dir = c.prev_update_dir /\ d.update_amt = c.update_amt
      BY <2>1, <3>1 DEF SlowStart, Between
    <3> QED
      BY <3>1, <3>2 DEF Turned, Between
  <2>3. CASE ~c.slow_start
    <3>1. Turned(c, l, RTTOver(c, rtt))
      <4>1. CASE RTTOver(c, rtt)
        BY <4>1, NewRTTTurns
      <4>2. CASE ~RTTOver(c, rtt)
        BY <4>2 DEF LimitVelocity, Max2, Turned, Between
      <4> QED
        BY <4>1, <4>2
    <3> HIDE DEF l
    <3>2. PICK x, y : e = [l EXCEPT !.update_dir = x, !.the_window = y]
      BY <2>1, <2>3 DEF Step
    <3>3. d.prev_update_dir = l.prev_update_dir /\ d.update_amt = l.update_amt
      BY <2>1, <3>2
    <3> QED
      BY <1>2, <3>1, <3>3 DEF Turned
  <2> QED
    BY <2>2, <2>3
<1> QED
  BY <1>1, <1>2

(* Over a whole acknowledgement. *)
LEMMA ACKVelocity ==
  ASSUME CopaAssumption, IInv,
         NEW rtt \in RTTs, NEW unj \in RTTs, NEW min \in RTTs,
         NEW is_copa \in BOOLEAN, NEW lost \in Losses,
         onACK(rtt, unj, min, is_copa, lost)
  PROVE  Turned(cc, cc', ~Probing(cc) /\ RTTOver(cc, rtt))
<1>0. rtt \in Nat /\ 0 \in Nat /\ lost \in Nat
  BY DEF CopaAssumption, RTTs
<1>1. PICK c1 \in update_delta(cc, FALSE, rtt, is_copa) :
      \E c2 \in update_intersend_time(c1, rtt, unj, min) :
      \E c3 \in IF lost > 0 THEN update_delta(c2, TRUE, 0, is_copa) ELSE {c2} :
      \E r \in {reduce_on_loss(c3, lost, rtt)} :
      \E c4 \in IF r.reduce THEN Reduce(r.cc) ELSE {r.cc} :
        /\ c2.the_window <= MaxWindow
        /\ cc' = [c4 EXCEPT !.num_pkts_acked = Saturate(@ + 1, AckCap),
                            !.num_pkts_lost  = Saturate(@ + lost, LostCap)]
  BY DEF onACK
<1>2. PICK c2 \in update_intersend_time(c1, rtt, unj, min) :
      \E c3 \in IF lost > 0 THEN update_delta(c2, TRUE, 0, is_copa) ELSE {c2} :
      \E r \in {reduce_on_loss(c3, lost, rtt)} :
      \E c4 \in IF r.reduce THEN Reduce(r.cc) ELSE {r.cc} :
        /\ c2.the_window <= MaxWindow
        /\ cc' = [c4 EXCEPT !.num_pkts_acked = Saturate(@ + 1, AckCap),
                            !.num_pkts_lost  = Saturate(@ + lost, LostCap)]
  BY <1>1
<1>3. PICK c3 \in IF lost > 0 THEN update_delta(c2, TRUE, 0, is_copa) ELSE {c2} :
      \E r \in {reduce_on_loss(c3, lost, rtt)} :
      \E c4 \in IF r.reduce THEN Reduce(r.cc) ELSE {r.cc} :
        cc' = [c4 EXCEPT !.num_pkts_acked = Saturate(@ + 1, AckCap),
                         !.num_pkts_lost  = Saturate(@ + lost, LostCap)]
  BY <1>2
<1> DEFINE r == reduce_on_loss(c3, lost, rtt)
<1>4. PICK c4 \in IF r.reduce THEN Reduce(r.cc) ELSE {r.cc} :
        cc' = [c4 EXCEPT !.num_pkts_acked = Saturate(@ + 1, AckCap),
                         !.num_pkts_lost  = Saturate(@ + lost, LostCap)]
  BY <1>3
<1>5. cc \in Between /\ Bounded(cc) /\ DeltaKept(cc)
  BY ControllerBounded DEF IInv, TypeOK
<1>6. c1 \in Between /\ SameWindow(cc, c1) /\ SameVelocity(cc, c1)
  BY <1>0, <1>5, UpdateDelta, UpdateDeltaVelocity
<1>7. c2 \in Between /\ Turned(c1, c2, ~Probing(c1) /\ RTTOver(c1, rtt))
  BY <1>5, <1>6, UpdateIntersend, UpdateIntersendVelocity DEF Bounded, SameWindow
<1>8. Turned(cc, c2, ~Probing(cc) /\ RTTOver(cc, rtt))
  BY <1>6, <1>7 DEF Turned, Agreed, SameVelocity, SameWindow, Probing, RTTOver
<1>9. c3 \in Between /\ SameVelocity(c2, c3)
  <2>1. CASE lost > 0
    <3>1. c1.inv_delta >= InvDefault /\ SameDelta(c1, c2)
      BY <1>0, <1>5, <1>6, UpdateDelta, UpdateIntersend DEF Bounded, SameWindow
    <3>2. DeltaKept(c2)
      BY <3>1 DEF DeltaKept, SameDelta
    <3> QED
      BY <1>0, <1>3, <1>7, <2>1, <3>2, UpdateDelta, UpdateDeltaVelocity
  <2>2. CASE ~(lost > 0)
    BY <1>3, <1>7, <2>2 DEF SameVelocity
  <2> QED
    BY <2>1, <2>2
<1>10. r.cc \in Between /\ SameVelocity(c3, r.cc)
  <2>1. \/ \E x, y, z : r.cc = [c3 EXCEPT !.num_lost = x, !.num_pkts = y, !.since_win = z]
        \/ \E x, y : r.cc = [c3 EXCEPT !.num_lost = x, !.num_pkts = y]
    BY DEF reduce_on_loss
  <2> QED
    BY <1>0, <1>9, <2>1, ReduceOnLoss DEF Between, SameVelocity
<1> HIDE DEF r
<1>11. /\ SameVelocity(r.cc, c4)
       /\ {"update_amt", "prev_update_dir"} \subseteq DOMAIN c4
  <2>1. CASE r.reduce
    <3>1. PICK x : c4 = [r.cc EXCEPT !.the_window = x, !.cur_intersend_time = x,
                                     !.intersend_time = x]
      BY <1>4, <2>1 DEF Reduce
    <3> QED
      BY <1>10, <3>1 DEF Between, SameVelocity
  <2>2. CASE ~r.reduce
    BY <1>4, <1>10, <2>2 DEF Between, SameVelocity
  <2> QED
    BY <2>1, <2>2
<1>12. cc'.prev_update_dir = c4.prev_update_dir /\ cc'.update_amt = c4.update_amt
  BY <1>4, <1>10, <1>11
<1> QED
  BY <1>8, <1>9, <1>10, <1>11, <1>12 DEF Turned, SameVelocity

(* A step keeps the direction, and raises the velocity on agreement only.  *)
LEMMA StepVelocity ==
  ASSUME CopaAssumption, IInv, DirectionKept, [Next]_vars
  PROVE  /\ DirectionKept'
         /\ cc'.update_amt > cc.update_amt => last_net # -Sign(cc.update_dir)
<1>0. /\ cc \in Controller /\ cc.update_amt \in Nat \ {0}
      /\ cc.update_dir \in Int /\ cc.prev_update_dir \in {-1, 1}
  BY DEF IInv, TypeOK, Controller
<1>1. CASE OnACK
  <2>1. PICK rtt \in RTTs, is_copa \in BOOLEAN, lost \in Losses,
             unj \in RTTs, min \in RTTs :
          IF Unhandled(cc, unj, min)
            THEN aborted' = TRUE /\ UNCHANGED <<cc, last_net>>
            ELSE /\ onACK(rtt, unj, min, is_copa, lost)
                 /\ last_net' = IF ~Probing(cc) /\ RTTOver(cc, rtt)
                                  THEN Sign(cc.update_dir) ELSE last_net
                 /\ UNCHANGED aborted
    BY <1>1 DEF OnACK
  <2>2. CASE Unhandled(cc, unj, min)
    BY <1>0, <2>1, <2>2 DEF DirectionKept
  <2>3. CASE ~Unhandled(cc, unj, min)
    <3>1. Turned(cc, cc', ~Probing(cc) /\ RTTOver(cc, rtt))
      BY <2>1, <2>3, ACKVelocity
    <3>2. CASE ~(~Probing(cc) /\ RTTOver(cc, rtt))
      <4>1. /\ cc'.prev_update_dir = cc.prev_update_dir
            /\ cc'.update_amt <= cc.update_amt
            /\ last_net' = last_net
        BY <2>1, <2>3, <3>1, <3>2 DEF Turned
      <4>2. cc'.update_amt \in Int
        BY NextIInv DEF IInv, TypeOK, Controller
      <4> QED
        BY <1>0, <4>1, <4>2 DEF DirectionKept
    <3>3. CASE ~Probing(cc) /\ RTTOver(cc, rtt)
      <4>1. /\ cc'.prev_update_dir = IF Agreed(cc) THEN cc.prev_update_dir
                                                   ELSE -cc.prev_update_dir
            /\ cc'.update_amt > cc.update_amt => Agreed(cc)
            /\ last_net' = Sign(cc.update_dir)
        BY <2>1, <2>3, <3>1, <3>3 DEF Turned
      <4> QED
        BY <1>0, <4>1 DEF Agreed, Sign, DirectionKept
    <3> QED
      BY <3>2, <3>3
  <2> QED
    BY <2>2, <2>3
<1>2. CASE OnPktSent
  BY <1>0, <1>2 DEF OnPktSent, DirectionKept, Controller
<1>3. CASE Restart
  BY <1>0, <1>3 DEF Restart, init, DirectionKept
<1>4. CASE Tick
  BY <1>0, <1>4 DEF Tick, DirectionKept, Controller
<1>5. CASE UNCHANGED vars
  BY <1>0, <1>5 DEF vars, DirectionKept
<1> QED
  BY <1>1, <1>2, <1>3, <1>4, <1>5 DEF Next

(* The velocity grows only when the window went the same way for two RTTs, *)
(* or the first of them was balanced.                                      *)
THEOREM VelocityNeedsAgreementAlways == Spec => VelocityNeedsAgreement
<1>1. Init => DirectionKept
  BY DEF Init, DirectionKept
<1>2. IInv /\ DirectionKept /\ [Next]_vars => DirectionKept'
  BY CopaAssumption, StepVelocity
<1>3. IInv /\ DirectionKept /\ [Next]_vars =>
        [cc'.update_amt > cc.update_amt => last_net # -Sign(cc.update_dir)]_vars
  BY CopaAssumption, StepVelocity
<1> QED
  BY <1>1, <1>2, <1>3, InductiveInvariant, PTL DEF Spec, VelocityNeedsAgreement
-----------------------------------------------------------------------------
(* The window moves only where MarkovianCC lets it: ReduceOnLoss never     *)
(* counts more than onACK does, until onACK's counters are past all the    *)
(* limits they are compared with.                                          *)
CountsAgree ==
  /\ cc.num_lost > 0 => cc.num_pkts_lost > 0
  /\ cc.num_pkts_acked < AckCap /\ cc.num_pkts_lost < LostCap =>
       cc.num_pkts <= cc.num_pkts_acked + cc.num_pkts_lost

SameCounts(c, d) == d.num_lost = c.num_lost /\ d.num_pkts = c.num_pkts

(* Neither update looks at the counters of ReduceOnLoss. *)
LEMMA UpdateDeltaCounts ==
  ASSUME NEW c \in Between, NEW pkt_lost, NEW rtt, NEW is_copa,
         NEW d \in update_delta(c, pkt_lost, rtt, is_copa)
  PROVE  SameCounts(c, d)
<1>1. CASE d = DefaultDelta(c, rtt)
  BY <1>1 DEF DefaultDelta, Between, SameCounts
<1>2. CASE d \in LossSensitiveDelta(c, pkt_lost, rtt)
  <2>1. \/ \E x, y : d = [c EXCEPT !.inv_delta = x, !.since_loss = y]
        \/ \E x, y, z : d = [c EXCEPT !.inv_delta = x, !.delta_updated = y,
                                      !.since_delta = z]
        \/ \E x : d = [c EXCEPT !.inv_delta = x]
    BY <1>2, Zenon DEF LossSensitiveDelta
  <2> QED
    BY <2>1 DEF Between, SameCounts
<1> QED
  BY <1>1, <1>2 DEF update_delta

LEMMA UpdateIntersendCounts ==
  ASSUME NEW c \in Between, NEW rtt, NEW unj, NEW min,
         NEW d \in update_intersend_time(c, rtt, unj, min)
  PROVE  SameCounts(c, d)
<1>1. CASE Probing(c)
  BY <1>1 DEF update_intersend_time, SameCounts
<1>2. CASE ~Probing(c)
  <2> DEFINE n == IF RTTOver(c, rtt) THEN NewRTT(c) ELSE c
             l == LimitVelocity(n)
  <2>1. PICK e \in IF c.slow_start THEN {SlowStart(c, unj, min)}
                                   ELSE Step(l, unj, min) :
          d = [e EXCEPT !.the_window         = Max2(2, @),
                        !.cur_intersend_time = Max2(2, e.the_window),
                        !.intersend_time     = Max2(2, e.the_window)]
    BY <1>2 DEF update_intersend_time
  <2>2. SameCounts(c, e)
    <3>1. CASE c.slow_start
      BY <2>1, <3>1 DEF SlowStart, Between, SameCounts
    <3>2. CASE ~c.slow_start
      <4>1. SameCounts(c, l)
        BY DEF LimitVelocity, NewRTT, Between, SameCounts
      <4> HIDE DEF l
      <4>2. PICK x, y : e = [l EXCEPT !.update_dir = x, !.the_window = y]
        BY <2>1, <3>2 DEF Step
      <4> QED
        BY <4>1, <4>2 DEF SameCounts
    <3> QED
      BY <3>1, <3>2
  <2> QED
    BY <2>1, <2>2 DEF SameCounts
<1> QED
  BY <1>1, <1>2

(* ReduceOnLoss reduces only with more than ReduceMin packets, some lost. *)
LEMMA ReduceOnLossCounts ==
  ASSUME CopaAssumption, NEW c \in Between, NEW lost \in Nat, NEW rtt \in RTTs
  PROVE  LET r == reduce_on_loss(c, lost, rtt)
         IN  /\ r.cc.num_pkts <= c.num_pkts + lost + 1
             /\ r.cc.num_lost > 0 => c.num_lost > 0 \/ lost > 0
             /\ r.reduce => /\ c.num_pkts + lost + 1 > ReduceMin
                            /\ c.num_lost > 0 \/ lost > 0
<1> DEFINE n == EnoughAt(c)
           lostByThen == IF n < lost THEN n ELSE lost
           r == reduce_on_loss(c, lost, rtt)
<1>1. /\ n \in Nat \ {0} /\ lostByThen \in 0 .. lost
      /\ n >= ReduceMin + 1 - c.num_pkts
      /\ ReduceMin \in Nat /\ c.num_pkts \in Nat /\ c.num_lost \in Nat
  BY DEF CopaAssumption, EnoughAt, Max2, Between
<1>2. CASE c.since_win > 2 * rtt /\ n <= lost + 1
  <2>1. /\ r.cc.num_pkts = lost + 1 - n /\ r.cc.num_lost = lost - lostByThen
        /\ r.reduce = (10 * (c.num_lost + lostByThen) > 3 * (c.num_pkts + n))
    BY <1>2 DEF reduce_on_loss, Between
  <2> HIDE DEF n, lostByThen, r
  <2>2. r.cc.num_pkts <= c.num_pkts + lost + 1
    BY <1>1, <2>1
  <2>3. r.cc.num_lost > 0 => lost > 0
    BY <1>1, <2>1
  <2>4. ASSUME 10 * (c.num_lost + lostByThen) > 3 * (c.num_pkts + n)
        PROVE  c.num_pkts + lost + 1 > ReduceMin /\ (c.num_lost > 0 \/ lost > 0)
    BY <1>1, <1>2, <2>4
  <2> QED
    BY <2>1, <2>2, <2>3, <2>4 DEF r
<1>3. CASE ~(c.since_win > 2 * rtt /\ n <= lost + 1)
  <2>1. /\ r.cc.num_pkts = c.num_pkts + lost + 1 /\ r.cc.num_lost = c.num_lost + lost
        /\ r.reduce = FALSE
    BY <1>3 DEF reduce_on_loss, Between
  <2>2. c.num_lost + lost > 0 => c.num_lost > 0 \/ lost > 0
    BY <1>1
  <2> HIDE DEF n, r
  <2>3. r.cc.num_pkts <= c.num_pkts + lost + 1
    BY <1>1, <2>1
  <2> QED
    BY <2>1, <2>2, <2>3 DEF r
<1> QED
  BY <1>2, <1>3

(* Over a whole acknowledgement. *)
LEMMA ACKWindow ==
  ASSUME CopaAssumption, IInv, CountsAgree,
         NEW rtt \in RTTs, NEW unj \in RTTs, NEW min \in RTTs,
         NEW is_copa \in BOOLEAN, NEW lost \in Losses,
         onACK(rtt, unj, min, is_copa, lost)
  PROVE  CountsAgree' /\ cc'.the_window \in View!NextWindow(cc, cc'.num_pkts_lost)
<1>0. /\ rtt \in Nat /\ 0 \in Nat /\ lost \in Nat /\ NumProbe \in Nat
      /\ AckCap \in Nat /\ LostCap \in Nat /\ AckCap >= 2 * NumProbe
      /\ LostCap = ReduceMin + 1 /\ ReduceMin \in Nat
  BY DEF CopaAssumption, RTTs, AckCap, LostCap, Max2
<1>1. PICK c1 \in update_delta(cc, FALSE, rtt, is_copa) :
      \E c2 \in update_intersend_time(c1, rtt, unj, min) :
      \E c3 \in IF lost > 0 THEN update_delta(c2, TRUE, 0, is_copa) ELSE {c2} :
      \E r \in {reduce_on_loss(c3, lost, rtt)} :
      \E c4 \in IF r.reduce THEN Reduce(r.cc) ELSE {r.cc} :
        cc' = [c4 EXCEPT !.num_pkts_acked = Saturate(@ + 1, AckCap),
                         !.num_pkts_lost  = Saturate(@ + lost, LostCap)]
  BY DEF onACK
<1>2. PICK c2 \in update_intersend_time(c1, rtt, unj, min) :
      \E c3 \in IF lost > 0 THEN update_delta(c2, TRUE, 0, is_copa) ELSE {c2} :
      \E r \in {reduce_on_loss(c3, lost, rtt)} :
      \E c4 \in IF r.reduce THEN Reduce(r.cc) ELSE {r.cc} :
        cc' = [c4 EXCEPT !.num_pkts_acked = Saturate(@ + 1, AckCap),
                         !.num_pkts_lost  = Saturate(@ + lost, LostCap)]
  BY <1>1
<1>3. PICK c3 \in IF lost > 0 THEN update_delta(c2, TRUE, 0, is_copa) ELSE {c2} :
      \E r \in {reduce_on_loss(c3, lost, rtt)} :
      \E c4 \in IF r.reduce THEN Reduce(r.cc) ELSE {r.cc} :
        cc' = [c4 EXCEPT !.num_pkts_acked = Saturate(@ + 1, AckCap),
                         !.num_pkts_lost  = Saturate(@ + lost, LostCap)]
  BY <1>2
<1> DEFINE r == reduce_on_loss(c3, lost, rtt)
<1>4. PICK c4 \in IF r.reduce THEN Reduce(r.cc) ELSE {r.cc} :
        cc' = [c4 EXCEPT !.num_pkts_acked = Saturate(@ + 1, AckCap),
                         !.num_pkts_lost  = Saturate(@ + lost, LostCap)]
  BY <1>3
<1>5. cc \in Between /\ Bounded(cc) /\ DeltaKept(cc)
  BY ControllerBounded DEF IInv, TypeOK
<1>6. /\ c1 \in Between /\ SameWindow(cc, c1) /\ SameCounts(cc, c1)
      /\ c1.inv_delta >= InvDefault
  BY <1>0, <1>5, UpdateDelta, UpdateDeltaCounts
<1>7. /\ c2 \in Between /\ SameDelta(c1, c2) /\ SameCounts(c1, c2)
      /\ Probing(c1) => SameWindow(c1, c2)
  BY <1>5, <1>6, UpdateIntersend, UpdateIntersendCounts DEF Bounded, SameWindow
<1>8. c3 \in Between /\ SameWindow(c2, c3) /\ SameCounts(c2, c3)
  <2>1. CASE lost > 0
    <3>1. DeltaKept(c2)
      BY <1>6, <1>7 DEF DeltaKept, SameDelta
    <3> QED
      BY <1>0, <1>3, <1>7, <2>1, <3>1, UpdateDelta, UpdateDeltaCounts
  <2>2. CASE ~(lost > 0)
    BY <1>3, <1>7, <2>2 DEF SameWindow, SameCounts
  <2> QED
    BY <2>1, <2>2
<1>9. /\ r.cc \in Between /\ r.reduce \in BOOLEAN
      /\ SameWindow(c3, r.cc) /\ SameDelta(c3, r.cc)
      /\ r.cc.num_pkts <= cc.num_pkts + lost + 1
      /\ r.cc.num_lost > 0 => cc.num_lost > 0 \/ lost > 0
      /\ r.reduce => /\ cc.num_pkts + lost + 1 > ReduceMin
                     /\ cc.num_lost > 0 \/ lost > 0
  <2>1. c3.num_pkts = cc.num_pkts /\ c3.num_lost = cc.num_lost
    BY <1>6, <1>7, <1>8 DEF SameCounts
  <2> QED
    BY <1>0, <1>8, <2>1, ReduceOnLoss, ReduceOnLossCounts
<1> HIDE DEF r
<1>10. /\ c4 \in Between /\ SameCounts(r.cc, c4) /\ SameDelta(r.cc, c4)
       /\ ~r.reduce => c4.the_window = r.cc.the_window
  <2>1. CASE r.reduce
    <3>1. PICK w \in Rounded(7 * r.cc.the_window, 10) :
            c4 = [r.cc EXCEPT !.the_window = Max2(2, w), !.cur_intersend_time = Max2(2, w),
                              !.intersend_time = Max2(2, w)]
      BY <1>4, <2>1 DEF Reduce
    <3>2. Max2(2, w) \in Int
      <4>1. w \in Int
        BY <1>9, <3>1 DEF Rounded, Between
      <4> QED
        BY <4>1 DEF Max2
    <3> QED
      BY <1>9, <2>1, <3>1, <3>2 DEF Between, SameCounts, SameDelta
  <2>2. CASE ~r.reduce
    BY <1>4, <1>9, <2>2 DEF SameCounts, SameDelta
  <2> QED
    BY <2>1, <2>2
<1>11. c4.num_pkts_acked = cc.num_pkts_acked /\ c4.num_pkts_lost = cc.num_pkts_lost
  BY <1>6, <1>7, <1>8, <1>9, <1>10 DEF SameDelta, SameWindow
<1>12. /\ cc'.num_pkts_acked = Saturate(cc.num_pkts_acked + 1, AckCap)
       /\ cc'.num_pkts_lost = Saturate(cc.num_pkts_lost + lost, LostCap)
       /\ cc'.num_pkts = r.cc.num_pkts /\ cc'.num_lost = r.cc.num_lost
       /\ cc'.the_window = c4.the_window
  BY <1>4, <1>10, <1>11 DEF Between, SameCounts
<1>13. /\ cc.num_pkts \in Nat /\ cc.num_lost \in Nat
       /\ cc.num_pkts_acked \in 0 .. AckCap /\ cc.num_pkts_lost \in 0 .. LostCap
       /\ r.cc.num_pkts \in Nat
  BY <1>5, <1>9 DEF Between
<1>14. cc.num_lost > 0 \/ lost > 0 => cc'.num_pkts_lost > 0
  BY <1>0, <1>12, <1>13 DEF Saturate, CountsAgree
<1>15. CountsAgree'
  <2>1. cc'.num_lost > 0 => cc'.num_pkts_lost > 0
    BY <1>9, <1>12, <1>14
  <2>2. ASSUME cc'.num_pkts_acked < AckCap, cc'.num_pkts_lost < LostCap
        PROVE  cc'.num_pkts <= cc'.num_pkts_acked + cc'.num_pkts_lost
    <3>1. /\ cc.num_pkts_acked + 1 = cc'.num_pkts_acked /\ cc.num_pkts_acked < AckCap
          /\ cc.num_pkts_lost + lost = cc'.num_pkts_lost /\ cc.num_pkts_lost < LostCap
      BY <1>0, <1>12, <1>13, <2>2 DEF Saturate
    <3>2. cc.num_pkts <= cc.num_pkts_acked + cc.num_pkts_lost
      BY <3>1 DEF CountsAgree
    <3> QED
      BY <1>0, <1>9, <1>12, <1>13, <3>1, <3>2
  <2> QED
    BY <2>1, <2>2 DEF CountsAgree
<1>16. cc'.the_window \in View!NextWindow(cc, cc'.num_pkts_lost)
  <2> DEFINE shown == cc'.num_pkts_lost
  <2>1. cc'.the_window \in 2 .. MaxWindow
    BY ACKIInv DEF Controller
  <2>2. CASE cc.num_pkts_acked >= 2 * NumProbe - 1
    BY <2>1, <2>2 DEF View!NextWindow
  <2>3. CASE ~(cc.num_pkts_acked >= 2 * NumProbe - 1) /\ r.reduce
    <3>1. shown > 0
      BY <1>9, <1>14, <2>3
    <3>2. cc.num_pkts_acked + shown + 1 > ReduceMin
      <4>1. CASE cc.num_pkts_lost + lost >= LostCap
        BY <1>0, <1>12, <1>13, <4>1 DEF Saturate
      <4>2. CASE cc.num_pkts_lost + lost < LostCap
        <5>1. shown = cc.num_pkts_lost + lost /\ cc.num_pkts_lost < LostCap
          BY <1>0, <1>12, <1>13, <4>2 DEF Saturate
        <5>2. cc.num_pkts_acked < AckCap
          BY <1>0, <1>13, <2>3
        <5>3. cc.num_pkts <= cc.num_pkts_acked + cc.num_pkts_lost
          BY <5>1, <5>2 DEF CountsAgree
        <5>4. cc.num_pkts + lost + 1 > ReduceMin
          BY <1>9, <2>3
        <5> QED
          BY <1>0, <1>13, <5>1, <5>3, <5>4
      <4> QED
        BY <1>0, <1>13, <4>1, <4>2
    <3> QED
      BY <2>1, <3>1, <3>2 DEF View!NextWindow
  <2>4. CASE ~(cc.num_pkts_acked >= 2 * NumProbe - 1) /\ ~r.reduce
    <3>1. c1.num_pkts_acked = cc.num_pkts_acked
      BY <1>6 DEF SameWindow
    <3>2. Probing(c1)
      BY <1>0, <1>13, <2>4, <3>1 DEF Probing
    <3>3. cc'.the_window = cc.the_window
      BY <1>6, <1>7, <1>8, <1>9, <1>10, <1>12, <2>4, <3>2 DEF SameWindow
    <3> QED
      BY <3>3 DEF View!NextWindow
  <2> QED
    BY <2>2, <2>3, <2>4
<1> QED
  BY <1>15, <1>16

LEMMA StepWindow ==
  ASSUME CopaAssumption, IInv, CountsAgree, [Next]_vars
  PROVE  /\ CountsAgree'
         /\ cc'.num_pkts_acked > 0 =>
              cc'.the_window \in View!NextWindow(cc, cc'.num_pkts_lost)
<1>0. cc \in Between
  BY ControllerBounded DEF IInv, TypeOK
<1>1. CASE OnACK
  <2>1. PICK rtt \in RTTs, is_copa \in BOOLEAN, lost \in Losses,
             unj \in RTTs, min \in RTTs :
          IF Unhandled(cc, unj, min)
            THEN aborted' = TRUE /\ UNCHANGED <<cc, last_net>>
            ELSE /\ onACK(rtt, unj, min, is_copa, lost)
                 /\ last_net' = IF ~Probing(cc) /\ RTTOver(cc, rtt)
                                  THEN Sign(cc.update_dir) ELSE last_net
                 /\ UNCHANGED aborted
    BY <1>1 DEF OnACK
  <2>2. CASE Unhandled(cc, unj, min)
    BY <2>1, <2>2 DEF CountsAgree, View!NextWindow
  <2>3. CASE ~Unhandled(cc, unj, min)
    BY <2>1, <2>3, ACKWindow
  <2> QED
    BY <2>2, <2>3
<1>2. CASE OnPktSent \/ Tick \/ UNCHANGED vars
  <2>1. /\ SameCounts(cc, cc') /\ cc'.the_window = cc.the_window
        /\ cc'.num_pkts_acked = cc.num_pkts_acked /\ cc'.num_pkts_lost = cc.num_pkts_lost
    BY <1>0, <1>2 DEF OnPktSent, Tick, vars, Between, SameCounts
  <2> QED
    BY <2>1 DEF CountsAgree, SameCounts, View!NextWindow
<1>3. CASE Restart
  <2>1. /\ cc'.num_pkts_acked = 0 /\ cc'.num_pkts_lost = 0
        /\ cc'.num_lost = 0 /\ cc'.num_pkts = 0
    BY <1>3 DEF Restart, init
  <2> QED
    BY <2>1 DEF CountsAgree
<1> QED
  BY <1>1, <1>2, <1>3 DEF Next

(* What the modules of CTCP assume of the controller, it does: between two *)
(* inits the window changes only after the probing phase or when           *)
(* ReduceOnLoss has seen enough packets, whatever samples and losses come. *)
THEOREM WindowAsCtcpAssumesAlways == Spec => WindowAsCtcpAssumes
<1>1. Init => CountsAgree
  <2> SUFFICES ASSUME Init PROVE CountsAgree
    OBVIOUS
  <2>1. /\ cc.num_pkts_acked = 0 /\ cc.num_pkts_lost = 0
        /\ cc.num_lost = 0 /\ cc.num_pkts = 0
    BY DEF Init, init
  <2> QED
    BY <2>1 DEF CountsAgree
<1>2. IInv /\ CountsAgree /\ [Next]_vars => CountsAgree'
  BY CopaAssumption, StepWindow
<1>3. IInv /\ CountsAgree /\ [Next]_vars =>
        [cc'.num_pkts_acked > 0 =>
           cc'.the_window \in View!NextWindow(cc, cc'.num_pkts_lost)]_vars
  BY CopaAssumption, StepWindow
<1> QED
  BY <1>1, <1>2, <1>3, InductiveInvariant, PTL DEF Spec, WindowAsCtcpAssumes

=============================================================================
