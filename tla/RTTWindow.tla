----------------------------- MODULE RTTWindow -----------------------------
(***************************************************************************)
(* Class RTTWindow of rtt-window.{hh,cc}: the RTT statistics Copa steers   *)
(* by.  Every acknowledgement adds one sample to four ExtremeWindows with  *)
(* different horizons; MarkovianCC::init clears them all when a flow       *)
(* starts and after an idle timeout.                                       *)
(*                                                                         *)
(* The smoothed RTT is a convex combination of the old one and the sample, *)
(* so any value between the two is allowed.  A new flow restarts its clock *)
(* at zero.                                                                *)
(***************************************************************************)
EXTENDS ExtremeWindow

CONSTANTS
  SampleRTTs,  \* the RTTs a sample may have
  Times        \* bound: the times, from the flow's start, a sample may be taken

ASSUME RTTAssumption ==
  /\ SampleRTTs \subseteq 1 .. DblMax - 1
  /\ \A r \in SampleRTTs : r > DblMin
  /\ Times \subseteq Nat

VARIABLES
  min_rtt, unjittered_rtt, is_copa_min, is_copa_max,   \* the four windows
  srtt,     \* smoothed RTT, 0 before the first sample
  now,      \* the flow's clock at the last sample
  live      \* history: per window, the samples it has not expired

windowsVars ==
  <<min_rtt, unjittered_rtt, is_copa_min, is_copa_max, srtt, now, live>>

Windows == {"min_rtt", "unjittered_rtt", "is_copa_min", "is_copa_max"}

Smaller(a, b) == IF a <= b THEN a ELSE b
Larger(a, b) == IF a >= b THEN a ELSE b

WindowsInit ==
  /\ min_rtt        = NewWindow(TRUE)
  /\ unjittered_rtt = NewWindow(TRUE)
  /\ is_copa_min    = NewWindow(TRUE)
  /\ is_copa_max    = NewWindow(FALSE)
  /\ srtt = 0
  /\ now = 0
  /\ live = [w \in Windows |-> {}]

(* The horizons, from the minimum before this sample and the new srtt. *)
MinHorizon     == Larger(BaseHorizon, 20 * min_rtt.extreme)
UnjHorizon(s)  == Smaller(MinHorizon, s \div 2)
CopaHorizon(s) == Smaller(MinHorizon, 4 * s)

(* What the exponential average may be after a sample. *)
Smoothed(rtt) ==
  IF srtt = 0 THEN {rtt} ELSE Smaller(rtt, srtt) .. Larger(rtt, srtt)

(* The samples of S that have not expired at time t. *)
Unexpired(S, t, horizon) == {s \in S : s.time >= t - horizon}

(* RTTWindow::new_rtt_sample *)
new_rtt_sample(rtt, t, s) ==
  LET smp == [time |-> t, val |-> rtt]
  IN  /\ srtt' = s
      /\ now' = t
      /\ min_rtt' = new_sample(update_max_time(min_rtt, MinHorizon), rtt, t)
      /\ unjittered_rtt' =
           new_sample(update_max_time(unjittered_rtt, UnjHorizon(s)), rtt, t)
      /\ is_copa_min' =
           new_sample(update_max_time(is_copa_min, CopaHorizon(s)), rtt, t)
      /\ is_copa_max' =
           new_sample(update_max_time(is_copa_max, CopaHorizon(s)), rtt, t)
      /\ live' =
           [w \in Windows |->
              Unexpired(live[w] \cup {smp}, t,
                        CASE w = "min_rtt"        -> MinHorizon
                          [] w = "unjittered_rtt" -> UnjHorizon(s)
                          [] OTHER                -> CopaHorizon(s))]

NewRTTSample ==
  \E rtt \in SampleRTTs, t \in Times :
    /\ t > now
    /\ \E s \in Smoothed(rtt) : new_rtt_sample(rtt, t, s)

(* Mutant: one window is not cleared. *)
ClearKeepsUnjittered ==
  /\ min_rtt'     = clear(min_rtt)
  /\ is_copa_min' = clear(is_copa_min)
  /\ is_copa_max' = clear(is_copa_max)
  /\ srtt' = 0
  /\ now' \in {0, now}
  /\ live' = [w \in Windows |-> {}]
  /\ UNCHANGED unjittered_rtt

(* Mutant: another window is not cleared. *)
ClearKeepsCopaMin ==
  /\ min_rtt'        = clear(min_rtt)
  /\ unjittered_rtt' = clear(unjittered_rtt)
  /\ is_copa_max'    = clear(is_copa_max)
  /\ srtt' = 0
  /\ now' \in {0, now}
  /\ live' = [w \in Windows |-> {}]
  /\ UNCHANGED is_copa_min

(* RTTWindow::clear.  The clock goes back to zero when it is a new flow    *)
(* that starts, and goes on when it is an idle timeout.                    *)
Clear ==
  /\ min_rtt'        = clear(min_rtt)
  /\ unjittered_rtt' = clear(unjittered_rtt)
  /\ is_copa_min'    = clear(is_copa_min)
  /\ is_copa_max'    = clear(is_copa_max)
  /\ srtt' = 0
  /\ now' \in {0, now}
  /\ live' = [w \in Windows |-> {}]

WindowsNext == NewRTTSample \/ Clear

WindowsSpec == WindowsInit /\ [][WindowsNext]_windowsVars

(* RTTWindow::is_copa, with both sides of the comparison times ten. *)
is_copa ==
  10 * is_copa_min.extreme
    < 10 * min_rtt.extreme + (is_copa_max.extreme - min_rtt.extreme)
-----------------------------------------------------------------------------
(* Every window is a deque of time-stamped samples, and the clock, srtt    *)
(* and history have their types.                                           *)
WindowsTypeOK ==
  /\ min_rtt \in Window /\ min_rtt.find_min
  /\ unjittered_rtt \in Window /\ unjittered_rtt.find_min
  /\ is_copa_min \in Window /\ is_copa_min.find_min
  /\ is_copa_max \in Window /\ ~is_copa_max.find_min
  /\ srtt \in Nat
  /\ now \in Nat
  /\ live \in [Windows -> SUBSET Sample]

(* The assertion of markoviancc.cc:241 never fails: after any sequence of  *)
(* samples and clears, the RTT of the last half srtt is not below the      *)
(* minimum RTT, so the queuing delay Copa computes from their difference   *)
(* is never negative.                                                      *)
MinNotAboveUnjittered == min_rtt.extreme <= unjittered_rtt.extreme

(* The mode switch of update_delta compares three windows that were        *)
(* trimmed at different times: their extremes stay in order.               *)
CopaExtremesOrdered ==
  live["min_rtt"] # {} =>
    /\ min_rtt.extreme <= is_copa_min.extreme
    /\ is_copa_min.extreme <= is_copa_max.extreme

(* Each deque implements the sliding extreme over the samples that have    *)
(* not expired: what the pop loops of rtt-window.cc drop can never have    *)
(* been the answer.                                                        *)
MinAbs == INSTANCE SlidingExtreme WITH
  FindMin <- TRUE, NoExtreme <- DblMax,
  live <- live["min_rtt"], extreme <- min_rtt.extreme
UnjAbs == INSTANCE SlidingExtreme WITH
  FindMin <- TRUE, NoExtreme <- DblMax,
  live <- live["unjittered_rtt"], extreme <- unjittered_rtt.extreme
CopaMinAbs == INSTANCE SlidingExtreme WITH
  FindMin <- TRUE, NoExtreme <- DblMax,
  live <- live["is_copa_min"], extreme <- is_copa_min.extreme
CopaMaxAbs == INSTANCE SlidingExtreme WITH
  FindMin <- FALSE, NoExtreme <- DblMin,
  live <- live["is_copa_max"], extreme <- is_copa_max.extreme

(* rtt-window.cc's min_rtt answers the minimum of its unexpired samples.   *)
MinWindowSpec == MinAbs!Spec

(* unjittered_rtt, whose horizon follows srtt up and down, does too.       *)
UnjitteredWindowSpec == UnjAbs!Spec

(* is_copa_max keeps a decreasing deque and answers the maximum.           *)
CopaMaxWindowSpec == CopaMaxAbs!Spec

-----------------------------------------------------------------------------
(***************************************************************************)
(* The inductive invariant.  WindowInv says of a window w, its unexpired   *)
(* samples S and the clock t what makes the deque right.                   *)
(***************************************************************************)
InWindow(w, S) == \A i \in 1 .. Len(w.vals) : w.vals[i] \in S

Sorted(w) ==
  \A i, j \in 1 .. Len(w.vals) :
    i < j => /\ w.vals[i].time <= w.vals[j].time
             /\ ~Beats(w, w.vals[j].val, w.vals[i].val)

Dominated(w, S, t) ==
  \A s \in S :
    /\ s.time <= t /\ DblMin < s.val /\ s.val < DblMax
    /\ \E i \in 1 .. Len(w.vals) : /\ s.time <= w.vals[i].time
                                  /\ ~Beats(w, s.val, w.vals[i].val)

ExtremeIsFront(w) ==
  w.extreme = IF w.vals = <<>> THEN NewWindow(w.find_min).extreme
                               ELSE w.vals[1].val

WindowInv(w, S, t) ==
  /\ InWindow(w, S)
  /\ Sorted(w)
  /\ Dominated(w, S, t)
  /\ ExtremeIsFront(w)

WindowsInv ==
  /\ WindowsTypeOK
  /\ WindowInv(min_rtt, live["min_rtt"], now)
  /\ WindowInv(unjittered_rtt, live["unjittered_rtt"], now)
  /\ WindowInv(is_copa_min, live["is_copa_min"], now)
  /\ WindowInv(is_copa_max, live["is_copa_max"], now)
  /\ live["unjittered_rtt"] \subseteq live["min_rtt"]
  /\ live["is_copa_min"] \subseteq live["min_rtt"]
  /\ live["is_copa_min"] = live["is_copa_max"]
  /\ live["min_rtt"] # {} => live["is_copa_min"] # {}
  /\ live["min_rtt"] = {} => live["unjittered_rtt"] = {}

=============================================================================
