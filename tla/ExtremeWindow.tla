--------------------------- MODULE ExtremeWindow ---------------------------
(***************************************************************************)
(* Class ExtremeWindow of rtt-window.{hh,cc}: the extreme (minimum or      *)
(* maximum) of the samples taken in the last max_time milliseconds, kept   *)
(* in a deque of the samples that can still become the extreme.            *)
(*                                                                         *)
(* An object is a record; a method is an operator from the object before   *)
(* the call to the object after it.  Times and values are integers (the    *)
(* code's doubles in a small enough unit).  The pop loops are in closed    *)
(* form: each is the index at which the loop stops.                        *)
(***************************************************************************)
EXTENDS Integers, Sequences

CONSTANTS
  DblMax,      \* numeric_limits<double>::max(), the minimum of no samples
  DblMin,      \* numeric_limits<double>::min(), the maximum of no samples
  BaseHorizon  \* the literal 10e3, the horizon of a cleared window

ASSUME ExtremeAssumption ==
  /\ DblMax \in Nat
  /\ DblMin \in Nat
  /\ DblMin < DblMax
  /\ BaseHorizon \in Nat

Sample == [time : Int, val : Int]

Window == [find_min : BOOLEAN, max_time : Int, vals : Seq(Sample), extreme : Int]

(* The constructor: no samples, and the extreme of none. *)
NewWindow(find_min) ==
  [find_min |-> find_min,
   max_time |-> BaseHorizon,
   vals     |-> <<>>,
   extreme  |-> IF find_min THEN DblMax ELSE DblMin]

(* Mutant: every window is cleared into a minimum. *)
ClearIntoMin(w) == NewWindow(TRUE)

(* clear() puts every field but find_min back to what the constructor set. *)
clear(w) == NewWindow(w.find_min)

update_max_time(w, t) == [w EXCEPT !.max_time = t]

(* Mutant: the comparison forgets the maximum. *)
BeatsMinOnly(w, a, b) == a < b

(* a beats b: strictly smaller when the minimum is sought, else larger. *)
Beats(w, a, b) == IF w.find_min THEN a < b ELSE a > b

(* Where the pop_back loop of new_sample stops: the last sample that val   *)
(* does not beat, 0 when val beats them all.                               *)
LastUnbeaten(w, val) ==
  CHOOSE n \in 0 .. Len(w.vals) :
    /\ n # 0 => ~Beats(w, val, w.vals[n].val)
    /\ \A i \in n + 1 .. Len(w.vals) : Beats(w, val, w.vals[i].val)

(* Where the pop_front loop of clear_old_hist stops: the first sample that *)
(* is not older than max_time, or the last one, which is never deleted.    *)
FirstKept(w, now) ==
  CHOOSE n \in 1 .. Len(w.vals) :
    /\ n = Len(w.vals) \/ w.vals[n].time >= now - w.max_time
    /\ \A i \in 1 .. n - 1 : w.vals[i].time < now - w.max_time

(* Mutant: the extreme is never recomputed. *)
ClearOldHistStale(w, now) ==
  [w EXCEPT !.vals = SubSeq(@, FirstKept(w, now), Len(@))]

(* The old samples go; the extreme is recomputed from the front when one   *)
(* of them was not beaten by it.                                           *)
clear_old_hist(w, now) ==
  LET first     == FirstKept(w, now)
      recompute == \E i \in 1 .. first - 1 : ~Beats(w, w.extreme, w.vals[i].val)
  IN  [w EXCEPT !.vals    = SubSeq(@, first, Len(@)),
                !.extreme = IF recompute THEN w.vals[first].val ELSE @]

(* Mutant: nothing is popped from the back. *)
PushSampleNoPop(w, val, now) ==
  [w EXCEPT !.vals    = Append(@, [time |-> now, val |-> val]),
            !.extreme = IF Beats(w, val, @) THEN val ELSE @]

(* The samples the new one beats can never be the extreme again. *)
PushSample(w, val, now) ==
  [w EXCEPT !.vals    = Append(SubSeq(@, 1, LastUnbeaten(w, val)),
                               [time |-> now, val |-> val]),
            !.extreme = IF Beats(w, val, @) THEN val ELSE @]

new_sample(w, val, now) == clear_old_hist(PushSample(w, val, now), now)

=============================================================================
